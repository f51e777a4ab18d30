SPECIFICATION FairSpec
CONSTANTS
    Containers = {c1, c2}
    Default = Default
    MetadataDefault = MetadataDefault
    MetadataContainers = MetadataContainers
    Requests <- AllNames
    NumPartitions = 2
    MaxFailures = 1
    MaxCrashes = 2
INVARIANTS
    OnlyEngineErrorsStopStartUp
    AcknowledgedContainersSurvive
    ServedContainersAreWhole
PROPERTIES
    StartUpIsNeverWedged
    StartServesTheDisk
    ImplementsNames
