SPECIFICATION Spec
CONSTANTS
    Containers = {c1}
    Default = Default
    MetadataDefault = MetadataDefault
    MetadataContainers = MetadataContainers
    Requests <- ClientNames
    NumPartitions = 2
    MaxFailures = 0
    MaxCrashes = 1
INVARIANTS
    DefaultIsRegistered
