SPECIFICATION FairSpec
CONSTANTS
    NumPartitions = 2
    MaxRequests = 2
    MaxSignals = 2
INVARIANTS
    PartitionsOutliveTheirUsers
    JoinsAreAnnounced
PROPERTIES
    WritesAreServedUntilStop
    SignalEndsTheProcess
CHECK_DEADLOCK FALSE
