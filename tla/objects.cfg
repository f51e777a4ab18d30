SPECIFICATION FairSpec
CONSTANTS
    Keys = {k1}
    Values = {v1, v2, large}
    OverLimit = {large}
    Empty = Empty
    None = None
    Slots = {s1, s2}
    NumPartitions = 1
    PartitionOf <- MCPartitionOf
    MaxGenerations = 2
    MaxFailures = 1
    MaxCrashes = 1
INVARIANTS
    CachedDataIsCurrent
    AcknowledgedIsStored
    AcknowledgedIsReturned
PROPERTIES
    RequestsDrain
