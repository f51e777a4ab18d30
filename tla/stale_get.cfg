SPECIFICATION Spec
CONSTANTS
    Keys = {k1}
    Values = {small, large}
    OverLimit = {large}
    Empty = Empty
    None = None
    Slots = {s1, s2}
    NumPartitions = 1
    PartitionOf <- MCPartitionOf
    MaxGenerations = 2
    MaxFailures = 1
    MaxCrashes = 1
INVARIANTS
    StrongConsistency
