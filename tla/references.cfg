SPECIFICATION Spec
CONSTANTS
    a1 = a1
    a2 = a2
    Keys = {a1, a2}
    Monostate = Monostate
    Values = {Monostate}
    NoValue = NoValue
    Creator = serializer
    Closers = {t1, t2}
    Observers = {t3}
    Observed = {"get", "get_all"}
    Threads <- MCThreads
    NumShards = 2
    ShardOf <- MCShardOf
SYMMETRY MCSymmetry
INVARIANTS
    SnapshotIsConsistent
    WaitsAreNotCyclic
    OwnedReferencesAreApproved
    ApprovedReferencesAreOpen
PROPERTIES
    ImplementsAtomicMap
