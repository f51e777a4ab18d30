SPECIFICATION Spec
CONSTANTS
    Names = {n1, n2, n3}
    Addresses = {a1}
    NumPartitions = 2
    NumBuckets = 1
    BucketOf <- MCBucketOf
    MaxContainers = 1
    Clients = {c1, c2}
    Users = {u1}
    MaxFailures = 1
    MaxCrashes = 2
    NoContainer = NoContainer
SYMMETRY MCSymmetry
INVARIANTS
    TypeOK
    WellDefinedTransaction
    IndexAgreesWithMetadata
    FreedNameHasNoResidue
    CounterMatchesIndex
    OvershootIsBounded
PROPERTIES
    ImplementsStore
    ImplementsNames
