SPECIFICATION FairSpec
CONSTANTS
    Names = {n1}
    Addresses = {a1, a2}
    NumPartitions = 3
    NumBuckets = 2
    BucketOf <- MCLastBucket
    MaxContainers = 2
    Clients = {c1, c2}
    Users = {u1}
    MaxFailures = 1
    MaxCrashes = 2
    NoContainer = NoContainer
INVARIANTS
    HeldReferencesAreFenced
    HandlesAreOwned
    CollectorErasesWhatItDropped
    DropsAreAccepted
PROPERTIES
    RequestsAreAnswered
    CrashedCreationsAreReclaimed
    RemovalsReachTheDisk
    HandlesAreClosed
