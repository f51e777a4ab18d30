SPECIFICATION FairSpec
CONSTANTS
    Names = {n1}
    Addresses = {a1, a2}
    NumPartitions = 2
    NumBuckets = 1
    BucketOf <- MCBucketOf
    MaxContainers = 1
    Clients = {c1}
    Users = {}
    MaxFailures = 0
    MaxCrashes = 1
    NoContainer = NoContainer
PROPERTIES
    OrphansAreReclaimed
