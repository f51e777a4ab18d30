SPECIFICATION Spec
CONSTANTS
    Keys = {k1, k2, k3}
    empty = empty
    small = small
    medium = medium
    large = large
    Data <- MCData
    SizeOf <- MCSizeOf
    MaxShardSize = 4
    MaxObjectSize = 3
    Modulus = 16
    None = None
INVARIANTS
    TypeOK
    MapAgreesWithList
    FitsWhileAccountIsExact
PROPERTIES
    OnlyOverwritesMiscount
    ImplementsFrontlineCache
