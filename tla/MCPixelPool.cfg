CONSTANTS
    Owner = {e1, e2, e3, e4}
    Cap = 6
    MaxFree = 3
SPECIFICATION PoolSpec
SYMMETRY Perms
INVARIANTS
    PoolInv
    TailTrimmed
    AtMostOneSeam
PROPERTIES
    LostOnlyByOverflowOrFailedDecode
    StoreSpec
