CONSTANTS
    Key = {a, b}
    NoKey = NoKey
    NWorkers = 2
    MaxEntries = 2
    PoolUnits = 1
    MaxFailures = 1
    Kinds = {"none", "small", "huge"}
    ForkMayFail = FALSE
    MayDie = TRUE
SPECIFICATION FairSpec
PROPERTIES
    Settles
