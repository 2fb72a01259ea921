CONSTANTS
    Key = {a, b}
    NoKey = NoKey
    NWorkers = 2
    MaxEntries = 2
    PoolUnits = 2
    MaxFailures = 3
    Kinds = {"none", "small"}
    ForkMayFail = FALSE
    MayDie = FALSE
SPECIFICATION Spec
SYMMETRY Perms
PROPERTIES
    FailureKeepsPending
