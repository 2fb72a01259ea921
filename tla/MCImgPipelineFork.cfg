CONSTANTS
    Key = {a, b}
    NoKey = NoKey
    NWorkers = 2
    MaxEntries = 2
    PoolUnits = 2
    MaxFailures = 2
    Kinds = {"none", "small"}
    ForkMayFail = TRUE
    MayDie = FALSE
SPECIFICATION Spec
SYMMETRY Perms
INVARIANTS
    JobHasWorker
