CONSTANTS
    Key = {a, b, c}
    NoKey = NoKey
    NWorkers = 2
    MaxEntries = 2
    PoolUnits = 2
    MaxFailures = 2
    Kinds = {"small", "large"}
    ForkMayFail = FALSE
    MayDie = FALSE
SPECIFICATION Spec
SYMMETRY Perms
INVARIANTS
    InflightIffOneJob
    JobsAreForThisPage
PROPERTIES
    GivenUpStays
