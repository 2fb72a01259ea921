CONSTANTS
    Host = {h1, h2}
    NoHost = NoHost
    Fd = {s1, s2}
    NoFd = NoFd
    MaxSteps = 4
    MaxBody = 1
    MaxTickets = 1
SPECIFICATION Spec
INVARIANTS
    RetriedOnFresh
