CONSTANTS
    Host = {h1, h2}
    NoHost = NoHost
    Fd = {s1, s2}
    NoFd = NoFd
    MaxSteps = 2
    MaxBody = 1
    MaxTickets = 1
SPECIFICATION FairSpec
INVARIANTS
    SocketsAccounted
    StaysInSync
    RightHost
PROPERTIES
    JobsEnd
