CONSTANTS
    MaxConns = 2
    MaxRequests = 2
    MaxRecords = 2
SPECIFICATION Spec
INVARIANTS
    NonceOnce
    Agreement
    ServerAccepts
    RejectsOnlyTheOdd
CHECK_DEADLOCK FALSE
