CONSTANTS
    HostCap = 3
    PathCap = 3
    Starts <- MCStarts
    Inputs <- MCInputs
    Locations <- MCLocations
    Known <- MCKnown
    Ids = {1, 2}
    MaxSteps = 2
    MaxLate = 1
    MaxTyped = 3
SPECIFICATION Spec
INVARIANTS
    AddressIsOfHost
    SocketsAccounted
    BarLeadsBack
PROPERTIES
    LoadSpec
    NavigationEnds
