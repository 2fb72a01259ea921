CONSTANTS
    Writer = {viewer}
    Viewer = viewer
    Key = {"g", "back", "esc", "enter"}
    NoKey = NoKey
    X = {0, 1}
    Y = {0, 1}
    Ring = 2
    KeyWrap = 4
    WrapAt = 3
    Leads <- MCLeads
    a = a
    b = b
    Site = {a, b}
    NoSite = NoSite
    Button = {a}
    Hit <- MCHit
    MaxEdit = 2
    MaxScroll = 1
SPECIFICATION FairSpec
INVARIANTS
    TypeOK
    RingIsFifo
    LatestEventActed
    BarNamesPage
PROPERTIES
    EditorVisible
    LoopComesRound
