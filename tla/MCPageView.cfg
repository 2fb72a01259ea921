CONSTANTS
    Pages <- MCPages
    Heights = {2, 3}
    Cols = 2
    MaxRows = 2
    DrawCap = 6
    ClickCap = 4
    MaxScroll = 2
    MaxPieces = 5
    UrlLen = 1
SPECIFICATION ViewSpec
INVARIANTS
    NothingLost
    ScrollIsSlice
    ClickHitsShown
CHECK_DEADLOCK FALSE
