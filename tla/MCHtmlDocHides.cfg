CONSTANTS
    Elements <- HidingElements
    Blocks <- HidingBlocks
    Awkward = {}
    MaxTags = 5
    MaxWritten = 0
    MaxGaps = 0
    MaxBlocks = 3
    OutCap = 12
    StackCap = 4
    MaxLinks = 8
    MaxSpans = 8
    MaxIcons = 4
    MaxRules = 4
    MaxGroup = 2
SPECIFICATION Spec
INVARIANTS
    HidesAsMeant
CHECK_DEADLOCK FALSE
