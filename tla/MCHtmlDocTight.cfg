CONSTANTS
    Elements <- HidingElements
    Blocks <- TightBlocks
    Awkward = {"tight sheet"}
    MaxTags = 3
    MaxWritten = 0
    MaxGaps = 0
    MaxBlocks = 2
    OutCap = 12
    StackCap = 4
    MaxLinks = 8
    MaxSpans = 8
    MaxIcons = 4
    MaxRules = 4
    MaxGroup = 2
SPECIFICATION Spec
INVARIANTS
    HidesAsMeant
CHECK_DEADLOCK FALSE
