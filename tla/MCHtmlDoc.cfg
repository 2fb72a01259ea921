CONSTANTS
    Elements <- MCElements
    Blocks <- MCBlocks
    Awkward = {}
    MaxTags = 3
    MaxWritten = 2
    MaxGaps = 1
    MaxBlocks = 2
    OutCap = 12
    StackCap = 4
    MaxLinks = 8
    MaxSpans = 8
    MaxIcons = 4
    MaxRules = 4
    MaxGroup = 2
SPECIFICATION Spec
INVARIANTS
    TypeOK
    VisibleText
    StyledAsNested
    LinksCover
    IconsInPlace
    SheetAsWritten
CHECK_DEADLOCK FALSE
