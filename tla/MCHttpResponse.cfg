CONSTANTS
    Digits <- MCDigits
    Width = 4
    LineCap = 5
    HeadCap = 23
    HeadLineCap = 8
    ValueCap = 4
    NumberCap = 4
    BodyCap = 2
    Content <- MCContent
    LongLengths = FALSE
    MaxDigits = 3
    MaxExt = 1
    MaxTrailers = 1
    MaxData = 3
    MaxFields = 2
    MaxAhead = 3
SPECIFICATION Spec
INVARIANTS
    StoresTheBody
    EndsWithMessage
    RejectsTheUnfit
CHECK_DEADLOCK FALSE
