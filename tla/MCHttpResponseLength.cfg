CONSTANTS
    Digits <- MCDigits
    Width = 4
    LineCap = 5
    HeadCap = 23
    HeadLineCap = 8
    ValueCap = 4
    NumberCap = 4
    BodyCap = 2
    Content <- MCContent
    LongLengths = TRUE
    MaxDigits = 3
    MaxExt = 1
    MaxTrailers = 1
    MaxData = 3
    MaxFields = 2
    MaxAhead = 3
SPECIFICATION Spec
INVARIANT
    LengthParsedOrInvalid
CHECK_DEADLOCK FALSE
