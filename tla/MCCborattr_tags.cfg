CONSTANTS
    NULL = NULL
    NoName = NoName
    Garbage = Garbage
    Undef = Undef
    MaxSize = 4
    FloatConfig = FALSE
    Bits = 16
    IntVals = {0, 3}
    TextLens = {1}
    ArrLens = {2}
    TagLens = {4}
    NonTextKeys = FALSE
SPECIFICATION Spec
CHECK_DEADLOCK FALSE
INVARIANT StringsWithinStore
