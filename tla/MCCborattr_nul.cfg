CONSTANTS
    NULL = NULL
    NoName = NoName
    Garbage = Garbage
    Undef = Undef
    MaxSize = 4
    FloatConfig = FALSE
    Bits = 16
    IntVals = {0, 3}
    TextLens = {2}
    ArrLens = {1, 2, 3}
    TagLens = {1, 3}
    NonTextKeys = FALSE
SPECIFICATION Spec
CHECK_DEADLOCK FALSE
INVARIANT AgreesWithReference
