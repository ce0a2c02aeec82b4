CONSTANT MaxLen = 65
SPECIFICATION Spec
CHECK_DEADLOCK FALSE
INVARIANT RoundTrip
