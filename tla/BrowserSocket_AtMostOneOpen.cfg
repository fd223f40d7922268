CONSTANT MaxSockets = 4
SPECIFICATION Spec
INVARIANT AtMostOneOpen
CHECK_DEADLOCK FALSE
