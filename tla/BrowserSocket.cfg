CONSTANT MaxSockets = 5
SPECIFICATION Spec
INVARIANT ReconnectPending
CHECK_DEADLOCK FALSE
