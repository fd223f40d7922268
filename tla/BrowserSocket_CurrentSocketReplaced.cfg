CONSTANT MaxSockets = 4
SPECIFICATION Spec
PROPERTY CurrentSocketReplaced
CHECK_DEADLOCK FALSE
