CONSTANTS
    SubOrder <- MCSubOrder
    HzKinds = {"map", "tf", "odom"}
    Second = 2
    MaxTime = 2
    MaxConns = 2
    MaxFrames = 3
SPECIFICATION Spec
INVARIANTS
    HzFromLastGap
PROPERTIES
    SubscribedWhileConnected
CHECK_DEADLOCK FALSE
