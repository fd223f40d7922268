CONSTANTS
    k1 = k1
    k2 = k2
    k3 = k3
    s1 = s1
    s2 = s2
    None = None
    Calls <- MCCalls
    Services <- MCServices
    MaxMs = 1
SPECIFICATION Spec
INVARIANTS
    ResponseRouted
CHECK_DEADLOCK FALSE
