CONSTANTS
    e1 = e1
    e2 = e2
    b1 = b1
    b2 = b2
    none = none
    MaxRobots = 3
    Endpoints <- MCEndpoints
    Bridges <- MCBridges
    BufCap = 1
    NoEp = none
SPECIFICATION Spec
INVARIANTS
    TypeOK
    NoSendOnClosedChannel
    CurrentSelectionValid
PROPERTIES
    BridgeReleased
    RegistryRefined
    HubRefined
