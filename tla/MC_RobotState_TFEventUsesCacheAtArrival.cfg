CONSTANTS
    v1 = v1
    v2 = v2
    r1 = r1
    r2 = r2
    a = a
    b = b
    Empty = Empty
    Twists <- MCTwists
    Reqs <- MCReqs
    Names <- MCNames
    MaxHistory = 2
    MaxSamples = 3
    Ratios = {2}
    PointTypes = {"waypoint"}
    MaxPoints = 1
    m1 = m1
    m2 = m2
    f1 = f1
    Zero = Zero
    MapOdoms <- MCMapOdoms
    Bfps <- MCBfps
SPECIFICATION Spec
INVARIANT TFEventUsesCacheAtArrival
