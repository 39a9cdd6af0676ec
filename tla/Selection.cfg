SPECIFICATION FairSpec
CONSTANTS
    w1 = w1
    w2 = w2
    g1 = g1
    c1 = c1
    v1 = v1
    v2 = v2
    Offers = {w1, w2}
    Own = {g1}
    Outside = {c1}
    WindowOf <- OneAndOne
    Nobody = Nobody
    Other = Other
    MaxUnits = 2
    Env = {"abandon"}
CHECK_DEADLOCK FALSE
INVARIANTS OwnerRegistered WatchedWhileSending
PROPERTIES LateClearHarmless Converts ConversionEnds
