SPECIFICATION Spec
CONSTANTS
    w1 = w1
    w2 = w2
    g1 = g1
    c1 = c1
    v1 = v1
    v2 = v2
    Offers = {w1}
    Own = {g1}
    Outside = {}
    WindowOf <- OneGetter
    Nobody = Nobody
    Other = Other
    MaxUnits = 2
    Env = {"own_incremental"}
CHECK_DEADLOCK FALSE
INVARIANT EstimateIgnored
