SPECIFICATION MCSpec
CONSTANTS
    w1 = w1
    w2 = w2
    t1 = t1
    t2 = t2
    Windows <- TwoWindows
    Tags <- OneTag
    NoClient = NoClient
    Env = {}
    MaxEvents = 2
    Manager = {"m1", "m2"}
    Window = {"v1", "v2"}
    MaxEnds = 2
SYMMETRY Symmetric
INVARIANTS NoStaleReferences BannedIffInvisible MappedAndTagged FocusRecordFollowsX EveryWindowManaged OrderSurvives
CHECK_DEADLOCK FALSE
