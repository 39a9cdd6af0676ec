SPECIFICATION MCSpec
CONSTANTS
    p1 = p1
    p2 = p2
    c1 = c1
    c2 = c2
    c3 = c3
    Pids <- TwoPids
    Callbacks <- ThreeCallbacks
    NoCallback = NoCallback
    NoPid = NoPid
    ReadMax = 2
    s1 = s1
    s2 = s2
    Ids <- TwoIds
    NoId = NoId
    Connected = {"initiated", "completed", "timeout"}
    MaxQueue = 3
INVARIANTS RunningExact CalledOnce ReferencesExact CursorAgrees
PROPERTIES EveryExitReported NoEndlessWait
CHECK_DEADLOCK FALSE
