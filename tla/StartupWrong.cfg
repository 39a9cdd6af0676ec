SPECIFICATION StartupSpec
CONSTANTS
    s1 = s1
    s2 = s2
    Ids <- TwoIds
    NoId = NoId
    Connected = {"initiated", "change", "completed", "timeout"}
    MaxQueue = 3
PROPERTY OwnSequenceCompleted
CHECK_DEADLOCK FALSE
