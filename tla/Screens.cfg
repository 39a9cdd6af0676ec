SPECIFICATION MCSpec
CONSTANTS
    Client = {c1}
    Layouts <- MCLayouts
    Root <- MCRoot
    Places <- MCPlaces
    NoXid = "none"
    FakeXid = "fake"
    DefaultOutput = "default"
    MaxScreens = 6
    MaxFakes = 1
    MaxChanges = 2
    MaxLua = 1
    Screen = {"s1", "s2"}
    Size = {0, 1, 2}
    Strut = TRUE
    MaxCalls = 4
    Own = {"p1", "p2", "p3"}
    Foreign = {"f1", "f2"}
    NoPixmap = "none"
    MaxEvents = 3
    Before <- MCBefore
    After <- MCAfter
    MaxKeys = 2
    Values <- MCValues
    KeyBuf = 8
    ReadBuf = 13
INVARIANTS ScreensFollowMonitors ScreensConsistent DrawinShown WallpaperKept Configured
CHECK_DEADLOCK FALSE
