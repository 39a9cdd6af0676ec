SPECIFICATION MCSpec
CONSTANTS
    MaxNested = 2
    NoLayer = NoLayer
    Areas <- MCAreas
    FirstArea <- MCFirstArea
    Hints <- MCHints
    Requests <- MCRequests
    BarSizes = {0, 2}
    Bars = {"top", "left"}
    Borders = {0, 1}
    MaxFrames = 2
    MaxChanges = 4
    Plain = {"minimized"}
    MaxAtoms = 2
    MaxHandlers = 1
    MaxWrites = 2
    MaxLua = 1
    Tag = {"t1", "t2", "t3"}
    Client = {"c1"}
    MaxMessages = 1
INVARIANTS LayersHold GeometryKept ClientKnowsWhere StatesAgree RecordsRead PagersInformed
CHECK_DEADLOCK FALSE
