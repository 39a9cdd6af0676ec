SPECIFICATION MCSpec
CONSTANTS
    MaxClicks = 2
    MaxMoves = 3
    MaxLua = 2
    Key = {"k1"}
    Keymap <- MCKeymap
    NoSymbol = "none"
    MaxChanges = 2
    MaxPresses = 1
    MaxSettings = 4
    Icon = {"i1", "i2"}
    Kde = {"i2"}
    Drawin = {"d1", "d2"}
    MaxActs = 4
    Handler = {"f", "g"}
    Signal = {"s"}
    Told <- MCTold
    MaxNesting = 2
    MaxConnected = 2
INVARIANTS PointerFree MouseRight KeysGrabbed TrayTrue SignalsKept
CHECK_DEADLOCK FALSE
