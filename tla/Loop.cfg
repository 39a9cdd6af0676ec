SPECIFICATION FairSpec
CONSTANTS
    Modulus = 32
    First = 29
    MaxRequests = 10
    MaxUser = 2
    NoEvent = NoEvent
INVARIANTS NothingSleptOn CrossingsRight
PROPERTY HandledInOrder
CHECK_DEADLOCK FALSE
