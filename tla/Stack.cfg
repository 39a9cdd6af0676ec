SPECIFICATION MCSpec
CONSTANTS
    w1 = w1
    w2 = w2
    w3 = w3
    d1 = d1
    Windows <- ThreeWindows
    Drawins <- OneDrawin
    NoWindow = NoWindow
    Layers = {"ontop"}
    Env = {"desktop"}
SYMMETRY Symmetric
INVARIANTS StackHoldsManaged XFollowsStack Acyclic
