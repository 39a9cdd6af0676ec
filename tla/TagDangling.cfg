SPECIFICATION Spec
CONSTANTS
    w1 = w1
    w2 = w2
    t1 = t1
    t2 = t2
    Windows <- OneWindow
    Tags <- TwoTags
    NoClient = NoClient
    Env = {}
    MaxEvents = 1
INVARIANT RemovedEverywhere
