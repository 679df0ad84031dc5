CONSTANTS
    v1 = v1
    o1 = o1
    w1 = w1
    w2 = w2
    Nothing = Nothing
    Videos = {v1}
    Rest = {o1}
    RootIsLink = FALSE
    Timers = {w1, w2}
    MaxQueue = 1
SPECIFICATION FairSpec
INVARIANT HandlerOK
PROPERTY EveryChangeIsSeen
