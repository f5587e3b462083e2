SPECIFICATION Spec
CONSTANTS
    Thread = {t1, t2, t3, t4}
    InitVal = 0
    MaxVal = 2
    Bound = 3
    NoThread = NoThread
INVARIANT EveryPostCounts
