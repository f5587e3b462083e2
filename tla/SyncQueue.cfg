SPECIFICATION FairSpec
CONSTANTS
    Thread = {t1, t2, t3, t4}
    Value = {v1, v2}
    Node = {n1, n2, n3}
    Limits = {0, 2}
    Bound = 3
    NULL = NULL
    NoThread = NoThread
    NoValue = NoValue
INVARIANTS ListOK NoLostWakeup NobodyForgotten
PROPERTIES ImplementsFifo PullsHappen
