SPECIFICATION FairSpec
CONSTANTS
    Thread = {t1, t2, t3}
    N = 3
    W = 2
    Rounds = 3
    NoThread = NoThread
INVARIANT Together
PROPERTIES ImplementsRendezvous EverybodyReturns
