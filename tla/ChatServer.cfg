SPECIFICATION Spec
CONSTANTS
    Conn = {c1, c2, c3}
    MAX_CLIENTS = 2
    Messages = 1
    Room = 1
    NoConn = NoConn
SYMMETRY Symmetry
INVARIANTS AcceptedGetsSlot DescriptorsAreOwn BroadcastReachesAll SameOrder
CHECK_DEADLOCK FALSE
