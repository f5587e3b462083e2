SPECIFICATION FairSpec
CONSTANTS
    Conn = {c1, c2}
    MAX_CLIENTS = 1
    Messages = 0
    Room = 1
    NoConn = NoConn
PROPERTY NobodyIsKeptWaiting
CHECK_DEADLOCK FALSE
