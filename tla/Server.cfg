SPECIFICATION ServerSpec
CONSTANTS
    a = a
    b = b
    c = c
    doc = doc
    bad = bad
    Clients = {a, b, c}
    Names = {doc, bad}
    BadNames = {bad}
    Workloads <- MCWorkloads
    Mortals = {a}
    DataSize = 2
    NoClient = NoClient
    NoInode = NoInode
    NoConn = NoConn
    NoFile = NoFile
    NoRequest = NoRequest
INVARIANTS PutIsStored GetDeliversFile
PROPERTY OthersAreServed
CHECK_DEADLOCK FALSE
