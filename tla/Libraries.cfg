SPECIFICATION LibrariesSpec
CONSTANTS
    META = 2
    ALIGN = 2
    INITIAL = 12
    Limit = 16
    W = 64
    Requests = {0, 1, 4}
    NULL = NULL

    Pids = {0, 1}
    Frames = {0, 1, 2, 3, 4, 5}
    Dirs = {0, 1}
    Index = {1}
    Testing = 1
    Segments <- MCSegments
    PageValues = {1}
    TlbSize = 1
    NoFrame = NoFrame
    NoEntry = NoEntry
    NoSpace = NoSpace
    NoPage = NoPage

    Names = {f, g}
    Values = {1, 2}
    Direct = 2
    Indirect = 1
    BlockUnits = 2
    EntriesPerBlock = 1
    DataBlocks = 5
    FileInodes = 2
    WriteStarts = {0, 1, 4}
    WriteSizes = {1, 3}
    ReadStarts = {1}
    NoFile = NoFile
    NoBlock = NoBlock

    Elements = {1, 2}
    Default = 0
    Null = Null
    Dangling = Dangling
    InitialCapacity = 1
    MaxSize = 4

    Addresses = {a, b, c}
    Sizes = {1, 2}
    MaxRequested = 6
    MaxInvalid = 2

    Jobs = {1, 2, 3}
    RunningTimes = {1, 2}
    Priorities = {1, 2}
    MaxTime = 2
    NoJob = NoJob

    Lines <- MCLines
    MaxForks = 3
    MaxHistory = 3
    ShellPid = ShellPid
INVARIANTS HeapOK FramesAreOwn BlocksAreOwn ReportIsRight TotalsAreRight LeftBehind WaitsAreEven
PROPERTIES ImplementsAddressSpaces ImplementsFiles ImplementsList RightJobRuns
CHECK_DEADLOCK FALSE
