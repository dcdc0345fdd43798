CONSTANTS
    Threads = {t1, t2, t3}
    Entries = {e1, e2}
    RWLocks = {l1, l2}
    None = None
    LogThreads = {c1, c2}
    RotationSize = 1
    Argument = 1
    SeqLimit = 3
    DayLen = 2
    MonthLen = 2
    MaxClock = 4
    MaxFileRecords = 3
    NoFile = NoFile
    NoRecord = NoRecord
    MaxLoggers = 2
    MaxRecords = 4
    Null = Null
    Objs = {c1, c2}
    Fds = {1, 2}
    Garbage = 7
    Conns = {c1, c2}
    Tls = {1, 2, 3}
    Contexts = {x, y}
    MaxContexts = 2
    MaxBytes = 2
    Literals = {"a", "b"}
    Regexes = {"any", "a"}
    MaxDepth = 2
    MaxAdds = 3
    Invalid = "bad"
SYMMETRY Alike
SPECIFICATION SystemSpec
INVARIANTS
    LocksSafe
    LogFilesBounded
    LoggersAlive
    SocketsSound
    ConnectionsSound
    RoutesAsAdded
PROPERTIES
    RotationKeepsRecords
    ModeRestored
CHECK_DEADLOCK FALSE
