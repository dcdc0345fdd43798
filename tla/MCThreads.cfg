CONSTANTS
    Workers = {1, 2, 3}
    Tasks = {x1, x2, x3}
    SizeMax = 7
    Concurrency = {1, 3, 4}
    Sockets = {1}
    MaxPipe = 3
    Forever = FALSE
    Chars = {"1", "z"}
    MaxPieces = 2
    MaxPiece = 2
    MaxBody = 3
    CHUNKSIZE = 1
    INT_MAX = 4
SPECIFICATION ThreadsSpec
INVARIANTS
    PoolSound
    BodyRead
PROPERTIES
    RunsTasks
    StopsReturn
    TaskEnds
    BodyEnds
CHECK_DEADLOCK FALSE
