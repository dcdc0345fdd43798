CONSTANTS
    NumOfPages = 4
    PartialPage = TRUE
    Keys = {1, 2, 3, 4, 5}
    numOfKeys = 5
    Threads = {t1, t2}
    Nodes = {n1, n2, n3}
    Cnodes = {c1, c2, c3, c4, c5}
    max = 2
    MaxPage = 3
    ListNodes = {m1, m2, m3, m4, m5, m6, m7, m8, m9, m10, m11}
    LifeThreads = {u1, u2, u3}
    MaxOpens = 3
    RebuiltKeys = {k1, k2, k3}
    Stored = {k1, k2}
    MaxRebuilds = 2
    MaxFaults = 2
    MaxCrashes = 1
    Null = Null
    None = None
SYMMETRY Alike
SPECIFICATION StorageSpec
INVARIANTS
    GetsLastPut
    TreeSound
    CacheSound
    EveryPageFound
    WorksOnLiveObjects
    RebuildKeepsKeys
PROPERTY
    Allocates
CHECK_DEADLOCK FALSE
