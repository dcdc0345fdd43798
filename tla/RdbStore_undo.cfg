CONSTANTS
    t1 = t1
    t2 = t2
    k1 = k1
    k2 = k2
    k3 = k3
    b1 = b1
    b2 = b2
    v1 = v1
    v2 = v2
    NoValue = NoValue
    Threads = {t1, t2}
    Keys = {k1, k2, k3}
    Vals = {v1, v2}
    Buckets = {b1, b2}
    Databases <- MCDatabases
    MaxKeyPage = 2
    MaxValuePage = 2
SYMMETRY Alike
SPECIFICATION Spec
INVARIANTS
    UndoRestoresFiles
CHECK_DEADLOCK FALSE
