CONSTANTS
    Threads = {t1, t2}
    Entries = {e1}
    RWLocks = {l1}
    None = None
SPECIFICATION FairSpec
PROPERTY LockIsGranted
CHECK_DEADLOCK FALSE
