CONSTANTS
    Conns = {c1, c2}
    Tls = {1, 2, 3}
    Contexts = {x, y}
    MaxContexts = 2
    MaxBytes = 2
    Null = Null
SPECIFICATION Spec
INVARIANT HandshakeReports
CHECK_DEADLOCK FALSE
