CONSTANTS
    Sockets = {1, 2, 3}
    MaxPipe = 3
    Forever = TRUE
SPECIFICATION Spec
INVARIANTS
    OneOwner
    FreedAfterAnswer
PROPERTIES
    StopsIfSecured
    EventuallyPolled
CHECK_DEADLOCK FALSE
