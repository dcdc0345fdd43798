CONSTANTS
    Pieces <- StringPieces
    MaxPieces = 7
    IntMax = 99
SPECIFICATION Spec
INVARIANT StoredRaw
CHECK_DEADLOCK FALSE
