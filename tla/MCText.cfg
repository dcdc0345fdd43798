CONSTANTS
    MaxPieces = 4
    MaxRelative = 2
    MaxPort = 10
    IntMax = 100
    Lists = {x, y}
    Ids = {1, 2, 3}
    Names = {"TE", "content-length"}
    MaxValues = 2
    None = None
    MaxJson = 5
    JsonIntMax = 99
    Vars = {x, y}
    Addrs = {1, 2, 3, 4}
    MaxKeys = 1
    MaxDepth = 2
    Scalars = {"number"}
    MaxLine = 4
SYMMETRY Alike
SPECIFICATION TextSpec
INVARIANTS
    UrisReadBack
    FieldsAsSet
    ReceivedAsSent
    JsonReadsBack
    ValuesOwnMemory
    LinesReadBack
CHECK_DEADLOCK FALSE
