SPECIFICATION StorageSpec
CONSTANTS
    Requests = {r1, r2}
    Names = {n1, n2}
    Tokens = {k1, k2}
    MaxContents = 2
SYMMETRY StorageSymmetry
INVARIANTS
    StorageTypeOK
    RowsMatchBytes
    SpentOnce
PROPERTIES
    OnlyUpsertsOverwrite
CHECK_DEADLOCK FALSE
