SPECIFICATION StorageSpec
CONSTANTS
    Requests = {r1, r2}
    Names = {n1}
    Tokens = {k1}
    MaxContents = 1
PROPERTIES
    BucketGoesEmpty
CHECK_DEADLOCK FALSE
