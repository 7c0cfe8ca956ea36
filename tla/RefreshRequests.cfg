SPECIFICATION Spec
CONSTANTS
    r1 = r1
    r2 = r2
    s1 = s1
    u1 = u1
    Users = {u1}
    Sessions = {s1}
    Owner <- MCOwner
    Legacy = {s1}
    Requests = {r1, r2}
    Kinds = {"signIn", "issue", "exchange", "legacy", "logout", "delete",
             "fail", "tokenExpires", "sessionExpires"}
    MaxToken = 3
SYMMETRY Symmetry
INVARIANTS
    TypeOK
    RotationIsLinear
    ReplayEndsSession
    PairsFollow
PROPERTIES
    FamiliesAreRegisters
CHECK_DEADLOCK FALSE
