SPECIFICATION Spec
CONSTANTS
    r1 = r1
    r2 = r2
    s1 = s1
    u1 = u1
    Users = {u1}
    Sessions = {s1}
    Owner <- MCOwner
    Legacy = {}
    Requests = {r1, r2}
    Kinds = {"signIn", "exchange"}
    MaxToken = 4
SYMMETRY Symmetry
INVARIANT ReusePairIsCurrent
CHECK_DEADLOCK FALSE
