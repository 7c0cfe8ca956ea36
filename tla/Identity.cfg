SPECIFICATION Spec
CONSTANTS
    u1 = u1
    u2 = u2
    i1 = i1
    i2 = i2
    b1 = b1
    q1 = q1
    q2 = q2
    NoUser = NoUser
    Users = {u1, u2}
    Identities = {i1, i2}
    Claims <- MCClaims
    Trusted = {i1}
    Confirmed = {u1}
    Registered = {u1}
    Browsers = {b1}
    Slots = {q1, q2}
    Acting = {1}
    MaxFlows = 2
    a1 = a1
    a2 = a2
    j1 = j1
    j2 = j2
    Addresses = {a1, a2}
    Home = a1
    Tomb = Tomb
    Jobs = {j1, j2}
    MaxLinks = 2
SYMMETRY MCSym
INVARIANTS
    TypeOK
    KeepsAMethod
    SingleUse
    LinksEnd
PROPERTIES
    UnprovenStaysOut
    LinksProve
CHECK_DEADLOCK FALSE
