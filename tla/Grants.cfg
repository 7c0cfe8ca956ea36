SPECIFICATION Spec
CONSTANTS
    u1 = u1
    u2 = u2
    t1 = t1
    t2 = t2
    j1 = j1
    j2 = j2
    h1 = h1
    h2 = h2
    Users = {u1, u2}
    Agents = {"agent"}
    Tenants = {t1, t2}
    Member <- MCMember
    GrantJobs = {j1, j2}
    NoBinding = NoBinding
    MaxGrants = 2
    MaxCodes = 2
    Handlers = {h1, h2}
    MaxPairs = 4
SYMMETRY MCSymmetry
INVARIANTS
    TypeOK
    BindingsAreChosen
PROPERTIES
    RevokedEndsAccess
    FamiliesAreChains
CHECK_DEADLOCK FALSE
