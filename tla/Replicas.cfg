SPECIFICATION Spec
CONSTANTS
    a = a
    b = b
    m1 = m1
    m2 = m2
    m3 = m3
    Replicas = {a, b}
    Migrations = {m1, m2, m3}
    Lists <- MCLists
    Kinds = {"stop", "migrationFails", "startFails", "stopFails", "lose", "crash"}
    MaxSessions = 2
    MaxOps = 1
INVARIANTS
    TypeOK
    PoolIsClean
    ServesAsCalled
PROPERTIES
    UpgradesAreWhole
CHECK_DEADLOCK FALSE
