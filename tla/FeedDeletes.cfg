SPECIFICATION Spec
CONSTANTS
    w1 = w1
    w2 = w2
    x1 = x1
    c1 = c1
    c2 = c2
    c3 = c3
    k1 = k1
    k2 = k2
    k3 = k3
    Conns = {c1, c2}
    Topics = {t1}
    Keys = {k1, k2, k3}
    NoKey = NoKey
    KeysOf <- MCKeysOf
    MaxEntries = 1
    Kinds <- NoExpiry
    MaxSent <- TwoEach
    Writers = {w1, w2, x1}
    External = {x1}
    Deniers = {w2}
    Clients = {c1, c3}
    Service = {c3}
    Readers = {c1}
    PoolSize = 2
    MaxLeft = 1
    Size <- MCSize
    PayloadLimit = 3
    NoWriter = NoWriter
    NoClient = NoClient
    MaxConns = 3
    MaxFails = 2
INVARIANTS
    DeletesAreHeard
CHECK_DEADLOCK FALSE
