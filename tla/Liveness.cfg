SPECIFICATION Spec
CONSTANTS
    r1 = r1
    r2 = r2
    s1 = s1
    u1 = u1
    c1 = c1
    t1 = t1
    k1 = k1
    k2 = k2
    NoKey = NoKey
    p1 = p1
    p2 = p2
    m1 = m1
    w1 = w1
    w2 = w2
    x1 = x1
    d1 = d1
    NoWriter = NoWriter
    NoClient = NoClient
PROPERTIES
    EveryRequestAnswers
    StartEnds
    FeedGoesOn
    WorkersEnd
CHECK_DEADLOCK FALSE
