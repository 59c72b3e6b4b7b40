\* Two replicas, a Get at each or two at one, a Put, one round that fails.
SPECIFICATION Spec
CONSTANTS
    s1 = s1
    s2 = s2
    g1 = g1
    g2 = g2
    Server = {s1, s2}
    Reader = {g1, g2}
    QueueCap = 2
    MaxPuts = 1
    MaxFails = 1
    MaxRestarts = 0
CHECK_DEADLOCK FALSE
SYMMETRY Readers
INVARIANTS
    TypeOK
    QueueAccounted
    FreshUnlessOvercounted
