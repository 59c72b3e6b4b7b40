\* One replica, two Gets, a Put.
SPECIFICATION Spec
CONSTANTS
    s1 = s1
    g1 = g1
    g2 = g2
    Server = {s1}
    Reader = {g1, g2}
    QueueCap = 2
    MaxPuts = 1
    MaxFails = 1
    MaxRestarts = 0
CHECK_DEADLOCK FALSE
SYMMETRY Readers
INVARIANTS
    ReadsFresh
