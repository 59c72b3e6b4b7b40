\* One replica, two Gets that do not both fit into the queue, a Put, and one
\* round that fails or one restart.
SPECIFICATION FairSpec
CONSTANTS
    s1 = s1
    g1 = g1
    g2 = g2
    Server = {s1}
    Reader = {g1, g2}
    QueueCap = 1
    MaxPuts = 1
    MaxFails = 1
    MaxRestarts = 1
CHECK_DEADLOCK FALSE
INVARIANTS
    FreshUnlessOvercounted
PROPERTIES
    GetsServed
    DoOpEnds
