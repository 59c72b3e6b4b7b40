\* Two clerks, two servers, up to three calls of a Put.
SPECIFICATION Spec
CONSTANTS
    s1 = s1
    s2 = s2
    c1 = c1
    c2 = c2
    Server = {s1, s2}
    Client = {c1, c2}
    MaxCalls = 3
SYMMETRY Symmetry
CHECK_DEADLOCK FALSE
INVARIANTS
    ErrVersionHonest
