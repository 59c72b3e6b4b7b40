\* Two elections, one log slot, a crash; calls and replies in any order.
SPECIFICATION Spec
CONSTANTS
    s1 = s1
    s2 = s2
    s3 = s3
    x = x
    Server = {s1, s2, s3}
    Command = {x}
    None = None
    Reordering = TRUE
    Heartbeats = FALSE
    MaxElections = 2
    MaxIndex = 1
    MaxRestarts = 1
SYMMETRY Symmetry
VIEW LogView
INVARIANTS
    TypeOK
    ElectionSafety
    DiskCoversMemory
    SlotZero
PROPERTIES
    PromisesKept
    LeaderAppendOnly
    ElectionRefined
