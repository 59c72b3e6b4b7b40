\* Two elections, one log slot, a crash; calls of a leader in order.
SPECIFICATION ContestSpec
CONSTANTS
    s1 = s1
    s2 = s2
    s3 = s3
    x = x
    Server = {s1, s2, s3}
    Command = {x}
    None = None
    Reordering = FALSE
    Heartbeats = TRUE
    MaxElections = 2
    MaxIndex = 1
    MaxRestarts = 1
    Contender = {s1}
SYMMETRY ContestSymmetry
VIEW View
INVARIANTS
    StateMachineSafety
    CommitWithinLog
    MatchIsDurable
