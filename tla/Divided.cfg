\* Terms 3 and 4 after two divided terms; a crash; calls of a leader
\* in order.
SPECIFICATION DividedSpec
CONSTANTS
    s1 = s1
    s2 = s2
    s3 = s3
    x = x
    Server = {s1, s2, s3}
    Command = {x}
    None = None
    Reordering = FALSE
    Heartbeats = FALSE
    MaxElections = 4
    MaxIndex = 2
    MaxRestarts = 1
    Old = s1
    Young = s2
    Voter = s3
    OldCommand = x
    YoungCommand = x
VIEW CommitView
INVARIANTS
    LeaderCompleteness
    IndexesInRange
    LogMatching
    BackupMovesDown
