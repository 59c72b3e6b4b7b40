\* Two elections, one log slot, two commands, calls in any order.
SPECIFICATION ContestSpec
CONSTANTS
    s1 = s1
    s2 = s2
    s3 = s3
    x = x
    y = y
    Server = {s1, s2, s3}
    Command = {x, y}
    None = None
    Reordering = TRUE
    Heartbeats = TRUE
    MaxElections = 2
    MaxIndex = 1
    MaxRestarts = 0
    Contender = {s1}
SYMMETRY ContestSymmetry
VIEW View
INVARIANTS
    CommandsAgree
