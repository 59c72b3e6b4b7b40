\* Two Submits of one leader, and a shutdown.
SPECIFICATION FairSpec
CONSTANTS
    c1 = c1
    c2 = c2
    other = other
    Submitter = {c1, c2}
    Other = other
    MaxTerm = 1
    MaxIndex = 2
    MaxCalls = 0
    Kills = TRUE
CHECK_DEADLOCK FALSE
PROPERTIES
    StopsAfterKill
