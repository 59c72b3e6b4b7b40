\* Two Submits, two terms, a call of another leader, a shutdown.
SPECIFICATION FairSpec
CONSTANTS
    c1 = c1
    c2 = c2
    other = other
    Submitter = {c1, c2}
    Other = other
    MaxTerm = 2
    MaxIndex = 3
    MaxCalls = 1
    Kills = TRUE
CHECK_DEADLOCK FALSE
INVARIANTS
    TypeOK
    ExecutesLog
    OkIsExecuted
    NobodyForgotten
PROPERTIES
    ReturnsInTerm
