------------------------------ MODULE MCDivided ------------------------------
(*****************************************************************************)
(* The commit rule across terms. The initial state is reached when Old leads *)
(* term 1 and appends a command; Young wins term 2 with the vote of Voter,   *)
(* appends one too and crashes; and Old wins term 3, again with the vote of  *)
(* Voter. Slot 1 holds entries of two terms, on one peer each. Voter has     *)
(* refused the first call of Old, for the gap, and the second one is on its  *)
(* way; every other message up to here is lost.                              *)
(*****************************************************************************)
EXTENDS MCRaft

CONSTANTS Old, Young, Voter, OldCommand, YoungCommand

ASSUME DividedAssumption ==
    /\ Server = {Old, Young, Voter}
    /\ {OldCommand, YoungCommand} \subseteq Command

Entries(t, c) == <<Sentinel, [term |-> t, cmd |-> c]>>

DividedInit ==
    LET fresh == [j \in Server |-> 0]
    IN  /\ currentTerm = [i \in Server |-> IF i = Young THEN 2 ELSE 3]
        /\ votedFor = [i \in Server |-> IF i = Young THEN Young ELSE Old]
        /\ log = [i \in Server |->
               IF i = Old THEN Entries(1, OldCommand)
               ELSE IF i = Young THEN Entries(2, YoungCommand)
               ELSE <<Sentinel>>]
        /\ state = [i \in Server |-> IF i = Old THEN Leader ELSE Follower]
        /\ nextIndex = [i \in Server |->
               IF i = Old THEN [j \in Server |-> IF j = Voter THEN 1 ELSE 2]
               ELSE fresh]
        /\ matchIndex = [i \in Server |->
               IF i = Old THEN [j \in Server |-> IF j = i THEN 1 ELSE -1]
               ELSE fresh]
        /\ commitIndex = fresh
        /\ applied = [i \in Server |-> << >>]
        /\ persisted = [i \in Server |->
               [currentTerm |-> currentTerm[i], votedFor |-> votedFor[i],
                log |-> log[i]]]
        /\ rvReqs = {}
        /\ rvReps = {}
        /\ aeReqs = {AppendArgs(Old, Voter, 3, log[Old], 1, 0)}
        /\ aeReps = {}
        /\ handled = [i \in Server |->
               IF i = Voter /\ ~ Reordering THEN [term |-> 3, reach |-> 1]
               ELSE [term |-> 0, reach |-> 0]]
        /\ elections = 3
        /\ restarts = 0

DividedSpec == DividedInit /\ [][Next]_vars

=============================================================================
