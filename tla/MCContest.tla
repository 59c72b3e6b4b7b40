------------------------------ MODULE MCContest ------------------------------
(*****************************************************************************)
(* One term with several candidates. The initial state is the one that       *)
(* startElection leaves when the timers of the peers in Contender expire     *)
(* before any message arrives.                                               *)
(*****************************************************************************)
EXTENDS MCRaft

CONSTANT Contender      \* the peers that are candidates at the start

ContestSymmetry ==
    {p \in Permutations(Server) : {p[i] : i \in Contender} = Contender}
        \cup Permutations(Command)

ContestInit ==
    LET runs(i) == i \in Contender
    IN  /\ currentTerm = [i \in Server |-> IF runs(i) THEN 1 ELSE 0]
        /\ votedFor = [i \in Server |-> IF runs(i) THEN i ELSE None]
        /\ log = [i \in Server |-> <<Sentinel>>]
        /\ state = [i \in Server |-> IF runs(i) THEN Candidate ELSE Follower]
        /\ nextIndex = [i \in Server |-> [j \in Server |-> 0]]
        /\ matchIndex = [i \in Server |-> [j \in Server |-> 0]]
        /\ commitIndex = [i \in Server |-> 0]
        /\ applied = [i \in Server |-> << >>]
        /\ persisted = [i \in Server |->
               [currentTerm |-> currentTerm[i], votedFor |-> votedFor[i],
                log |-> log[i]]]
        /\ rvReqs = {[src |-> i, dst |-> j, term |-> 1, lastLogIndex |-> 0,
                      lastLogTerm |-> 0] :
                        <<i, j>> \in {p \in Contender \X Server : p[1] # p[2]}}
        /\ rvReps = {}
        /\ aeReqs = {}
        /\ aeReps = {}
        /\ handled = [i \in Server |-> [term |-> 0, reach |-> 0]]
        /\ elections = Cardinality(Contender)
        /\ restarts = 0

ContestSpec == ContestInit /\ [][Next]_vars

=============================================================================
