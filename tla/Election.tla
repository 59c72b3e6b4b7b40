------------------------------ MODULE Election ------------------------------
(*****************************************************************************)
(* What the elections of raft/leader_election.go promise, without messages,  *)
(* logs or disks: peers move through terms, give ballots to each other, and  *)
(* a candidate with the ballots of a quorum leads its term. Raft is shown to *)
(* implement this module.                                                    *)
(*****************************************************************************)
EXTENDS Integers

CONSTANTS
    Server,     \* the peers
    None,       \* no peer
    Quorum      \* the sets of peers whose votes elect a leader

VARIABLES
    term,       \* the term of every peer
    vote,       \* whom the peer would name if asked in its term, or None
    role,       \* "Follower", "Candidate" or "Leader"
    ballots,    \* <<voter, candidate, term>>: the votes granted so far
    leads       \* <<leader, term>>: who has led which term so far

vars == <<term, vote, role, ballots, leads>>

Supporters(i, t) == {i} \cup {v \in Server : <<v, i, t>> \in ballots}

\* startElection: a new term for peer i, which votes for itself.
Stand(i) ==
    /\ term' = [term EXCEPT ![i] = @ + 1]
    /\ vote' = [vote EXCEPT ![i] = i]
    /\ role' = [role EXCEPT ![i] = "Candidate"]
    /\ UNCHANGED <<ballots, leads>>

(* RequestVote grants the vote of peer v to c, which has reached term t. In  *)
(* the term it is in, v must not have named anyone else.                     *)
Grant(v, c, t) ==
    /\ v # c
    /\ t = term[v] => vote[v] \in {None, c}
    /\ term' = [term EXCEPT ![v] = t]
    /\ vote' = [vote EXCEPT ![v] = c]
    /\ role' = [role EXCEPT ![v] = IF t > term[v] THEN "Follower" ELSE @]
    /\ ballots' = ballots \cup {<<v, c, t>>}
    /\ UNCHANGED leads

\* becomeFollower: peer i hears of a newer term.
Observe(i, t) ==
    /\ t > term[i]
    /\ term' = [term EXCEPT ![i] = t]
    /\ vote' = [vote EXCEPT ![i] = None]
    /\ role' = [role EXCEPT ![i] = "Follower"]
    /\ UNCHANGED <<ballots, leads>>

(* becomeFollower in AppendEntries: a candidate meets the leader of its own  *)
(* term, and forgets that it voted.                                          *)
Yield(i) ==
    /\ role[i] = "Candidate"
    /\ \E l \in Server : <<l, term[i]>> \in leads
    /\ vote' = [vote EXCEPT ![i] = None]
    /\ role' = [role EXCEPT ![i] = "Follower"]
    /\ UNCHANGED <<term, ballots, leads>>

\* becomeLeader, with the votes of a quorum.
Win(i) ==
    /\ role[i] = "Candidate"
    /\ Supporters(i, term[i]) \in Quorum
    /\ role' = [role EXCEPT ![i] = "Leader"]
    /\ leads' = leads \cup {<<i, term[i]>>}
    /\ UNCHANGED <<term, vote, ballots>>

\* A crash and a restart: the disk has kept the term and the vote.
Crash(i) ==
    /\ role' = [role EXCEPT ![i] = "Follower"]
    /\ UNCHANGED <<term, vote, ballots, leads>>

Init ==
    /\ term = [i \in Server |-> 0]
    /\ vote = [i \in Server |-> None]
    /\ role = [i \in Server |-> "Follower"]
    /\ ballots = {}
    /\ leads = {}

(* Only Stand makes a new term: a peer adopts a term that the peer it hears  *)
(* from has reached.                                                         *)
Next ==
    \E i \in Server :
        \/ Stand(i) \/ Yield(i) \/ Win(i) \/ Crash(i)
        \/ \E j \in Server :
              \/ \E t \in term[i] .. term[j] : Grant(i, j, t)
              \/ \E t \in term[i] .. term[j] : Observe(i, t)

Spec == Init /\ [][Next]_vars

(* At most one peer ever leads a term, although Yield lets a peer vote twice *)
(* in a term.                                                                *)
OneLeader == \A l, k \in Server : \A t \in Nat :
                 <<l, t>> \in leads /\ <<k, t>> \in leads => l = k

(* A peer never goes back to an earlier term, and never takes back within a  *)
(* term the vote it gave to another peer.                                    *)
Promise ==
    \A i \in Server :
        /\ term'[i] >= term[i]
        /\ term'[i] = term[i] /\ vote[i] \notin {None, i} => vote'[i] = vote[i]

=============================================================================
