------------------------------- MODULE MCRaft -------------------------------
(*****************************************************************************)
(* Raft for TLC.                                                             *)
(*                                                                           *)
(* The peers are interchangeable, and so are the commands.                   *)
(*                                                                           *)
(* The network of Raft keeps every message. Most of them are soon dead: a    *)
(* reply whose caller has moved on, a call that would only produce such a    *)
(* reply, the indexes of a peer that does not lead. No action and no         *)
(* property reads them, as terms never go back (PromisesKept) and no peer    *)
(* takes up a term again that it has left. View tells states apart by the    *)
(* rest, and by who has led which term.                                      *)
(*****************************************************************************)
EXTENDS Raft, TLC

Symmetry == Permutations(Server) \cup Permutations(Command)

InRole(i, t, role) == currentTerm[i] = t /\ state[i] = role

LiveVoteCalls ==
    {m \in rvReqs : \/ currentTerm[m.dst] <= m.term
                    \/ InRole(m.src, m.term, Candidate)}

LiveVoteReplies == {r \in rvReps : InRole(r.dst, r.argsTerm, Candidate)}

LiveAppendCalls ==
    {m \in aeReqs : /\ Deliverable(m)
                    /\ \/ currentTerm[m.dst] <= m.term
                       \/ InRole(m.src, m.term, Leader)}

LiveAppendReplies == {r \in aeReps : InRole(r.dst, r.argsTerm, Leader)}

LiveIndexes(f) ==
    [i \in Server |-> IF state[i] = Leader THEN f[i] ELSE << >>]

HasLed == {<<m.src, m.term>> : m \in aeReqs}

(* What elections, logs and a leader's indexes depend on. What is committed  *)
(* and applied has no effect on them.                                        *)
LogView ==
    <<serverVars, LiveIndexes(nextIndex), LiveIndexes(matchIndex),
      LiveVoteCalls, LiveVoteReplies,
      {[m EXCEPT !.leaderCommit = 0] : m \in LiveAppendCalls},
      LiveAppendReplies, HasLed, auxVars>>

\* The same, with what is committed. What is applied has no effect on it.
CommitView ==
    <<serverVars, LiveIndexes(nextIndex), LiveIndexes(matchIndex), commitIndex,
      LiveVoteCalls, LiveVoteReplies, LiveAppendCalls, LiveAppendReplies,
      HasLed, auxVars>>

\* All of it.
View ==
    <<serverVars, LiveIndexes(nextIndex), LiveIndexes(matchIndex), applyVars,
      LiveVoteCalls, LiveVoteReplies, LiveAppendCalls, LiveAppendReplies,
      HasLed, auxVars>>

=============================================================================
