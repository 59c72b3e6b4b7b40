-------------------------- MODULE RaftCommitProofs --------------------------
(*****************************************************************************)
(* What is committed stays committed, provided that a peer handles the calls *)
(* of a leader in the order in which they were sent (without Reordering).    *)
(*                                                                           *)
(* A peer holds slot n of term t when it led the term or has accepted a call *)
(* of the term that reaches the slot. An entry is chosen when it is of the   *)
(* term itself and a majority holds it. A peer that holds such an entry has  *)
(* it in its log, or has met a later leader whose log lacks it; and so the   *)
(* first leader without a chosen entry could not have got its votes.         *)
(*****************************************************************************)
EXTENDS RaftLogProofs

-----------------------------------------------------------------------------
(*****************************************************************************)
(* More on logs that begin alike.                                            *)
(*****************************************************************************)

LEMMA AgreesStays ==
    ASSUME NEW S, NEW a \in Seq(S), NEW b \in Seq(S), NEW c \in Seq(S),
           NEW d \in Seq(S), NEW k \in Nat, Agrees(a, b, k),
           Begins(a, c), Begins(b, d)
    PROVE  Agrees(c, d, k)
<1>1. Len(a) \in Nat /\ Len(b) \in Nat /\ Len(c) \in Nat /\ Len(d) \in Nat
    OBVIOUS
<1>2. k <= Len(a) /\ k <= Len(b) /\ \A x \in 1 .. k : a[x] = b[x]
    BY Zenon DEF Agrees
<1>3. /\ Len(a) <= Len(c) /\ \A x \in 1 .. Len(a) : a[x] = c[x]
      /\ Len(b) <= Len(d) /\ \A x \in 1 .. Len(b) : b[x] = d[x]
    BY Zenon DEF Begins
<1>4. k <= Len(c) /\ k <= Len(d)
    BY <1>1, <1>2, <1>3
<1>5. \A x \in 1 .. k : c[x] = d[x]
    BY <1>1, <1>2, <1>3
<1> QED BY <1>4, <1>5, Zenon DEF Agrees

LEMMA AgreesThrough ==
    ASSUME NEW a, NEW b, NEW c, NEW k \in Nat, Agrees(a, b, k), Agrees(b, c, k)
    PROVE  Agrees(a, c, k)
BY Zenon DEF Agrees

LEMMA AgreesBack ==
    ASSUME NEW a, NEW b, NEW k \in Nat, Agrees(a, b, k) PROVE Agrees(b, a, k)
BY Zenon DEF Agrees

LEMMA AgreesShorter ==
    ASSUME NEW S, NEW a \in Seq(S), NEW b \in Seq(S), NEW k \in Nat,
           Agrees(a, b, k), NEW n \in Nat, n <= k
    PROVE  Agrees(a, b, n)
<1>1. Len(a) \in Nat /\ Len(b) \in Nat
    OBVIOUS
<1> QED BY <1>1 DEF Agrees

LEMMA BeginsAgrees ==
    ASSUME NEW S, NEW a \in Seq(S), NEW b \in Seq(S), NEW k \in Nat,
           Begins(a, b), k <= Len(a)
    PROVE  Agrees(a, b, k)
<1>1. Len(a) \in Nat /\ Len(b) \in Nat
    OBVIOUS
<1> QED BY <1>1 DEF Agrees, Begins

-----------------------------------------------------------------------------
(*****************************************************************************)
(* The invariant, with a chronicle G.                                        *)
(*****************************************************************************)

Ordered(lg) == \A a, b \in 1 .. Len(lg) : a <= b => lg[a].term <= lg[b].term

TermsUpTo(lg, t) == \A k \in 1 .. Len(lg) : lg[k].term <= t

(* Terms do not decrease along a log and are not ahead of the peer's. A call *)
(* carries all that its leader had before it began to lead.                  *)
Dated(G) ==
    /\ \A t \in Nat : Ordered(G[t]) /\ TermsUpTo(G[t], t)
    /\ \A i \in Server : TermsUpTo(persisted[i].log, currentTerm[i])
    /\ \A m \in aeReqs : \A k \in 1 .. Len(G[m.term]) :
           G[m.term][k].term # m.term => k <= Reach(m) + 1

NotAfter(a, b) == a.term < b.term \/ (a.term = b.term /\ a.reach <= b.reach)

\* A peer has handled no call newer than the last one.
InOrder ==
    /\ \A k \in Server : handled[k].term <= currentTerm[k]
    /\ \A r \in aeReps : r.success =>
           NotAfter([term |-> r.argsTerm, reach |-> r.match], handled[r.src])

HasLed(k, t) == \E m \in aeReqs : m.src = k /\ m.term = t

\* Peer k has said that it has the log of term t up to slot n.
Acked(k, t, n) ==
    \/ HasLed(k, t)
    \/ \E r \in aeReps : r.src = k /\ r.argsTerm = t /\ r.success /\ n <= r.match

Held(G, k, t, n) == n < Len(G[t]) /\ Acked(k, t, n)

\* The entry in slot n of term t is of the term itself.
OwnSlot(G, t, n) == G[t][n + 1].term = t

\* The leader of term w has been without slot n of term t.
Misses(G, w, t, n) == Led(w) /\ ~ Agrees(G[w], G[t], n + 1)

(* What a peer holds is in its log while it stays in the term, and later     *)
(* unless it has met a leader without it.                                    *)
Kept(G) ==
    \A k \in Server, t, n \in Nat : Held(G, k, t, n) =>
        /\ t = currentTerm[k] => Agrees(log[k], G[t], n + 1)
        /\ OwnSlot(G, t, n) =>
              \/ Agrees(log[k], G[t], n + 1)
              \/ \E w \in Nat : /\ t < w /\ w <= currentTerm[k]
                                /\ Misses(G, w, t, n)

\* A candidate asks with the end of the log it stands with.
Candidates ==
    \A m \in rvReqs :
        state[m.src] = Candidate /\ currentTerm[m.src] = m.term
            => /\ m.lastLogIndex = lastLogIndex(log[m.src])
               /\ m.lastLogTerm = lastLogTerm(log[m.src])

(* A vote for a candidate whose log ends as the call m says: what the voter  *)
(* held is not newer, or some leader was without it.                         *)
Informed(G, r, m) ==
    \A t, n \in Nat :
        t < r.argsTerm /\ Held(G, r.src, t, n) /\ OwnSlot(G, t, n) =>
            \/ m.lastLogTerm > t
            \/ m.lastLogTerm = t /\ m.lastLogIndex >= n
            \/ \E w \in Nat : /\ t < w /\ w <= r.argsTerm
                              /\ Misses(G, w, t, n)

Ballot(G) ==
    \A r \in rvReps : r.voteGranted =>
        /\ r.argsTerm <= currentTerm[r.src]
        /\ \E m \in rvReqs : /\ m.src = r.dst /\ m.term = r.argsTerm
                             /\ Informed(G, r, m)

\* The leader of term w has what the voter v held, or an earlier one had not.
Heard(G, w, v) ==
    /\ w <= currentTerm[v]
    /\ \A t, n \in Nat :
           t < w /\ Held(G, v, t, n) /\ OwnSlot(G, t, n) =>
               \/ Agrees(G[w], G[t], n + 1)
               \/ \E u \in Nat : t < u /\ u < w /\ Misses(G, u, t, n)

Elected(G) ==
    \A w \in Nat : Led(w) =>
        \E Q \in SUBSET Server : IsMajority(Q) /\ \A v \in Q : Heard(G, w, v)

Safe(G) ==
    /\ Dated(G)
    /\ InOrder
    /\ Kept(G)
    /\ Candidates
    /\ Ballot(G)
    /\ Elected(G)

-----------------------------------------------------------------------------
(*****************************************************************************)
(* No leader is without a chosen entry.                                      *)
(*****************************************************************************)

Chosen(G, t, n) ==
    /\ n < Len(G[t]) /\ OwnSlot(G, t, n)
    /\ \E Q \in SUBSET Server : IsMajority(Q) /\ \A k \in Q : Acked(k, t, n)

MajoritiesMeet ==
    \A Q, R \in SUBSET Server :
        IsMajority(Q) /\ IsMajority(R) => \E v \in Server : v \in Q /\ v \in R

(* The first leader without a chosen entry was elected by a majority, and so *)
(* with the vote of a peer that holds the entry.                             *)
LEMMA Completeness ==
    ASSUME WellOrdered, MajoritiesMeet, NEW G, Elected(G),
           NEW t \in Nat, NEW n \in Nat, Chosen(G, t, n),
           NEW w \in Nat, t < w, Led(w)
    PROVE  Agrees(G[w], G[t], n + 1)
<1> SUFFICES ASSUME Misses(G, w, t, n) PROVE FALSE
    BY Zenon DEF Misses
<1> DEFINE W == {u \in Nat : t < u /\ Misses(G, u, t, n)}
<1>1. PICK u \in W : \A x \in W : u <= x
    <2>1. W \subseteq Nat /\ W # {}
        BY Zenon
    <2> HIDE DEF W
    <2> QED BY <2>1, LeastElement, Zenon
<1>2. u \in Nat /\ t < u /\ Led(u) /\ ~ Agrees(G[u], G[t], n + 1)
    BY Zenon DEF Misses
<1>3. PICK Q \in SUBSET Server : IsMajority(Q) /\ \A v \in Q : Heard(G, u, v)
    BY <1>2, Zenon DEF Elected
<1>4. PICK R \in SUBSET Server : IsMajority(R) /\ \A k \in R : Acked(k, t, n)
    BY Zenon DEF Chosen
<1>5. PICK v \in Server : v \in Q /\ v \in R
    BY <1>3, <1>4, Zenon DEF MajoritiesMeet
<1>6. Held(G, v, t, n) /\ OwnSlot(G, t, n)
    BY <1>4, <1>5, Zenon DEF Held, Chosen
<1>7. PICK x \in Nat : t < x /\ x < u /\ Misses(G, x, t, n)
    BY <1>2, <1>3, <1>5, <1>6, Zenon DEF Heard
<1>8. x \in W
    BY <1>7, Zenon
<1> QED BY <1>1, <1>2, <1>7, <1>8

-----------------------------------------------------------------------------
(*****************************************************************************)
(* What a step can do to logs, calls and replies.                            *)
(*****************************************************************************)

Stamp(m) == [term |-> m.term, reach |-> Reach(m)]

(* Peer k accepts the call m and says so: its log becomes the leader's up to *)
(* the reach.                                                                *)
Takes(G, m, k) ==
    /\ m.dst = k
    /\ currentTerm[k] <= m.term /\ currentTerm'[k] = m.term
    /\ NotAfter(handled[k], Stamp(m)) /\ handled'[k] = Stamp(m)
    /\ Len(log'[k]) = Reach(m) + 1 /\ Begins(log'[k], G[m.term])
    /\ \E r \in aeReps' : /\ r.src = k /\ r.argsTerm = m.term
                          /\ r.success /\ r.match = Reach(m)

\* A log grows, or is replaced by what a leader sends.
PeerMoves(G, k) ==
    /\ currentTerm[k] <= currentTerm'[k]
    /\ NotAfter(handled[k], handled'[k])
    /\ handled'[k].term <= currentTerm'[k]
    /\ Begins(log[k], log'[k]) \/ \E m \in aeReqs : Takes(G, m, k)
    /\ \/ persisted'[k].log \in {persisted[k].log, log[k]}
       \/ /\ persisted'[k].log = log'[k]
          /\ state'[k] = Leader \/ \E m \in aeReqs : Takes(G, m, k)

\* Calls come from leaders and carry their logs to the end.
CallsMove(G) ==
    /\ aeReqs \subseteq aeReqs' /\ aeReps \subseteq aeReps'
    /\ \A m \in aeReqs' : m \notin aeReqs =>
           /\ state'[m.src] = Leader /\ m.term = currentTerm'[m.src]
           /\ Reach(m) = lastLogIndex(log'[m.src])
           /\ m.leaderCommit = commitIndex'[m.src]
    /\ \A r \in aeReps' : r \notin aeReps /\ r.success =>
           \E m \in aeReqs : /\ Takes(G, m, r.src)
                             /\ r.argsTerm = m.term /\ r.match = Reach(m)

Moves(G) == CallsMove(G) /\ \A k \in Server : PeerMoves(G, k)

\* Peer i has the votes of a majority and begins to lead.
Wins(i) ==
    /\ state[i] = Candidate /\ IsMajority(votes(i))
    /\ currentTerm'[i] = currentTerm[i] /\ log'[i] = log[i]

\* The reply r to the call m grants a vote.
Grants(r, m) ==
    /\ m.src = r.dst /\ m.term = r.argsTerm
    /\ currentTerm[r.src] <= m.term /\ currentTerm'[r.src] = m.term
    /\ isLogUpToDate(log[r.src], m.lastLogIndex, m.lastLogTerm)

\* A peer stands with the log it has, and leads when it has won.
PeerPolls(i) ==
    /\ state'[i] = Leader =>
           \/ state[i] = Leader /\ currentTerm'[i] = currentTerm[i]
           \/ Wins(i)
    /\ state'[i] = Candidate =>
           /\ log'[i] = log[i]
           /\ \/ state[i] = Candidate /\ currentTerm'[i] = currentTerm[i]
              \/ currentTerm'[i] > currentTerm[i]

VotesMove ==
    /\ rvReqs \subseteq rvReqs'
    /\ \A m \in rvReqs' : m \notin rvReqs =>
           /\ m.lastLogIndex = lastLogIndex(log'[m.src])
           /\ m.lastLogTerm = lastLogTerm(log'[m.src])
    /\ \A r \in rvReps' : r \notin rvReps /\ r.voteGranted =>
           \E m \in rvReqs : Grants(r, m)

Polls == VotesMove /\ \A i \in Server : PeerPolls(i)

Sound == TypeInv /\ ElectionInv /\ ElectionSafety /\ LogInv

\* The chronicle H continues G.
Continues(G, H) == Grows(G, H) /\ Tended(G, H) /\ Chronicle(H)'

\* The types in both states of a step.
LEMMA StepTypes ==
    ASSUME Sound, Sound', NEW G, Chronicle(G), NEW H, Continues(G, H)
    PROVE  /\ \A k \in Server :
                  /\ currentTerm[k] \in Nat /\ currentTerm'[k] \in Nat
                  /\ log[k] \in Seq(LogEntry) /\ Len(log[k]) \in Nat
                  /\ log'[k] \in Seq(LogEntry) /\ Len(log'[k]) \in Nat
                  /\ handled[k].term \in Nat /\ handled[k].reach \in Nat
                  /\ handled'[k].term \in Nat /\ handled'[k].reach \in Nat
           /\ \A t \in Nat : /\ G[t] \in Seq(LogEntry) /\ Len(G[t]) \in Nat
                             /\ H[t] \in Seq(LogEntry) /\ Len(H[t]) \in Nat
                             /\ Begins(G[t], H[t])
<1>1. /\ currentTerm \in [Server -> Nat] /\ currentTerm' \in [Server -> Nat]
      /\ log \in [Server -> Seq(LogEntry)] /\ log' \in [Server -> Seq(LogEntry)]
      /\ handled \in [Server -> [term : Nat, reach : Nat]]
      /\ handled' \in [Server -> [term : Nat, reach : Nat]]
    BY Zenon DEF Sound, TypeInv, TypeOK
<1>2. Typed(G) /\ Typed(H) /\ Grows(G, H)
    BY Zenon DEF Continues, Chronicle
<1>3. ASSUME NEW k \in Server
      PROVE  /\ currentTerm[k] \in Nat /\ currentTerm'[k] \in Nat
             /\ log[k] \in Seq(LogEntry) /\ Len(log[k]) \in Nat
             /\ log'[k] \in Seq(LogEntry) /\ Len(log'[k]) \in Nat
             /\ handled[k].term \in Nat /\ handled[k].reach \in Nat
             /\ handled'[k].term \in Nat /\ handled'[k].reach \in Nat
    <2>1. /\ log[k] \in Seq(LogEntry) /\ log'[k] \in Seq(LogEntry)
          /\ handled[k] \in [term : Nat, reach : Nat]
          /\ handled'[k] \in [term : Nat, reach : Nat]
        BY <1>1, Zenon
    <2> QED BY <1>1, <2>1
<1>4. \A t \in Nat : /\ G[t] \in Seq(LogEntry) /\ Len(G[t]) \in Nat
                     /\ H[t] \in Seq(LogEntry) /\ Len(H[t]) \in Nat
                     /\ Begins(G[t], H[t])
    BY <1>2 DEF Typed, Grows
<1> QED BY <1>3, <1>4, Zenon

-----------------------------------------------------------------------------
(*****************************************************************************)
(* A step keeps the invariant.                                               *)
(*****************************************************************************)

(* A call that a peer accepts reaches what the peer holds of the call's      *)
(* term.                                                                     *)
LEMMA TakesReach ==
    ASSUME Sound, InOrder, NEW G, NEW k \in Server, NEW m \in aeReqs,
           Takes(G, m, k), NEW n \in Nat, Acked(k, m.term, n)
    PROVE  n <= Reach(m)
<1>1. m.term \in Nat /\ Reach(m) \in Nat
    BY AppendTypes, Zenon DEF Sound
<1>2. ~ HasLed(k, m.term)
    BY Zenon DEF HasLed, Takes, Sound, ElectionSafety, LogInv, Callers
<1>3. PICK r \in aeReps : /\ r.src = k /\ r.argsTerm = m.term
                          /\ r.success /\ n <= r.match
    BY <1>2, Zenon DEF Acked
<1>4. r.match \in Nat /\ handled[k].term \in Nat /\ handled[k].reach \in Nat
    BY AppendTypes, Zenon DEF Sound, TypeInv, TypeOK
<1>5. NotAfter([term |-> m.term, reach |-> r.match], handled[k])
    BY <1>3, Zenon DEF InOrder
<1>6. NotAfter(handled[k], Stamp(m))
    BY Zenon DEF Takes
<1>7. r.match <= Reach(m)
    BY <1>1, <1>4, <1>5, <1>6 DEF NotAfter, Stamp
<1> QED BY <1>1, <1>3, <1>4, <1>7

\* Whether an entry that is there is of the term itself does not change.
LEMMA OwnSlotStays ==
    ASSUME Sound, Sound', NEW G, Chronicle(G), NEW H, Continues(G, H),
           NEW t \in Nat, NEW n \in Nat, n < Len(G[t])
    PROVE  n < Len(H[t]) /\ (OwnSlot(H, t, n) <=> OwnSlot(G, t, n))
<1>1. Len(G[t]) \in Nat /\ Len(H[t]) \in Nat /\ Begins(G[t], H[t])
    BY StepTypes, Zenon
<1>2. n + 1 \in 1 .. Len(G[t]) /\ Len(G[t]) <= Len(H[t])
    BY <1>1 DEF Begins
<1>3. G[t][n + 1] = H[t][n + 1]
    BY <1>1, <1>2, Zenon DEF Begins
<1> QED BY <1>1, <1>2, <1>3 DEF OwnSlot

\* The types of the calls and replies after a step.
LEMMA StepCallTypes ==
    ASSUME Sound'
    PROVE  /\ \A m \in aeReqs' : /\ m.src \in Server /\ m.dst \in Server
                                 /\ m.term \in Nat /\ Reach(m) \in Nat
                                 /\ m.leaderCommit \in Nat
           /\ \A r \in aeReps' : /\ r.src \in Server /\ r.dst \in Server
                                 /\ r.argsTerm \in Nat /\ r.match \in Nat
           /\ \A m \in rvReqs' : m.src \in Server /\ m.term \in Nat
           /\ \A r \in rvReps' : r.src \in Server /\ r.argsTerm \in Nat
<1>1. /\ aeReqs' \subseteq AppendEntriesArgs /\ aeReps' \subseteq AppendEntriesReply
      /\ rvReqs' \subseteq RequestVoteArgs /\ rvReps' \subseteq RequestVoteReply
    BY Zenon DEF Sound, TypeInv, TypeOK
<1>2. ASSUME NEW m \in aeReqs'
      PROVE  /\ m.src \in Server /\ m.dst \in Server
             /\ m.term \in Nat /\ Reach(m) \in Nat /\ m.leaderCommit \in Nat
    <2>1. /\ m.src \in Server /\ m.dst \in Server /\ m.term \in Nat
          /\ m.prevLogIndex \in Nat /\ m.entries \in Seq(LogEntry)
          /\ m.leaderCommit \in Nat
        BY <1>1, Zenon DEF AppendEntriesArgs
    <2>2. Len(m.entries) \in Nat
        BY <2>1
    <2> QED BY <2>1, <2>2 DEF Reach
<1>3. \A r \in aeReps' : /\ r.src \in Server /\ r.dst \in Server
                         /\ r.argsTerm \in Nat /\ r.match \in Nat
    BY <1>1, Zenon DEF AppendEntriesReply
<1>4. /\ \A m \in rvReqs' : m.src \in Server /\ m.term \in Nat
      /\ \A r \in rvReps' : r.src \in Server /\ r.argsTerm \in Nat
    BY <1>1, Zenon DEF RequestVoteArgs, RequestVoteReply
<1> QED BY <1>2, <1>3, <1>4, Zenon

\* A step keeps the invariant, with any chronicle that continues G.
LEMMA SafeStays ==
    \A G, H : /\ Sound /\ Sound' /\ Chronicle(G) /\ Moves(G) /\ Polls
              /\ Continues(G, H) /\ Safe(G)
              => Safe(H)'
  (* What a peer holds after a step it held before, or it is in the term and   *)
  (* has it in its log.                                                        *)
<1>HeldBefore.
      ASSUME Sound, Sound', NEW G, Chronicle(G), Moves(G),
             NEW H, Continues(G, H),
             NEW k \in Server, NEW t \in Nat, NEW n \in Nat, Held(H, k, t, n)'
      PROVE  \/ Held(G, k, t, n)
             \/ currentTerm'[k] = t /\ Agrees(log'[k], H[t], n + 1)
  <2> USE <1>HeldBefore
  <2>1. n < Len(H[t]) /\ Acked(k, t, n)'
      BY Zenon DEF Held
  <2>2. /\ G[t] \in Seq(LogEntry) /\ Len(G[t]) \in Nat
        /\ H[t] \in Seq(LogEntry) /\ Len(H[t]) \in Nat /\ Begins(G[t], H[t])
        /\ log'[k] \in Seq(LogEntry)
      BY StepTypes, Zenon
  <2>3. ASSUME state'[k] = Leader, currentTerm'[k] = t
        PROVE  Agrees(log'[k], H[t], n + 1)
      <3>1. log'[k] = H[t]
          BY <2>3, Zenon DEF Continues, Chronicle
      <3>2. n + 1 <= Len(H[t])
          BY <2>1, <2>2
      <3> QED BY <3>1, <3>2, Zenon DEF Agrees
  <2>4. CASE HasLed(k, t)'
      <3>1. PICK m \in aeReqs' : m.src = k /\ m.term = t
          BY <2>4, Zenon DEF HasLed
      <3>2. CASE m \notin aeReqs
          BY <2>3, <3>1, <3>2, Zenon DEF Moves, PeerMoves, CallsMove
      <3>3. CASE m \in aeReqs /\ H[t] = G[t]
          BY <2>1, <3>1, <3>3, Zenon DEF Held, Acked, HasLed
      <3>4. CASE H[t] # G[t]
          <4>1. PICK i \in Server : state'[i] = Leader /\ currentTerm'[i] = t
              BY <3>4, Zenon DEF Continues, Tended
          <4>2. PICK q \in aeReqs' : q.src = i /\ q.term = t
              BY <4>1, Zenon DEF Sound, ElectionInv, LeaderCalls
          <4>3. i = k
              BY <3>1, <4>2, Zenon DEF Sound, ElectionSafety
          <4> QED BY <2>3, <4>1, <4>3, Zenon
      <3> QED BY <3>2, <3>3, <3>4, Zenon
  <2>5. ASSUME NEW r \in aeReps', r.src = k, r.argsTerm = t, r.success, n <= r.match
        PROVE  \/ Held(G, k, t, n)
               \/ currentTerm'[k] = t /\ Agrees(log'[k], H[t], n + 1)
      <3>1. CASE r \in aeReps
          <4>1. r.match \in Nat /\ r.match < Len(G[t])
              BY <2>5, <3>1, AppendTypes, Zenon DEF Sound, Chronicle, Within
          <4>2. n < Len(G[t])
              BY <2>2, <2>5, <4>1
          <4> QED BY <2>5, <3>1, <4>2, Zenon DEF Held, Acked
      <3>2. CASE r \notin aeReps
          <4>1. PICK m \in aeReqs : /\ Takes(G, m, k)
                                    /\ r.argsTerm = m.term /\ r.match = Reach(m)
              BY <2>5, <3>2, Zenon DEF Moves, PeerMoves, CallsMove
          <4>2. /\ m.term = t /\ currentTerm'[k] = t
                /\ Len(log'[k]) = Reach(m) + 1 /\ Begins(log'[k], G[t])
              BY <2>5, <4>1, Zenon DEF Takes
          <4>3. n + 1 <= Len(log'[k])
              <5>1. Reach(m) \in Nat
                  BY AppendTypes, Zenon DEF Sound
              <5> QED BY <2>5, <4>1, <4>2, <5>1
          <4>4. Agrees(log'[k], G[t], n + 1)
              BY <2>2, <4>2, <4>3, BeginsAgrees
          <4> QED BY <2>2, <4>2, <4>4, AgreesGrow
      <3> QED BY <3>1, <3>2, Zenon
  <2> QED BY <2>1, <2>4, <2>5, Zenon DEF Acked

  \* A leader that was without an entry of another term stays without it.
<1>MissesStays.
      ASSUME Sound, Sound', NEW G, Chronicle(G), NEW H, Continues(G, H),
             aeReqs \subseteq aeReqs',
             NEW w \in Nat, NEW t \in Nat, NEW n \in Nat, w # t,
             n < Len(G[t]), OwnSlot(G, t, n), Misses(G, w, t, n)
      PROVE  Misses(H, w, t, n)'
  <2> USE <1>MissesStays
  <2>1. /\ G[t] \in Seq(LogEntry) /\ Len(G[t]) \in Nat
        /\ H[t] \in Seq(LogEntry) /\ Len(H[t]) \in Nat /\ Begins(G[t], H[t])
        /\ G[w] \in Seq(LogEntry) /\ Len(G[w]) \in Nat
        /\ H[w] \in Seq(LogEntry) /\ Len(H[w]) \in Nat /\ Begins(G[w], H[w])
      BY StepTypes, Zenon
  <2>2. Led(w) /\ Led(w)' /\ ~ Agrees(G[w], G[t], n + 1)
      BY Zenon DEF Misses, Led
  <2>3. \A k \in (Len(G[w]) + 1) .. Len(H[w]) : H[w][k].term = w
      BY <2>2, Zenon DEF Continues, Grows
  <2> SUFFICES ASSUME Agrees(H[w], H[t], n + 1) PROVE FALSE
      BY <2>2, Zenon DEF Misses
  <2>4. /\ n + 1 <= Len(H[w]) /\ n + 1 \in 1 .. Len(G[t])
        /\ \A x \in 1 .. (n + 1) : H[w][x] = H[t][x]
      BY <2>1 DEF Agrees
  <2>5. H[w][n + 1].term = t
      <3>1. H[t][n + 1] = G[t][n + 1]
          BY <2>1, <2>4, Zenon DEF Begins
      <3>2. H[w][n + 1] = H[t][n + 1]
          BY <2>4
      <3> QED BY <3>1, <3>2, Zenon DEF OwnSlot
  <2>6. n + 1 <= Len(G[w])
      BY <2>1, <2>3, <2>4, <2>5
  <2>7. ASSUME NEW x \in 1 .. (n + 1) PROVE G[w][x] = G[t][x]
      <3>1. x \in 1 .. Len(G[w]) /\ x \in 1 .. Len(G[t])
          BY <2>1, <2>4, <2>6
      <3>2. G[w][x] = H[w][x] /\ G[t][x] = H[t][x]
          BY <2>1, <3>1, Zenon DEF Begins
      <3> QED BY <2>4, <3>2, Zenon
  <2>8. Agrees(G[w], G[t], n + 1)
      BY <2>1, <2>4, <2>6, <2>7 DEF Agrees
  <2> QED BY <2>2, <2>8, Zenon

  \* The order in which calls were handled.
<1>InOrderStays.
      ASSUME Sound, Sound', NEW G, Chronicle(G), Moves(G), NEW H, Continues(G, H),
             InOrder
      PROVE  InOrder'
  <2> USE <1>InOrderStays
  <2>1. \A k \in Server : handled'[k].term <= currentTerm'[k]
      BY Zenon DEF Moves, PeerMoves, CallsMove
  <2>2. ASSUME NEW r \in aeReps', r.success
        PROVE  NotAfter([term |-> r.argsTerm, reach |-> r.match], handled'[r.src])
      <3>1. CASE r \notin aeReps
          <4>1. PICK m \in aeReqs : /\ r.argsTerm = m.term /\ r.match = Reach(m)
                                    /\ handled'[r.src] = Stamp(m)
              BY <2>2, <3>1 DEF Moves, PeerMoves, CallsMove, Takes
          <4>2. m.term \in Nat /\ Reach(m) \in Nat
              BY AppendTypes, Zenon DEF Sound
          <4> QED BY <4>1, <4>2 DEF NotAfter, Stamp
      <3>2. CASE r \in aeReps
          <4>1. r.src \in Server /\ r.argsTerm \in Nat /\ r.match \in Nat
              BY <3>2, AppendTypes, Zenon DEF Sound
          <4>2. NotAfter([term |-> r.argsTerm, reach |-> r.match], handled[r.src])
              BY <2>2, <3>2, Zenon DEF InOrder
          <4>3. NotAfter(handled[r.src], handled'[r.src])
              BY <4>1, Zenon DEF Moves, PeerMoves, CallsMove
          <4>4. /\ handled[r.src].term \in Nat /\ handled[r.src].reach \in Nat
                /\ handled'[r.src].term \in Nat /\ handled'[r.src].reach \in Nat
              BY <4>1, StepTypes, Zenon
          <4> QED BY <4>1, <4>2, <4>3, <4>4 DEF NotAfter
      <3> QED BY <3>1, <3>2, Zenon
  <2> QED BY <2>1, <2>2, Zenon DEF InOrder

  \* A peer holds nothing of a term that it has not reached.
<1>HeldTerm.
      ASSUME Sound, InOrder, NEW k \in Server, NEW t \in Nat, NEW n \in Nat,
             Acked(k, t, n)
      PROVE  t <= currentTerm[k]
  <2> USE <1>HeldTerm
  <2>1. CASE HasLed(k, t)
      BY <2>1, Zenon DEF HasLed, Sound, ElectionInv, TermsReached
  <2>2. ASSUME NEW r \in aeReps, r.src = k, r.argsTerm = t, r.success
        PROVE  t <= currentTerm[k]
      <3>1. t <= handled[k].term
          <4>1. NotAfter([term |-> t, reach |-> r.match], handled[k])
              BY <2>2, Zenon DEF InOrder
          <4>2. handled[k].term \in Nat
              BY Zenon DEF Sound, TypeInv, TypeOK
          <4> QED BY <4>1, <4>2 DEF NotAfter
      <3>2. handled[k].term <= currentTerm[k]
          BY Zenon DEF InOrder
      <3>3. handled[k].term \in Nat /\ currentTerm[k] \in Nat
          BY Zenon DEF Sound, TypeInv, TypeOK
      <3> QED BY <3>1, <3>2, <3>3
  <2> QED BY <2>1, <2>2, Zenon DEF Acked

  (* What a peer holds and has in its log stays there, unless it accepts a     *)
  (* call of a leader without it.                                              *)
<1>HeldStays.
      ASSUME Sound, Sound', NEW G, Chronicle(G), Moves(G), NEW H, Continues(G, H),
             InOrder, Dated(G),
             NEW k \in Server, NEW t \in Nat, NEW n \in Nat, Held(G, k, t, n),
             Agrees(log[k], G[t], n + 1)
      PROVE  \/ Agrees(log'[k], H[t], n + 1)
             \/ OwnSlot(G, t, n) /\ \E w \in Nat : /\ t < w /\ w = currentTerm'[k]
                                                   /\ Misses(G, w, t, n)
             \/ ~ OwnSlot(G, t, n) /\ t < currentTerm'[k]
  <2> USE <1>HeldStays
  <2>1. /\ G[t] \in Seq(LogEntry) /\ Len(G[t]) \in Nat
        /\ H[t] \in Seq(LogEntry) /\ Len(H[t]) \in Nat /\ Begins(G[t], H[t])
        /\ log[k] \in Seq(LogEntry) /\ log'[k] \in Seq(LogEntry)
        /\ currentTerm[k] \in Nat
      BY StepTypes, Zenon
  <2>2. CASE Begins(log[k], log'[k])
      BY <2>1, <2>2, AgreesStays
  <2>3. ASSUME NEW m \in aeReqs, Takes(G, m, k)
        PROVE  \/ Agrees(log'[k], H[t], n + 1)
               \/ OwnSlot(G, t, n) /\ \E w \in Nat : /\ t < w /\ w = currentTerm'[k]
                                                     /\ Misses(G, w, t, n)
               \/ ~ OwnSlot(G, t, n) /\ t < currentTerm'[k]
      <3>1. /\ currentTerm[k] <= m.term /\ currentTerm'[k] = m.term
            /\ Len(log'[k]) = Reach(m) + 1 /\ Begins(log'[k], G[m.term])
          BY <2>3, Zenon DEF Takes
      <3>2. m.term \in Nat /\ Reach(m) \in Nat /\ Led(m.term)
          BY AppendTypes, Zenon DEF Sound, Led
      <3>3. G[m.term] \in Seq(LogEntry) /\ Len(G[m.term]) \in Nat
          BY <3>2, StepTypes, Zenon
      <3>4. t <= currentTerm[k]
          BY <1>HeldTerm, Zenon DEF Held
      <3>5. CASE t = m.term
          <4>1. n <= Reach(m)
              BY <2>3, <3>5, TakesReach, Zenon DEF Held
          <4>2. n + 1 <= Len(log'[k])
              BY <3>1, <3>2, <4>1
          <4>3. Agrees(log'[k], G[t], n + 1)
              BY <2>1, <3>1, <3>5, <4>2, BeginsAgrees
          <4> QED BY <2>1, <4>3, AgreesGrow
      <3>6. CASE t < m.term /\ OwnSlot(G, t, n) /\ Agrees(G[m.term], G[t], n + 1)
          <4>1. n + 1 \in 1 .. Len(G[m.term])
              BY <3>3, <3>6 DEF Agrees
          <4>2. G[m.term][n + 1].term = t
              BY <3>6 DEF Agrees, OwnSlot
          <4>3. n + 1 <= Reach(m) + 1
              BY <3>2, <3>6, <4>1, <4>2 DEF Dated
          <4>4. Agrees(log'[k], G[m.term], n + 1)
              BY <2>1, <3>1, <3>3, <4>3, BeginsAgrees
          <4>5. Agrees(log'[k], G[t], n + 1)
              BY <3>6, <4>4, AgreesThrough
          <4> QED BY <2>1, <4>5, AgreesGrow
      <3>7. CASE t < m.term /\ OwnSlot(G, t, n) /\ ~ Agrees(G[m.term], G[t], n + 1)
          BY <3>1, <3>2, <3>7, Zenon DEF Misses
      <3>8. CASE t < m.term /\ ~ OwnSlot(G, t, n)
          BY <3>1, <3>8, Zenon
      <3>9. t = m.term \/ t < m.term
          BY <2>1, <3>1, <3>2, <3>4
      <3> QED BY <3>5, <3>6, <3>7, <3>8, <3>9, Zenon
  <2> QED BY <2>2, <2>3, Zenon DEF Moves, PeerMoves, CallsMove

<1>KeptStays.
      ASSUME Sound, Sound', NEW G, Chronicle(G), Moves(G), NEW H, Continues(G, H),
             InOrder, Dated(G), Kept(G)
      PROVE  Kept(H)'
  <2> USE <1>KeptStays
  <2> SUFFICES ASSUME NEW k \in Server, NEW t \in Nat, NEW n \in Nat,
                      Held(H, k, t, n)', ~ Agrees(log'[k], H[t], n + 1)
               PROVE  /\ t # currentTerm'[k]
                      /\ OwnSlot(H, t, n) =>
                             \E w \in Nat : /\ t < w /\ w <= currentTerm'[k]
                                            /\ Misses(H, w, t, n)'
      BY Zenon DEF Kept
  <2>1. Held(G, k, t, n) /\ n < Len(G[t]) /\ Acked(k, t, n)
      BY <1>HeldBefore, Zenon DEF Held
  <2>2. /\ currentTerm[k] \in Nat /\ currentTerm'[k] \in Nat
        /\ currentTerm[k] <= currentTerm'[k]
      BY StepTypes, Zenon DEF Moves, PeerMoves, CallsMove
  <2>3. t <= currentTerm[k]
      BY <2>1, <1>HeldTerm, Zenon
  <2>4. CASE Agrees(log[k], G[t], n + 1)
      <3>1. \/ OwnSlot(G, t, n) /\ \E w \in Nat : /\ t < w /\ w = currentTerm'[k]
                                                  /\ Misses(G, w, t, n)
            \/ ~ OwnSlot(G, t, n) /\ t < currentTerm'[k]
          BY <2>1, <2>4, <1>HeldStays, Zenon
      <3>2. OwnSlot(H, t, n) <=> OwnSlot(G, t, n)
          BY <2>1, OwnSlotStays, Zenon
      <3>3. CASE ~ OwnSlot(G, t, n) /\ t < currentTerm'[k]
          BY <2>2, <3>2, <3>3
      <3>4. ASSUME OwnSlot(G, t, n), NEW w \in Nat, t < w, w = currentTerm'[k],
                   Misses(G, w, t, n)
            PROVE  t # currentTerm'[k] /\ Misses(H, w, t, n)'
          <4>1. aeReqs \subseteq aeReqs' /\ w # t
              BY <3>4 DEF Moves, PeerMoves, CallsMove
          <4> QED BY <2>1, <3>4, <4>1, <1>MissesStays, Zenon
      <3> QED BY <2>2, <3>1, <3>3, <3>4
  <2>5. CASE ~ Agrees(log[k], G[t], n + 1)
      <3>1. t # currentTerm[k]
          BY <2>1, <2>5, Zenon DEF Kept
      <3>2. ASSUME OwnSlot(H, t, n)
            PROVE  \E w \in Nat : /\ t < w /\ w <= currentTerm'[k]
                                  /\ Misses(H, w, t, n)'
          <4>1. OwnSlot(G, t, n)
              BY <2>1, <3>2, OwnSlotStays, Zenon
          <4>2. PICK w \in Nat : t < w /\ w <= currentTerm[k] /\ Misses(G, w, t, n)
              BY <2>1, <2>5, <4>1, Zenon DEF Kept
          <4>3. aeReqs \subseteq aeReqs' /\ w # t
              BY <4>2 DEF Moves, PeerMoves, CallsMove
          <4>4. Misses(H, w, t, n)'
              BY <2>1, <4>1, <4>2, <4>3, <1>MissesStays, Zenon
          <4> QED BY <2>2, <4>2, <4>4
      <3>3. t # currentTerm'[k]
          BY <2>2, <2>3, <3>1
      <3> QED BY <3>2, <3>3, Zenon
  <2> QED BY <2>4, <2>5, Zenon

<1>OrderedGrow.
      ASSUME NEW a \in Seq(LogEntry), NEW b \in Seq(LogEntry), NEW t \in Nat,
             Ordered(a), TermsUpTo(a, t), Begins(a, b),
             \A k \in (Len(a) + 1) .. Len(b) : b[k].term = t
      PROVE  Ordered(b) /\ TermsUpTo(b, t)
  <2> USE <1>OrderedGrow
  <2>1. Len(a) \in Nat /\ Len(b) \in Nat /\ Len(a) <= Len(b)
      BY DEF Begins
  <2>2. ASSUME NEW k \in 1 .. Len(b)
        PROVE  /\ k \in 1 .. Len(a) => b[k].term = a[k].term
               /\ k \notin 1 .. Len(a) => b[k].term = t
               /\ b[k].term <= t
      <3>1. CASE k \in 1 .. Len(a)
          BY <3>1, Zenon DEF Begins, TermsUpTo
      <3>2. CASE k \notin 1 .. Len(a)
          <4>1. k \in (Len(a) + 1) .. Len(b)
              BY <2>1, <3>2
          <4> QED BY <3>2, <4>1
      <3> QED BY <3>1, <3>2, Zenon
  <2>3. ASSUME NEW x \in 1 .. Len(b), NEW y \in 1 .. Len(b), x <= y
        PROVE  b[x].term <= b[y].term
      <3>1. CASE y \in 1 .. Len(a)
          <4>1. x \in 1 .. Len(a)
              BY <2>1, <2>3, <3>1
          <4> QED BY <2>2, <2>3, <3>1, <4>1, Zenon DEF Ordered
      <3>2. CASE y \notin 1 .. Len(a)
          BY <2>2, <3>2, Zenon
      <3> QED BY <3>1, <3>2, Zenon
  <2> QED BY <2>2, <2>3, Zenon DEF Ordered, TermsUpTo

<1>OrderedShrink.
      ASSUME NEW a \in Seq(LogEntry), NEW b \in Seq(LogEntry), NEW t \in Nat,
             TermsUpTo(b, t), Begins(a, b)
      PROVE  TermsUpTo(a, t)
  <2> USE <1>OrderedShrink
  <2>1. Len(a) \in Nat /\ Len(b) \in Nat
      OBVIOUS
  <2> QED BY <2>1 DEF TermsUpTo, Begins

<1>TermsLater.
      ASSUME NEW a \in Seq(LogEntry), NEW t \in Nat, NEW w \in Nat,
             TermsUpTo(a, t), t <= w
      PROVE  TermsUpTo(a, w)
  <2> USE <1>TermsLater
  <2> SUFFICES ASSUME NEW k \in 1 .. Len(a) PROVE a[k].term <= w
      BY Zenon DEF TermsUpTo
  <2>1. a[k].term \in Nat /\ a[k].term <= t
      BY EntryTerm, Zenon DEF TermsUpTo
  <2> QED BY <2>1

  \* A rooted log is ordered because the logs of leaders are.
<1>RootedOrdered.
      ASSUME NEW G, Typed(G), \A t \in Nat : Ordered(G[t]),
             NEW a \in Seq(LogEntry), Rooted(a, G)
      PROVE  Ordered(a)
  <2> USE <1>RootedOrdered
  <2> SUFFICES ASSUME NEW x \in 1 .. Len(a), NEW y \in 1 .. Len(a), x <= y
               PROVE  a[x].term <= a[y].term
      BY Zenon DEF Ordered
  <2> DEFINE t == a[y].term
  <2>1. t \in Nat
      BY EntryTerm, Zenon
  <2>2. Agrees(a, G[t], y)
      BY Zenon DEF Rooted
  <2>3. G[t] \in Seq(LogEntry) /\ Len(G[t]) \in Nat /\ Ordered(G[t])
      BY <2>1 DEF Typed
  <2>4. x \in 1 .. y /\ y \in 1 .. y /\ x \in 1 .. Len(G[t]) /\ y \in 1 .. Len(G[t])
      BY <2>2, <2>3 DEF Agrees
  <2>5. a[x] = G[t][x] /\ a[y] = G[t][y]
      BY <2>2, <2>4, Zenon DEF Agrees
  <2>6. G[t][x].term <= G[t][y].term
      BY <2>3, <2>4, Zenon DEF Ordered
  <2> QED BY <2>5, <2>6, Zenon

<1>LogOrdered.
      ASSUME Sound, NEW G, Chronicle(G), Dated(G), NEW i \in Server
      PROVE  Ordered(log[i]) /\ TermsUpTo(log[i], currentTerm[i])
  <2> USE <1>LogOrdered
  <2>1. /\ log[i] \in Seq(LogEntry) /\ persisted[i].log \in Seq(LogEntry)
        /\ currentTerm[i] \in Nat
      BY LogTypes, Zenon DEF Sound
  <2>2. Begins(log[i], persisted[i].log)
      BY DiskBegins, Zenon DEF Sound, LogInv
  <2>3. TermsUpTo(log[i], currentTerm[i])
      BY <2>1, <2>2, <1>OrderedShrink, Zenon DEF Dated
  <2>4. Ordered(log[i])
      BY <2>1, <1>RootedOrdered, Zenon DEF Chronicle, Dated
  <2> QED BY <2>3, <2>4, Zenon

  \* A term that is newly led is led with the log that won.
<1>NewlyLed.
      ASSUME Sound, Sound', NEW G, Chronicle(G), Polls, NEW H, Continues(G, H),
             NEW i \in Server, state'[i] = Leader, ~ Led(currentTerm'[i])
      PROVE  Wins(i) /\ H[currentTerm'[i]] = log[i]
  <2> USE <1>NewlyLed
  <2>1. ~ (state[i] = Leader /\ currentTerm'[i] = currentTerm[i])
      BY DEF Sound, ElectionInv, LeaderCalls, Led
  <2>2. Wins(i)
      BY <2>1, Zenon DEF Polls, PeerPolls, VotesMove
  <2>3. log'[i] = H[currentTerm'[i]]
      BY Zenon DEF Continues, Chronicle
  <2> QED BY <2>2, <2>3, Zenon DEF Wins

<1>LeadersOrdered.
      ASSUME Sound, Sound', NEW G, Chronicle(G), Polls, NEW H, Continues(G, H),
             Dated(G), NEW t \in Nat
      PROVE  Ordered(H[t]) /\ TermsUpTo(H[t], t)
  <2> USE <1>LeadersOrdered
  <2>1. /\ G[t] \in Seq(LogEntry) /\ H[t] \in Seq(LogEntry) /\ Begins(G[t], H[t])
        /\ Ordered(G[t]) /\ TermsUpTo(G[t], t)
      BY StepTypes, Zenon DEF Dated
  <2>2. CASE Led(t)
      <3>1. \A k \in (Len(G[t]) + 1) .. Len(H[t]) : H[t][k].term = t
          BY <2>2, Zenon DEF Continues, Grows
      <3> QED BY <2>1, <3>1, <1>OrderedGrow, Zenon
  <2>3. CASE H[t] = G[t]
      BY <2>1, <2>3, Zenon
  <2>4. ASSUME ~ Led(t), NEW i \in Server, state'[i] = Leader, currentTerm'[i] = t
        PROVE  Ordered(H[t]) /\ TermsUpTo(H[t], t)
      <3>1. H[t] = log[i] /\ currentTerm[i] = t
          BY <2>4, <1>NewlyLed, Zenon DEF Wins
      <3> QED BY <3>1, <1>LogOrdered, Zenon
  <2> QED BY <2>2, <2>3, <2>4, Zenon DEF Continues, Tended

<1>DatedStays.
      ASSUME Sound, Sound', NEW G, Chronicle(G), Moves(G), Polls,
             NEW H, Continues(G, H), Dated(G)
      PROVE  Dated(H)'
  <2> USE <1>DatedStays
  <2>1. \A t \in Nat : Ordered(H[t]) /\ TermsUpTo(H[t], t)
      BY <1>LeadersOrdered, Zenon
  <2>2. ASSUME NEW i \in Server PROVE TermsUpTo(persisted'[i].log, currentTerm'[i])
      <3>1. /\ currentTerm[i] \in Nat /\ currentTerm'[i] \in Nat
            /\ currentTerm[i] <= currentTerm'[i] /\ log'[i] \in Seq(LogEntry)
          BY StepTypes, Zenon DEF Moves, PeerMoves, CallsMove
      <3>2. CASE persisted'[i].log \in {persisted[i].log, log[i]}
          <4>1. persisted[i].log \in Seq(LogEntry) /\ log[i] \in Seq(LogEntry)
              BY LogTypes, Zenon DEF Sound
          <4>2. /\ TermsUpTo(persisted[i].log, currentTerm[i])
                /\ TermsUpTo(log[i], currentTerm[i])
              BY <1>LogOrdered, Zenon DEF Dated
          <4> QED BY <3>1, <3>2, <4>1, <4>2, <1>TermsLater, Zenon
      <3>3. CASE persisted'[i].log = log'[i] /\ state'[i] = Leader
          <4>1. log'[i] = H[currentTerm'[i]]
              BY <3>3, Zenon DEF Continues, Chronicle
          <4> QED BY <2>1, <3>1, <3>3, <4>1, Zenon
      <3>4. ASSUME persisted'[i].log = log'[i], NEW m \in aeReqs, Takes(G, m, i)
            PROVE  TermsUpTo(persisted'[i].log, currentTerm'[i])
          <4>1. Begins(log'[i], G[m.term]) /\ currentTerm'[i] = m.term
              BY <3>4, Zenon DEF Takes
          <4>2. G[m.term] \in Seq(LogEntry) /\ TermsUpTo(G[m.term], m.term)
              BY <3>1, <4>1, StepTypes, Zenon DEF Dated
          <4> QED BY <3>1, <3>4, <4>1, <4>2, <1>OrderedShrink, Zenon
      <3> QED BY <3>2, <3>3, <3>4, Zenon DEF Moves, PeerMoves, CallsMove
  <2>3. ASSUME NEW m \in aeReqs', NEW k \in 1 .. Len(H[m.term]),
               H[m.term][k].term # m.term
        PROVE  k <= Reach(m) + 1
      <3>1. m.term \in Nat /\ m.src \in Server
          BY StepCallTypes, Zenon
      <3>2. /\ Len(G[m.term]) \in Nat /\ Len(H[m.term]) \in Nat
            /\ Begins(G[m.term], H[m.term])
          BY <3>1, StepTypes, Zenon
      <3>3. CASE m \in aeReqs
          <4>1. \A x \in (Len(G[m.term]) + 1) .. Len(H[m.term]) :
                    H[m.term][x].term = m.term
              BY <3>1, <3>3, Zenon DEF Continues, Grows, Led
          <4>2. k \in 1 .. Len(G[m.term])
              BY <2>3, <3>2, <4>1
          <4>3. G[m.term][k].term # m.term
              BY <2>3, <3>2, <4>2, Zenon DEF Begins
          <4> QED BY <3>3, <4>2, <4>3, Zenon DEF Dated
      <3>4. CASE m \notin aeReqs
          <4>1. /\ state'[m.src] = Leader /\ m.term = currentTerm'[m.src]
                /\ Reach(m) = lastLogIndex(log'[m.src])
              BY <3>4, Zenon DEF Moves, PeerMoves, CallsMove
          <4>2. log'[m.src] = H[m.term]
              BY <3>1, <4>1, Zenon DEF Continues, Chronicle
          <4> QED BY <3>2, <4>1, <4>2 DEF lastLogIndex
      <3> QED BY <3>3, <3>4, Zenon
  <2> QED BY <2>1, <2>2, <2>3, Zenon DEF Dated

<1>CandidatesStay.
      ASSUME Sound, Sound', Polls, Candidates
      PROVE  Candidates'
  <2> USE <1>CandidatesStay
  <2> SUFFICES ASSUME NEW m \in rvReqs', state'[m.src] = Candidate,
                      currentTerm'[m.src] = m.term
               PROVE  /\ m.lastLogIndex = lastLogIndex(log'[m.src])
                      /\ m.lastLogTerm = lastLogTerm(log'[m.src])
      BY Zenon DEF Candidates
  <2>1. CASE m \notin rvReqs
      BY <2>1, Zenon DEF Polls, PeerPolls, VotesMove
  <2>2. CASE m \in rvReqs
      <3>1. m.src \in Server /\ m.term \in Nat /\ currentTerm[m.src] \in Nat
          BY <2>2, ElectionTypes, Zenon DEF Sound
      <3>2. m.term <= currentTerm[m.src]
          BY <2>2, Zenon DEF Sound, ElectionInv, TermsReached
      <3>3. /\ log'[m.src] = log[m.src]
            /\ \/ state[m.src] = Candidate /\ currentTerm'[m.src] = currentTerm[m.src]
               \/ currentTerm'[m.src] > currentTerm[m.src]
          BY <3>1, Zenon DEF Polls, PeerPolls, VotesMove
      <3>4. state[m.src] = Candidate /\ currentTerm[m.src] = m.term
          BY <3>1, <3>2, <3>3
      <3> QED BY <2>2, <3>3, <3>4, Zenon DEF Candidates
  <2> QED BY <2>1, <2>2, Zenon

  \* What a peer holds of an earlier term than its own it held before the step.
<1>HeldEarlier.
      ASSUME Sound, Sound', NEW G, Chronicle(G), Moves(G), NEW H, Continues(G, H),
             NEW k \in Server, NEW t \in Nat, NEW n \in Nat,
             Held(H, k, t, n)', OwnSlot(H, t, n), t < currentTerm'[k]
      PROVE  Held(G, k, t, n) /\ OwnSlot(G, t, n) /\ n < Len(G[t])
  <2> USE <1>HeldEarlier
  <2>1. currentTerm'[k] \in Nat
      BY StepTypes, Zenon
  <2>2. Held(G, k, t, n)
      BY <2>1, <1>HeldBefore
  <2>3. n < Len(G[t])
      BY <2>2, Zenon DEF Held
  <2> QED BY <2>2, <2>3, OwnSlotStays, Zenon

  \* The log of a voter is not newer than that of the candidate it votes for.
<1>VoterBehind.
      ASSUME Sound, NEW G, Chronicle(G), Dated(G), NEW k \in Server,
             NEW t \in Nat, NEW n \in Nat, OwnSlot(G, t, n),
             Agrees(log[k], G[t], n + 1),
             NEW ci \in Nat, NEW ct \in Nat, isLogUpToDate(log[k], ci, ct)
      PROVE  ct > t \/ (ct = t /\ ci >= n)
  <2> USE <1>VoterBehind
  <2>1. log[k] \in Seq(LogEntry) /\ Len(log[k]) \in Nat /\ Len(log[k]) >= 1
      BY LogTypes, Zenon DEF Sound
  <2>2. /\ lastLogTerm(log[k]) = log[k][Len(log[k])].term
        /\ lastLogIndex(log[k]) = Len(log[k]) - 1
      BY <2>1 DEF lastLogTerm, lastLogIndex, At
  <2>3. /\ n + 1 \in 1 .. Len(log[k]) /\ Len(log[k]) \in 1 .. Len(log[k])
        /\ n + 1 <= Len(log[k])
      BY <2>1 DEF Agrees
  <2>4. log[k][n + 1].term = t
      BY <2>3 DEF Agrees, OwnSlot
  <2>5. t <= log[k][Len(log[k])].term
      BY <2>3, <2>4, <1>LogOrdered, Zenon DEF Ordered
  <2>6. log[k][Len(log[k])].term \in Nat
      BY <2>1, <2>3, EntryTerm, Zenon
  <2> QED BY <2>1, <2>2, <2>3, <2>5, <2>6 DEF isLogUpToDate

<1>BallotStays.
      ASSUME Sound, Sound', NEW G, Chronicle(G), Moves(G), Polls,
             NEW H, Continues(G, H), Dated(G), Kept(G), Ballot(G)
      PROVE  Ballot(H)'
  <2> USE <1>BallotStays
  <2> SUFFICES ASSUME NEW r \in rvReps', r.voteGranted
               PROVE  /\ r.argsTerm <= currentTerm'[r.src]
                      /\ \E m \in rvReqs' : /\ m.src = r.dst /\ m.term = r.argsTerm
                                            /\ Informed(H, r, m)'
      BY Zenon DEF Ballot
  <2>1. /\ r.src \in Server /\ r.argsTerm \in Nat
        /\ currentTerm[r.src] \in Nat /\ currentTerm'[r.src] \in Nat
        /\ currentTerm[r.src] <= currentTerm'[r.src]
      BY StepCallTypes, StepTypes, Zenon DEF Moves, PeerMoves, CallsMove
  <2>2. aeReqs \subseteq aeReqs' /\ rvReqs \subseteq rvReqs'
      BY Zenon DEF Moves, PeerMoves, CallsMove, Polls, PeerPolls, VotesMove
  <2>3. CASE r \in rvReps
      <3>1. r.argsTerm <= currentTerm[r.src]
          BY <2>3, Zenon DEF Ballot
      <3>2. PICK m \in rvReqs : /\ m.src = r.dst /\ m.term = r.argsTerm
                                /\ Informed(G, r, m)
          BY <2>3, Zenon DEF Ballot
      <3>3. r.argsTerm <= currentTerm'[r.src]
          BY <2>1, <3>1
      <3>4. ASSUME NEW t \in Nat, NEW n \in Nat, t < r.argsTerm,
                   Held(H, r.src, t, n)', OwnSlot(H, t, n)
            PROVE  \/ m.lastLogTerm > t
                   \/ m.lastLogTerm = t /\ m.lastLogIndex >= n
                   \/ \E w \in Nat : /\ t < w /\ w <= r.argsTerm
                                     /\ Misses(H, w, t, n)'
          <4>1. t < currentTerm'[r.src]
              BY <2>1, <3>3, <3>4
          <4>2. Held(G, r.src, t, n) /\ OwnSlot(G, t, n) /\ n < Len(G[t])
              BY <2>1, <3>4, <4>1, <1>HeldEarlier, Zenon
          <4>3. \/ m.lastLogTerm > t
                \/ m.lastLogTerm = t /\ m.lastLogIndex >= n
                \/ \E w \in Nat : /\ t < w /\ w <= r.argsTerm
                                  /\ Misses(G, w, t, n)
              BY <3>2, <3>4, <4>2, Zenon DEF Informed
          <4>4. ASSUME NEW w \in Nat, t < w, Misses(G, w, t, n)
                PROVE  Misses(H, w, t, n)'
              BY <2>2, <4>2, <4>4, <1>MissesStays
          <4> QED BY <4>3, <4>4, Zenon
      <3>5. Informed(H, r, m)'
          BY <3>4, Zenon DEF Informed
      <3> QED BY <2>2, <3>2, <3>3, <3>5, Zenon
  <2>4. CASE r \notin rvReps
      <3>1. PICK m \in rvReqs : Grants(r, m)
          BY <2>4, Zenon DEF Polls, PeerPolls, VotesMove
      <3>2. /\ m.src = r.dst /\ m.term = r.argsTerm
            /\ currentTerm[r.src] <= r.argsTerm /\ currentTerm'[r.src] = r.argsTerm
            /\ isLogUpToDate(log[r.src], m.lastLogIndex, m.lastLogTerm)
          BY <3>1, Zenon DEF Grants
      <3>3. m.lastLogIndex \in Nat /\ m.lastLogTerm \in Nat
          BY Zenon DEF Sound, TypeInv, TypeOK, RequestVoteArgs
      <3>4. ASSUME NEW t \in Nat, NEW n \in Nat, t < r.argsTerm,
                   Held(H, r.src, t, n)', OwnSlot(H, t, n)
            PROVE  \/ m.lastLogTerm > t
                   \/ m.lastLogTerm = t /\ m.lastLogIndex >= n
                   \/ \E w \in Nat : /\ t < w /\ w <= r.argsTerm
                                     /\ Misses(H, w, t, n)'
          <4>1. Held(G, r.src, t, n) /\ OwnSlot(G, t, n) /\ n < Len(G[t])
              BY <2>1, <3>2, <3>4, <1>HeldEarlier, Zenon
          <4>2. CASE Agrees(log[r.src], G[t], n + 1)
              BY <2>1, <3>2, <3>3, <4>1, <4>2, <1>VoterBehind, Zenon
          <4>3. ASSUME NEW w \in Nat, t < w, w <= currentTerm[r.src],
                       Misses(G, w, t, n)
                PROVE  w <= r.argsTerm /\ Misses(H, w, t, n)'
              <5>1. w <= r.argsTerm
                  BY <2>1, <3>2, <4>3
              <5> QED BY <2>2, <4>1, <4>3, <5>1, <1>MissesStays
          <4> QED BY <2>1, <4>1, <4>2, <4>3, Zenon DEF Kept
      <3>5. Informed(H, r, m)'
          BY <3>4, Zenon DEF Informed
      <3> QED BY <2>1, <2>2, <3>2, <3>5
  <2> QED BY <2>3, <2>4, Zenon

  (* A log that ends with a later term than t has what the first leader after  *)
  (* t had, or the leader of the term of its end was without it.               *)
<1>LaterEnd.
      ASSUME Sound, NEW G, Chronicle(G), Dated(G), NEW i \in Server,
             NEW t \in Nat, NEW n \in Nat, OwnSlot(G, t, n), n < Len(G[t]),
             lastLogTerm(log[i]) > t, ~ Led(currentTerm[i])
      PROVE  \/ Agrees(log[i], G[t], n + 1)
             \/ \E u \in Nat : t < u /\ u < currentTerm[i] /\ Misses(G, u, t, n)
  <2> USE <1>LaterEnd
  <2> DEFINE lg == log[i]
             e  == Len(lg)
             x  == lg[e].term
  <2>1. lg \in Seq(LogEntry) /\ e \in Nat /\ e >= 1 /\ currentTerm[i] \in Nat
      BY LogTypes, Zenon DEF Sound
  <2>2. e \in 1 .. Len(lg)
      BY <2>1
  <2>3. x \in Nat
      BY <2>1, <2>2, EntryTerm, Zenon
  <2>4. x > t
      BY <2>1 DEF lastLogTerm, lastLogIndex, At
  <2>5. x <= currentTerm[i]
      BY <2>2, <1>LogOrdered, Zenon DEF TermsUpTo
  <2>6. Agrees(lg, G[x], e)
      BY <2>2, Zenon DEF Chronicle, Rooted
  <2> HIDE DEF lg, e, x
  <2>7. G[x] \in Seq(LogEntry) /\ Len(G[x]) \in Nat /\ G[t] \in Seq(LogEntry)
      BY <2>3 DEF Chronicle, Typed
  <2>8. e \in 1 .. Len(G[x]) /\ G[x][e].term = x
      <3>1. e <= Len(G[x]) /\ lg[e] = G[x][e]
          BY <2>1, <2>6 DEF Agrees
      <3> QED BY <2>1, <2>7, <3>1 DEF x
  <2>9. Led(x)
      <3> SUFFICES ASSUME ~ Led(x) PROVE FALSE
          BY Zenon
      <3>1. G[x] = <<Sentinel>>
          BY <2>3, Zenon DEF Chronicle
      <3>2. e = 1
          BY <2>8, <3>1
      <3>3. G[x][e].term = 0
          BY <3>1, <3>2 DEF Sentinel
      <3> QED BY <2>3, <2>4, <2>8, <3>3
  <2>10. x < currentTerm[i]
      BY <2>1, <2>3, <2>5, <2>9
  <2>11. CASE Agrees(G[x], G[t], n + 1)
      <3>1. n + 1 \in 1 .. Len(G[x]) /\ G[x][n + 1].term = t
          BY <2>7, <2>11 DEF Agrees, OwnSlot
      <3>2. ~ (e <= n + 1)
          <4>1. Ordered(G[x])
              BY <2>3, Zenon DEF Dated
          <4> QED BY <2>3, <2>4, <2>8, <3>1, <4>1 DEF Ordered
      <3>3. n + 1 <= e
          BY <2>1, <3>2
      <3>4. Agrees(lg, G[x], n + 1)
          BY <2>1, <2>6, <2>7, <3>3, AgreesShorter
      <3> QED BY <2>11, <3>4, AgreesThrough DEF lg
  <2>12. CASE ~ Agrees(G[x], G[t], n + 1)
      BY <2>3, <2>4, <2>9, <2>10, <2>12, Zenon DEF Misses
  <2> QED BY <2>11, <2>12, Zenon

  \* What a voter held is in the log of the candidate that wins, ...
<1>WinnerHas.
      ASSUME Sound, NEW G, Chronicle(G), Dated(G), Kept(G), Candidates, Ballot(G),
             NEW i \in Server, state[i] = Candidate, ~ Led(currentTerm[i]),
             NEW v \in votes(i)
      PROVE  /\ v \in Server /\ currentTerm[i] <= currentTerm[v]
             /\ \A t, n \in Nat :
                    t < currentTerm[i] /\ Held(G, v, t, n) /\ OwnSlot(G, t, n) =>
                        \/ Agrees(log[i], G[t], n + 1)
                        \/ \E u \in Nat : /\ t < u /\ u < currentTerm[i]
                                          /\ Misses(G, u, t, n)
  <2> USE <1>WinnerHas
  <2>1. currentTerm[i] \in Nat /\ log[i] \in Seq(LogEntry) /\ Len(log[i]) >= 1
      BY LogTypes, Zenon DEF Sound
  <2>2. ASSUME NEW u \in Nat, u <= currentTerm[i], NEW t, NEW n, Misses(G, u, t, n)
        PROVE  u < currentTerm[i]
      <3>1. u # currentTerm[i]
          BY <2>2, Zenon DEF Misses
      <3> QED BY <2>1, <2>2, <3>1
  <2>3. CASE v = i
      BY <2>1, <2>2, <2>3 DEF Kept
  <2>4. ASSUME NEW r \in rvReps, r.src = v, r.dst = i, r.argsTerm = currentTerm[i],
               r.voteGranted
        PROVE  /\ v \in Server /\ currentTerm[i] <= currentTerm[v]
               /\ \A t, n \in Nat :
                      t < currentTerm[i] /\ Held(G, v, t, n) /\ OwnSlot(G, t, n) =>
                          \/ Agrees(log[i], G[t], n + 1)
                          \/ \E u \in Nat : /\ t < u /\ u < currentTerm[i]
                                            /\ Misses(G, u, t, n)
      <3>1. v \in Server
          BY <2>4, ElectionTypes, Zenon DEF Sound
      <3>2. currentTerm[i] <= currentTerm[v]
          BY <2>4, Zenon DEF Ballot
      <3>3. PICK m \in rvReqs : m.src = i /\ m.term = currentTerm[i] /\ Informed(G, r, m)
          BY <2>4, Zenon DEF Ballot
      <3>4. m.lastLogIndex = Len(log[i]) - 1 /\ m.lastLogTerm = lastLogTerm(log[i])
          BY <3>3, Zenon DEF Candidates, lastLogIndex
      <3>5. ASSUME NEW t \in Nat, NEW n \in Nat, t < currentTerm[i],
                   Held(G, v, t, n), OwnSlot(G, t, n)
            PROVE  \/ Agrees(log[i], G[t], n + 1)
                   \/ \E u \in Nat : /\ t < u /\ u < currentTerm[i]
                                     /\ Misses(G, u, t, n)
          <4>1. \/ m.lastLogTerm > t
                \/ m.lastLogTerm = t /\ m.lastLogIndex >= n
                \/ \E w \in Nat : /\ t < w /\ w <= currentTerm[i]
                                  /\ Misses(G, w, t, n)
              BY <2>4, <3>3, <3>5, Zenon DEF Informed
          <4>2. CASE m.lastLogTerm > t
              <5>1. n < Len(G[t])
                  BY <3>5, Zenon DEF Held
              <5> QED BY <3>4, <3>5, <4>2, <5>1, <1>LaterEnd, Zenon
          <4>3. CASE m.lastLogTerm = t /\ m.lastLogIndex >= n
              <5>1. Len(log[i]) \in 1 .. Len(log[i]) /\ n + 1 <= Len(log[i])
                  BY <2>1, <3>4, <4>3
              <5>2. log[i][Len(log[i])].term = t
                  <6>1. Len(log[i]) \in Nat
                      BY <2>1
                  <6>2. (Len(log[i]) - 1) + 1 = Len(log[i])
                      BY <6>1
                  <6>3. lastLogTerm(log[i]) = log[i][Len(log[i])].term
                      BY <6>2, Zenon DEF lastLogTerm, lastLogIndex, At
                  <6> QED BY <3>4, <4>3, <6>3, Zenon
              <5>3. Agrees(log[i], G[t], Len(log[i]))
                  BY <5>1, <5>2, Zenon DEF Chronicle, Rooted
              <5>4. G[t] \in Seq(LogEntry) /\ Len(log[i]) \in Nat
                  BY <2>1 DEF Chronicle, Typed
              <5> QED BY <2>1, <5>1, <5>3, <5>4, AgreesShorter
          <4>4. CASE \E w \in Nat : /\ t < w /\ w <= currentTerm[i]
                                    /\ Misses(G, w, t, n)
              BY <2>2, <4>4, Zenon
          <4> QED BY <4>1, <4>2, <4>3, <4>4, Zenon
      <3> QED BY <3>1, <3>2, <3>5, Zenon
  <2> QED BY <2>3, <2>4, Zenon DEF votes

  \* ... and so in the log of the leader that it becomes.
<1>ElectedStays.
      ASSUME Sound, Sound', NEW G, Chronicle(G), Moves(G), Polls,
             NEW H, Continues(G, H), Dated(G), Kept(G), Candidates, Ballot(G),
             Elected(G)
      PROVE  Elected(H)'
  <2> USE <1>ElectedStays
  <2> SUFFICES ASSUME NEW w \in Nat, Led(w)'
               PROVE  \E Q \in SUBSET Server :
                          IsMajority(Q) /\ \A v \in Q : Heard(H, w, v)'
      BY Zenon DEF Elected
  <2>1. aeReqs \subseteq aeReqs'
      BY Zenon DEF Moves, PeerMoves, CallsMove
  <2>2. G[w] \in Seq(LogEntry) /\ H[w] \in Seq(LogEntry) /\ Begins(G[w], H[w])
      BY StepTypes, Zenon
  <2>3. ASSUME NEW v \in Server, w <= currentTerm'[v],
               NEW lg \in Seq(LogEntry), Begins(lg, H[w]),
               \A t, n \in Nat :
                   t < w /\ Held(G, v, t, n) /\ OwnSlot(G, t, n) =>
                       \/ Agrees(lg, G[t], n + 1)
                       \/ \E u \in Nat : t < u /\ u < w /\ Misses(G, u, t, n)
        PROVE  Heard(H, w, v)'
      <3>1. ASSUME NEW t \in Nat, NEW n \in Nat, t < w, Held(H, v, t, n)',
                   OwnSlot(H, t, n)
            PROVE  \/ Agrees(H[w], H[t], n + 1)
                   \/ \E u \in Nat : t < u /\ u < w /\ Misses(H, u, t, n)'
          <4>1. t < currentTerm'[v]
              <5>1. currentTerm'[v] \in Nat
                  BY StepTypes, Zenon
              <5> QED BY <2>3, <3>1, <5>1
          <4>2. Held(G, v, t, n) /\ OwnSlot(G, t, n) /\ n < Len(G[t])
              BY <3>1, <4>1, <1>HeldEarlier, Zenon
          <4>3. CASE Agrees(lg, G[t], n + 1)
              <5>1. /\ G[t] \in Seq(LogEntry) /\ H[t] \in Seq(LogEntry)
                    /\ Begins(G[t], H[t]) /\ n + 1 \in Nat
                  BY StepTypes
              <5> QED BY <2>2, <2>3, <4>3, <5>1, AgreesStays, Zenon
          <4>4. ASSUME NEW u \in Nat, t < u, u < w, Misses(G, u, t, n)
                PROVE  Misses(H, u, t, n)'
              <5>1. u # t
                  BY <4>4
              <5> QED BY <2>1, <4>2, <4>4, <5>1, <1>MissesStays, Zenon
          <4> QED BY <2>3, <3>1, <4>2, <4>3, <4>4, Zenon
      <3> QED BY <2>3, <3>1, Zenon DEF Heard
  <2>4. CASE Led(w)
      <3>1. PICK Q \in SUBSET Server : IsMajority(Q) /\ \A v \in Q : Heard(G, w, v)
          BY <2>4, Zenon DEF Elected
      <3>2. ASSUME NEW v \in Q PROVE Heard(H, w, v)'
          <4>1. v \in Server /\ Heard(G, w, v)
              BY <3>1, Zenon
          <4>2. w <= currentTerm'[v]
              <5>1. /\ w <= currentTerm[v] /\ currentTerm[v] <= currentTerm'[v]
                    /\ currentTerm[v] \in Nat /\ currentTerm'[v] \in Nat
                  BY <4>1, StepTypes, Zenon
                     DEF Heard, Moves, PeerMoves, CallsMove
              <5> QED BY <5>1
          <4>3. \A t, n \in Nat :
                   t < w /\ Held(G, v, t, n) /\ OwnSlot(G, t, n) =>
                       \/ Agrees(G[w], G[t], n + 1)
                       \/ \E u \in Nat : t < u /\ u < w /\ Misses(G, u, t, n)
              BY <4>1, Zenon DEF Heard
          <4> QED BY <2>2, <2>3, <4>1, <4>2, <4>3, Zenon
      <3> QED BY <3>1, <3>2, Zenon
  <2>5. CASE ~ Led(w)
      <3>1. PICK m \in aeReqs' : m.term = w
          BY Zenon DEF Led
      <3> DEFINE i == m.src
      <3>2. i \in Server /\ state'[i] = Leader /\ currentTerm'[i] = w
          BY <2>5, <3>1, StepCallTypes, Zenon
             DEF Moves, PeerMoves, CallsMove, Led
      <3>3. Wins(i) /\ H[w] = log[i]
          BY <2>5, <3>2, <1>NewlyLed, Zenon
      <3> HIDE DEF i
      <3>4. /\ state[i] = Candidate /\ IsMajority(votes(i)) /\ currentTerm[i] = w
            /\ log[i] \in Seq(LogEntry)
          BY <3>2, <3>3, StepTypes, Zenon DEF Wins
      <3>5. ASSUME NEW v \in votes(i) PROVE v \in Server /\ Heard(H, w, v)'
          <4>1. /\ v \in Server /\ w <= currentTerm[v]
                /\ \A t, n \in Nat :
                       t < w /\ Held(G, v, t, n) /\ OwnSlot(G, t, n) =>
                           \/ Agrees(log[i], G[t], n + 1)
                           \/ \E u \in Nat : t < u /\ u < w /\ Misses(G, u, t, n)
              BY <2>5, <3>2, <3>4, <1>WinnerHas, Zenon
          <4>2. w <= currentTerm'[v]
              <5>1. /\ currentTerm[v] <= currentTerm'[v]
                    /\ currentTerm[v] \in Nat /\ currentTerm'[v] \in Nat
                  BY <4>1, StepTypes, Zenon DEF Moves, PeerMoves, CallsMove
              <5> QED BY <4>1, <5>1
          <4>3. Begins(log[i], H[w])
              BY <2>2, <3>3, BeginsItself, Zenon
          <4> QED BY <2>3, <3>4, <4>1, <4>2, <4>3, Zenon
      <3> QED BY <3>4, <3>5, Zenon
  <2> QED BY <2>4, <2>5, Zenon

<1> SUFFICES ASSUME Sound, Sound', NEW G, Chronicle(G), Moves(G), Polls,
                    NEW H, Continues(G, H), Safe(G)
             PROVE  Safe(H)'
    BY Zenon
<1>1. Dated(H)' /\ InOrder' /\ Kept(H)'
    BY <1>DatedStays, <1>InOrderStays, <1>KeptStays, Zenon DEF Safe
<1>2. Candidates' /\ Ballot(H)' /\ Elected(H)'
    BY <1>CandidatesStay, <1>BallotStays, <1>ElectedStays, Zenon DEF Safe
<1> QED BY <1>1, <1>2, Zenon DEF Safe

-----------------------------------------------------------------------------
(*****************************************************************************)
(* What a step can do to commitIndex, to matchIndex and to what is applied.  *)
(*****************************************************************************)

\* advanceCommitIndex: a majority has the entry, which is of the leader's term.
Advances(k) ==
    /\ state[k] = Leader /\ state'[k] = Leader
    /\ currentTerm'[k] = currentTerm[k] /\ log'[k] = log[k]
    /\ commitIndex'[k] \in (commitIndex[k] + 1) .. lastLogIndex(log[k])
    /\ At(log[k], commitIndex'[k]).term = currentTerm[k]
    /\ IsMajority({k} \cup {j \in Server : matchIndex'[k][j] >= commitIndex'[k]})

\* One round of applier.
Applies(k) ==
    /\ log'[k] = log[k] /\ commitIndex'[k] = commitIndex[k]
    /\ Len(applied[k]) < commitIndex[k] /\ commitIndex[k] < Len(log[k])
    /\ applied'[k] = applied[k] \o
           SubSeq(log[k], Len(applied[k]) + 2, commitIndex[k] + 1)

\* The peer begins afresh.
Forgets(k) == commitIndex'[k] = 0 /\ applied'[k] = << >>

Settles(G, k) ==
    /\ \/ commitIndex'[k] = commitIndex[k]
       \/ Forgets(k)
       \/ Advances(k)
       \/ \E m \in aeReqs : /\ Takes(G, m, k) /\ commitIndex[k] < m.leaderCommit
                            /\ commitIndex'[k] = min(m.leaderCommit, Reach(m))
    /\ applied'[k] = applied[k] \/ Forgets(k) \/ Applies(k)
    /\ \A j \in Server : state'[k] = Leader /\ j # k =>
           \/ matchIndex'[k][j] = -1
           \/ /\ state[k] = Leader /\ currentTerm'[k] = currentTerm[k]
              /\ matchIndex'[k][j] = matchIndex[k][j]
           \/ \E r \in aeReps : /\ r.src = j /\ r.argsTerm = currentTerm'[k]
                                /\ r.success /\ r.match = matchIndex'[k][j]

PeerStep(G, k) == PeerMoves(G, k) /\ PeerPolls(k) /\ Settles(G, k)

StepOf(G) ==
    CallsMove(G) /\ VotesMove /\ \A k \in Server : PeerStep(G, k)

(* A peer leaves its log alone, and follows, begins to stand or stays what   *)
(* it is.                                                                    *)
Rests(k) ==
    /\ UNCHANGED <<log[k], commitIndex[k], applied[k]>>
    /\ \/ handled'[k] = handled[k]
       \/ NotAfter(handled[k], handled'[k]) /\ handled'[k].term <= currentTerm'[k]
    /\ persisted'[k].log \in {persisted[k].log, log[k]}
    /\ \/ state'[k] = Follower /\ currentTerm'[k] >= currentTerm[k]
       \/ state'[k] = Candidate /\ currentTerm'[k] > currentTerm[k]
       \/ UNCHANGED <<state[k], currentTerm[k], matchIndex[k]>>

\* The types of a peer's variables.
LEMMA PeerTypes ==
    ASSUME Sound
    PROVE  /\ currentTerm \in [Server -> Nat]
           /\ state \in [Server -> {Follower, Candidate, Leader}]
           /\ log \in [Server -> Seq(LogEntry)]
           /\ persisted \in [Server -> Image]
           /\ matchIndex \in [Server -> [Server -> Int]]
           /\ commitIndex \in [Server -> Nat]
           /\ applied \in [Server -> Seq(LogEntry)]
           /\ handled \in [Server -> [term : Nat, reach : Nat]]
    BY Zenon DEF Sound, TypeInv, TypeOK

\* Every step is of this form.
LEMMA NextStepOf ==
    \A G : /\ WellOrdered /\ ~ Reordering /\ Sound /\ Sound' /\ InOrder
           /\ [Next]_vars /\ Chronicle(G)
           => StepOf(G)
  \* A peer that stays in its term and extends its log at most moves.
<1>GrowingPeer.
      ASSUME Sound, InOrder, NEW G, NEW k \in Server,
             currentTerm'[k] = currentTerm[k], handled'[k] = handled[k],
             Begins(log[k], log'[k]),
             \/ persisted'[k].log = persisted[k].log
             \/ persisted'[k].log = log'[k] /\ state'[k] = Leader
      PROVE  PeerMoves(G, k)
  <2> USE <1>GrowingPeer
  <2>1. currentTerm[k] \in Nat /\ handled[k].reach \in Nat
      BY Zenon DEF Sound, TypeInv, TypeOK
  <2>2. currentTerm[k] <= currentTerm[k] /\ handled[k].reach <= handled[k].reach
      BY ONLY <2>1
  <2>3. NotAfter(handled[k], handled'[k])
      BY <2>2, Zenon DEF NotAfter
  <2>4. handled'[k].term <= currentTerm'[k]
      BY Zenon DEF InOrder
  <2> QED BY <2>2, <2>3, <2>4, Zenon DEF PeerMoves

  \* So does one that keeps its log.
<1>KeepingPeer.
      ASSUME Sound, InOrder, NEW G, NEW k \in Server,
             currentTerm'[k] = currentTerm[k], handled'[k] = handled[k],
             log'[k] = log[k], persisted'[k] = persisted[k]
      PROVE  PeerMoves(G, k)
  <2> USE <1>KeepingPeer
  <2>1. log[k] \in Seq(LogEntry)
      BY Zenon DEF Sound, TypeInv, TypeOK
  <2>2. Begins(log[k], log[k])
      BY ONLY <2>1, BeginsItself, Zenon
  <2> QED BY <2>2, <1>GrowingPeer, Zenon

<1>RestingPeer.
      ASSUME Sound, Sound', InOrder, NEW G, NEW k \in Server, Rests(k)
      PROVE  PeerStep(G, k)
  <2> USE <1>RestingPeer
  <2>1. /\ currentTerm[k] \in Nat /\ currentTerm'[k] \in Nat
        /\ log[k] \in Seq(LogEntry) /\ handled[k].reach \in Nat
        /\ handled[k].term \in Nat /\ handled[k].term <= currentTerm[k]
      BY Zenon DEF Sound, TypeInv, TypeOK, InOrder
  <2>2. currentTerm[k] <= currentTerm'[k]
      BY <2>1 DEF Rests
  <2>3. NotAfter(handled[k], handled'[k]) /\ handled'[k].term <= currentTerm'[k]
      <3>1. /\ handled[k].reach <= handled[k].reach
            /\ handled[k].term <= currentTerm'[k]
          BY ONLY <2>1, <2>2
      <3>2. NotAfter(handled[k], handled[k])
          BY <3>1, Zenon DEF NotAfter
      <3> QED BY <3>1, <3>2, Zenon DEF Rests
  <2>4. Begins(log[k], log'[k])
      BY <2>1, BeginsItself, Zenon DEF Rests
  <2>5. PeerMoves(G, k)
      BY <2>2, <2>3, <2>4, Zenon DEF PeerMoves, Rests
  <2>6. PeerPolls(k)
      BY Zenon DEF PeerPolls, Rests, Follower, Candidate, Leader
  <2>7. Settles(G, k)
      BY Zenon DEF Settles, Rests, Follower, Candidate, Leader
  <2> QED BY <2>5, <2>6, <2>7, Zenon DEF PeerStep

<1>StutterMoves.
      ASSUME Sound, Sound', InOrder, UNCHANGED vars, NEW G
      PROVE  StepOf(G)
  <2> USE <1>StutterMoves
  <2>1. /\ UNCHANGED <<currentTerm, log, state, persisted, matchIndex, commitIndex,
                       applied, rvReqs, rvReps, aeReqs, aeReps, handled>>
      BY Zenon DEF vars, serverVars, leaderVars, applyVars, netVars, auxVars
  <2>2. ASSUME NEW k \in Server PROVE Rests(k)
      BY <2>1, Zenon DEF Rests
  <2>3. CallsMove(G) /\ VotesMove
      BY <2>1, Zenon DEF CallsMove, VotesMove
  <2> QED BY <2>2, <2>3, <1>RestingPeer, Zenon DEF StepOf

<1>StartElectionMoves.
      ASSUME Sound, Sound', InOrder, NEW i \in Server, startElection(i), NEW G
      PROVE  StepOf(G)
  <2> USE <1>StartElectionMoves
  <2>1. /\ currentTerm' = [currentTerm EXCEPT ![i] = currentTerm[i] + 1]
        /\ state' = [state EXCEPT ![i] = Candidate]
        /\ persisted' = [persisted EXCEPT ![i] =
               [currentTerm |-> currentTerm'[i], votedFor |-> votedFor'[i],
                log |-> log'[i]]]
        /\ UNCHANGED <<log, matchIndex, commitIndex, applied, rvReps, aeReqs, aeReps,
                       handled>>
      BY Zenon DEF startElection, persist, leaderVars, applyVars
  <2>2. ASSUME NEW k \in Server PROVE Rests(k)
      <3>1. CASE k = i
          <4>1. state'[k] = Candidate /\ currentTerm'[k] = currentTerm[k] + 1
              BY <2>1, <3>1, PeerTypes, Zenon
          <4>2. persisted'[k].log = log[k]
              BY <2>1, <3>1, PeerTypes, Zenon
          <4>3. currentTerm'[k] > currentTerm[k]
              BY <4>1, PeerTypes
          <4> QED BY <2>1, <4>1, <4>2, <4>3, Zenon DEF Rests
      <3>2. CASE k # i
          <4>1. /\ state'[k] = state[k] /\ currentTerm'[k] = currentTerm[k]
                /\ persisted'[k] = persisted[k]
              BY <2>1, <3>2, PeerTypes, Zenon
          <4> QED BY <2>1, <4>1, Zenon DEF Rests
      <3> QED BY <3>1, <3>2, Zenon
  <2>3. CallsMove(G)
      BY <2>1, Zenon DEF CallsMove
  <2>4. VotesMove
      <3>1. rvReqs' = rvReqs \cup
               {[src |-> i, dst |-> j, term |-> currentTerm'[i],
                 lastLogIndex |-> lastLogIndex(log[i]),
                 lastLogTerm  |-> lastLogTerm(log[i])] : j \in Server \ {i}}
          BY Zenon DEF startElection
      <3>2. ASSUME NEW m \in rvReqs', m \notin rvReqs
            PROVE  /\ m.src = i /\ m.lastLogIndex = lastLogIndex(log[i])
                   /\ m.lastLogTerm = lastLogTerm(log[i])
          BY <3>1, <3>2
      <3> QED BY <2>1, <3>1, <3>2, Zenon DEF VotesMove
  <2> QED BY <2>2, <2>3, <2>4, <1>RestingPeer, Zenon DEF StepOf

  \* becomeFollower with a newer term.
<1>FollowPeers.
      ASSUME Sound, Sound', InOrder, NEW i \in Server, NEW t \in Nat,
             t > currentTerm[i], becomeFollower(i, t),
             UNCHANGED <<matchIndex, commitIndex, applied, handled>>,
             NEW G, NEW k \in Server
      PROVE  PeerStep(G, k)
  <2> USE <1>FollowPeers
  <2>1. /\ currentTerm' = [currentTerm EXCEPT ![i] = t]
        /\ state' = [state EXCEPT ![i] = Follower]
        /\ persisted' = [persisted EXCEPT ![i] =
               [currentTerm |-> currentTerm'[i], votedFor |-> votedFor'[i],
                log |-> log'[i]]]
        /\ UNCHANGED log
      BY Zenon DEF becomeFollower, persist
  <2>2. CASE k = i
      <3>1. state'[k] = Follower /\ currentTerm'[k] = t /\ persisted'[k].log = log[k]
          BY <2>1, <2>2, PeerTypes, Zenon
      <3>2. currentTerm'[k] >= currentTerm[k]
          BY <2>2, <3>1, PeerTypes
      <3>3. Rests(k)
          BY <2>1, <3>1, <3>2, Zenon DEF Rests
      <3> QED BY <3>3, <1>RestingPeer, Zenon
  <2>3. CASE k # i
      <3>1. /\ state'[k] = state[k] /\ currentTerm'[k] = currentTerm[k]
            /\ persisted'[k] = persisted[k]
          BY <2>1, <2>3, PeerTypes, Zenon
      <3>2. Rests(k)
          BY <2>1, <3>1, Zenon DEF Rests
      <3> QED BY <3>2, <1>RestingPeer, Zenon
  <2> QED BY <2>2, <2>3, Zenon

<1>RequestVoteMoves.
      ASSUME Sound, Sound', InOrder, NEW v \in rvReqs, RequestVote(v), NEW G
      PROVE  StepOf(G)
  <2> USE <1>RequestVoteMoves
  <2> DEFINE j       == v.dst
             newer   == v.term > currentTerm[j]
             vote    == IF newer THEN None ELSE votedFor[j]
             granted == /\ v.term >= currentTerm[j]
                        /\ MayVote(vote, v.src)
                        /\ isLogUpToDate(log[j], v.lastLogIndex, v.lastLogTerm)
  <2>1. /\ currentTerm' = [currentTerm EXCEPT ![j] = max(v.term, currentTerm[j])]
        /\ state' = [state EXCEPT ![j] = IF newer THEN Follower ELSE state[j]]
        /\ persisted' = persisted \/ persist(j)
        /\ rvReps' = rvReps \cup
               {r \in {[src |-> j, dst |-> v.src, argsTerm |-> v.term,
                        term |-> currentTerm[j], voteGranted |-> granted]} :
                   r.voteGranted \/ r.term > r.argsTerm}
        /\ UNCHANGED <<log, matchIndex, commitIndex, applied, rvReqs, aeReqs, aeReps,
                       handled>>
      BY Zenon DEF RequestVote, leaderVars, applyVars, auxVars
  <2>2. j \in Server /\ v.term \in Nat /\ currentTerm[j] \in Nat
      BY ElectionTypes, PeerTypes, Zenon DEF Sound
  <2>3. ASSUME NEW k \in Server PROVE Rests(k)
      <3>1. persisted'[k].log \in {persisted[k].log, log[k]}
          <4>1. log' = log /\ persisted \in [Server -> Image]
              BY <2>1, PeerTypes, Zenon
          <4>2. CASE persisted' = persisted
              BY <4>2, Zenon
          <4>3. CASE persist(j)
              BY <2>2, <4>1, <4>3, Zenon DEF persist
          <4> QED BY <2>1, <4>2, <4>3, Zenon
      <3>2. CASE k = j /\ newer
          <4>1. max(v.term, currentTerm[j]) = v.term
              BY <2>2, <3>2, Zenon DEF max
          <4>2. state'[k] = Follower /\ currentTerm'[k] = v.term
              BY <2>1, <2>2, <3>2, <4>1, PeerTypes, Zenon
          <4>3. currentTerm'[k] >= currentTerm[k]
              BY <2>2, <3>2, <4>2
          <4> QED BY <2>1, <3>1, <4>2, <4>3, Zenon DEF Rests
      <3>3. CASE k # j \/ ~ newer
          <4>1. k = j => max(v.term, currentTerm[j]) = currentTerm[j]
              BY <2>2, <3>3, Zenon DEF max
          <4>2. state'[k] = state[k] /\ currentTerm'[k] = currentTerm[k]
              BY <2>1, <2>2, <3>3, <4>1, PeerTypes, Zenon
          <4> QED BY <2>1, <3>1, <4>2, Zenon DEF Rests
      <3> QED BY <3>2, <3>3, Zenon
  <2>4. CallsMove(G)
      BY <2>1, Zenon DEF CallsMove
  <2>5. ASSUME NEW r \in rvReps', r \notin rvReps, r.voteGranted PROVE Grants(r, v)
      <3>1. r = [src |-> j, dst |-> v.src, argsTerm |-> v.term,
                 term |-> currentTerm[j], voteGranted |-> granted]
          <4> HIDE DEF granted, j
          <4> QED BY <2>1, <2>5, Zenon
      <3>2. granted
          <4> HIDE DEF granted, j
          <4> QED BY <2>5, <3>1, Zenon
      <3>3. r.src = j /\ r.dst = v.src /\ r.argsTerm = v.term
          <4> HIDE DEF granted, j
          <4> QED BY <3>1, Zenon
      <3>4. max(v.term, currentTerm[j]) = v.term
          BY <2>2, <3>2 DEF max
      <3>5. currentTerm'[j] = v.term /\ currentTerm[j] <= v.term
          BY <2>1, <2>2, <3>2, <3>4, PeerTypes, Zenon
      <3> QED BY <3>2, <3>3, <3>5, Zenon DEF Grants
  <2>6. VotesMove
      BY <2>1, <2>5, Zenon DEF VotesMove
  <2> QED BY <2>3, <2>4, <2>6, <1>RestingPeer, Zenon DEF StepOf

  \* The calls that a leader broadcasts.
<1>BroadcastMoves.
      ASSUME Sound, Sound', NEW i \in Server, state'[i] = Leader,
             broadcastAppendEntries(i), UNCHANGED aeReps, NEW G
      PROVE  CallsMove(G)
  <2> USE <1>BroadcastMoves
  <2>1. /\ log'[i] \in Seq(LogEntry)
        /\ \A j \in Server : nextIndex'[i][j] \in 1 .. Len(log'[i])
      BY Zenon DEF Sound, TypeInv, TypeOK, LogInv, IndexesInRange
  <2>2. \A m \in aeReqs' :
            \/ m \in aeReqs
            \/ /\ Reach(m) = lastLogIndex(log'[i])
               /\ m.src = i /\ m.term = currentTerm'[i]
               /\ m.leaderCommit = commitIndex'[i]
      BY <2>1, BroadcastSlices, Zenon
  <2>3. aeReqs \subseteq aeReqs'
      BY Zenon DEF broadcastAppendEntries
  <2> QED BY <2>2, <2>3, Zenon DEF CallsMove

<1>RequestVoteRepliedMoves.
      ASSUME Sound, Sound', InOrder, NEW r \in rvReps, RequestVoteReplied(r), NEW G
      PROVE  StepOf(G)
  <2> USE <1>RequestVoteRepliedMoves
  <2> DEFINE i == r.dst
  <2>1. i \in Server /\ r.term \in Nat
      BY ElectionTypes, Zenon DEF Sound
  <2>2. UNCHANGED <<applied, rvReqs, rvReps, aeReps, handled>> /\ state[i] = Candidate
      BY Zenon DEF RequestVoteReplied, auxVars
  <2>3. VotesMove
      BY <2>2, Zenon DEF VotesMove
  <2>4. CASE /\ r.term > currentTerm[i] /\ becomeFollower(i, r.term)
             /\ UNCHANGED <<leaderVars, commitIndex, aeReqs>>
      <3>1. UNCHANGED <<matchIndex, commitIndex, aeReqs>>
          BY <2>4, Zenon DEF leaderVars
      <3>2. ASSUME NEW k \in Server PROVE PeerStep(G, k)
          BY <2>1, <2>2, <2>4, <3>1, <1>FollowPeers, Zenon
      <3>3. CallsMove(G)
          BY <2>2, <3>1, Zenon DEF CallsMove
      <3> QED BY <2>3, <3>2, <3>3, Zenon DEF StepOf
  <2>5. CASE IsMajority(votes(i)) /\ becomeLeader(i)
      <3>1. /\ state' = [state EXCEPT ![i] = Leader]
            /\ UNCHANGED <<currentTerm, log, persisted, commitIndex>>
            /\ matchIndex' = [matchIndex EXCEPT ![i] =
                   [j \in Server |-> IF j = i THEN lastLogIndex(log[i]) ELSE -1]]
            /\ broadcastAppendEntries(i)
          BY <2>5, Zenon DEF becomeLeader
      <3>2. ASSUME NEW k \in Server, k # i PROVE PeerStep(G, k)
          <4>1. state'[k] = state[k] /\ matchIndex'[k] = matchIndex[k]
              BY <2>1, <3>1, <3>2, PeerTypes, Zenon
          <4>2. Rests(k)
              BY <2>2, <3>1, <4>1, Zenon DEF Rests
          <4> QED BY <4>2, <1>RestingPeer, Zenon
      <3>3. PeerStep(G, i)
          <4>1. state'[i] = Leader
              BY <2>1, <3>1, PeerTypes, Zenon
          <4>2. \A j \in Server : j # i => matchIndex'[i][j] = -1
              BY <2>1, <3>1, PeerTypes, Zenon
          <4>5. PeerMoves(G, i)
              BY <2>1, <2>2, <3>1, <1>KeepingPeer, Zenon
          <4>6. PeerPolls(i)
              BY <2>2, <2>5, <3>1, <4>1, Zenon
                 DEF PeerPolls, Wins, Candidate, Leader
          <4>7. Settles(G, i)
              BY <2>2, <3>1, <4>2, Zenon DEF Settles
          <4> QED BY <4>5, <4>6, <4>7, Zenon DEF PeerStep
      <3>4. CallsMove(G)
          <4>1. state'[i] = Leader
              BY <2>1, <3>1, PeerTypes, Zenon
          <4> QED BY <2>1, <2>2, <3>1, <4>1, <1>BroadcastMoves, Zenon
      <3> QED BY <2>3, <3>2, <3>3, <3>4, Zenon DEF StepOf
  <2> QED BY <2>4, <2>5, Zenon DEF RequestVoteReplied

<1>StartMoves.
      ASSUME Sound, Sound', InOrder, NEW i \in Server, NEW c \in Command, Start(i, c),
             NEW G
      PROVE  StepOf(G)
  <2> USE <1>StartMoves
  <2> DEFINE e == [term |-> currentTerm[i], cmd |-> c]
  <2>1. /\ state[i] = Leader
        /\ log' = [log EXCEPT ![i] = Append(log[i], e)]
        /\ matchIndex' = [matchIndex EXCEPT ![i][i] = lastLogIndex(log[i]) + 1]
        /\ persisted' = [persisted EXCEPT ![i] =
               [currentTerm |-> currentTerm'[i], votedFor |-> votedFor'[i],
                log |-> log'[i]]]
        /\ broadcastAppendEntries(i)
        /\ UNCHANGED <<currentTerm, state, commitIndex, applied, rvReqs, rvReps, aeReps,
                       handled>>
      BY Zenon DEF Start, persist, auxVars
  <2>2. VotesMove
      BY <2>1, Zenon DEF VotesMove
  <2>3. CallsMove(G)
      BY <2>1, <1>BroadcastMoves, Zenon
  <2>4. ASSUME NEW k \in Server, k # i PROVE PeerStep(G, k)
      <3>1. /\ log'[k] = log[k] /\ matchIndex'[k] = matchIndex[k]
            /\ persisted'[k] = persisted[k]
          BY <2>1, <2>4, PeerTypes, Zenon
      <3>2. Rests(k)
          BY <2>1, <3>1, Zenon DEF Rests
      <3> QED BY <3>2, <1>RestingPeer, Zenon
  <2>5. PeerStep(G, i)
      <3>1. /\ currentTerm[i] \in Nat /\ log[i] \in Seq(LogEntry)
            /\ handled[i].term \in Nat /\ handled[i].reach \in Nat
          BY Zenon DEF Sound, TypeInv, TypeOK
      <3>2. e \in LogEntry
          BY <3>1, Zenon DEF LogEntry
      <3>3. Begins(log[i], log'[i])
          <4>1. log'[i] = Append(log[i], e)
              BY <2>1, PeerTypes, Zenon
          <4> HIDE DEF e
          <4>2. /\ Len(log[i]) \in Nat /\ Len(log'[i]) = Len(log[i]) + 1
                /\ \A k \in 1 .. Len(log[i]) : log'[i][k] = log[i][k]
              BY <3>1, <3>2, <4>1, AppendFacts
          <4> QED BY <4>2 DEF Begins
      <3>4. persisted'[i].log = log'[i] /\ state'[i] = Leader
          BY <2>1, PeerTypes, Zenon
      <3>5. \A j \in Server : j # i => matchIndex'[i][j] = matchIndex[i][j]
          BY <2>1, PeerTypes, Zenon
      <3>6. PeerMoves(G, i)
          BY <2>1, <3>3, <3>4, <1>GrowingPeer, Zenon
      <3>7. PeerPolls(i)
          BY <2>1, Zenon DEF PeerPolls, Candidate, Leader
      <3>8. Settles(G, i)
          BY <2>1, <3>5, Zenon DEF Settles
      <3> QED BY <3>6, <3>7, <3>8, Zenon DEF PeerStep
  <2> QED BY <2>2, <2>3, <2>4, <2>5, Zenon DEF StepOf

<1>SendHeartbeatsMoves.
      ASSUME Sound, Sound', InOrder, NEW i \in Server, sendHeartbeats(i), NEW G
      PROVE  StepOf(G)
  <2> USE <1>SendHeartbeatsMoves
  <2>1. /\ state[i] = Leader /\ broadcastAppendEntries(i)
        /\ UNCHANGED <<currentTerm, log, state, persisted, matchIndex, commitIndex,
                       applied, rvReqs, rvReps, aeReps, handled>>
      BY Zenon DEF sendHeartbeats, serverVars, leaderVars, applyVars, auxVars
  <2>2. ASSUME NEW k \in Server PROVE Rests(k)
      BY <2>1, Zenon DEF Rests
  <2>3. CallsMove(G) /\ VotesMove
      BY <2>1, <1>BroadcastMoves, Zenon DEF VotesMove
  <2> QED BY <2>2, <2>3, <1>RestingPeer, Zenon DEF StepOf

<1>ApplierMoves.
      ASSUME Sound, Sound', InOrder, NEW i \in Server, applier(i), NEW G
      PROVE  StepOf(G)
  <2> USE <1>ApplierMoves
  <2>1. /\ commitIndex[i] >= Len(applied[i]) + 1 /\ commitIndex[i] < Len(log[i])
        /\ applied' = [applied EXCEPT ![i] = applied[i] \o
               SubSeq(log[i], (Len(applied[i]) + 1) + 1, commitIndex[i] + 1)]
        /\ UNCHANGED <<currentTerm, log, state, persisted, matchIndex, commitIndex,
                       rvReqs, rvReps, aeReqs, aeReps, handled>>
      BY Zenon DEF applier, serverVars, leaderVars, netVars, auxVars
  <2>2. CallsMove(G) /\ VotesMove
      BY <2>1, Zenon DEF CallsMove, VotesMove
  <2>3. ASSUME NEW k \in Server, k # i PROVE PeerStep(G, k)
      <3>1. applied'[k] = applied[k]
          BY <2>1, <2>3, PeerTypes, Zenon
      <3>2. Rests(k)
          BY <2>1, <3>1, Zenon DEF Rests
      <3> QED BY <3>2, <1>RestingPeer, Zenon
  <2>4. PeerStep(G, i)
      <3>1. /\ currentTerm[i] \in Nat /\ log[i] \in Seq(LogEntry)
            /\ handled[i].term \in Nat /\ handled[i].reach \in Nat
            /\ applied[i] \in Seq(LogEntry) /\ commitIndex[i] \in Nat
          BY Zenon DEF Sound, TypeInv, TypeOK
      <3>3. PeerMoves(G, i)
          <4>1. UNCHANGED <<currentTerm, log, persisted, handled>>
              BY <2>1, Zenon
          <4> QED BY <4>1, <1>KeepingPeer, Zenon
      <3>4. PeerPolls(i)
          BY <2>1, Zenon DEF PeerPolls, Candidate, Leader
      <3>5. Applies(i)
          <4>1. Len(applied[i]) < commitIndex[i]
              BY <2>1, <3>1
          <4>2. (Len(applied[i]) + 1) + 1 = Len(applied[i]) + 2
              BY <3>1
          <4>3. applied'[i] = applied[i] \o
                    SubSeq(log[i], (Len(applied[i]) + 1) + 1, commitIndex[i] + 1)
              BY <2>1, PeerTypes, Zenon
          <4> QED BY <2>1, <4>1, <4>2, <4>3, Zenon DEF Applies
      <3>6. Settles(G, i)
          BY <2>1, <3>5, Zenon DEF Settles
      <3> QED BY <3>3, <3>4, <3>6, Zenon DEF PeerStep
  <2> QED BY <2>2, <2>3, <2>4, Zenon DEF StepOf

<1>RestartMoves.
      ASSUME Sound, Sound', InOrder, NEW i \in Server, Restart(i), NEW G
      PROVE  StepOf(G)
  <2> USE <1>RestartMoves
  <2>1. /\ currentTerm' = [currentTerm EXCEPT ![i] = persisted[i].currentTerm]
        /\ log' = [log EXCEPT ![i] = persisted[i].log]
        /\ state' = [state EXCEPT ![i] = Follower]
        /\ matchIndex' = [matchIndex EXCEPT ![i] = [j \in Server |-> 0]]
        /\ commitIndex' = [commitIndex EXCEPT ![i] = 0]
        /\ applied' = [applied EXCEPT ![i] = << >>]
        /\ UNCHANGED <<persisted, rvReqs, rvReps, aeReqs, aeReps, handled>>
      BY Zenon DEF Restart, netVars
  <2>2. CallsMove(G) /\ VotesMove
      BY <2>1, Zenon DEF CallsMove, VotesMove
  <2>3. ASSUME NEW k \in Server, k # i PROVE PeerStep(G, k)
      <3>1. /\ currentTerm'[k] = currentTerm[k] /\ log'[k] = log[k]
            /\ state'[k] = state[k] /\ matchIndex'[k] = matchIndex[k]
          BY <2>1, <2>3, PeerTypes, Zenon
      <3>2. commitIndex'[k] = commitIndex[k] /\ applied'[k] = applied[k]
          BY <2>1, <2>3, PeerTypes, Zenon
      <3>3. Rests(k)
          BY <2>1, <3>1, <3>2, Zenon DEF Rests
      <3> QED BY <3>3, <1>RestingPeer, Zenon
  <2>4. PeerStep(G, i)
      <3>2. currentTerm'[i] = currentTerm[i]
          <4>1. persisted[i].currentTerm = currentTerm[i]
              BY Zenon DEF Sound, ElectionInv, VoteOnDisk
          <4> QED BY <2>1, <4>1, PeerTypes, Zenon
      <3>3. Begins(log[i], log'[i])
          <4>1. log'[i] = persisted[i].log
              BY <2>1, PeerTypes, Zenon
          <4> QED BY <4>1, DiskBegins, Zenon DEF Sound, LogInv
      <3>4. state'[i] = Follower /\ Forgets(i)
          <4>1. state'[i] = Follower
              BY <2>1, PeerTypes, Zenon
          <4>2. commitIndex'[i] = 0 /\ applied'[i] = << >>
              BY <2>1, PeerTypes, Zenon
          <4> QED BY <4>1, <4>2, Zenon DEF Forgets
      <3>5. PeerMoves(G, i)
          <4>1. handled'[i] = handled[i] /\ persisted'[i].log = persisted[i].log
              BY <2>1, Zenon
          <4> QED BY <3>2, <3>3, <4>1, <1>GrowingPeer, Zenon
      <3>6. PeerPolls(i)
          BY <3>4, Zenon DEF PeerPolls, Follower, Candidate, Leader
      <3>7. Settles(G, i)
          BY <3>4, Zenon DEF Settles, Follower, Leader
      <3> QED BY <3>5, <3>6, <3>7, Zenon DEF PeerStep
  <2> QED BY <2>2, <2>3, <2>4, Zenon DEF StepOf

  \* Without Reordering a peer handles no call older than the last one.
<1>HandledNext.
      ASSUME Sound, ~ Reordering, NEW m \in aeReqs, Deliverable(m), MarkHandled(m)
      PROVE  /\ \A k \in Server \ {m.dst} : handled'[k] = handled[k]
             /\ handled'[m.dst] = Stamp(m)
             /\ NotAfter(handled[m.dst], Stamp(m))
  <2> USE <1>HandledNext
  <2>1. m.dst \in Server /\ m.term \in Nat /\ Reach(m) \in Nat
      BY AppendTypes, Zenon DEF Sound
  <2>2. handled' = [handled EXCEPT ![m.dst] = Stamp(m)]
      BY Zenon DEF MarkHandled, Stamp
  <2>3. handled \in [Server -> [term : Nat, reach : Nat]]
      BY PeerTypes, Zenon
  <2>4. handled[m.dst].term \in Nat /\ handled[m.dst].reach \in Nat
      BY <2>1, <2>3, Zenon
  <2>5. NotAfter(handled[m.dst], Stamp(m))
      BY <2>1, <2>4, Zenon DEF Deliverable, NotAfter, Stamp
  <2> QED BY <2>1, <2>2, <2>3, <2>5, Zenon

  \* AppendEntries turns a call down, ...
<1>RefusedMoves.
      ASSUME Sound, Sound', InOrder, ~ Reordering, NEW m \in aeReqs, AppendEntries(m),
             NEW G, log' = log, commitIndex' = commitIndex,
             persisted' = persisted \/ persist(m.dst),
             NEW t, NEW ct, NEW ci, AppendReply(m, t, FALSE, ct, ci),
             m.term <= currentTerm'[m.dst], currentTerm[m.dst] <= currentTerm'[m.dst],
             \/ state'[m.dst] = Follower
             \/ UNCHANGED <<state[m.dst], currentTerm[m.dst]>>,
             \A k \in Server \ {m.dst} : UNCHANGED <<state[k], currentTerm[k]>>
      PROVE  StepOf(G)
  <2> USE <1>RefusedMoves
  <2> DEFINE j == m.dst
  <2>1. j \in Server /\ m.term \in Nat
      BY AppendTypes, Zenon DEF Sound
  <2>2. /\ Deliverable(m) /\ MarkHandled(m)
        /\ UNCHANGED <<matchIndex, applied, rvReqs, rvReps, aeReqs>>
      BY Zenon DEF AppendEntries, leaderVars
  <2>3. /\ \A k \in Server \ {j} : handled'[k] = handled[k]
        /\ NotAfter(handled[j], handled'[j]) /\ handled'[j].term = m.term
      <3>1. /\ \A k \in Server \ {j} : handled'[k] = handled[k]
            /\ handled'[j] = Stamp(m) /\ NotAfter(handled[j], Stamp(m))
          BY <2>2, <1>HandledNext, Zenon
      <3>2. Stamp(m).term = m.term
          BY Zenon DEF Stamp
      <3> QED BY <3>1, <3>2, Zenon
  <2>4. \A k \in Server : persisted'[k].log \in {persisted[k].log, log[k]}
      <3>1. CASE persisted' = persisted
          BY <3>1, Zenon
      <3>2. CASE persist(j)
          BY <2>1, <3>2, PeerTypes, Zenon DEF persist
      <3> QED BY <3>1, <3>2, Zenon
  <2>5. ASSUME NEW k \in Server PROVE Rests(k)
      <3>1. CASE k = j
          <4>1. currentTerm[k] \in Nat /\ currentTerm'[k] \in Nat
              BY PeerTypes, Zenon DEF Sound, TypeInv, TypeOK
          <4>2. currentTerm'[k] >= currentTerm[k]
              BY <3>1, <4>1, Zenon
          <4>3. NotAfter(handled[k], handled'[k]) /\ handled'[k].term <= currentTerm'[k]
              BY <2>3, <3>1, Zenon
          <4> QED BY <2>2, <2>4, <3>1, <4>2, <4>3, Zenon DEF Rests
      <3>2. CASE k # j
          BY <2>2, <2>3, <2>4, <3>2, Zenon DEF Rests
      <3> QED BY <3>1, <3>2, Zenon
  <2>6. CallsMove(G)
      <3>1. aeReps \subseteq aeReps' /\ \A r \in aeReps' : r \in aeReps \/ ~ r.success
          BY DEF AppendReply
      <3> QED BY <2>2, <3>1, Zenon DEF CallsMove
  <2>7. VotesMove
      BY <2>2, Zenon DEF VotesMove
  <2> QED BY <2>5, <2>6, <2>7, <1>RestingPeer, Zenon DEF StepOf

  \* ... or accepts it.
<1>AcceptedMoves.
      ASSUME Sound, Sound', InOrder, ~ Reordering, NEW m \in aeReqs, AppendEntries(m),
             AppendEntriesAccept(m), NEW G, Chronicle(G)
      PROVE  StepOf(G)
  <2> USE <1>AcceptedMoves
  <2> DEFINE j   == m.dst
             new == KeepMatching(m) \o m.entries
  <2>1. /\ j \in Server /\ m.term \in Nat /\ Reach(m) \in Nat /\ Len(m.entries) \in Nat
        /\ m.leaderCommit \in Nat
      BY AppendTypes, Zenon DEF Sound
  <2>2. /\ Deliverable(m) /\ MarkHandled(m)
        /\ UNCHANGED <<matchIndex, applied, rvReqs, rvReps, aeReqs>>
      BY Zenon DEF AppendEntries, leaderVars
  <2>3. /\ \A k \in Server \ {j} : handled'[k] = handled[k]
        /\ handled'[j] = Stamp(m) /\ NotAfter(handled[j], Stamp(m))
      BY <2>2, <1>HandledNext, Zenon
  <2>4. /\ AcceptTerm(m) /\ m.prevLogIndex <= lastLogIndex(log[j]) /\ PrevMatches(m)
        /\ log' = [log EXCEPT ![j] = new]
        /\ SaveAccepted(m)
        /\ commitIndex' = [commitIndex EXCEPT ![j] =
               IF m.leaderCommit > commitIndex[j]
               THEN min(m.leaderCommit, lastLogIndex(new)) ELSE commitIndex[j]]
        /\ AppendReply(m, m.term, TRUE, -1, 0)
      BY Zenon DEF AppendEntriesAccept
  <2>5. /\ state'[j] = Follower /\ currentTerm'[j] = m.term
        /\ \A k \in Server \ {j} : UNCHANGED <<state[k], currentTerm[k]>>
      BY <2>4, AcceptTermLogs, Zenon DEF Sound
  <2>6. new \in Seq(LogEntry) /\ Len(new) = Reach(m) + 1 /\ Begins(new, G[m.term])
      BY <2>4, AcceptedLog, Zenon DEF Sound
  <2>7. currentTerm[j] \in Nat /\ currentTerm[j] <= m.term
      <3>1. m.term >= currentTerm[j]
          BY <2>4, Zenon DEF AcceptTerm
      <3>2. currentTerm[j] \in Nat
          BY <2>1, PeerTypes, Zenon
      <3> QED BY <2>1, <3>1, <3>2, Zenon
  <2> HIDE DEF new
  <2>8. log'[j] = new /\ \A k \in Server \ {j} : log'[k] = log[k]
      BY <2>1, <2>4, PeerTypes, Zenon
  <2>9. /\ \A k \in Server \ {j} : persisted'[k] = persisted[k]
        /\ persisted'[j].log \in {persisted[j].log, log[j], log'[j]}
      <3>1. CASE Len(m.entries) > 0
          <4>1. persist(j)
              BY <2>4, <3>1, Zenon DEF SaveAccepted
          <4> QED BY <2>1, <4>1, PeerTypes, Zenon DEF persist
      <3>2. CASE ~ (Len(m.entries) > 0)
          <4>1. \/ persisted' = persisted
                \/ persisted' = [persisted EXCEPT ![j] =
                       [currentTerm |-> m.term, votedFor |-> None, log |-> log[j]]]
              BY <2>4, <3>2, Zenon DEF SaveAccepted
          <4>2. persisted \in [Server -> Image]
              BY <2>1, PeerTypes, Zenon
          <4> QED BY <2>1, <4>1, <4>2
      <3> QED BY <3>1, <3>2, Zenon
  <2>10. aeReps' = aeReps \cup
            {[src |-> j, dst |-> m.src, argsTerm |-> m.term,
              match |-> Reach(m), term |-> m.term, success |-> TRUE,
              conflictTerm |-> -1, conflictIndex |-> 0]}
      BY <2>4, Zenon DEF AppendReply
  <2>11. Takes(G, m, j)
      <3>1. \E r \in aeReps' : /\ r.src = j /\ r.argsTerm = m.term
                               /\ r.success /\ r.match = Reach(m)
          <4> DEFINE r == [src |-> j, dst |-> m.src, argsTerm |-> m.term,
                           match |-> Reach(m), term |-> m.term, success |-> TRUE,
                           conflictTerm |-> -1, conflictIndex |-> 0]
          <4>1. r \in aeReps'
              BY <2>10, Zenon
          <4>2. r.src = j /\ r.argsTerm = m.term /\ r.match = Reach(m)
              BY Zenon
          <4>3. r.success
              BY ONLY Zenon
          <4> HIDE DEF r
          <4> QED BY <4>1, <4>2, <4>3, Zenon
      <3>2. Len(log'[j]) = Reach(m) + 1 /\ Begins(log'[j], G[m.term])
          BY <2>6, <2>8, Zenon
      <3> QED BY <2>3, <2>5, <2>7, <3>1, <3>2, Zenon DEF Takes
  <2>12. CallsMove(G)
      <3>1. ASSUME NEW r \in aeReps', r \notin aeReps
            PROVE  r.src = j /\ r.argsTerm = m.term /\ r.match = Reach(m)
          BY <2>10, <3>1
      <3>2. aeReps \subseteq aeReps'
          BY <2>10, Zenon
      <3> QED BY <2>2, <2>11, <3>1, <3>2, Zenon DEF CallsMove
  <2>13. VotesMove
      BY <2>2, Zenon DEF VotesMove
  <2>14. ASSUME NEW k \in Server, k # j PROVE PeerStep(G, k)
      <3>1. commitIndex'[k] = commitIndex[k]
          BY <2>1, <2>4, <2>14, PeerTypes, Zenon
      <3>2. Rests(k)
          BY <2>2, <2>3, <2>5, <2>8, <2>9, <2>14, <3>1, Zenon DEF Rests
      <3> QED BY <3>2, <1>RestingPeer, Zenon
  <2>15. PeerStep(G, j)
      <3>1. PeerMoves(G, j)
          <4>1. Stamp(m).term = m.term
              BY Zenon DEF Stamp
          <4>2. handled'[j].term <= currentTerm'[j]
              BY <2>1, <2>3, <2>5, <4>1
          <4> QED BY <2>3, <2>5, <2>7, <2>9, <2>11, <4>2, Zenon DEF PeerMoves
      <3>2. PeerPolls(j)
          BY <2>5, Zenon DEF PeerPolls, Follower, Candidate, Leader
      <3>3. \/ commitIndex'[j] = commitIndex[j]
            \/ /\ commitIndex[j] < m.leaderCommit
               /\ commitIndex'[j] = min(m.leaderCommit, Reach(m))
          <4>1. lastLogIndex(new) = Reach(m)
              BY <2>1, <2>6 DEF lastLogIndex
          <4>2. commitIndex[j] \in Nat
              BY <2>1, PeerTypes, Zenon
          <4>3. commitIndex'[j] = IF m.leaderCommit > commitIndex[j]
                                  THEN min(m.leaderCommit, Reach(m)) ELSE commitIndex[j]
              BY <2>1, <2>4, <4>1, PeerTypes, Zenon
          <4> QED BY <2>1, <4>2, <4>3, Zenon
      <3>4. Settles(G, j)
          BY <2>2, <2>5, <2>11, <3>3, Zenon DEF Settles, Follower, Leader
      <3> QED BY <3>1, <3>2, <3>4, Zenon DEF PeerStep
  <2> QED BY <2>12, <2>13, <2>14, <2>15, Zenon DEF StepOf

<1>AppendEntriesMoves.
      ASSUME Sound, Sound', InOrder, ~ Reordering, NEW m \in aeReqs, AppendEntries(m),
             NEW G, Chronicle(G)
      PROVE  StepOf(G)
  <2> USE <1>AppendEntriesMoves
  <2> DEFINE j == m.dst
  <2>1. j \in Server /\ m.term \in Nat /\ currentTerm[j] \in Nat
      BY AppendTypes, PeerTypes, Zenon DEF Sound
  <2>2. CASE AppendEntriesStale(m)
      <3>1. /\ log' = log /\ commitIndex' = commitIndex /\ persisted' = persisted
            /\ currentTerm' = currentTerm /\ state' = state
            /\ m.term < currentTerm[j]
            /\ AppendReply(m, currentTerm[j], FALSE, -1, 0)
          BY <2>2, Zenon DEF AppendEntriesStale, serverVars
      <3>2. m.term <= currentTerm'[j] /\ currentTerm[j] <= currentTerm'[j]
          BY <2>1, <3>1
      <3> QED BY <3>1, <3>2, <1>RefusedMoves, Zenon
  <2>3. ASSUME AcceptTerm(m), UNCHANGED <<log, commitIndex>>,
               IF StepsDown(m) THEN persist(j) ELSE UNCHANGED persisted,
               NEW t, NEW ct, NEW ci, AppendReply(m, t, FALSE, ct, ci)
        PROVE  StepOf(G)
      <3>1. /\ state'[j] = Follower /\ currentTerm'[j] = m.term
            /\ \A k \in Server \ {j} : UNCHANGED <<state[k], currentTerm[k]>>
          BY <2>3, AcceptTermLogs, Zenon DEF Sound
      <3>2. m.term >= currentTerm[j]
          BY <2>3, Zenon DEF AcceptTerm
      <3>3. m.term <= currentTerm'[j] /\ currentTerm[j] <= currentTerm'[j]
          BY <2>1, <3>1, <3>2
      <3>4. persisted' = persisted \/ persist(j)
          BY <2>3, Zenon
      <3> QED BY <2>3, <3>1, <3>3, <3>4, <1>RefusedMoves, Zenon
  <2>4. CASE AppendEntriesGap(m)
      BY <2>3, <2>4, Zenon DEF AppendEntriesGap
  <2>5. CASE AppendEntriesConflict(m)
      BY <2>3, <2>5, Zenon DEF AppendEntriesConflict
  <2>6. CASE AppendEntriesAccept(m)
      BY <2>6, <1>AcceptedMoves, Zenon
  <2> QED BY <2>2, <2>4, <2>5, <2>6, Zenon DEF AppendEntries

  \* The index that advanceCommitIndex settles on is one that it may commit.
<1>CommitAdvances.
      ASSUME WellOrdered, Sound, NEW i \in Server, NEW match, advanceCommitIndex(i, match)
      PROVE  /\ \A k \in Server \ {i} : commitIndex'[k] = commitIndex[k]
             /\ \/ commitIndex'[i] = commitIndex[i]
                \/ commitIndex'[i] \in Committable(i, match)
  <2> USE <1>CommitAdvances
  <2> DEFINE S   == Committable(i, match)
             new == CHOOSE n \in S : \A k \in S : k <= n
  <2>1. commitIndex' = [commitIndex EXCEPT ![i] = IF S = {} THEN commitIndex[i] ELSE new]
      BY Zenon DEF advanceCommitIndex
  <2>2. ASSUME S # {} PROVE new \in S
      <3>1. commitIndex[i] \in Nat /\ Len(log[i]) \in Nat
          BY PeerTypes
      <3>2. S \subseteq Int /\ \A k \in S : k <= Len(log[i])
          BY <3>1 DEF Committable, lastLogIndex
      <3> HIDE DEF S
      <3>3. \E n \in S : \A k \in S : k <= n
          <4> DEFINE b == Len(log[i])
          <4>1. /\ WellOrdered /\ S \subseteq Int /\ S # {}
                /\ b \in Int /\ \A k \in S : k <= b
              BY <2>2, <3>1, <3>2
          <4> HIDE DEF b
          <4> QED BY ONLY <4>1, GreatestElement, Zenon
      <3> QED BY <3>3, Zenon
  <2> HIDE DEF S, new
  <2>3. \A k \in Server \ {i} : commitIndex'[k] = commitIndex[k]
      BY <2>1, PeerTypes, Zenon
  <2>4. commitIndex'[i] = IF S = {} THEN commitIndex[i] ELSE new
      BY <2>1, PeerTypes, Zenon
  <2>5. commitIndex'[i] = commitIndex[i] \/ commitIndex'[i] \in S
      BY <2>2, <2>4, Zenon
  <2> QED BY <2>3, <2>5, Zenon DEF S

<1>AppendSucceededMoves.
      ASSUME WellOrdered, Sound, Sound', InOrder, NEW r \in aeReps,
             AppendEntriesReplied(r), AppendSucceeded(r), NEW G
      PROVE  StepOf(G)
  <2> USE <1>AppendSucceededMoves
  <2> DEFINE i     == r.dst
             match == [matchIndex[i] EXCEPT ![r.src] = max(matchIndex[i][r.src], r.match)]
  <2>1. i \in Server /\ r.src \in Server /\ r.match \in Nat
      BY Zenon DEF Sound, TypeInv, TypeOK, AppendEntriesReply
  <2>2. /\ state[i] = Leader /\ r.argsTerm = currentTerm[i] /\ r.success
        /\ UNCHANGED <<applied, rvReqs, rvReps, aeReqs, aeReps, handled>>
        /\ UNCHANGED <<currentTerm, state, log, persisted>>
      BY Zenon DEF AppendEntriesReplied, AppendSucceeded, auxVars, serverVars
  <2>3. /\ matchIndex' = [matchIndex EXCEPT ![i] = match]
        /\ advanceCommitIndex(i, match)
      BY Zenon DEF AppendSucceeded
  <2>4. /\ \A k \in Server \ {i} : commitIndex'[k] = commitIndex[k]
        /\ \/ commitIndex'[i] = commitIndex[i]
           \/ commitIndex'[i] \in Committable(i, match)
      <3> HIDE DEF match
      <3> QED BY <2>1, <2>3, <1>CommitAdvances, Zenon
  <2>5. CallsMove(G) /\ VotesMove
      BY <2>2, Zenon DEF CallsMove, VotesMove
  <2>6. ASSUME NEW k \in Server, k # i PROVE PeerStep(G, k)
      <3>1. matchIndex'[k] = matchIndex[k]
          BY <2>1, <2>3, <2>6, PeerTypes, Zenon
      <3>2. Rests(k)
          BY <2>2, <2>4, <2>6, <3>1, Zenon DEF Rests
      <3> QED BY <3>2, <1>RestingPeer, Zenon
  <2>7. PeerStep(G, i)
      <3>3. PeerMoves(G, i)
          BY <2>1, <2>2, <1>KeepingPeer, Zenon
      <3>4. PeerPolls(i)
          BY <2>2, Zenon DEF PeerPolls, Candidate, Leader
      <3>5. matchIndex'[i] = match
          BY <2>1, <2>3, PeerTypes, Zenon
      <3>6. commitIndex'[i] = commitIndex[i] \/ Advances(i)
          <4>1. ASSUME commitIndex'[i] \in Committable(i, matchIndex'[i])
                PROVE  Advances(i)
              BY <2>2, <4>1, Zenon DEF Committable, Advances
          <4> HIDE DEF match
          <4> QED BY <2>4, <3>5, <4>1, Zenon
      <3>7. ASSUME NEW j \in Server
            PROVE  \/ matchIndex'[i][j] = matchIndex[i][j]
                   \/ j = r.src /\ matchIndex'[i][j] = r.match
          <4>1. matchIndex[i] \in [Server -> Int]
              BY <2>1, PeerTypes, Zenon
          <4>2. CASE j = r.src
              BY <2>1, <3>5, <4>1, <4>2, Zenon DEF max
          <4>3. CASE j # r.src
              BY <2>1, <3>5, <4>1, <4>3, Zenon
          <4> QED BY <4>2, <4>3, Zenon
      <3>8. Settles(G, i)
          BY <2>2, <3>6, <3>7, Zenon DEF Settles
      <3> QED BY <3>3, <3>4, <3>8, Zenon DEF PeerStep
  <2> QED BY <2>5, <2>6, <2>7, Zenon DEF StepOf

<1>AppendFailedMoves.
      ASSUME WellOrdered, Sound, Sound', InOrder, NEW r \in aeReps,
             AppendEntriesReplied(r), AppendFailed(r), NEW G
      PROVE  StepOf(G)
  <2> USE <1>AppendFailedMoves
  <2> DEFINE i    == r.dst
             n    == BackUpTo(log[i], r.conflictTerm, r.conflictIndex)
             call == AppendArgs(i, r.src, currentTerm[i], log[i], n, commitIndex[i])
  <2>1. i \in Server /\ r.src \in Server
      BY Zenon DEF Sound, TypeInv, TypeOK, AppendEntriesReply
  <2>2. /\ state[i] = Leader
        /\ UNCHANGED <<applied, rvReqs, rvReps, aeReps, handled>>
        /\ UNCHANGED <<currentTerm, state, log, persisted, matchIndex, commitIndex>>
        /\ aeReqs' = aeReqs \cup {call}
        /\ nextIndex' = [nextIndex EXCEPT ![i][r.src] = n]
      BY Zenon DEF AppendEntriesReplied, AppendFailed, auxVars, serverVars
  <2> HIDE DEF n
  <2>3. n \in 1 .. Len(log[i])
      <3>1. nextIndex'[i][r.src] \in 1 .. Len(log[i])
          <4>1. IndexesInRange'
              BY Zenon DEF Sound, LogInv
          <4>2. state'[i] = Leader /\ log'[i] = log[i]
              BY <2>2, Zenon
          <4> QED BY <2>1, <4>1, <4>2, Zenon DEF IndexesInRange
      <3>2. nextIndex'[i][r.src] = n
          <4>1. nextIndex \in [Server -> [Server -> Int]]
              BY Zenon DEF Sound, TypeInv, TypeOK
          <4> QED BY <2>1, <2>2, <4>1, Zenon
      <3> QED BY <3>1, <3>2, Zenon
  <2>4. /\ Reach(call) = lastLogIndex(log[i]) /\ call.src = i
        /\ call.term = currentTerm[i] /\ call.leaderCommit = commitIndex[i]
      <3> DEFINE j  == r.src
                 lg == log[i]
                 t  == currentTerm[i]
                 c  == commitIndex[i]
      <3>1. lg \in Seq(LogEntry) /\ n \in 1 .. Len(lg)
          BY <2>1, <2>3, PeerTypes, Zenon
      <3> HIDE DEF i, j, lg, t, c
      <3>2. LET m == AppendArgs(i, j, t, lg, n, c)
            IN  /\ Reach(m) = lastLogIndex(lg) /\ m.src = i
                /\ m.term = t /\ m.leaderCommit = c
          BY ONLY <3>1, AppendArgsSlice
      <3> QED BY <3>2, Zenon DEF j, lg, t, c
  <2> HIDE DEF call
  <2>5. CallsMove(G)
      BY <2>2, <2>4, Zenon DEF CallsMove
  <2>6. VotesMove
      BY <2>2, Zenon DEF VotesMove
  <2>7. ASSUME NEW k \in Server PROVE PeerStep(G, k)
      <3>1. Rests(k)
          BY <2>2, Zenon DEF Rests
      <3> QED BY <3>1, <1>RestingPeer, Zenon
  <2> QED BY <2>5, <2>6, <2>7, Zenon DEF StepOf

<1>AppendEntriesRepliedMoves.
      ASSUME WellOrdered, Sound, Sound', InOrder, NEW r \in aeReps,
             AppendEntriesReplied(r), NEW G
      PROVE  StepOf(G)
  <2> USE <1>AppendEntriesRepliedMoves
  <2>1. r.dst \in Server /\ r.term \in Nat
      BY Zenon DEF Sound, TypeInv, TypeOK, AppendEntriesReply
  <2>2. CASE AppendDeposed(r)
      <3>1. /\ UNCHANGED <<applied, rvReqs, rvReps, aeReqs, aeReps, handled>>
            /\ UNCHANGED <<matchIndex, commitIndex>>
            /\ r.term > currentTerm[r.dst] /\ becomeFollower(r.dst, r.term)
          BY <2>2, Zenon DEF AppendEntriesReplied, AppendDeposed, auxVars
      <3>2. ASSUME NEW k \in Server PROVE PeerStep(G, k)
          BY <2>1, <3>1, <1>FollowPeers, Zenon
      <3>3. CallsMove(G) /\ VotesMove
          BY <3>1, Zenon DEF CallsMove, VotesMove
      <3> QED BY <3>2, <3>3, Zenon DEF StepOf
  <2> QED BY <2>2, <1>AppendSucceededMoves, <1>AppendFailedMoves, Zenon
             DEF AppendEntriesReplied

<1> SUFFICES ASSUME WellOrdered, ~ Reordering, Sound, Sound', InOrder, [Next]_vars,
                    NEW G, Chronicle(G)
             PROVE  StepOf(G)
    BY Zenon
<1>1. ASSUME NEW i \in Server,
             \/ startElection(i) \/ sendHeartbeats(i) \/ applier(i) \/ Restart(i)
      PROVE  StepOf(G)
    BY <1>1, <1>StartElectionMoves, <1>SendHeartbeatsMoves, <1>ApplierMoves,
       <1>RestartMoves, Zenon
<1>2. ASSUME NEW i \in Server, NEW c \in Command, Start(i, c) PROVE StepOf(G)
    BY <1>2, <1>StartMoves, Zenon
<1>3. ASSUME NEW m \in rvReqs, RequestVote(m) PROVE StepOf(G)
    BY <1>3, <1>RequestVoteMoves, Zenon
<1>4. ASSUME NEW r \in rvReps, RequestVoteReplied(r) PROVE StepOf(G)
    BY <1>4, <1>RequestVoteRepliedMoves, Zenon
<1>5. ASSUME NEW m \in aeReqs, AppendEntries(m) PROVE StepOf(G)
    BY <1>5, <1>AppendEntriesMoves, Zenon
<1>6. ASSUME NEW r \in aeReps, AppendEntriesReplied(r) PROVE StepOf(G)
    BY <1>6, <1>AppendEntriesRepliedMoves, Zenon
<1>7. CASE UNCHANGED vars
    BY <1>7, <1>StutterMoves, Zenon
<1> QED BY <1>1, <1>2, <1>3, <1>4, <1>5, <1>6, <1>7, Zenon DEF Next

LEMMA StepMoves ==
    ASSUME NEW G, StepOf(G)
    PROVE  Moves(G) /\ Polls
BY Zenon DEF StepOf, PeerStep, Moves, Polls

=============================================================================
