-------------------------- MODULE RaftSafetyProofs --------------------------
(*****************************************************************************)
(* The theorems about Raft: types; what the peers inherit from Election, one *)
(* leader per term, and terms and votes that are kept; what follows for      *)
(* their logs, in whatever order calls arrive; and what they commit and      *)
(* deliver when AppendEntries calls are handled in order.                    *)
(*****************************************************************************)
EXTENDS RaftCommitProofs

-----------------------------------------------------------------------------
(*****************************************************************************)
(* What is committed is chosen.                                              *)
(*****************************************************************************)

\* Up to slot c the log lg is one of which term t has chosen slot c or more.
Covers(G, lg, c, t) ==
    \E n \in Nat : c <= n /\ Chosen(G, t, n) /\ Agrees(lg, G[t], c + 1)

\* A peer counts as committed what a term it has seen has chosen.
Committed(G, k) ==
    \/ commitIndex[k] = 0
    \/ \E t \in Nat : /\ Covers(G, log[k], commitIndex[k], t)
                      /\ t <= currentTerm[k]
                      /\ t = currentTerm[k] => Acked(k, t, commitIndex[k])

\* leaderCommit does not promise more.
Announced(G, m) ==
    \/ m.leaderCommit = 0
    \/ \E t \in Nat : t <= m.term /\ Covers(G, G[m.term], m.leaderCommit, t)

\* matchIndex of a leader is what the follower has said.
Matched(i, j) ==
    state[i] = Leader /\ j # i /\ matchIndex[i][j] >= 0
        => Acked(j, currentTerm[i], matchIndex[i][j])

\* What a peer has delivered is committed and in its log.
Delivered(k) ==
    /\ Len(applied[k]) <= commitIndex[k]
    /\ \A x \in 1 .. Len(applied[k]) : applied[k][x] = log[k][x + 1]

CommitInv(G) ==
    /\ \A k \in Server : Committed(G, k) /\ Delivered(k)
    /\ \A m \in aeReqs : Announced(G, m)
    /\ \A i, j \in Server : Matched(i, j)

LEMMA CommitStays ==
    \A G, H : /\ WellOrdered /\ MajoritiesMeet /\ Sound /\ Sound' /\ Chronicle(G)
              /\ Safe(G) /\ Continues(G, H) /\ StepOf(G) /\ CommitInv(G)
              => CommitInv(H)'
<1>AckedStays.
      ASSUME Sound, NEW G, CallsMove(G), NEW k \in Server, NEW t \in Nat,
             NEW n \in Nat, Acked(k, t, n), NEW c \in Nat, c <= n
      PROVE  Acked(k, t, c)'
  <2> USE <1>AckedStays
  <2>1. aeReqs \subseteq aeReqs' /\ aeReps \subseteq aeReps'
      BY Zenon DEF CallsMove
  <2>2. CASE HasLed(k, t)
      BY <2>1, <2>2, Zenon DEF Acked, HasLed
  <2>3. CASE ~ HasLed(k, t)
      <3>1. PICK r \in aeReps : /\ r.src = k /\ r.argsTerm = t
                                /\ r.success /\ n <= r.match
          BY <2>3, Zenon DEF Acked
      <3>2. r.match \in Nat
          BY AppendTypes, Zenon DEF Sound
      <3>3. c <= r.match
          BY <3>1, <3>2
      <3> QED BY <2>1, <3>1, <3>3, Zenon DEF Acked
  <2> QED BY <2>2, <2>3, Zenon

  \* What is chosen stays chosen.
<1>ChosenStays.
      ASSUME Sound, Sound', NEW G, Chronicle(G), NEW H, Continues(G, H), CallsMove(G),
             NEW t \in Nat, NEW n \in Nat, Chosen(G, t, n)
      PROVE  Chosen(H, t, n)'
  <2> USE <1>ChosenStays
  <2>1. n < Len(G[t]) /\ OwnSlot(G, t, n)
      BY Zenon DEF Chosen
  <2>2. n < Len(H[t]) /\ OwnSlot(H, t, n)
      BY <2>1, OwnSlotStays, Zenon
  <2>3. PICK Q \in SUBSET Server : IsMajority(Q) /\ \A k \in Q : Acked(k, t, n)
      BY Zenon DEF Chosen
  <2>4. ASSUME NEW k \in Q PROVE Acked(k, t, n)'
      <3>1. k \in Server /\ Acked(k, t, n) /\ n <= n
          BY <2>3
      <3> QED BY <3>1, <1>AckedStays, Zenon
  <2> QED BY <2>2, <2>3, <2>4, Zenon DEF Chosen

  (* A log that takes what a leader sends keeps what is committed: the leader  *)
  (* of a later term has it, and the call reaches beyond it.                   *)
<1>TakesCommitted.
      ASSUME WellOrdered, MajoritiesMeet, Sound, Sound', NEW G, Chronicle(G), Safe(G),
             NEW k \in Server, Committed(G, k),
             NEW m \in aeReqs, Takes(G, m, k)
      PROVE  /\ commitIndex[k] <= Reach(m)
             /\ Agrees(log[k], log'[k], commitIndex[k] + 1)
  <2> USE <1>TakesCommitted
  <2> DEFINE c == commitIndex[k]
  <2>1. /\ c \in Nat /\ currentTerm[k] \in Nat /\ m.term \in Nat /\ Reach(m) \in Nat
        /\ currentTerm[k] <= m.term
        /\ log[k] \in Seq(LogEntry) /\ log'[k] \in Seq(LogEntry)
        /\ Len(log[k]) \in Nat /\ Len(log'[k]) \in Nat
        /\ Len(log'[k]) = Reach(m) + 1 /\ Begins(log'[k], G[m.term])
      <3>1. /\ c \in Nat /\ currentTerm[k] \in Nat /\ log[k] \in Seq(LogEntry)
          BY PeerTypes, Zenon
      <3>2. m.term \in Nat /\ Reach(m) \in Nat
          BY AppendTypes, Zenon DEF Sound
      <3>3. log'[k] \in Seq(LogEntry)
          BY Zenon DEF Sound, TypeInv, TypeOK
      <3> QED BY <3>1, <3>2, <3>3 DEF Takes
  <2> HIDE DEF c
  <2>2. CASE c = 0
      <3>1. GoodLog(log[k]) /\ GoodLog(log'[k])
          BY Zenon DEF Sound, TypeInv, SlotZero
      <3>2. Agrees(log[k], log'[k], 1)
          BY <2>1, <3>1 DEF Agrees, GoodLog
      <3>3. c + 1 = 1 /\ c <= Reach(m)
          BY <2>1, <2>2
      <3> QED BY <3>2, <3>3, Zenon DEF c
  <2>3. CASE c # 0
      <3>1. PICK t \in Nat : /\ Covers(G, log[k], c, t) /\ t <= currentTerm[k]
                             /\ t = currentTerm[k] => Acked(k, t, c)
          BY <2>3, Zenon DEF Committed, c
      <3>2. PICK n \in Nat : c <= n /\ Chosen(G, t, n) /\ Agrees(log[k], G[t], c + 1)
          BY <3>1, Zenon DEF Covers
      <3>3. G[t] \in Seq(LogEntry) /\ G[m.term] \in Seq(LogEntry) /\ c + 1 \in Nat
          BY <2>1 DEF Chronicle, Typed
      <3>4. c <= Reach(m) /\ Agrees(G[m.term], G[t], c + 1)
          <4>1. CASE t = m.term
              <5>1. Acked(k, m.term, c)
                  BY <2>1, <3>1, <4>1
              <5>2. c <= Reach(m)
                  BY <2>1, <5>1, TakesReach, Zenon DEF Safe
              <5>3. c + 1 <= Len(G[t])
                  BY <3>2, Zenon DEF Agrees
              <5> QED BY <4>1, <5>2, <5>3, Zenon DEF Agrees
          <4>2. CASE t # m.term
              <5>1. t < m.term /\ Led(m.term)
                  BY <2>1, <3>1, <4>2 DEF Led
              <5>2. Agrees(G[m.term], G[t], n + 1)
                  BY <2>1, <3>2, <5>1, Completeness, Zenon DEF Safe
              <5>3. OwnSlot(G, t, n)
                  BY <3>2, Zenon DEF Chosen
              <5>4. /\ n + 1 \in 1 .. Len(G[m.term])
                    /\ G[m.term][n + 1].term # m.term
                  <6>1. Len(G[m.term]) \in Nat
                      BY <3>3
                  <6>2. n + 1 \in 1 .. (n + 1)
                      OBVIOUS
                  <6>3. n + 1 <= Len(G[m.term]) /\ G[m.term][n + 1] = G[t][n + 1]
                      BY <5>2, <6>2, Zenon DEF Agrees
                  <6> QED BY <4>2, <5>3, <6>1, <6>3 DEF OwnSlot
              <5>5. n + 1 <= Reach(m) + 1
                  BY <5>4, Zenon DEF Safe, Dated
              <5>6. n + 1 \in Nat /\ c + 1 <= n + 1 /\ c <= Reach(m)
                  BY <2>1, <3>2, <5>5
              <5>7. Agrees(G[m.term], G[t], c + 1)
                  BY <3>3, <5>2, <5>6, AgreesShorter, Zenon
              <5> QED BY <5>6, <5>7, Zenon
          <4> QED BY <4>1, <4>2, Zenon
      <3>5. Agrees(log'[k], G[m.term], c + 1)
          <4>1. c + 1 <= Len(log'[k])
              BY <2>1, <3>4
          <4> QED BY <2>1, <3>3, <4>1, BeginsAgrees, Zenon
      <3>6. Agrees(log'[k], G[t], c + 1)
          BY <3>3, <3>4, <3>5, AgreesThrough, Zenon
      <3>7. Agrees(log[k], log'[k], c + 1)
          BY <3>2, <3>3, <3>6, AgreesBack, AgreesThrough, Zenon
      <3> QED BY <3>4, <3>7, Zenon DEF c
  <2> QED BY <2>2, <2>3, Zenon

  \* No step takes what is committed out of a log.
<1>CommittedEntriesStay.
      ASSUME WellOrdered, MajoritiesMeet, Sound, Sound', NEW G, Chronicle(G), Safe(G),
             NEW k \in Server, Committed(G, k), PeerMoves(G, k)
      PROVE  Agrees(log[k], log'[k], commitIndex[k] + 1)
  <2> USE <1>CommittedEntriesStay
  <2>1. CASE \E m \in aeReqs : Takes(G, m, k)
      BY <2>1, <1>TakesCommitted, Zenon
  <2>2. CASE Begins(log[k], log'[k])
      <3>1. /\ log[k] \in Seq(LogEntry) /\ log'[k] \in Seq(LogEntry)
            /\ commitIndex[k] + 1 \in Nat /\ Len(log[k]) \in Nat /\ Len(log[k]) >= 1
          <4>1. TypeInv /\ TypeInv'
              BY Zenon DEF Sound
          <4>2. /\ log[k] \in Seq(LogEntry) /\ Len(log[k]) \in Nat
                /\ Len(log[k]) >= 1
              BY <4>1, LogTypes, Zenon
          <4>3. log'[k] \in Seq(LogEntry) /\ commitIndex[k] \in Nat
              BY <4>1, Zenon DEF TypeInv, TypeOK
          <4>4. commitIndex[k] + 1 \in Nat
              BY ONLY <4>3
          <4> QED BY <4>2, <4>3, <4>4, Zenon
      <3>2. commitIndex[k] + 1 <= Len(log[k])
          <4>1. CASE commitIndex[k] = 0
              BY <3>1, <4>1
          <4>2. CASE commitIndex[k] # 0
              BY <4>2, Zenon DEF Committed, Covers, Agrees
          <4> QED BY <4>1, <4>2, Zenon
      <3> QED BY <2>2, <3>1, <3>2, BeginsAgrees, Zenon
  <2> QED BY <2>1, <2>2, Zenon DEF PeerMoves

  \* A term's log that has grown covers what it covered.
<1>CoversStays.
      ASSUME Sound, Sound', NEW G, Chronicle(G), NEW H, Continues(G, H), CallsMove(G),
             NEW a \in Seq(LogEntry), NEW b \in Seq(LogEntry), NEW c \in Nat,
             Agrees(a, b, c + 1), NEW t \in Nat, Covers(G, a, c, t)
      PROVE  Covers(H, b, c, t)'
  <2> USE <1>CoversStays
  <2>1. PICK n \in Nat : c <= n /\ Chosen(G, t, n) /\ Agrees(a, G[t], c + 1)
      BY Zenon DEF Covers
  <2>2. Chosen(H, t, n)'
      BY <2>1, <1>ChosenStays, Zenon
  <2>3. /\ G[t] \in Seq(LogEntry) /\ H[t] \in Seq(LogEntry) /\ Begins(G[t], H[t])
        /\ c + 1 \in Nat
      BY StepTypes
  <2>4. Agrees(b, G[t], c + 1)
      BY <2>1, <2>3, AgreesBack, AgreesThrough, Zenon
  <2>5. Begins(b, b)
      BY BeginsItself, Zenon
  <2>6. Agrees(b, H[t], c + 1)
      BY <2>3, <2>4, <2>5, AgreesStays, Zenon
  <2> QED BY <2>1, <2>2, <2>6, Zenon DEF Covers

  \* The leader that advances has the acknowledgement of a majority.
<1>AdvancesChosen.
      ASSUME Sound, Sound', NEW G, Chronicle(G), NEW H, Continues(G, H), CallsMove(G),
             NEW k \in Server, Settles(G, k), Advances(k),
             \A j \in Server : Matched(k, j),
             NEW t \in Nat, t = currentTerm[k], NEW c \in Nat, c = commitIndex'[k]
      PROVE  /\ Chosen(H, t, c)'
             /\ Agrees(log'[k], H[t], c + 1)
             /\ Acked(k, t, c)'
  <2> USE <1>AdvancesChosen
  <2>1. /\ commitIndex[k] \in Nat
        /\ log[k] \in Seq(LogEntry) /\ Len(log[k]) \in Nat
        /\ matchIndex \in [Server -> [Server -> Int]]
      BY PeerTypes
  <2>2. /\ state[k] = Leader /\ state'[k] = Leader /\ currentTerm'[k] = t
        /\ log'[k] = log[k]
        /\ c \in (commitIndex[k] + 1) .. lastLogIndex(log[k])
        /\ At(log[k], c).term = t
        /\ IsMajority({k} \cup {j \in Server : matchIndex'[k][j] >= c})
      BY Zenon DEF Advances
  <2>3. log[k] = H[t]
      BY <2>2, Zenon DEF Continues, Chronicle
  <2>4. c >= 1 /\ c < Len(log[k])
      BY <2>1, <2>2 DEF lastLogIndex
  <2>5. c < Len(H[t]) /\ OwnSlot(H, t, c)
      BY <2>2, <2>3, <2>4, Zenon DEF OwnSlot, At
  <2>6. Acked(k, t, c)'
      <3>1. HasLed(k, t)
          BY <2>2 DEF Sound, ElectionInv, LeaderCalls, HasLed
      <3>2. HasLed(k, t)'
          BY <3>1, Zenon DEF HasLed, CallsMove
      <3> QED BY <3>2, Zenon DEF Acked
  <2>7. ASSUME NEW j \in Server, j # k, matchIndex'[k][j] >= c
        PROVE  Acked(j, t, c)'
      <3>1. CASE matchIndex'[k][j] = -1
          BY <2>4, <2>7, <3>1
      <3>2. CASE matchIndex'[k][j] = matchIndex[k][j]
          <4>1. /\ matchIndex[k][j] \in Nat /\ c <= matchIndex[k][j]
                /\ matchIndex[k][j] >= 0
              BY <2>1, <2>4, <2>7, <3>2
          <4>2. Acked(j, t, matchIndex[k][j])
              BY <2>2, <2>7, <4>1, Zenon DEF Matched
          <4> QED BY <4>1, <4>2, <1>AckedStays, Zenon
      <3>3. CASE \E r \in aeReps : /\ r.src = j /\ r.argsTerm = currentTerm'[k]
                                   /\ r.success /\ r.match = matchIndex'[k][j]
          <4>1. PICK r \in aeReps : /\ r.src = j /\ r.argsTerm = t
                                    /\ r.success /\ r.match = matchIndex'[k][j]
              BY <2>2, <3>3, Zenon
          <4>2. r.match \in Nat
              BY AppendTypes, Zenon DEF Sound
          <4>3. c <= r.match /\ r \in aeReps'
              BY <2>7, <4>1, <4>2, Zenon DEF CallsMove
          <4> QED BY <4>1, <4>3, Zenon DEF Acked
      <3> QED BY <2>2, <2>7, <3>1, <3>2, <3>3, Zenon DEF Settles
  <2>8. Chosen(H, t, c)'
      <3>1. PICK Q : Q = {k} \cup {j \in Server : matchIndex'[k][j] >= c}
          BY Zenon
      <3>2. \A j \in Q : Acked(j, t, c)'
          BY <2>6, <2>7, <3>1, Zenon
      <3>3. Q \in SUBSET Server /\ IsMajority(Q)
          BY <2>2, <3>1, Zenon
      <3> QED BY <2>5, <3>2, <3>3, Zenon DEF Chosen
  <2>9. Agrees(log'[k], H[t], c + 1)
      BY <2>1, <2>2, <2>3, <2>4 DEF Agrees
  <2> QED BY <2>6, <2>8, <2>9, Zenon

<1>CommittedStays.
      ASSUME WellOrdered, MajoritiesMeet, Sound, Sound', NEW G, Chronicle(G), Safe(G),
             NEW H, Continues(G, H), StepOf(G), CommitInv(G), NEW k \in Server
      PROVE  Committed(H, k)'
  <2> USE <1>CommittedStays
  <2>1. /\ currentTerm[k] \in Nat /\ currentTerm'[k] \in Nat
        /\ commitIndex[k] \in Nat /\ commitIndex'[k] \in Nat
        /\ log[k] \in Seq(LogEntry) /\ log'[k] \in Seq(LogEntry)
      BY Zenon DEF Sound, TypeInv, TypeOK
  <2>2. /\ CallsMove(G) /\ PeerMoves(G, k) /\ Settles(G, k) /\ Committed(G, k)
        /\ \A j \in Server : Matched(k, j)
      BY Zenon DEF StepOf, PeerStep, CommitInv
  <2>3. currentTerm[k] <= currentTerm'[k]
      BY <2>2, Zenon DEF PeerMoves
  <2>4. PICK c \in Nat : c = commitIndex'[k]
      BY <2>1, Zenon
  <2>5. ASSUME NEW t \in Nat, Covers(H, log[k], c, t)', t <= currentTerm'[k],
               t = currentTerm'[k] => Acked(k, t, c)'
        PROVE  Committed(H, k)'
      BY <2>4, <2>5, Zenon DEF Committed
  <2>6. CASE c = commitIndex[k] /\ c # 0
      <3>1. PICK t \in Nat : /\ Covers(G, log[k], c, t)
                             /\ t <= currentTerm[k]
                             /\ t = currentTerm[k] => Acked(k, t, c)
          BY <2>2, <2>6, Zenon DEF Committed
      <3>2. Agrees(log[k], log'[k], c + 1)
          BY <2>2, <2>6, <1>CommittedEntriesStay, Zenon
      <3>3. Covers(H, log[k], c, t)'
          BY <2>1, <2>2, <3>1, <3>2, <1>CoversStays, Zenon
      <3>4. t <= currentTerm'[k]
          BY <2>1, <2>3, <3>1
      <3>5. ASSUME t = currentTerm'[k] PROVE Acked(k, t, c)'
          <4>1. t = currentTerm[k] /\ c <= c
              BY <2>1, <2>3, <3>1, <3>5
          <4> QED BY <2>2, <3>1, <4>1, <1>AckedStays, Zenon
      <3> QED BY <2>5, <3>3, <3>4, <3>5, Zenon
  <2>7. CASE c = 0
      BY <2>4, <2>7, Zenon DEF Committed
  <2>8. CASE Advances(k)
      <3>1. PICK t \in Nat : t = currentTerm[k]
          BY <2>1, Zenon
      <3>2. Chosen(H, t, c)' /\ Agrees(log'[k], H[t], c + 1) /\ Acked(k, t, c)'
          BY <2>2, <2>4, <2>8, <3>1, <1>AdvancesChosen, Zenon
      <3>3. Covers(H, log[k], c, t)'
          BY <3>2 DEF Covers
      <3> QED BY <2>1, <2>3, <2>5, <3>1, <3>2, <3>3, Zenon
  <2>9. ASSUME NEW m \in aeReqs, Takes(G, m, k), commitIndex[k] < m.leaderCommit,
               c = min(m.leaderCommit, Reach(m))
        PROVE  Committed(H, k)'
      <3>1. /\ m.term \in Nat /\ Reach(m) \in Nat /\ m.leaderCommit \in Nat
            /\ currentTerm'[k] = m.term
            /\ Len(log'[k]) = Reach(m) + 1 /\ Begins(log'[k], G[m.term])
          BY <2>9, AppendTypes, Zenon DEF Sound, Takes
      <3>2. c <= m.leaderCommit /\ c <= Reach(m) /\ m.leaderCommit # 0
          BY <2>1, <2>9, <3>1 DEF min
      <3>3. PICK t \in Nat : t <= m.term /\ Covers(G, G[m.term], m.leaderCommit, t)
          BY <3>2, Zenon DEF CommitInv, Announced
      <3>4. PICK n \in Nat : /\ m.leaderCommit <= n /\ Chosen(G, t, n)
                             /\ Agrees(G[m.term], G[t], m.leaderCommit + 1)
          BY <3>3, Zenon DEF Covers
      <3>5. /\ G[t] \in Seq(LogEntry) /\ G[m.term] \in Seq(LogEntry)
            /\ m.leaderCommit + 1 \in Nat /\ c + 1 \in Nat
            /\ c + 1 <= m.leaderCommit + 1 /\ c + 1 <= Len(log'[k]) /\ c <= n
          BY <3>1, <3>2, <3>4 DEF Chronicle, Typed
      <3>6. Agrees(G[m.term], G[t], c + 1)
          BY <3>4, <3>5, AgreesShorter, Zenon
      <3>7. Agrees(log'[k], G[m.term], c + 1)
          BY <2>1, <3>1, <3>5, BeginsAgrees, Zenon
      <3>8. Agrees(log'[k], G[t], c + 1) /\ Agrees(log'[k], log'[k], c + 1)
          BY <3>5, <3>6, <3>7, AgreesThrough, Zenon DEF Agrees
      <3>9. Covers(G, log'[k], c, t)
          BY <3>4, <3>5, <3>8, Zenon DEF Covers
      <3>10. Covers(H, log[k], c, t)'
          BY <2>1, <2>2, <3>8, <3>9, <1>CoversStays, Zenon
      <3>11. ASSUME t = currentTerm'[k] PROVE Acked(k, t, c)'
          <4>1. PICK r \in aeReps' : /\ r.src = k /\ r.argsTerm = m.term
                                     /\ r.success /\ r.match = Reach(m)
              BY <2>9, Zenon DEF Takes
          <4>2. r.argsTerm = t /\ c <= r.match
              BY <3>1, <3>2, <3>11, <4>1, Zenon
          <4> QED BY <4>1, <4>2, Zenon DEF Acked
      <3> QED BY <2>5, <3>1, <3>3, <3>10, <3>11, Zenon
  <2> QED BY <2>2, <2>4, <2>6, <2>7, <2>8, <2>9, Zenon DEF Settles, Forgets

<1>AnnouncedStays.
      ASSUME WellOrdered, MajoritiesMeet, Sound, Sound', NEW G, Chronicle(G), Safe(G),
             NEW H, Continues(G, H), StepOf(G), CommitInv(G), NEW m \in aeReqs'
      PROVE  Announced(H, m)'
  <2> USE <1>AnnouncedStays
  <2>1. m.term \in Nat /\ m.src \in Server /\ m.leaderCommit \in Nat
      BY StepCallTypes, Zenon
  <2>2. CallsMove(G)
      BY Zenon DEF StepOf
  <2>3. CASE m \in aeReqs
      <3>1. CASE m.leaderCommit = 0
          BY <3>1, Zenon DEF Announced
      <3>2. CASE m.leaderCommit # 0
          <4>1. PICK t \in Nat : t <= m.term /\ Covers(G, G[m.term], m.leaderCommit, t)
              BY <2>3, <3>2, Zenon DEF CommitInv, Announced
          <4>2. /\ G[m.term] \in Seq(LogEntry) /\ H[m.term] \in Seq(LogEntry)
                /\ Begins(G[m.term], H[m.term]) /\ m.leaderCommit + 1 \in Nat
              BY <2>1, StepTypes
          <4>3. m.leaderCommit + 1 <= Len(G[m.term])
              BY <4>1, Zenon DEF Covers, Agrees
          <4>4. Agrees(G[m.term], H[m.term], m.leaderCommit + 1)
              BY <4>2, <4>3, BeginsAgrees, Zenon
          <4>5. Covers(H, H[m.term], m.leaderCommit, t)'
              BY <2>1, <2>2, <4>1, <4>2, <4>4, <1>CoversStays, Zenon
          <4> QED BY <4>1, <4>5, Zenon DEF Announced
      <3> QED BY <3>1, <3>2, Zenon
  <2>4. CASE m \notin aeReqs
      <3>1. /\ state'[m.src] = Leader /\ m.term = currentTerm'[m.src]
            /\ m.leaderCommit = commitIndex'[m.src]
          BY <2>2, <2>4, Zenon DEF CallsMove
      <3>2. log'[m.src] = H[m.term]
          BY <2>1, <3>1, Zenon DEF Continues, Chronicle
      <3>3. Committed(H, m.src)'
          BY <2>1, <1>CommittedStays, Zenon
      <3> QED BY <3>1, <3>2, <3>3, Zenon DEF Committed, Announced
  <2> QED BY <2>3, <2>4, Zenon

<1>MatchedStays.
      ASSUME Sound, Sound', NEW G, StepOf(G), CommitInv(G),
             NEW i \in Server, NEW j \in Server
      PROVE  Matched(i, j)'
  <2> USE <1>MatchedStays
  <2> SUFFICES ASSUME state'[i] = Leader, j # i, matchIndex'[i][j] >= 0
               PROVE  Acked(j, currentTerm[i], matchIndex[i][j])'
      BY Zenon DEF Matched
  <2>1. CallsMove(G) /\ Settles(G, i) /\ Matched(i, j)
      BY Zenon DEF StepOf, PeerStep, CommitInv
  <2>2. /\ currentTerm[i] \in Nat /\ currentTerm'[i] \in Nat
        /\ matchIndex[i][j] \in Int /\ matchIndex'[i][j] \in Int
      BY Zenon DEF Sound, TypeInv, TypeOK
  <2>3. PICK t \in Nat, n \in Nat : t = currentTerm'[i] /\ n = matchIndex'[i][j]
      BY <2>2
  <2>4. Acked(j, t, n)'
      <3>1. CASE /\ state[i] = Leader /\ currentTerm'[i] = currentTerm[i]
                 /\ matchIndex'[i][j] = matchIndex[i][j]
          <4>1. Acked(j, t, n) /\ n <= n
              BY <2>1, <2>3, <3>1 DEF Matched
          <4> QED BY <2>1, <4>1, <1>AckedStays, Zenon
      <3>2. ASSUME NEW r \in aeReps, r.src = j, r.argsTerm = currentTerm'[i],
                   r.success, r.match = matchIndex'[i][j]
            PROVE  Acked(j, t, n)'
          BY <2>1, <2>3, <3>2 DEF Acked, CallsMove
      <3> QED BY <2>1, <2>3, <3>1, <3>2 DEF Settles
  <2> QED BY <2>3, <2>4, Zenon

<1>DeliveredStays.
      ASSUME WellOrdered, MajoritiesMeet, Sound, Sound', NEW G, Chronicle(G), Safe(G),
             StepOf(G), CommitInv(G), NEW k \in Server
      PROVE  Delivered(k)'
  <2> USE <1>DeliveredStays
  <2> DEFINE a == applied[k]
             b == applied'[k]
             c == commitIndex[k]
             d == commitIndex'[k]
  <2>1. /\ a \in Seq(LogEntry) /\ Len(a) \in Nat /\ b \in Seq(LogEntry) /\ Len(b) \in Nat
        /\ c \in Nat /\ d \in Nat
        /\ log[k] \in Seq(LogEntry) /\ Len(log[k]) \in Nat
      <3>1. /\ a \in Seq(LogEntry) /\ b \in Seq(LogEntry)
            /\ c \in Nat /\ d \in Nat /\ log[k] \in Seq(LogEntry)
          BY Zenon DEF Sound, TypeInv, TypeOK
      <3>2. Len(a) \in Nat /\ Len(b) \in Nat /\ Len(log[k]) \in Nat
          BY ONLY <3>1
      <3> QED BY <3>1, <3>2, Zenon
  <2>2. /\ PeerMoves(G, k) /\ Settles(G, k) /\ Committed(G, k) /\ Delivered(k)
      BY Zenon DEF StepOf, PeerStep, CommitInv
  <2>3. Len(a) <= c /\ \A x \in 1 .. Len(a) : a[x] = log[k][x + 1]
      BY <2>2, Zenon DEF Delivered
  <2>4. \A x \in 1 .. (c + 1) : log[k][x] = log'[k][x]
      BY <2>2, <1>CommittedEntriesStay, Zenon DEF Agrees
  <2> SUFFICES Len(b) <= d /\ \A x \in 1 .. Len(b) : b[x] = log'[k][x + 1]
      BY Zenon DEF Delivered
  <2>5. CASE Forgets(k)
      BY <2>5 DEF Forgets
  <2>6. CASE ~ Forgets(k)
      <3>1. c <= d
          <4>1. CASE Advances(k)
              BY <2>1, <4>1 DEF Advances, lastLogIndex
          <4>2. ASSUME NEW m \in aeReqs, Takes(G, m, k), c < m.leaderCommit,
                       d = min(m.leaderCommit, Reach(m))
                PROVE  c <= d
              <5>1. c <= Reach(m)
                  BY <2>2, <4>2, <1>TakesCommitted, Zenon
              <5>2. m.leaderCommit \in Nat /\ Reach(m) \in Nat
                  BY AppendTypes, Zenon DEF Sound
              <5> QED BY <2>1, <4>2, <5>1, <5>2 DEF min
          <4> QED BY <2>1, <2>2, <2>6, <4>1, <4>2 DEF Settles
      <3>2. CASE b = a
          <4>1. ASSUME NEW x \in 1 .. Len(a) PROVE a[x] = log'[k][x + 1]
              <5>1. x + 1 \in 1 .. (c + 1)
                  BY <2>1, <2>3
              <5> QED BY <2>3, <2>4, <5>1, Zenon
          <4> QED BY <2>1, <2>3, <3>1, <3>2, <4>1
      <3>3. CASE Applies(k)
          <4> DEFINE e == SubSeq(log[k], Len(a) + 2, c + 1)
          <4>1. /\ log'[k] = log[k] /\ d = c /\ Len(a) < c /\ c < Len(log[k])
                /\ b = a \o e
              BY <3>3, Zenon DEF Applies
          <4>2. /\ e \in Seq(LogEntry) /\ Len(e) = c - Len(a)
                /\ \A x \in 1 .. (c - Len(a)) : e[x] = log[k][Len(a) + 1 + x]
              <5>1. ASSUME NEW x \in (Len(a) + 2) .. (c + 1) PROVE log[k][x] \in LogEntry
                  <6>1. x \in 1 .. Len(log[k])
                      BY <2>1, <4>1
                  <6> QED BY <2>1, <6>1, EntryOf, Zenon
              <5>2. /\ SubSeq(log[k], Len(a) + 2, c + 1) \in Seq(LogEntry)
                    /\ Len(SubSeq(log[k], Len(a) + 2, c + 1)) =
                           IF Len(a) + 2 <= c + 1 THEN (c + 1) - (Len(a) + 2) + 1 ELSE 0
                    /\ \A x \in 1 .. ((c + 1) - (Len(a) + 2) + 1) :
                           SubSeq(log[k], Len(a) + 2, c + 1)[x] =
                               log[k][(Len(a) + 2) + x - 1]
                  BY <2>1, <5>1, SubSeqFacts
              <5> HIDE DEF a, c
              <5>3. (c + 1) - (Len(a) + 2) + 1 = c - Len(a) /\ Len(a) + 2 <= c + 1
                  BY <2>1, <4>1
              <5>4. \A x \in 1 .. (c - Len(a)) : (Len(a) + 2) + x - 1 = Len(a) + 1 + x
                  BY <2>1
              <5> QED BY <5>2, <5>3, <5>4, Zenon
          <4> HIDE DEF a, b, c, d, e
          <4>3. Len(b) = c
              BY <2>1, <4>1, <4>2, ConcatFacts
          <4>4. ASSUME NEW x \in 1 .. c PROVE b[x] = log[k][x + 1]
              <5>1. b[x] = IF x <= Len(a) THEN a[x] ELSE e[x - Len(a)]
                  <6>1. x \in 1 .. (Len(a) + Len(e))
                      BY <2>1, <4>1, <4>2
                  <6> QED BY <2>1, <4>1, <4>2, <6>1, ConcatFacts, Zenon
              <5>2. CASE x <= Len(a)
                  BY <2>1, <2>3, <5>1, <5>2
              <5>3. CASE ~ (x <= Len(a))
                  <6>1. /\ x - Len(a) \in 1 .. (c - Len(a))
                        /\ Len(a) + 1 + (x - Len(a)) = x + 1
                      BY <2>1, <5>3
                  <6> QED BY <4>2, <5>1, <5>3, <6>1, Zenon
              <5> QED BY <5>2, <5>3, Zenon
          <4> QED BY <2>1, <4>1, <4>3, <4>4
      <3> QED BY <2>2, <2>6, <3>2, <3>3, Zenon DEF Settles
  <2> QED BY <2>5, <2>6, Zenon

<1> SUFFICES ASSUME WellOrdered, MajoritiesMeet, Sound, Sound', NEW G, Chronicle(G),
                    Safe(G), NEW H, Continues(G, H), StepOf(G), CommitInv(G)
             PROVE  CommitInv(H)'
    BY Zenon
<1>1. ASSUME NEW k \in Server PROVE Committed(H, k)' /\ Delivered(k)'
    BY <1>CommittedStays, <1>DeliveredStays, Zenon
<1>2. ASSUME NEW m \in aeReqs' PROVE Announced(H, m)'
    BY <1>AnnouncedStays, Zenon
<1>3. ASSUME NEW i \in Server, NEW j \in Server PROVE Matched(i, j)'
    BY <1>MatchedStays, Zenon
<1> QED BY <1>1, <1>2, <1>3, Zenon DEF CommitInv

LEMMA InitSafe ==
    ASSUME Init, Sound, NEW G, Chronicle(G)
    PROVE  Safe(G) /\ CommitInv(G)
<1>1. /\ state = [i \in Server |-> Follower]
      /\ commitIndex = [i \in Server |-> 0]
      /\ applied = [i \in Server |-> << >>]
      /\ currentTerm = [i \in Server |-> 0]
      /\ persisted = [i \in Server |->
             [currentTerm |-> 0, votedFor |-> None, log |-> <<Sentinel>>]]
      /\ handled = [i \in Server |-> [term |-> 0, reach |-> 0]]
      /\ rvReqs = {} /\ rvReps = {} /\ aeReqs = {} /\ aeReps = {}
    BY Zenon DEF Init
<1>2. ASSUME NEW t \in Nat PROVE ~ Led(t) /\ G[t] = <<Sentinel>>
    BY <1>1, Zenon DEF Led, Chronicle
<1>3. ASSUME NEW k \in Server, NEW t \in Nat, NEW n \in Nat PROVE ~ Acked(k, t, n)
    BY <1>1, Zenon DEF Acked, HasLed
<1>4. ASSUME NEW t \in Nat
      PROVE  Ordered(<<Sentinel>>) /\ TermsUpTo(<<Sentinel>>, t)
    <2> DEFINE one == <<Sentinel>>
    <2>1. Len(one) = 1 /\ one[1].term = 0
        BY Zenon DEF Sentinel
    <2> HIDE DEF one
    <2>2. \A x \in 1 .. Len(one) : x = 1
        BY <2>1
    <2>3. Ordered(one) /\ TermsUpTo(one, t)
        BY <2>1, <2>2 DEF Ordered, TermsUpTo
    <2> QED BY <2>3, Zenon DEF one
<1>5. Dated(G)
    <2>1. ASSUME NEW i \in Server PROVE TermsUpTo(persisted[i].log, currentTerm[i])
        <3>1. persisted[i].log = <<Sentinel>> /\ currentTerm[i] = 0
            BY <1>1, Zenon
        <3> QED BY <1>4, <3>1
    <2>2. ASSUME NEW t \in Nat PROVE Ordered(G[t]) /\ TermsUpTo(G[t], t)
        BY <1>2, <1>4, Zenon
    <2> QED BY <1>1, <2>1, <2>2, Zenon DEF Dated
<1>6. InOrder /\ Candidates /\ Ballot(G)
    BY <1>1 DEF InOrder, Candidates, Ballot
<1>7. Kept(G) /\ Elected(G)
    BY <1>2, <1>3, Zenon DEF Kept, Held, Elected
<1>8. ASSUME NEW k \in Server PROVE Committed(G, k) /\ Delivered(k)
    <2>1. commitIndex[k] = 0 /\ applied[k] = << >> /\ Len(applied[k]) = 0
        BY <1>1, EmptySeq, Zenon
    <2> QED BY <2>1 DEF Committed, Delivered
<1>9. ASSUME NEW i \in Server, NEW j \in Server PROVE Matched(i, j)
    BY <1>1, Zenon DEF Matched, Follower, Leader
<1> QED BY <1>1, <1>5, <1>6, <1>7, <1>8, <1>9, Zenon DEF Safe, CommitInv

-----------------------------------------------------------------------------
(*****************************************************************************)
(* What follows.                                                             *)
(*****************************************************************************)

\* What a peer counts as committed is in its log.
LEMMA CommitInLog ==
    ASSUME Sound, NEW G, CommitInv(G), NEW i \in Server
    PROVE  commitIndex[i] \in Nat /\ commitIndex[i] + 1 <= Len(log[i])
<1>1. commitIndex[i] \in Nat /\ Len(log[i]) \in Nat /\ Len(log[i]) >= 1
    BY DEF Sound, TypeInv, TypeOK
<1>2. CASE commitIndex[i] = 0
    BY <1>1, <1>2
<1>3. CASE commitIndex[i] # 0
    BY <1>1, <1>3, Zenon DEF CommitInv, Committed, Covers, Agrees
<1> QED BY <1>2, <1>3, Zenon

LEMMA CommitsWithinLog ==
    ASSUME Sound, NEW G, CommitInv(G)
    PROVE  CommitWithinLog
<1> SUFFICES ASSUME NEW i \in Server PROVE commitIndex[i] <= lastLogIndex(log[i])
    BY Zenon DEF CommitWithinLog
<1>1. Len(log[i]) \in Nat
    BY PeerTypes
<1> QED BY <1>1, CommitInLog DEF lastLogIndex

LEMMA LeadersComplete ==
    ASSUME WellOrdered, MajoritiesMeet, Sound, NEW G, Chronicle(G), Safe(G),
           CommitInv(G)
    PROVE  LeaderCompleteness
<1> SUFFICES ASSUME NEW i \in Server, NEW j \in Server,
                    state[j] = Leader, currentTerm[j] >= currentTerm[i]
             PROVE  /\ commitIndex[i] <= lastLogIndex(log[j])
                    /\ SameUpTo(log[i], log[j], commitIndex[i] + 1)
    BY Zenon DEF LeaderCompleteness
<1> DEFINE c == commitIndex[i]
           w == currentTerm[j]
<1>1. /\ c \in Nat /\ w \in Nat /\ currentTerm[i] \in Nat /\ c + 1 \in Nat
      /\ log[i] \in Seq(LogEntry) /\ log[j] \in Seq(LogEntry) /\ Len(log[j]) \in Nat
    BY PeerTypes
<1>2. log[j] = G[w] /\ Led(w)
    BY Zenon DEF Chronicle, Led, Sound, ElectionInv, LeaderCalls
<1>3. Agrees(log[i], log[j], c + 1)
    <2>1. CASE c = 0
        <3>1. GoodLog(log[i]) /\ GoodLog(log[j])
            BY Zenon DEF Sound, TypeInv, SlotZero
        <3>2. Agrees(log[i], log[j], 1)
            BY <3>1 DEF Agrees, GoodLog
        <3> QED BY <2>1, <3>2
    <2>2. CASE c # 0
        <3>1. PICK t \in Nat : Covers(G, log[i], c, t) /\ t <= currentTerm[i]
            BY <2>2, Zenon DEF CommitInv, Committed
        <3>2. PICK n \in Nat : c <= n /\ Chosen(G, t, n) /\ Agrees(log[i], G[t], c + 1)
            BY <3>1, Zenon DEF Covers
        <3>3. G[t] \in Seq(LogEntry) /\ G[w] \in Seq(LogEntry)
            BY <1>1, Zenon DEF Chronicle, Typed
        <3>4. CASE t = w
            BY <1>2, <3>2, <3>4, Zenon
        <3>5. CASE t # w
            <4>1. t < w
                BY <1>1, <3>1, <3>5
            <4>2. Agrees(G[w], G[t], n + 1)
                BY <1>1, <1>2, <3>2, <4>1, Completeness, Zenon DEF Safe
            <4>3. n + 1 \in Nat /\ c + 1 <= n + 1
                BY <1>1, <3>2
            <4>4. Agrees(G[w], G[t], c + 1)
                BY <1>1, <3>3, <4>2, <4>3, AgreesShorter, Zenon
            <4> QED BY <1>1, <1>2, <3>2, <3>3, <4>4, AgreesBack,
                       AgreesThrough, Zenon
        <3> QED BY <3>4, <3>5, Zenon
    <2> QED BY <2>1, <2>2, Zenon
<1>4. c + 1 <= Len(log[j])
    BY <1>3, Zenon DEF Agrees
<1>5. c <= lastLogIndex(log[j])
    BY <1>1, <1>4 DEF lastLogIndex
<1>6. SameUpTo(log[i], log[j], c + 1)
    BY <1>1, <1>3, SameUpToFacts, Zenon
<1> QED BY <1>5, <1>6, Zenon

\* Two terms that have chosen a slot have the same entry in it.
LEMMA ChosenOnce ==
    ASSUME WellOrdered, MajoritiesMeet, Sound, NEW G, Chronicle(G), Safe(G),
           NEW t \in Nat, NEW n \in Nat, Chosen(G, t, n),
           NEW u \in Nat, NEW p \in Nat, Chosen(G, u, p), t <= u,
           NEW x \in Nat, 1 <= x, x <= n, x <= p
    PROVE  G[t][x + 1] = G[u][x + 1]
<1>1. CASE t # u
    <2>1. t < u
        BY <1>1
    <2>2. Led(u)
        <3> DEFINE l == Len(G[u])
        <3>1. p < l /\ l \in Nat
            BY DEF Chosen, Chronicle, Typed
        <3>2. Len(<<Sentinel>>) = 1
            BY Zenon
        <3> HIDE DEF l
        <3>3. l # 1
            BY <3>1
        <3> QED BY <3>2, <3>3, Zenon DEF Chronicle, l
    <2>3. Agrees(G[u], G[t], n + 1)
        BY <2>1, <2>2, Completeness, Zenon DEF Safe
    <2>4. x + 1 \in 1 .. (n + 1)
        OBVIOUS
    <2> QED BY <2>3, <2>4, Zenon DEF Agrees
<1> QED BY <1>1, Zenon

LEMMA DeliveriesAgree ==
    ASSUME WellOrdered, MajoritiesMeet, Sound, NEW G, Chronicle(G), Safe(G),
           CommitInv(G)
    PROVE  StateMachineSafety
<1> SUFFICES ASSUME NEW i \in Server, NEW j \in Server,
                    NEW k \in 1 .. min(Len(applied[i]), Len(applied[j]))
             PROVE  applied[i][k] = applied[j][k]
    BY Zenon DEF StateMachineSafety
<1>1. ASSUME NEW s \in Server
      PROVE  /\ Len(applied[s]) \in Nat /\ commitIndex[s] \in Nat
             /\ Len(applied[s]) <= commitIndex[s]
             /\ \A x \in 1 .. Len(applied[s]) : applied[s][x] = log[s][x + 1]
    <2>1. Delivered(s)
        BY Zenon DEF CommitInv
    <2>2. commitIndex[s] \in Nat /\ applied[s] \in Seq(LogEntry)
        BY PeerTypes, Zenon
    <2> QED BY <2>1, <2>2 DEF Delivered
<1>2. /\ k \in Nat /\ k >= 1 /\ k <= Len(applied[i]) /\ k <= Len(applied[j])
    BY <1>1 DEF min
<1>3. ASSUME NEW s \in Server, k <= Len(applied[s])
      PROVE  \E t, n \in Nat : /\ Chosen(G, t, n) /\ k <= n
                               /\ applied[s][k] = G[t][k + 1]
    <2>1. k <= commitIndex[s] /\ applied[s][k] = log[s][k + 1] /\ commitIndex[s] # 0
        BY <1>1, <1>2, <1>3
    <2>2. PICK t \in Nat : Covers(G, log[s], commitIndex[s], t)
        BY <2>1, Zenon DEF CommitInv, Committed
    <2>3. PICK n \in Nat : /\ commitIndex[s] <= n /\ Chosen(G, t, n)
                           /\ Agrees(log[s], G[t], commitIndex[s] + 1)
        BY <2>2, Zenon DEF Covers
    <2>4. k <= n /\ k + 1 \in 1 .. (commitIndex[s] + 1)
        BY <1>1, <1>2, <2>1, <2>3
    <2> QED BY <2>1, <2>3, <2>4, Zenon DEF Agrees
<1>4. PICK t \in Nat, n \in Nat : /\ Chosen(G, t, n) /\ k <= n
                                  /\ applied[i][k] = G[t][k + 1]
    BY <1>2, <1>3, Zenon
<1>5. PICK u \in Nat, p \in Nat : /\ Chosen(G, u, p) /\ k <= p
                                  /\ applied[j][k] = G[u][k + 1]
    BY <1>2, <1>3, Zenon
<1>6. t <= u \/ u <= t
    OBVIOUS
<1> QED BY <1>2, <1>4, <1>5, <1>6, ChosenOnce

LEMMA MatchesAreDurable ==
    ASSUME Sound, NEW G, Chronicle(G), Safe(G), CommitInv(G)
    PROVE  MatchIsDurable
<1> SUFFICES ASSUME NEW i \in Server, NEW j \in Server,
                    state[i] = Leader, currentTerm[j] = currentTerm[i]
             PROVE  /\ matchIndex[i][j] < Len(persisted[j].log)
                    /\ SameUpTo(persisted[j].log, log[i], matchIndex[i][j] + 1)
    BY Zenon DEF MatchIsDurable
<1> DEFINE x == matchIndex[i][j]
           t == currentTerm[i]
<1>1. /\ t \in Nat /\ log[i] \in Seq(LogEntry) /\ log[j] \in Seq(LogEntry)
      /\ persisted[j].log \in Seq(LogEntry) /\ Len(log[i]) \in Nat
      /\ Len(persisted[j].log) \in Nat
    BY LogTypes DEF Sound
<1>2. x \in -1 .. lastLogIndex(log[i])
    BY Zenon DEF Sound, LogInv, IndexesInRange
<1>3. log[i] = G[t]
    BY Zenon DEF Chronicle
<1>4. x \in Int /\ x + 1 \in Nat /\ x + 1 <= Len(log[i])
    BY <1>1, <1>2 DEF lastLogIndex
<1>5. Begins(log[j], persisted[j].log) /\ Begins(log[i], log[i])
    BY <1>1, DiskBegins, BeginsItself, Zenon DEF Sound, LogInv
<1> HIDE DEF x
<1>6. Agrees(log[j], log[i], x + 1)
    <2>1. CASE j = i
        BY <1>1, <1>4, <2>1, Zenon DEF Agrees
    <2>2. CASE x = -1
        <3>1. x + 1 = 0 /\ Len(log[j]) \in Nat
            BY <1>1, <2>2
        <3> QED BY <1>1, <3>1 DEF Agrees
    <2>3. CASE j # i /\ x # -1
        <3>1. x \in Nat /\ x >= 0 /\ x < Len(G[t])
            BY <1>1, <1>3, <1>4, <2>3
        <3>2. Acked(j, t, x)
            BY <2>3, <3>1, Zenon DEF CommitInv, Matched, x
        <3>3. Held(G, j, t, x)
            BY <3>1, <3>2, Zenon DEF Held
        <3> QED BY <1>1, <1>3, <3>1, <3>3, Zenon DEF Safe, Kept
    <2> QED BY <2>1, <2>2, <2>3, Zenon
<1>7. Agrees(persisted[j].log, log[i], x + 1)
    BY <1>1, <1>4, <1>5, <1>6, AgreesStays, Zenon
<1>8. SameUpTo(persisted[j].log, log[i], x + 1)
    BY <1>1, <1>4, <1>7, SameUpToFacts, Zenon
<1>9. x < Len(persisted[j].log)
    BY <1>1, <1>4, <1>7 DEF Agrees
<1> QED BY <1>8, <1>9, Zenon DEF x

-----------------------------------------------------------------------------
INSTANCE FiniteSetTheorems
INSTANCE WellFoundedInduction

\* A non-empty set of naturals has a least element.
LEMMA NaturalsWellOrdered == WellOrdered
<1> SUFFICES ASSUME NEW T \in SUBSET Nat, T # {}
             PROVE  \E n \in T : \A k \in T : n <= k
    BY Zenon DEF WellOrdered
<1>1. PICK n \in T : \A k \in T : ~ (<<k, n>> \in OpToRel(<, Nat))
    BY NatLessThanWellFounded, WFMin, Zenon
<1>2. \A k \in T : ~ (k < n)
    BY <1>1, Zenon DEF OpToRel
<1> QED BY <1>2

P == INSTANCE ElectionProofs WITH
         Quorum <- {Q \in SUBSET Server : IsMajority(Q)},
         term <- currentTerm, vote <- votedFor, role <- state,
         ballots <- Ballots, leads <- Leads

\* Two majorities of the peers have a peer in common.
LEMMA QuorumsOverlap == P!QuorumsMeet
<1> SUFFICES ASSUME NEW Q \in SUBSET Server, NEW R \in SUBSET Server,
                    IsMajority(Q), IsMajority(R)
             PROVE  Q \cap R # {}
    BY Zenon DEF P!QuorumsMeet
<1>1. IsFiniteSet(Server) /\ IsFiniteSet(Q) /\ IsFiniteSet(R)
    BY ServerAssumption, FS_Subset, Zenon
<1>2. /\ Cardinality(Server) \in Nat
      /\ Cardinality(Q) \in Nat
      /\ Cardinality(R) \in Nat
    BY <1>1, FS_CardinalityType, Zenon
<1>3. Cardinality(Q) + Cardinality(R) > Cardinality(Server)
    BY <1>2, Z3 DEF IsMajority
<1> QED BY <1>1, <1>3, FS_MajoritiesIntersect, Zenon

LEMMA MajoritiesOverlap == MajoritiesMeet
BY QuorumsOverlap, Zenon DEF MajoritiesMeet, P!QuorumsMeet

\* The instance of ElectionProofs is about the election that Raft implements.
LEMMA SameElection ==
    /\ Elect!Init => P!Init
    /\ [Elect!Next]_(Elect!vars) => [P!Next]_(P!vars)
<1>1. Elect!Init => P!Init
    BY Zenon DEF Elect!Init, P!Init
<1>2. Elect!vars = P!vars /\ Elect!vars' = P!vars'
    BY Zenon DEF Elect!vars, P!vars
<1>3. Elect!Next => P!Next
    BY Zenon DEF Elect!Next, Elect!Stand, Elect!Grant, Elect!Observe, Elect!Yield,
           Elect!Win, Elect!Crash, Elect!Supporters, P!Next, P!Stand, P!Grant,
           P!Observe, P!Yield, P!Win, P!Crash, P!Supporters
<1> QED BY <1>1, <1>2, <1>3, Zenon

-----------------------------------------------------------------------------
\* Of two calls of one term the callers are the same.
LEMMA OneCaller == TypeInv /\ P!Inv => ElectionSafety
<1> SUFFICES ASSUME TypeInv, P!Inv, NEW m \in aeReqs, NEW n \in aeReqs, m.term = n.term
             PROVE  m.src = n.src
    BY Zenon DEF ElectionSafety
<1>1. P!OneLeader
    BY QuorumsOverlap, P!InvOneLeader, Zenon
<1>2. m.src \in Server /\ n.src \in Server /\ m.term \in Nat
    BY ElectionTypes, Zenon
<1>3. <<m.src, m.term>> \in Leads /\ <<n.src, m.term>> \in Leads
    BY Zenon DEF Leads
<1> QED BY <1>1, <1>2, <1>3, Zenon DEF P!OneLeader

\* The inductive invariant: of elections, and of logs.
VoteInv == TypeInv /\ ElectionInv /\ P!Inv /\ ElectionSafety

RaftInv == VoteInv /\ LogInv /\ \E G : Chronicle(G)

LEMMA InitVoteInv == Init => VoteInv
<1>1. None \notin Server
    BY ServerAssumption, Zenon
<1>2. Init => TypeInv /\ ElectionInv /\ P!Inv
    BY <1>1, InitTypeInv, InitElectionInv, SameElection, P!InitInv, Zenon
<1> QED BY <1>2, OneCaller, Zenon DEF VoteInv

LEMMA NextVoteInv ==
    ASSUME VoteInv, [Next]_vars
    PROVE  VoteInv' /\ [P!Next]_(P!vars)
<1>1. None \notin Server
    BY ServerAssumption, Zenon
<1>2. TypeInv'
    BY NextTypeInv, NaturalsWellOrdered, Zenon DEF VoteInv
<1>3. ElectionInv' /\ [P!Next]_(P!vars)
    BY <1>2, NextStep, SameElection, Zenon DEF VoteInv
<1>4. P!Inv'
    BY <1>1, <1>3, QuorumsOverlap, P!NextInv, Zenon DEF VoteInv
<1>5. ElectionSafety'
    BY <1>2, <1>4, OneCaller, PTL
<1> QED BY <1>2, <1>3, <1>4, <1>5, Zenon DEF VoteInv

(* And of what is chosen, committed and delivered, if calls are handled in   *)
(* order.                                                                    *)
SafeInv ==
    VoteInv /\ LogInv /\ \E G : Chronicle(G) /\ Safe(G) /\ CommitInv(G)

LEMMA InitRaftInv == Init => RaftInv
    BY InitVoteInv, InitLogs, Zenon DEF RaftInv

LEMMA NextRaftInv ==
    ASSUME RaftInv, [Next]_vars
    PROVE  RaftInv' /\ LeaderAppends
<1>1. VoteInv'
    BY NextVoteInv, Zenon DEF RaftInv
<1>2. PICK G : Chronicle(G)
    BY Zenon DEF RaftInv
<1>3. LogInv' /\ Grown(G)
    BY <1>1, <1>2, NextLogs, NaturalsWellOrdered, Zenon DEF RaftInv, VoteInv
<1>4. LeaderAppends
    BY <1>1, <1>2, <1>3, ChronicleAppends, Zenon DEF RaftInv, VoteInv
<1> QED BY <1>1, <1>3, <1>4, Zenon DEF RaftInv, Grown

LEMMA InitSafeInv == Init => SafeInv
<1> SUFFICES ASSUME Init PROVE SafeInv
    BY Zenon
<1>1. VoteInv /\ LogInv
    BY InitVoteInv, InitLogs, Zenon
<1>2. PICK G : Chronicle(G)
    BY InitLogs, Zenon
<1>3. Sound
    BY <1>1, Zenon DEF Sound, VoteInv
<1>4. Safe(G) /\ CommitInv(G)
    BY <1>2, <1>3, InitSafe, Zenon
<1> QED BY <1>1, <1>2, <1>4, Zenon DEF SafeInv

LEMMA NextSafeInv ==
    ASSUME ~ Reordering, SafeInv, [Next]_vars
    PROVE  SafeInv'
<1>1. VoteInv /\ LogInv
    BY Zenon DEF SafeInv
<1>2. PICK G : Chronicle(G) /\ Safe(G) /\ CommitInv(G)
    BY Zenon DEF SafeInv
<1>3. VoteInv'
    BY <1>1, NextVoteInv, Zenon
<1>4. LogInv' /\ Grown(G)
    BY <1>1, <1>2, <1>3, NextLogs, NaturalsWellOrdered, Zenon DEF VoteInv
<1>5. Sound /\ Sound'
    BY <1>1, <1>3, <1>4, Zenon DEF Sound, VoteInv
<1>6. PICK H : Continues(G, H)
    BY <1>4, Zenon DEF Grown, Continues
<1>7. StepOf(G)
    BY <1>2, <1>5, NextStepOf, NaturalsWellOrdered, Zenon DEF Safe
<1>8. Safe(H)'
    BY <1>2, <1>5, <1>6, <1>7, StepMoves, SafeStays, Zenon
<1>9. CommitInv(H)'
    BY <1>2, <1>5, <1>6, <1>7, CommitStays, NaturalsWellOrdered,
       MajoritiesOverlap, Zenon
<1> QED BY <1>3, <1>4, <1>6, <1>8, <1>9, Zenon DEF SafeInv, Continues

-----------------------------------------------------------------------------
\* Raft keeps the types of its state and of its messages.
THEOREM TypeCorrect == Spec => []TypeOK
<1>1. TypeInv => TypeOK
    BY Zenon DEF TypeInv
<1> QED BY <1>1, InitTypeInv, NextTypeInv, NaturalsWellOrdered, PTL DEF Spec

(* No log loses its sentinel, and no leader ever sends or cuts slot 0: the   *)
(* expressions rf.log[args.PrevLogIndex] and rf.log[nextIdx:] see positive   *)
(* positions only, whatever order messages arrive in.                        *)
THEOREM SentinelStays == Spec => []SlotZero
<1>1. TypeInv => SlotZero
    BY Zenon DEF TypeInv
<1> QED BY <1>1, InitTypeInv, NextTypeInv, NaturalsWellOrdered, PTL DEF Spec

(* Raft implements Election: over a network that loses, reorders and repeats *)
(* messages, with crashes between any two locked sections.                   *)
THEOREM ElectionRefinement == Spec => ElectionRefined
<1>1. Init => TypeInv /\ ElectionInv /\ Elect!Init
    BY InitTypeInv, InitElectionInv, Zenon
<1>2. TypeInv /\ ElectionInv /\ [Next]_vars
          => TypeInv' /\ ElectionInv' /\ [Elect!Next]_(Elect!vars)
    BY NextTypeInv, NaturalsWellOrdered, NextStep, Zenon
<1> QED BY <1>1, <1>2, PTL DEF Spec, ElectionRefined, Elect!Spec

(* No two peers send AppendEntries calls in the same term, for any number of *)
(* peers, elections and crashes, although becomeFollower lets a peer vote    *)
(* twice in a term.                                                          *)
THEOREM ElectionSafe == Spec => []ElectionSafety
<1>1. VoteInv /\ [Next]_vars => VoteInv'
    BY NextVoteInv, Zenon
<1>2. VoteInv => ElectionSafety
    BY Zenon DEF VoteInv
<1> QED BY <1>1, <1>2, InitVoteInv, PTL DEF Spec

(* No peer goes back to an earlier term or takes back a vote for another     *)
(* peer, whatever calls it handles and wherever it crashes.                  *)
THEOREM PromisesAreKept == Spec => PromisesKept
<1>1. VoteInv /\ [Next]_vars => VoteInv' /\ [PromiseKept]_vars
    <2> SUFFICES ASSUME VoteInv, [Next]_vars
                 PROVE  VoteInv' /\ PromiseKept
        BY Zenon
    <2>1. VoteInv' /\ [P!Next]_(P!vars)
        BY NextVoteInv, Zenon
    <2>2. P!Promise
        BY <2>1, ServerAssumption, QuorumsOverlap, P!NextPromise, Zenon
           DEF VoteInv
    <2> QED BY <2>1, <2>2, Zenon DEF P!Promise, PromiseKept
<1> QED BY <1>1, InitVoteInv, PTL DEF Spec, PromisesKept

(* Two logs, in memory or on disk, that have an entry of the same term in    *)
(* the same slot agree up to that slot: the consistency check of             *)
(* AppendEntries does its work although the handler cuts logs short at any   *)
(* call that fits, old calls arrive late, and a crash brings back what was   *)
(* cut in memory only.                                                       *)
THEOREM LogsMatch == Spec => []LogMatching
<1>1. RaftInv /\ [Next]_vars => RaftInv'
    BY NextRaftInv, Zenon
<1>2. RaftInv => LogMatching
    BY ChronicleMatching, Zenon DEF RaftInv, VoteInv
<1> QED BY <1>1, <1>2, InitRaftInv, PTL DEF Spec

(* A leader never loses or overwrites an entry of its log: AppendEntries     *)
(* truncates no log of a peer that still leads.                              *)
THEOREM LeadersAppend == Spec => LeaderAppendOnly
<1>1. RaftInv /\ [Next]_vars => RaftInv' /\ [LeaderAppends]_vars
    BY NextRaftInv, Zenon
<1> QED BY <1>1, InitRaftInv, PTL DEF Spec, LeaderAppendOnly

(* rf.log[nextIdx:] and rf.log[matchIndex] never go out of range on a        *)
(* leader, whatever replies of old or repeated calls say of its log.         *)
THEOREM IndexesStayInRange == Spec => []IndexesInRange
<1>1. RaftInv /\ [Next]_vars => RaftInv'
    BY NextRaftInv, Zenon
<1>2. RaftInv => IndexesInRange
    BY Zenon DEF RaftInv, LogInv
<1> QED BY <1>1, <1>2, InitRaftInv, PTL DEF Spec

(* A crash between any two locked sections loses no term, no vote and no     *)
(* entry of the log, although AppendEntries does not save every change.      *)
THEOREM NothingLostByCrash == Spec => []DiskCoversMemory
<1>1. RaftInv /\ [Next]_vars => RaftInv'
    BY NextRaftInv, Zenon
<1>2. RaftInv => DiskCoversMemory
    BY Zenon DEF RaftInv, LogInv
<1> QED BY <1>1, <1>2, InitRaftInv, PTL DEF Spec

(* A conflict that AppendEntries reports takes replicateTo to an earlier     *)
(* slot, for logs of any length and any history of terms.                    *)
THEOREM BackupEnds == Spec => []BackupMovesDown
<1>1. RaftInv /\ [Next]_vars => RaftInv'
    BY NextRaftInv, Zenon
<1>2. RaftInv => BackupMovesDown
    BY ChronicleBackup, NaturalsWellOrdered, Zenon DEF RaftInv, VoteInv
<1> QED BY <1>1, <1>2, InitRaftInv, PTL DEF Spec

(* No two peers deliver different entries at the same index, for any number  *)
(* of peers, terms, entries and crashes, as long as a peer handles no        *)
(* AppendEntries call that a later one of its leader has overtaken.          *)
THEOREM DeliveriesNeverDiffer ==
    ASSUME ~ Reordering
    PROVE  Spec => []StateMachineSafety
<1>1. SafeInv /\ [Next]_vars => SafeInv'
    BY NextSafeInv, Zenon
<1>2. SafeInv => StateMachineSafety
    BY DeliveriesAgree, NaturalsWellOrdered, MajoritiesOverlap, Zenon
       DEF SafeInv, VoteInv, Sound
<1> QED BY <1>1, <1>2, InitSafeInv, PTL DEF Spec

(* What a peer has committed is in the log of every leader of its term or of *)
(* a later one, although voters compare no more than the ends of two logs.   *)
THEOREM LeadersHaveCommitted ==
    ASSUME ~ Reordering
    PROVE  Spec => []LeaderCompleteness
<1>1. SafeInv /\ [Next]_vars => SafeInv'
    BY NextSafeInv, Zenon
<1>2. SafeInv => LeaderCompleteness
    BY LeadersComplete, NaturalsWellOrdered, MajoritiesOverlap, Zenon
       DEF SafeInv, VoteInv, Sound
<1> QED BY <1>1, <1>2, InitSafeInv, PTL DEF Spec

(* commitIndex never points behind the end of the log, whatever              *)
(* AppendEntries cuts off: applier always makes progress.                    *)
THEOREM CommitsStayInLog ==
    ASSUME ~ Reordering
    PROVE  Spec => []CommitWithinLog
<1>1. SafeInv /\ [Next]_vars => SafeInv'
    BY NextSafeInv, Zenon
<1>2. SafeInv => CommitWithinLog
    BY CommitsWithinLog, Zenon DEF SafeInv, VoteInv, Sound
<1> QED BY <1>1, <1>2, InitSafeInv, PTL DEF Spec

(* Up to matchIndex the follower has the leader's entries on disk, although  *)
(* replies arrive late, repeated and in any order.                           *)
THEOREM MatchesSurviveCrashes ==
    ASSUME ~ Reordering
    PROVE  Spec => []MatchIsDurable
<1>1. SafeInv /\ [Next]_vars => SafeInv'
    BY NextSafeInv, Zenon
<1>2. SafeInv => MatchIsDurable
    BY MatchesAreDurable, Zenon DEF SafeInv, VoteInv, Sound
<1> QED BY <1>1, <1>2, InitSafeInv, PTL DEF Spec

=============================================================================
