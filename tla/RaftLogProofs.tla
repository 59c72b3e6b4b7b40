--------------------------- MODULE RaftLogProofs ----------------------------
(*****************************************************************************)
(* The logs of Raft, in whatever order calls arrive. The proofs remember for *)
(* every term the log of its leader: a chronicle G, with G[t] the longest    *)
(* log that the leader of term t has had, and the sentinel alone for a term  *)
(* that nobody has led. Every log in memory or on disk agrees with G[t] up   *)
(* to its last entry of term t, and every call of term t is a slice of G[t]. *)
(*****************************************************************************)
EXTENDS RaftProofs

-----------------------------------------------------------------------------
(*****************************************************************************)
(* Logs that begin alike.                                                    *)
(*****************************************************************************)

Begins(a, b) == Len(a) <= Len(b) /\ \A x \in 1 .. Len(a) : a[x] = b[x]

Agrees(a, b, k) ==
    k <= Len(a) /\ k <= Len(b) /\ \A x \in 1 .. k : a[x] = b[x]

Typed(G) == \A t \in Nat : G[t] \in Seq(LogEntry)

\* Up to each of its entries lg is the log of the leader of the entry's term.
Rooted(lg, G) == \A k \in 1 .. Len(lg) : Agrees(lg, G[lg[k].term], k)

\* SameUpTo compares slot by slot.
LEMMA SameUpToFacts ==
    ASSUME NEW S, NEW a \in Seq(S), NEW b \in Seq(S), NEW k \in Nat,
           Agrees(a, b, k)
    PROVE  SameUpTo(a, b, k)
<1>1. Len(a) \in Nat /\ Len(b) \in Nat /\ k <= Len(a) /\ k <= Len(b)
    BY DEF Agrees
<1>2. UpTo(a, k) \in Seq(S) /\ UpTo(b, k) \in Seq(S)
      /\ Len(UpTo(a, k)) = k /\ Len(UpTo(b, k)) = k
      /\ \A x \in 1 .. k : UpTo(a, k)[x] = a[x] /\ UpTo(b, k)[x] = b[x]
    <2>1. k \in 0 .. Len(a) /\ k \in 0 .. Len(b)
        BY <1>1
    <2> QED BY <2>1, UpToFacts, Zenon
<1>3. \A x \in 1 .. k : UpTo(a, k)[x] = UpTo(b, k)[x]
    BY <1>2, Zenon DEF Agrees
<1>4. UpTo(a, k) = UpTo(b, k)
    BY <1>2, <1>3, SameSeq, Zenon
<1> QED BY <1>4, Zenon DEF SameUpTo, UpTo

\* A log still agrees with one that has grown.
LEMMA AgreesGrow ==
    ASSUME NEW S, NEW a \in Seq(S), NEW b \in Seq(S), NEW c \in Seq(S),
           NEW k \in Nat, Agrees(a, b, k), Begins(b, c)
    PROVE  Agrees(a, c, k)
<1>1. Len(a) \in Nat /\ Len(b) \in Nat /\ Len(c) \in Nat
    OBVIOUS
<1> QED BY <1>1 DEF Agrees, Begins

\* Two logs that agree with a third agree with each other.
LEMMA AgreesMeet ==
    ASSUME NEW S, NEW a \in Seq(S), NEW b \in Seq(S), NEW c \in Seq(S),
           NEW k \in Nat, Agrees(a, c, k), Agrees(b, c, k)
    PROVE  Agrees(a, b, k)
BY Zenon DEF Agrees

\* The entries of a log have terms.
LEMMA EntryTerm ==
    ASSUME NEW a \in Seq(LogEntry), NEW k \in 1 .. Len(a)
    PROVE  a[k].term \in Nat
<1>1. a[k] \in LogEntry
    BY EntryOf, Zenon
<1> QED BY <1>1, Zenon DEF LogEntry

(* Two rooted logs with an entry of the same term in slot k agree up to it,  *)
(* and with the log of that term's leader.                                   *)
LEMMA RootedAgree ==
    ASSUME NEW G, Typed(G),
           NEW a \in Seq(LogEntry), Rooted(a, G),
           NEW b \in Seq(LogEntry), Rooted(b, G),
           NEW k \in Nat, k \in 1 .. Len(a), k \in 1 .. Len(b),
           a[k].term = b[k].term
    PROVE  Agrees(a, b, k)
<1> DEFINE t == a[k].term
<1>1. t \in Nat
    BY EntryTerm, Zenon
<1>2. Agrees(a, G[t], k) /\ Agrees(b, G[t], k)
    BY Zenon DEF Rooted
<1>3. G[t] \in Seq(LogEntry)
    BY <1>1, Zenon DEF Typed
<1> HIDE DEF t
<1> QED BY <1>2, <1>3, AgreesMeet, Zenon

-----------------------------------------------------------------------------
(*****************************************************************************)
(* The chronicle.                                                            *)
(*****************************************************************************)

\* The call m carries a slice of the log lg of its leader.
SliceOf(m, lg) ==
    /\ Reach(m) < Len(lg)
    /\ m.prevLogTerm = lg[m.prevLogIndex + 1].term
    /\ \A k \in 1 .. Len(m.entries) : m.entries[k] = lg[m.prevLogIndex + 1 + k]

\* The indexes in the reply r are within the log lg of the leader that called.
Within(r, lg) ==
    /\ r.success => r.match < Len(lg)
    /\ ~ r.success /\ r.term <= r.argsTerm => r.conflictIndex < Len(lg)

Led(t) == \E m \in aeReqs : m.term = t

Chronicle(G) ==
    /\ Typed(G)
    /\ \A t \in Nat : GoodLog(G[t]) /\ Rooted(G[t], G)
    /\ \A i \in Server : Rooted(log[i], G) /\ Rooted(persisted[i].log, G)
    /\ \A i \in Server : state[i] = Leader => log[i] = G[currentTerm[i]]
    /\ \A m \in aeReqs : SliceOf(m, G[m.term])
    /\ \A r \in aeReps : Within(r, G[r.argsTerm])
    /\ \A t \in Nat : ~ Led(t) => G[t] = <<Sentinel>>

(* A chronicle grows at its ends, and the log of a leader by entries of its  *)
(* own term.                                                                 *)
Grows(G, H) ==
    \A t \in Nat :
        /\ Begins(G[t], H[t])
        /\ Led(t) => \A k \in (Len(G[t]) + 1) .. Len(H[t]) : H[t][k].term = t

\* Only a log that somebody leads with grows.
Tended(G, H) ==
    \A t \in Nat :
        H[t] = G[t] \/ \E i \in Server : state'[i] = Leader /\ currentTerm'[i] = t

\* Nobody calls itself, and a candidate has not led its term.
Callers ==
    /\ \A m \in aeReqs : m.src # m.dst
    /\ \A r \in aeReps : r.src # r.dst
    /\ \A i \in Server : state[i] = Candidate =>
           \A m \in aeReqs : ~ (m.src = i /\ m.term = currentTerm[i])

LogInv == Callers /\ IndexesInRange /\ DiskCoversMemory

\* The types of what this module reads.
LEMMA LogTypes ==
    ASSUME TypeInv
    PROVE  /\ currentTerm \in [Server -> Nat]
           /\ state \in [Server -> {Follower, Candidate, Leader}]
           /\ log \in [Server -> Seq(LogEntry)]
           /\ persisted \in [Server -> Image]
           /\ \A i \in Server : /\ log[i] \in Seq(LogEntry) /\ GoodLog(log[i])
                                /\ Len(log[i]) \in Nat /\ Len(log[i]) >= 1
                                /\ persisted[i].log \in Seq(LogEntry)
                                /\ GoodLog(persisted[i].log)
                                /\ currentTerm[i] \in Nat
<1>1. /\ currentTerm \in [Server -> Nat]
      /\ state \in [Server -> {Follower, Candidate, Leader}]
      /\ log \in [Server -> Seq(LogEntry)]
      /\ persisted \in [Server -> Image]
    BY Zenon DEF TypeInv, TypeOK
<1>2. \A i \in Server : GoodLog(log[i]) /\ GoodLog(persisted[i].log)
    BY Zenon DEF TypeInv, SlotZero
<1>3. \A i \in Server : persisted[i].log \in Seq(LogEntry)
    BY <1>1, Zenon DEF Image
<1>4. \A i \in Server : /\ log[i] \in Seq(LogEntry)
                        /\ Len(log[i]) \in Nat /\ Len(log[i]) >= 1
    BY LastEntryFacts, Zenon
<1> QED BY <1>1, <1>2, <1>3, <1>4, Zenon

\* The types of the calls and replies of AppendEntries.
LEMMA AppendTypes ==
    ASSUME TypeInv
    PROVE  /\ \A m \in aeReqs : /\ m.src \in Server /\ m.dst \in Server
                                /\ m.term \in Nat /\ m.prevLogIndex \in Nat
                                /\ m.prevLogTerm \in Nat
                                /\ m.entries \in Seq(LogEntry)
                                /\ Len(m.entries) \in Nat /\ Reach(m) \in Nat
                                /\ m.leaderCommit \in Nat
           /\ \A r \in aeReps : /\ r.src \in Server /\ r.dst \in Server
                                /\ r.term \in Nat /\ r.argsTerm \in Nat
                                /\ r.match \in Nat /\ r.success \in BOOLEAN
                                /\ r.conflictIndex \in Int /\ r.conflictTerm \in Int
<1>1. aeReqs \subseteq AppendEntriesArgs /\ aeReps \subseteq AppendEntriesReply
    BY Zenon DEF TypeInv, TypeOK
<1>2. ASSUME NEW m \in aeReqs
      PROVE  /\ m.src \in Server /\ m.dst \in Server
             /\ m.term \in Nat /\ m.prevLogIndex \in Nat
             /\ m.prevLogTerm \in Nat
             /\ m.entries \in Seq(LogEntry)
             /\ Len(m.entries) \in Nat /\ Reach(m) \in Nat
             /\ m.leaderCommit \in Nat
    <2>1. m \in AppendEntriesArgs
        BY <1>1, Zenon
    <2>2. /\ m.src \in Server /\ m.dst \in Server
          /\ m.term \in Nat /\ m.prevLogIndex \in Nat
          /\ m.prevLogTerm \in Nat
          /\ m.entries \in Seq(LogEntry)
          /\ m.leaderCommit \in Nat
        BY <2>1, Zenon DEF AppendEntriesArgs
    <2>3. Len(m.entries) \in Nat
        BY <2>2
    <2> QED BY <2>2, <2>3 DEF Reach
<1>3. \A r \in aeReps : /\ r.src \in Server /\ r.dst \in Server
                        /\ r.term \in Nat /\ r.argsTerm \in Nat
                        /\ r.match \in Nat /\ r.success \in BOOLEAN
                        /\ r.conflictIndex \in Int /\ r.conflictTerm \in Int
    BY <1>1, Zenon DEF AppendEntriesReply
<1> QED BY <1>2, <1>3, Zenon

(* The call that a leader with log lg makes is a slice of that log, and goes *)
(* up to its end.                                                            *)
LEMMA AppendArgsSlice ==
    ASSUME NEW i, NEW j, NEW t, NEW lg \in Seq(LogEntry), NEW n \in 1 .. Len(lg),
           NEW c
    PROVE  LET m == AppendArgs(i, j, t, lg, n, c)
           IN  /\ SliceOf(m, lg)
               /\ Reach(m) = lastLogIndex(lg)
               /\ m.src = i /\ m.dst = j /\ m.term = t /\ m.leaderCommit = c
<1> DEFINE m == AppendArgs(i, j, t, lg, n, c)
<1>1. Len(lg) \in Nat /\ n \in Nat
    OBVIOUS
<1>2. /\ From(lg, n) \in Seq(LogEntry)
      /\ Len(From(lg, n)) = IF n < Len(lg) THEN Len(lg) - n ELSE 0
      /\ \A k \in 1 .. Len(From(lg, n)) : From(lg, n)[k] = lg[n + k]
    BY <1>1, FromFacts, Zenon
<1>3. /\ m.prevLogIndex = n - 1 /\ m.entries = From(lg, n)
      /\ m.prevLogTerm = lg[n].term
      /\ m.src = i /\ m.dst = j /\ m.term = t /\ m.leaderCommit = c
    BY <1>1 DEF AppendArgs, At
<1> HIDE DEF m
<1>4. Len(m.entries) = Len(lg) - n
    BY <1>1, <1>2, <1>3
<1>5. Reach(m) = Len(lg) - 1
    BY <1>1, <1>3, <1>4 DEF Reach
<1>6. m.prevLogIndex + 1 = n
    BY <1>1, <1>3
<1>7. SliceOf(m, lg)
    <2>1. Reach(m) < Len(lg) /\ m.prevLogTerm = lg[m.prevLogIndex + 1].term
        BY <1>1, <1>3, <1>5, <1>6
    <2>2. ASSUME NEW k \in 1 .. Len(m.entries)
          PROVE  m.entries[k] = lg[m.prevLogIndex + 1 + k]
        BY <1>2, <1>3, <1>6, Zenon
    <2> QED BY <2>1, <2>2, Zenon DEF SliceOf
<1> QED BY <1>3, <1>5, <1>7, Zenon DEF lastLogIndex, m

-----------------------------------------------------------------------------
(*****************************************************************************)
(* One lemma per action. Grown says what a step does to the logs: there is a *)
(* chronicle for the next state that has grown from the one before.          *)
(*****************************************************************************)

Grown(G) == \E H : Grows(G, H) /\ Tended(G, H) /\ Chronicle(H)'

LEMMA DiskBegins ==
    ASSUME TypeInv, DiskCoversMemory, NEW i \in Server
    PROVE  Begins(log[i], persisted[i].log)
<1> DEFINE a == log[i]
           b == persisted[i].log
<1>1. a \in Seq(LogEntry) /\ b \in Seq(LogEntry)
    BY LogTypes, Zenon
<1>2. Len(a) \in Nat /\ Len(b) \in Nat
    BY <1>1
<1>3. Len(a) <= Len(b) /\ a = SubSeq(b, 1, Len(a))
    BY Zenon DEF DiskCoversMemory
<1> HIDE DEF a, b
<1>4. Len(a) \in 0 .. Len(b)
    BY <1>2, <1>3
<1>5. \A n \in 1 .. Len(a) : UpTo(b, Len(a))[n] = b[n]
    BY <1>1, <1>4, UpToFacts, Zenon
<1>6. a = UpTo(b, Len(a))
    BY <1>3, Zenon DEF UpTo
<1> QED BY <1>3, <1>5, <1>6, Zenon DEF Begins, a, b

LEMMA BeginsItself == ASSUME NEW S, NEW a \in Seq(S) PROVE Begins(a, a)
<1>1. Len(a) \in Nat
    OBVIOUS
<1> QED BY <1>1 DEF Begins

(* A step that leaves the logs alone and sends no calls: elections, and the  *)
(* replies that send a peer back to following.                               *)
Quiet(i, G) ==
    /\ UNCHANGED <<log, nextIndex, matchIndex, aeReqs>>
    /\ persisted' = persisted \/ persist(i)
    /\ \A j \in Server :
           /\ state'[j] = Leader => /\ state[j] = Leader
                                    /\ currentTerm'[j] = currentTerm[j]
           /\ state'[j] = Candidate =>
                  \A m \in aeReqs : ~ (m.src = j /\ m.term = currentTerm'[j])
    /\ \A r \in aeReps' :
           r \in aeReps \/ (Within(r, G[r.argsTerm]) /\ r.src # r.dst)

\* The calls that a leader broadcasts are slices of its log, up to its end.
LEMMA BroadcastSlices ==
    ASSUME NEW i \in Server, broadcastAppendEntries(i), log'[i] \in Seq(LogEntry),
           \A j \in Server : nextIndex'[i][j] \in 1 .. Len(log'[i])
    PROVE  \A m \in aeReqs' :
               \/ m \in aeReqs
               \/ /\ SliceOf(m, log'[i]) /\ Reach(m) = lastLogIndex(log'[i])
                  /\ m.src = i /\ m.dst # i /\ m.term = currentTerm'[i]
                  /\ m.leaderCommit = commitIndex'[i]
<1> DEFINE call(j) == AppendArgs(i, j, currentTerm'[i], log'[i],
                                 nextIndex'[i][j], commitIndex'[i])
<1>1. ASSUME NEW j \in Server \ {i}
      PROVE  /\ SliceOf(call(j), log'[i]) /\ Reach(call(j)) = lastLogIndex(log'[i])
             /\ call(j).src = i /\ call(j).dst = j /\ call(j).term = currentTerm'[i]
             /\ call(j).leaderCommit = commitIndex'[i]
    BY AppendArgsSlice
<1>2. aeReqs' = aeReqs \cup {call(j) : j \in Server \ {i}}
    BY Zenon DEF broadcastAppendEntries
<1> HIDE DEF call
<1> SUFFICES ASSUME NEW m \in aeReqs', m \notin aeReqs
             PROVE  /\ SliceOf(m, log'[i]) /\ Reach(m) = lastLogIndex(log'[i])
                    /\ m.src = i /\ m.dst # i /\ m.term = currentTerm'[i]
                    /\ m.leaderCommit = commitIndex'[i]
    BY Zenon
<1>3. PICK j \in Server \ {i} : m = call(j)
    BY <1>2, Zenon
<1> QED BY <1>1, <1>3, Zenon

-----------------------------------------------------------------------------
(* A leader gets no call of its own term: such a call would come from        *)
(* itself.                                                                   *)
LEMMA NoCallToLeader ==
    ASSUME ElectionInv, ElectionSafety, LogInv, NEW m \in aeReqs,
           m.dst \in Server, state[m.dst] = Leader
    PROVE  m.term # currentTerm[m.dst]
<1>1. PICK n \in aeReqs : n.src = m.dst /\ n.term = currentTerm[m.dst]
    BY Zenon DEF ElectionInv, LeaderCalls
<1>2. m.src # m.dst
    BY Zenon DEF LogInv, Callers
<1> QED BY <1>1, <1>2, Zenon DEF ElectionSafety

(* A call that is not stale makes its receiver a follower of its term, or    *)
(* finds it following. Nobody else changes, and nobody starts to lead or to  *)
(* stand.                                                                    *)
LEMMA AcceptTermLogs ==
    ASSUME TypeInv, ElectionInv, ElectionSafety, LogInv,
           NEW m \in aeReqs, AcceptTerm(m)
    PROVE  /\ state'[m.dst] = Follower
           /\ currentTerm'[m.dst] = m.term
           /\ \A k \in Server \ {m.dst} : /\ state'[k] = state[k]
                                          /\ currentTerm'[k] = currentTerm[k]
<1> DEFINE j == m.dst
<1>1. /\ currentTerm \in [Server -> Nat]
      /\ state \in [Server -> {Follower, Candidate, Leader}]
    BY LogTypes, Zenon
<1>2. j \in Server /\ m.term \in Nat
    BY AppendTypes, Zenon
<1>3. /\ m.term >= currentTerm[j]
      /\ currentTerm' = [currentTerm EXCEPT ![j] = m.term]
      /\ state' = [state EXCEPT ![j] = IF StepsDown(m) THEN Follower ELSE state[j]]
    BY Zenon DEF AcceptTerm
<1>4. CASE StepsDown(m)
    BY <1>1, <1>2, <1>3, <1>4, Zenon
<1>5. CASE ~ StepsDown(m)
    <2>1. ~ (m.term > currentTerm[j]) /\ state[j] # Candidate
        BY <1>5, Zenon DEF StepsDown
    <2>2. m.term = currentTerm[j]
        <3>1. currentTerm[j] \in Nat
            BY <1>1, <1>2, Zenon
        <3> QED BY <1>2, <1>3, <2>1, <3>1
    <2>3. state[j] # Leader
        BY <1>2, <2>2, NoCallToLeader, Zenon
    <2>4. state[j] = Follower
        BY <1>1, <1>2, <2>1, <2>3, Zenon
    <2> QED BY <1>1, <1>2, <1>3, <1>5, <2>4, Zenon
<1> QED BY <1>4, <1>5, Zenon

\* The log that an accepted call leaves is the leader's log up to its reach.
LEMMA AcceptedLog ==
    ASSUME TypeInv, NEW G, Chronicle(G), NEW m \in aeReqs,
           m.prevLogIndex <= lastLogIndex(log[m.dst]), PrevMatches(m)
    PROVE  LET new == KeepMatching(m) \o m.entries
           IN  /\ new \in Seq(LogEntry)
               /\ Len(new) = Reach(m) + 1
               /\ Begins(new, G[m.term])
               /\ Len(m.entries) = 0 => Begins(new, log[m.dst])
<1> DEFINE lg  == log[m.dst]
           p   == m.prevLogIndex
           es  == m.entries
           new == KeepMatching(m) \o es
           top == G[m.term]
<1>1. /\ m.dst \in Server /\ m.term \in Nat /\ p \in Nat
      /\ es \in Seq(LogEntry) /\ Len(es) \in Nat
    BY AppendTypes, Zenon
<1>2. lg \in Seq(LogEntry) /\ Len(lg) \in Nat
    BY <1>1, LogTypes, Zenon
<1>3. top \in Seq(LogEntry) /\ Len(top) \in Nat /\ Rooted(top, G) /\ Typed(G)
    <2>1. Typed(G) /\ Rooted(top, G)
        BY <1>1, Zenon DEF Chronicle
    <2>2. top \in Seq(LogEntry)
        BY <1>1, <2>1, Zenon DEF Typed
    <2> QED BY <2>1, <2>2
<1>4. Rooted(lg, G)
    BY <1>1, Zenon DEF Chronicle
<1>5. /\ Reach(m) = p + Len(es) /\ Reach(m) < Len(top)
      /\ m.prevLogTerm = top[p + 1].term
      /\ \A k \in 1 .. Len(es) : es[k] = top[p + 1 + k]
    BY Zenon DEF Chronicle, SliceOf, Reach
<1>6. lg[p + 1].term = m.prevLogTerm
    <2>1. p < 0 \/ lg[p + 1].term = m.prevLogTerm
        BY Zenon DEF PrevMatches, At
    <2> HIDE DEF p
    <2> QED BY <1>1, <2>1
<1>7. p <= Len(lg) - 1
    BY Zenon DEF lastLogIndex
<1>8. new = UpTo(lg, p + 1) \o es
    BY Zenon DEF KeepMatching
<1> HIDE DEF lg, p, es, new, top
<1>9. p < Len(lg)
    BY <1>1, <1>2, <1>7
<1>10. /\ new \in Seq(LogEntry)
       /\ Len(new) = p + 1 + Len(es)
       /\ \A k \in 1 .. (p + 1) : new[k] = lg[k]
       /\ \A k \in 1 .. Len(es) : new[p + 1 + k] = es[k]
    <2> DEFINE q == p + 1
    <2>1. /\ lg \in Seq(LogEntry) /\ q \in 0 .. Len(lg) /\ es \in Seq(LogEntry)
          /\ Splice(new, lg, q, es)
        BY <1>1, <1>2, <1>8, <1>9 DEF Splice
    <2> HIDE DEF q
    <2>2. /\ new \in Seq(LogEntry)
          /\ Len(new) = q + Len(es)
          /\ \A k \in 1 .. q : new[k] = lg[k]
          /\ \A k \in 1 .. Len(es) : new[q + k] = es[k]
        BY ONLY <2>1, SpliceFacts
    <2> QED BY ONLY <2>2, Zenon DEF q
<1>11. Agrees(lg, top, p + 1)
    <2>1. p + 1 \in Nat /\ p + 1 \in 1 .. Len(lg) /\ p + 1 \in 1 .. Len(top)
        BY <1>1, <1>2, <1>3, <1>5, <1>9
    <2>2. lg[p + 1].term = top[p + 1].term
        BY <1>5, <1>6, Zenon
    <2> QED BY <1>2, <1>3, <1>4, <2>1, <2>2, RootedAgree, Zenon
<1>12. Len(new) = Reach(m) + 1 /\ Len(new) <= Len(top)
    BY <1>1, <1>3, <1>5, <1>10
<1>13. ASSUME NEW x \in 1 .. Len(new) PROVE new[x] = top[x]
    <2>1. CASE x <= p + 1
        BY <1>1, <1>10, <1>11, <2>1 DEF Agrees
    <2>2. CASE x > p + 1
        <3> DEFINE k == x - (p + 1)
        <3>1. k \in 1 .. Len(es) /\ x = p + 1 + k
            BY <1>1, <1>10, <2>2
        <3> HIDE DEF k
        <3> QED BY <1>5, <1>10, <3>1, Zenon
    <2>3. x <= p + 1 \/ x > p + 1
        BY <1>1
    <2> QED BY <2>1, <2>2, <2>3, Zenon
<1>14. Begins(new, top)
    BY <1>12, <1>13, Zenon DEF Begins
<1>15. ASSUME Len(es) = 0 PROVE Begins(new, lg)
    BY <1>1, <1>2, <1>9, <1>10, <1>15 DEF Begins
<1> QED BY <1>10, <1>12, <1>14, <1>15, Zenon DEF lg, es, new, top

-----------------------------------------------------------------------------
\* The chronicle before anybody has led.
LEMMA InitLogs == ASSUME Init PROVE LogInv /\ \E G : Chronicle(G)
<1>0. PICK G : G = [t \in Nat |-> <<Sentinel>>]
    BY Zenon
<1>1. /\ currentTerm = [i \in Server |-> 0]
      /\ votedFor = [i \in Server |-> None]
      /\ log = [i \in Server |-> <<Sentinel>>]
      /\ state = [i \in Server |-> Follower]
      /\ persisted = [i \in Server |->
             [currentTerm |-> 0, votedFor |-> None, log |-> <<Sentinel>>]]
      /\ aeReqs = {} /\ aeReps = {}
    BY Zenon DEF Init
<1>2. /\ <<Sentinel>> \in Seq(LogEntry) /\ Len(<<Sentinel>>) = 1
      /\ <<Sentinel>>[1] = Sentinel /\ Sentinel.term = 0
    BY DEF Sentinel, LogEntry
<1> DEFINE one == <<Sentinel>>
<1>3. \A t \in Nat : G[t] = one
    BY <1>0, Zenon
<1>4. /\ one \in Seq(LogEntry) /\ Len(one) = 1
      /\ one[1] = Sentinel /\ Sentinel.term = 0
    BY <1>2, Zenon
<1>5. \A i \in Server : log[i] = one /\ persisted[i].log = one
    BY <1>1, Zenon
<1> HIDE DEF one
<1>6. GoodLog(one)
    BY <1>4 DEF GoodLog
<1>7. Rooted(one, G)
    <2> SUFFICES ASSUME NEW k \in 1 .. Len(one)
                 PROVE  Agrees(one, G[one[k].term], k)
        BY Zenon DEF Rooted
    <2>1. k = 1
        BY <1>4
    <2>2. G[one[k].term] = one
        BY <1>3, <1>4, <2>1, Zenon
    <2> QED BY <1>4, <2>1, <2>2 DEF Agrees
<1>8. Typed(G)
    BY <1>3, <1>4, Zenon DEF Typed
<1>9. \A i \in Server : state[i] # Leader /\ state[i] # Candidate
    BY <1>1, Zenon DEF Leader, Candidate, Follower
<1>10. \A t \in Nat : G[t] = <<Sentinel>>
    BY <1>3, Zenon DEF one
<1>11. Chronicle(G)
    BY <1>1, <1>3, <1>5, <1>6, <1>7, <1>8, <1>9, <1>10, Zenon DEF Chronicle
<1>12. DiskCoversMemory
    <2>1. SubSeq(one, 1, Len(one)) = one
        BY <1>4
    <2>2. \A i \in Server : /\ persisted[i].currentTerm = currentTerm[i]
                            /\ persisted[i].votedFor = votedFor[i]
        BY <1>1, Zenon
    <2> QED BY <1>4, <1>5, <2>1, <2>2 DEF DiskCoversMemory
<1>13. Callers /\ IndexesInRange
    BY <1>1, <1>9, Zenon DEF Callers, IndexesInRange
<1> QED BY <1>11, <1>12, <1>13, Zenon DEF LogInv

\* Every step keeps LogInv and extends the chronicle.
LEMMA NextLogs ==
    \A G : /\ WellOrdered /\ TypeInv /\ TypeInv' /\ ElectionInv /\ ElectionInv'
           /\ ElectionSafety /\ ElectionSafety' /\ LogInv /\ [Next]_vars
           /\ Chronicle(G)
           => LogInv' /\ Grown(G)
<1>BeginsTransitive.
      ASSUME NEW S, NEW a \in Seq(S), NEW b \in Seq(S), NEW c \in Seq(S),
             Begins(a, b), Begins(b, c)
      PROVE  Begins(a, c)
  <2> USE <1>BeginsTransitive
  <2>1. Len(a) \in Nat /\ Len(b) \in Nat /\ Len(c) \in Nat
      OBVIOUS
  <2> QED BY <2>1 DEF Begins

  \* What stays of a rooted log is rooted.
<1>RootedShrink.
      ASSUME NEW G, Typed(G), NEW a \in Seq(LogEntry),
             NEW b \in Seq(LogEntry), Rooted(b, G), Begins(a, b)
      PROVE  Rooted(a, G)
  <2> USE <1>RootedShrink
  <2> SUFFICES ASSUME NEW k \in 1 .. Len(a) PROVE Agrees(a, G[a[k].term], k)
      BY Zenon DEF Rooted
  <2>1. Len(a) \in Nat /\ Len(b) \in Nat
      OBVIOUS
  <2>2. k \in 1 .. Len(b) /\ a[k] = b[k]
      BY <2>1 DEF Begins
  <2> DEFINE t == a[k].term
  <2>3. Agrees(b, G[t], k)
      BY <2>2, Zenon DEF Rooted
  <2>4. \A x \in 1 .. k : a[x] = b[x]
      BY <2>1 DEF Begins
  <2> QED BY <2>1, <2>3, <2>4 DEF Agrees

  \* A rooted log stays rooted while the chronicle grows.
<1>RootedGrow.
      ASSUME NEW G, NEW H, Typed(G), Typed(H),
             \A t \in Nat : Begins(G[t], H[t]),
             NEW a \in Seq(LogEntry), Rooted(a, G)
      PROVE  Rooted(a, H)
  <2> USE <1>RootedGrow
  <2> SUFFICES ASSUME NEW k \in 1 .. Len(a) PROVE Agrees(a, H[a[k].term], k)
      BY Zenon DEF Rooted
  <2>1. a[k].term \in Nat
      BY EntryTerm, Zenon
  <2> DEFINE t == a[k].term
  <2>2. Agrees(a, G[t], k)
      BY Zenon DEF Rooted
  <2>3. G[t] \in Seq(LogEntry) /\ H[t] \in Seq(LogEntry) /\ Begins(G[t], H[t])
      BY <2>1, Zenon DEF Typed
  <2>4. k \in Nat
      OBVIOUS
  <2> QED BY <2>2, <2>3, <2>4, AgreesGrow

  \* A slice of a log is a slice of the log when it has grown.
<1>SliceGrow.
      ASSUME NEW a \in Seq(LogEntry), NEW b \in Seq(LogEntry), Begins(a, b),
             NEW m, m.prevLogIndex \in Nat, Len(m.entries) \in Nat, SliceOf(m, a)
      PROVE  SliceOf(m, b)
  <2> USE <1>SliceGrow
  <2>1. Len(a) \in Nat /\ Len(b) \in Nat
      OBVIOUS
  <2> DEFINE p == m.prevLogIndex
             n == Len(m.entries)
  <2>2. p \in Nat /\ n \in Nat /\ p + n < Len(a) /\ Len(a) <= Len(b)
      BY Zenon DEF SliceOf, Begins, Reach
  <2>3. \A x \in 1 .. Len(a) : a[x] = b[x]
      BY Zenon DEF Begins
  <2> HIDE DEF p, n
  <2>4. p + 1 \in 1 .. Len(a) /\ \A k \in 1 .. n : p + 1 + k \in 1 .. Len(a)
      BY <2>1, <2>2
  <2>5. a[p + 1] = b[p + 1] /\ \A k \in 1 .. n : a[p + 1 + k] = b[p + 1 + k]
      BY <2>3, <2>4, Zenon
  <2>6. Reach(m) < Len(b)
      BY <2>1, <2>2 DEF Reach, p, n
  <2> QED BY <2>5, <2>6, Zenon DEF SliceOf, p, n

  (* A step keeps a chronicle that has grown to H, if the logs are rooted in H *)
  (* and new calls and replies fit it.                                         *)
<1>KeepChronicle.
      ASSUME TypeInv, TypeInv', NEW G, Chronicle(G), NEW H, Typed(H), Grows(G, H),
             \A t \in Nat : GoodLog(H[t]) /\ Rooted(H[t], H),
             \A i \in Server : /\ log'[i] = log[i] \/ Rooted(log'[i], H)
                               /\ \/ persisted'[i].log = persisted[i].log
                                  \/ Rooted(persisted'[i].log, H),
             \A i \in Server : state'[i] = Leader => log'[i] = H[currentTerm'[i]],
             \A m \in aeReqs' : m \in aeReqs \/ SliceOf(m, H[m.term]),
             \A r \in aeReps' : r \in aeReps \/ Within(r, H[r.argsTerm]),
             \A t \in Nat : ~ Led(t)' => H[t] = <<Sentinel>>
      PROVE  Chronicle(H)'
  <2> USE <1>KeepChronicle
  <2>1. Typed(G) /\ \A t \in Nat : Begins(G[t], H[t])
      BY Zenon DEF Chronicle, Grows
  <2>2. ASSUME NEW i \in Server PROVE Rooted(log'[i], H) /\ Rooted(persisted'[i].log, H)
      <3>1. log[i] \in Seq(LogEntry) /\ persisted[i].log \in Seq(LogEntry)
          BY LogTypes, Zenon
      <3>2. Rooted(log[i], G) /\ Rooted(persisted[i].log, G)
          BY Zenon DEF Chronicle
      <3>3. Rooted(log[i], H) /\ Rooted(persisted[i].log, H)
          BY <2>1, <3>1, <3>2, <1>RootedGrow, Zenon
      <3> QED BY <3>3, Zenon
  <2>3. ASSUME NEW m \in aeReqs' PROVE SliceOf(m, H[m.term])
      <3>1. CASE m \in aeReqs
          <4>1. m.term \in Nat /\ m.prevLogIndex \in Nat /\ Len(m.entries) \in Nat
              BY <3>1, AppendTypes, Zenon
          <4>2. SliceOf(m, G[m.term])
              BY <3>1, Zenon DEF Chronicle
          <4>3. /\ G[m.term] \in Seq(LogEntry) /\ H[m.term] \in Seq(LogEntry)
                /\ Begins(G[m.term], H[m.term])
              BY <2>1, <4>1, Zenon DEF Typed
          <4> QED BY <4>1, <4>2, <4>3, <1>SliceGrow, Zenon
      <3> QED BY <3>1, Zenon
  <2>4. ASSUME NEW r \in aeReps' PROVE Within(r, H[r.argsTerm])
      <3>1. CASE r \in aeReps
          <4>1. r.argsTerm \in Nat /\ r.match \in Nat /\ r.conflictIndex \in Int
              BY <3>1, AppendTypes, Zenon
          <4>2. Within(r, G[r.argsTerm])
              BY <3>1, Zenon DEF Chronicle
          <4>3. /\ Len(G[r.argsTerm]) \in Nat /\ Len(H[r.argsTerm]) \in Nat
                /\ Len(G[r.argsTerm]) <= Len(H[r.argsTerm])
              BY <2>1, <4>1 DEF Typed, Begins
          <4> QED BY <4>1, <4>2, <4>3 DEF Within
      <3> QED BY <3>1, Zenon
  <2> QED BY <2>2, <2>3, <2>4, Zenon DEF Chronicle

  \* Nothing needs to be added to a chronicle while leaders keep their logs.
<1>SameChronicle.
      ASSUME TypeInv, TypeInv', NEW G, Chronicle(G), aeReqs \subseteq aeReqs',
             \A i \in Server : /\ log'[i] = log[i] \/ Rooted(log'[i], G)
                               /\ \/ persisted'[i].log = persisted[i].log
                                  \/ Rooted(persisted'[i].log, G),
             \A i \in Server : state'[i] = Leader =>
                 /\ state[i] = Leader
                 /\ currentTerm'[i] = currentTerm[i] /\ log'[i] = log[i],
             \A m \in aeReqs' : m \in aeReqs \/ SliceOf(m, G[m.term]),
             \A r \in aeReps' : r \in aeReps \/ Within(r, G[r.argsTerm])
      PROVE  Grows(G, G) /\ Chronicle(G)'
  <2> USE <1>SameChronicle
  <2>1. Typed(G) /\ \A t \in Nat : GoodLog(G[t]) /\ Rooted(G[t], G)
      BY Zenon DEF Chronicle
  <2>2. Grows(G, G)
      <3> SUFFICES ASSUME NEW t \in Nat
                   PROVE  Begins(G[t], G[t]) /\ (Len(G[t]) + 1) .. Len(G[t]) = {}
          BY Zenon DEF Grows
      <3>1. Len(G[t]) \in Nat
          BY <2>1 DEF Typed
      <3> QED BY <3>1 DEF Begins
  <2>3. \A i \in Server : state'[i] = Leader => log'[i] = G[currentTerm'[i]]
      BY Zenon DEF Chronicle
  <2>4. \A t \in Nat : ~ Led(t)' => G[t] = <<Sentinel>>
      BY Zenon DEF Chronicle, Led
  <2> QED BY <2>1, <2>2, <2>3, <2>4, <1>KeepChronicle, Zenon

  \* A log and what is on disk agree when the peer that saves has just saved.
<1>DiskFacts.
      ASSUME TypeInv', VoteOnDisk',
             \A i \in Server : Begins(log'[i], persisted'[i].log)
      PROVE  DiskCoversMemory'
  <2> USE <1>DiskFacts
  <2> SUFFICES ASSUME NEW i \in Server
               PROVE  /\ Len(log'[i]) <= Len(persisted'[i].log)
                      /\ log'[i] = SubSeq(persisted'[i].log, 1, Len(log'[i]))
      BY Zenon DEF DiskCoversMemory, VoteOnDisk
  <2> DEFINE a == log'[i]
             b == persisted'[i].log
  <2>1. a \in Seq(LogEntry) /\ b \in Seq(LogEntry)
      BY Zenon DEF TypeInv, TypeOK, Image
  <2>2. Len(a) \in Nat /\ Len(b) \in Nat /\ Begins(a, b)
      BY <2>1
  <2> HIDE DEF a, b
  <2>3. Len(a) <= Len(b) /\ Len(a) \in 0 .. Len(b)
      BY <2>2 DEF Begins
  <2>4. /\ UpTo(b, Len(a)) \in Seq(LogEntry)
        /\ Len(UpTo(b, Len(a))) = Len(a)
        /\ \A n \in 1 .. Len(a) : UpTo(b, Len(a))[n] = b[n]
      BY <2>1, <2>3, UpToFacts, Zenon
  <2>5. \A n \in 1 .. Len(a) : UpTo(b, Len(a))[n] = a[n]
      BY <2>2, <2>4, Zenon DEF Begins
  <2>6. a = UpTo(b, Len(a))
      BY <2>1, <2>4, <2>5, SameSeq, Zenon
  <2> QED BY <2>3, <2>6, Zenon DEF UpTo, a, b

  \* The disk after a step in which logs stay, and peer i may have saved.
<1>DiskStays.
      ASSUME TypeInv, TypeInv', VoteOnDisk', DiskCoversMemory, UNCHANGED log,
             NEW i \in Server, persisted' = persisted \/ persist(i)
      PROVE  /\ DiskCoversMemory'
             /\ \A j \in Server : \/ persisted'[j].log = persisted[j].log
                                  \/ persisted'[j].log = log[j]
  <2> USE <1>DiskStays
  <2>1. \A j \in Server : \/ persisted'[j].log = persisted[j].log
                          \/ persisted'[j].log = log[j]
      <3>1. persisted \in [Server -> Image]
          BY LogTypes, Zenon
      <3> QED BY <3>1 DEF persist
  <2>2. ASSUME NEW j \in Server PROVE Begins(log'[j], persisted'[j].log)
      <3>1. log[j] \in Seq(LogEntry) /\ Begins(log[j], persisted[j].log)
          BY LogTypes, DiskBegins, Zenon
      <3> QED BY <2>1, <3>1, BeginsItself, Zenon
  <2> QED BY <2>1, <2>2, <1>DiskFacts, Zenon

<1>QuietLogs.
      ASSUME TypeInv, TypeInv', VoteOnDisk', LogInv, NEW G, Chronicle(G),
             NEW i \in Server, Quiet(i, G)
      PROVE  LogInv' /\ Grown(G)
  <2> USE <1>QuietLogs
  <2> USE DEF Quiet
  <2>1. /\ DiskCoversMemory'
        /\ \A j \in Server : \/ persisted'[j].log = persisted[j].log
                             \/ persisted'[j].log = log[j]
      BY <1>DiskStays, Zenon DEF LogInv
  <2>2. \A j \in Server : Rooted(log[j], G)
      BY Zenon DEF Chronicle
  <2>3. Grows(G, G) /\ Chronicle(G)'
      BY <2>1, <2>2, <1>SameChronicle, Zenon
  <2>4. Callers'
      BY Zenon DEF LogInv, Callers
  <2>5. IndexesInRange'
      BY Zenon DEF LogInv, IndexesInRange
  <2> QED BY <2>1, <2>3, <2>4, <2>5, Zenon DEF LogInv, Grown, Tended

  \* startElection: the candidate's term is new to it.
<1>StartElectionLogs.
      ASSUME TypeInv, TypeInv', ElectionInv, ElectionInv', LogInv,
             NEW i \in Server, startElection(i), NEW G, Chronicle(G)
      PROVE  LogInv' /\ Grown(G)
  <2> USE <1>StartElectionLogs
  <2>1. /\ currentTerm' = [currentTerm EXCEPT ![i] = currentTerm[i] + 1]
        /\ state' = [state EXCEPT ![i] = Candidate]
        /\ UNCHANGED <<log, nextIndex, matchIndex, aeReqs, aeReps>>
        /\ persist(i)
      BY Zenon DEF startElection, leaderVars
  <2>2. /\ currentTerm \in [Server -> Nat]
        /\ state \in [Server -> {Follower, Candidate, Leader}]
      BY LogTypes, Zenon
  <2>3. ASSUME NEW j \in Server
        PROVE  /\ state'[j] = Leader => /\ state[j] = Leader
                                        /\ currentTerm'[j] = currentTerm[j]
               /\ state'[j] = Candidate =>
                      \A m \in aeReqs : ~ (m.src = j /\ m.term = currentTerm'[j])
      <3>1. CASE j = i
          <4>1. state'[j] = Candidate /\ currentTerm'[j] = currentTerm[j] + 1
              BY <2>1, <2>2, <3>1, Zenon
          <4>2. ASSUME NEW m \in aeReqs, m.src = j PROVE m.term # currentTerm[j] + 1
              <5>1. m.term \in Nat /\ m.term <= currentTerm[j]
                  BY <4>2, AppendTypes, Zenon DEF ElectionInv, TermsReached
              <5>2. currentTerm[j] \in Nat
                  BY <2>2, Zenon
              <5> QED BY <5>1, <5>2
          <4> QED BY <4>1, <4>2, Zenon DEF Candidate, Leader
      <3>2. CASE j # i
          <4>1. state'[j] = state[j] /\ currentTerm'[j] = currentTerm[j]
              BY <2>1, <2>2, <3>2, Zenon
          <4> QED BY <4>1, Zenon DEF LogInv, Callers
      <3> QED BY <3>1, <3>2, Zenon
  <2>4. Quiet(i, G)
      BY <2>1, <2>3, Zenon DEF Quiet
  <2> QED BY <2>1, <2>4, <1>QuietLogs, Zenon DEF ElectionInv

  \* RequestVote: at most a peer begins to follow.
<1>RequestVoteLogs.
      ASSUME TypeInv, TypeInv', ElectionInv, ElectionInv', LogInv,
             NEW v \in rvReqs, RequestVote(v), NEW G, Chronicle(G)
      PROVE  LogInv' /\ Grown(G)
  <2> USE <1>RequestVoteLogs
  <2> DEFINE j == v.dst
  <2>1. j \in Server /\ v.term \in Nat
      BY ElectionTypes, Zenon
  <2>2. /\ currentTerm' = [currentTerm EXCEPT ![j] = max(v.term, currentTerm[j])]
        /\ state' = [state EXCEPT ![j] = IF v.term > currentTerm[j]
                                         THEN Follower ELSE state[j]]
        /\ UNCHANGED <<log, nextIndex, matchIndex, aeReqs, aeReps>>
        /\ persisted' = persisted \/ persist(j)
      BY Zenon DEF RequestVote, leaderVars
  <2>3. /\ currentTerm \in [Server -> Nat]
        /\ state \in [Server -> {Follower, Candidate, Leader}]
      BY LogTypes, Zenon
  <2>4. ASSUME NEW k \in Server
        PROVE  \/ state'[k] = Follower
               \/ state'[k] = state[k] /\ currentTerm'[k] = currentTerm[k]
      <3>1. CASE k = j /\ v.term > currentTerm[j]
          BY <2>2, <2>3, <3>1, Zenon
      <3>2. CASE k = j /\ ~ (v.term > currentTerm[j])
          <4>1. max(v.term, currentTerm[j]) = currentTerm[j]
              BY <2>1, <2>3, <3>2, Zenon DEF max
          <4> QED BY <2>2, <2>3, <3>2, <4>1, Zenon
      <3>3. CASE k # j
          BY <2>2, <2>3, <3>3, Zenon
      <3> QED BY <3>1, <3>2, <3>3, Zenon
  <2>5. \A k \in Server :
            /\ state'[k] = Leader => /\ state[k] = Leader
                                     /\ currentTerm'[k] = currentTerm[k]
            /\ state'[k] = Candidate =>
                   \A m \in aeReqs : ~ (m.src = k /\ m.term = currentTerm'[k])
      BY <2>4, Zenon DEF LogInv, Callers, Follower, Candidate, Leader
  <2>6. Quiet(j, G)
      BY <2>1, <2>2, <2>5, Zenon DEF Quiet
  <2> QED BY <2>1, <2>6, <1>QuietLogs, Zenon DEF ElectionInv

  \* becomeFollower.
<1>BecomeFollowerLogs.
      ASSUME TypeInv, TypeInv', ElectionInv, ElectionInv', LogInv,
             NEW i \in Server, NEW t, becomeFollower(i, t),
             UNCHANGED <<nextIndex, matchIndex, aeReqs, aeReps>>,
             NEW G, Chronicle(G)
      PROVE  LogInv' /\ Grown(G)
  <2> USE <1>BecomeFollowerLogs
  <2>1. /\ currentTerm' = [currentTerm EXCEPT ![i] = t]
        /\ state' = [state EXCEPT ![i] = Follower]
        /\ UNCHANGED log
        /\ persist(i)
      BY Zenon DEF becomeFollower
  <2>2. /\ currentTerm \in [Server -> Nat]
        /\ state \in [Server -> {Follower, Candidate, Leader}]
      BY LogTypes, Zenon
  <2>3. \A k \in Server : \/ state'[k] = Follower
                          \/ state'[k] = state[k] /\ currentTerm'[k] = currentTerm[k]
      BY <2>1, <2>2, Zenon
  <2>4. \A k \in Server :
            /\ state'[k] = Leader => /\ state[k] = Leader
                                     /\ currentTerm'[k] = currentTerm[k]
            /\ state'[k] = Candidate =>
                   \A m \in aeReqs : ~ (m.src = k /\ m.term = currentTerm'[k])
      BY <2>3, Zenon DEF LogInv, Callers, Follower, Candidate, Leader
  <2>5. Quiet(i, G)
      BY <2>1, <2>4, Zenon DEF Quiet
  <2> QED BY <2>1, <2>5, <1>QuietLogs, Zenon DEF ElectionInv

  (* becomeLeader opens the chronicle of its term with its log. Nobody has led *)
  (* the term before: not this peer, which is a candidate of the term, and no  *)
  (* other, since a term has one leader.                                       *)
<1>BecomeLeaderLogs.
      ASSUME TypeInv, TypeInv', ElectionInv, ElectionInv', ElectionSafety', LogInv,
             NEW i \in Server, state[i] = Candidate, becomeLeader(i),
             NEW k \in Server, k # i, UNCHANGED aeReps,
             NEW G, Chronicle(G)
      PROVE  LogInv' /\ Grown(G)
  <2> USE <1>BecomeLeaderLogs
  <2> DEFINE T == currentTerm[i]
  <2>0. PICK H : H = [t \in Nat |-> IF t = T THEN log[i] ELSE G[t]]
      BY Zenon
  <2>1. /\ state' = [state EXCEPT ![i] = Leader]
        /\ UNCHANGED <<currentTerm, votedFor, log, persisted, commitIndex>>
        /\ nextIndex' = [nextIndex EXCEPT ![i] =
               [j \in Server |-> lastLogIndex(log[i]) + 1]]
        /\ matchIndex' = [matchIndex EXCEPT ![i] =
               [j \in Server |-> IF j = i THEN lastLogIndex(log[i]) ELSE -1]]
        /\ broadcastAppendEntries(i)
      BY Zenon DEF becomeLeader
  <2>2. /\ currentTerm \in [Server -> Nat] /\ T \in Nat
        /\ state \in [Server -> {Follower, Candidate, Leader}]
        /\ log[i] \in Seq(LogEntry) /\ GoodLog(log[i])
        /\ Len(log[i]) \in Nat /\ Len(log[i]) >= 1
      BY LogTypes, Zenon
  <2>3. /\ nextIndex \in [Server -> [Server -> Int]]
        /\ matchIndex \in [Server -> [Server -> Int]]
      BY Zenon DEF TypeInv, TypeOK
  <2>4. /\ aeReqs \subseteq aeReqs'
        /\ \A m \in aeReqs' : m \in aeReqs \/ (m.src = i /\ m.term = T)
        /\ \E m \in aeReqs' : m.src = i /\ m.term = T
      BY <2>1, BroadcastSources, Zenon
  <2>5. ~ Led(T)
      BY <2>4 DEF Led, ElectionSafety, LogInv, Callers
  <2>6. ASSUME NEW j \in Server
        PROVE  /\ nextIndex'[i][j] = Len(log[i])
               /\ matchIndex'[i][j] \in -1 .. (Len(log[i]) - 1)
      <3>1. /\ nextIndex'[i][j] = lastLogIndex(log[i]) + 1
            /\ matchIndex'[i][j] \in {lastLogIndex(log[i]), -1}
          BY <2>1, <2>3, Zenon
      <3>2. Len(log[i]) \in Nat /\ Len(log[i]) >= 1
          BY <2>2, Zenon
      <3> QED BY <3>1, <3>2 DEF lastLogIndex
  <2>7. \A m \in aeReqs' :
            \/ m \in aeReqs
            \/ m.src = i /\ m.dst # i /\ m.term = T /\ SliceOf(m, log[i])
      <3>1. \A j \in Server : nextIndex'[i][j] \in 1 .. Len(log'[i])
          BY <2>1, <2>2, <2>6
      <3> QED BY <2>1, <2>2, <3>1, BroadcastSlices, Zenon
  <2>8. G[T] = <<Sentinel>> /\ Typed(G)
      BY <2>2, <2>5, Zenon DEF Chronicle
  <2>9. Typed(H) /\ H[T] = log[i] /\ \A t \in Nat \ {T} : H[t] = G[t]
      BY <2>0, <2>2, <2>8, Zenon DEF Typed
  <2>10. Grows(G, H)
      <3> SUFFICES ASSUME NEW t \in Nat
                   PROVE  /\ Begins(G[t], H[t])
                          /\ Led(t) => \A n \in (Len(G[t]) + 1) .. Len(H[t]) :
                                           H[t][n].term = t
          BY Zenon DEF Grows
      <3>1. CASE t = T
          <4>1. Begins(<<Sentinel>>, log[i])
              BY <2>2 DEF Begins, GoodLog
          <4> QED BY <2>5, <2>8, <2>9, <3>1, <4>1, Zenon
      <3>2. CASE t # T
          <4>1. H[t] = G[t] /\ G[t] \in Seq(LogEntry) /\ Len(G[t]) \in Nat
              BY <2>8, <2>9, <3>2 DEF Typed
          <4>2. (Len(G[t]) + 1) .. Len(H[t]) = {}
              BY <4>1
          <4> QED BY <4>1, <4>2, BeginsItself, Zenon
      <3> QED BY <3>1, <3>2, Zenon
  <2>11. Rooted(log[i], H) /\ \A t \in Nat : GoodLog(H[t]) /\ Rooted(H[t], H)
      <3>1. \A t \in Nat : Begins(G[t], H[t])
          BY <2>10, Zenon DEF Grows
      <3>2. Rooted(log[i], H)
          <4>1. Rooted(log[i], G)
              BY Zenon DEF Chronicle
          <4> QED BY <2>2, <2>8, <2>9, <3>1, <4>1, <1>RootedGrow, Zenon
      <3>3. ASSUME NEW t \in Nat \ {T} PROVE GoodLog(H[t]) /\ Rooted(H[t], H)
          <4>1. GoodLog(G[t]) /\ Rooted(G[t], G) /\ G[t] \in Seq(LogEntry)
              BY <2>8, Zenon DEF Chronicle, Typed
          <4>2. Rooted(G[t], H)
              BY <2>8, <2>9, <3>1, <4>1, <1>RootedGrow, Zenon
          <4> QED BY <2>9, <4>1, <4>2, Zenon
      <3> QED BY <2>2, <2>9, <3>2, <3>3, Zenon
  <2>12. ASSUME NEW j \in Server, state'[j] = Leader PROVE log'[j] = H[currentTerm'[j]]
      <3>1. CASE j = i
          BY <2>1, <2>9, <3>1, Zenon
      <3>2. CASE j # i
          <4>1. state[j] = Leader
              BY <2>1, <2>2, <2>12, <3>2, Zenon
          <4>2. Led(currentTerm[j]) /\ log[j] = G[currentTerm[j]]
              BY <4>1, Zenon DEF ElectionInv, LeaderCalls, Led, Chronicle
          <4>3. currentTerm[j] \in Nat \ {T}
              BY <2>2, <2>5, <4>2, Zenon
          <4> QED BY <2>1, <2>9, <4>2, <4>3, Zenon
      <3> QED BY <3>1, <3>2, Zenon
  <2>13. \A t \in Nat : ~ Led(t)' => H[t] = <<Sentinel>>
      BY <2>4, <2>9, Zenon DEF Led, Chronicle
  <2>14. \A m \in aeReqs' : m \in aeReqs \/ SliceOf(m, H[m.term])
      BY <2>7, <2>9, Zenon
  <2>15. Chronicle(H)'
      BY <2>1, <2>9, <2>10, <2>11, <2>12, <2>13, <2>14, <1>KeepChronicle, Zenon
  <2>16. Callers'
      <3>1. \A j \in Server : state'[j] = Candidate => state[j] = Candidate /\ j # i
          BY <2>1, <2>2, Zenon DEF Candidate, Leader
      <3> QED BY <2>1, <2>7, <3>1, Zenon DEF LogInv, Callers
  <2>17. IndexesInRange'
      <3> SUFFICES ASSUME NEW a \in Server, NEW b \in Server, state'[a] = Leader
                   PROVE  /\ nextIndex'[a][b] \in 1 .. Len(log[a])
                          /\ matchIndex'[a][b] \in -1 .. lastLogIndex(log[a])
          BY <2>1, Zenon DEF IndexesInRange
      <3>1. CASE a = i
          BY <2>2, <2>6, <3>1 DEF lastLogIndex
      <3>2. CASE a # i
          <4>1. /\ state[a] = Leader /\ nextIndex'[a] = nextIndex[a]
                /\ matchIndex'[a] = matchIndex[a]
              BY <2>1, <2>2, <2>3, <3>2, Zenon
          <4> QED BY <4>1, Zenon DEF LogInv, IndexesInRange
      <3> QED BY <3>1, <3>2, Zenon
  <2>18. DiskCoversMemory'
      BY <2>1, Zenon DEF LogInv, DiskCoversMemory
  <2>19. Tended(G, H)
      BY <2>1, <2>2, <2>9, Zenon DEF Tended
  <2> QED BY <2>10, <2>15, <2>16, <2>17, <2>18, <2>19, Zenon DEF LogInv, Grown

  \* What a leader appends has its own term; the rest of the log stays.
<1>AppendOwn.
      ASSUME TypeInv, NEW i \in Server, NEW c \in Command, Start(i, c)
      PROVE  /\ log'[i] \in Seq(LogEntry)
             /\ Len(log'[i]) = Len(log[i]) + 1
             /\ Begins(log[i], log'[i])
             /\ log'[i][Len(log[i]) + 1].term = currentTerm[i]
             /\ \A j \in Server \ {i} : log'[j] = log[j]
  <2> USE <1>AppendOwn
  <2> DEFINE e == [term |-> currentTerm[i], cmd |-> c]
  <2>1. /\ log \in [Server -> Seq(LogEntry)] /\ log[i] \in Seq(LogEntry)
        /\ Len(log[i]) \in Nat /\ currentTerm[i] \in Nat
      BY LogTypes, Zenon
  <2>2. e \in LogEntry /\ e.term = currentTerm[i]
      BY <2>1, Zenon DEF LogEntry
  <2>3. log' = [log EXCEPT ![i] = Append(log[i], e)]
      BY Zenon DEF Start
  <2> HIDE DEF e
  <2>4. /\ Append(log[i], e) \in Seq(LogEntry)
        /\ Len(Append(log[i], e)) = Len(log[i]) + 1
        /\ \A k \in 1 .. Len(log[i]) : Append(log[i], e)[k] = log[i][k]
        /\ Append(log[i], e)[Len(log[i]) + 1] = e
      BY <2>1, <2>2, AppendFacts
  <2>5. log'[i] = Append(log[i], e) /\ \A j \in Server \ {i} : log'[j] = log[j]
      BY <2>1, <2>3, Zenon
  <2>6. Begins(log[i], log'[i])
      BY <2>1, <2>4, <2>5 DEF Begins
  <2> QED BY <2>2, <2>4, <2>5, <2>6, Zenon

  \* Start moves the leader's own indexes with the end of its log.
<1>StartIndexes.
      ASSUME TypeInv, IndexesInRange, NEW i \in Server, NEW c \in Command, Start(i, c)
      PROVE  IndexesInRange'
  <2> USE <1>StartIndexes
  <2>1. /\ Len(log'[i]) = Len(log[i]) + 1
        /\ \A j \in Server \ {i} : log'[j] = log[j]
      BY <1>AppendOwn, Zenon
  <2>2. /\ nextIndex \in [Server -> [Server -> Int]]
        /\ matchIndex \in [Server -> [Server -> Int]]
      BY Zenon DEF TypeInv, TypeOK
  <2>3. /\ nextIndex' = [nextIndex EXCEPT ![i][i] = lastLogIndex(log[i]) + 2]
        /\ matchIndex' = [matchIndex EXCEPT ![i][i] = lastLogIndex(log[i]) + 1]
        /\ UNCHANGED state
      BY Zenon DEF Start
  <2> SUFFICES ASSUME NEW a \in Server, NEW b \in Server, state[a] = Leader
               PROVE  /\ nextIndex'[a][b] \in 1 .. Len(log'[a])
                      /\ matchIndex'[a][b] \in -1 .. lastLogIndex(log'[a])
      BY <2>3, Zenon DEF IndexesInRange
  <2>4. /\ nextIndex[a][b] \in 1 .. Len(log[a])
        /\ matchIndex[a][b] \in -1 .. lastLogIndex(log[a])
      BY Zenon DEF IndexesInRange
  <2>5. Len(log[a]) \in Nat /\ Len(log[a]) >= 1
      BY LogTypes, Zenon
  <2>6. CASE a = i /\ b = i
      <3>1. /\ nextIndex'[a][b] = lastLogIndex(log[a]) + 2
            /\ matchIndex'[a][b] = lastLogIndex(log[a]) + 1
          BY <2>2, <2>3, <2>6, Zenon
      <3>2. Len(log'[a]) = Len(log[a]) + 1
          BY <2>1, <2>6, Zenon
      <3> QED BY <2>5, <3>1, <3>2 DEF lastLogIndex
  <2>7. CASE a = i /\ b # i
      <3>1. nextIndex'[a][b] = nextIndex[a][b] /\ matchIndex'[a][b] = matchIndex[a][b]
          BY <2>2, <2>3, <2>7, Zenon
      <3>2. Len(log'[a]) = Len(log[a]) + 1
          BY <2>1, <2>7, Zenon
      <3> QED BY <2>4, <2>5, <3>1, <3>2 DEF lastLogIndex
  <2>8. CASE a # i
      <3>1. nextIndex'[a] = nextIndex[a] /\ matchIndex'[a] = matchIndex[a]
          BY <2>2, <2>3, <2>8, Zenon
      <3>2. log'[a] = log[a]
          BY <2>1, <2>8, Zenon
      <3> QED BY <2>4, <3>1, <3>2, Zenon
  <2> QED BY <2>6, <2>7, <2>8, Zenon

  \* Start: the chronicle of the term grows by the new entry.
<1>StartLogs.
      ASSUME TypeInv, TypeInv', ElectionInv, ElectionInv', ElectionSafety, LogInv,
             NEW i \in Server, NEW c \in Command, Start(i, c),
             NEW G, Chronicle(G)
      PROVE  LogInv' /\ Grown(G)
  <2> USE <1>StartLogs
  <2> DEFINE T == currentTerm[i]
  <2>0. PICK H : H = [t \in Nat |-> IF t = T THEN log'[i] ELSE G[t]]
      BY Zenon
  <2>1. /\ state[i] = Leader
        /\ UNCHANGED <<currentTerm, state, aeReps>>
        /\ persist(i) /\ broadcastAppendEntries(i)
      BY Zenon DEF Start
  <2>2. /\ currentTerm \in [Server -> Nat] /\ T \in Nat
        /\ log[i] \in Seq(LogEntry) /\ Len(log[i]) \in Nat
        /\ persisted \in [Server -> Image]
      BY LogTypes, Zenon
  <2>3. /\ log'[i] \in Seq(LogEntry)
        /\ Len(log'[i]) = Len(log[i]) + 1
        /\ Begins(log[i], log'[i])
        /\ log'[i][Len(log[i]) + 1].term = T
        /\ \A j \in Server \ {i} : log'[j] = log[j]
      BY <1>AppendOwn, Zenon
  <2>4. IndexesInRange'
      BY <1>StartIndexes, Zenon DEF LogInv
  <2>5. \A m \in aeReqs' :
            \/ m \in aeReqs
            \/ m.src = i /\ m.dst # i /\ m.term = T /\ SliceOf(m, log'[i])
      <3>1. \A j \in Server : nextIndex'[i][j] \in 1 .. Len(log'[i])
          BY <2>1, <2>4, Zenon DEF IndexesInRange
      <3> QED BY <2>1, <2>3, <3>1, BroadcastSlices, Zenon
  <2>6. aeReqs \subseteq aeReqs'
      BY <2>1, BroadcastSources, Zenon
  <2>7. G[T] = log[i] /\ Typed(G)
      BY <2>1, Zenon DEF Chronicle
  <2>8. Typed(H) /\ H[T] = log'[i] /\ \A t \in Nat \ {T} : H[t] = G[t]
      BY <2>0, <2>2, <2>3, <2>7, Zenon DEF Typed
  <2>9. Grows(G, H)
      <3> SUFFICES ASSUME NEW t \in Nat
                   PROVE  /\ Begins(G[t], H[t])
                          /\ \A n \in (Len(G[t]) + 1) .. Len(H[t]) : H[t][n].term = t
          BY Zenon DEF Grows
      <3>1. CASE t = T
          <4>1. (Len(G[t]) + 1) .. Len(H[t]) = {Len(log[i]) + 1}
              BY <2>2, <2>3, <2>7, <2>8, <3>1
          <4> QED BY <2>3, <2>7, <2>8, <3>1, <4>1, Zenon
      <3>2. CASE t # T
          <4>1. H[t] = G[t] /\ G[t] \in Seq(LogEntry) /\ Len(G[t]) \in Nat
              BY <2>7, <2>8, <3>2 DEF Typed
          <4>2. (Len(G[t]) + 1) .. Len(H[t]) = {}
              BY <4>1
          <4> QED BY <4>1, <4>2, BeginsItself, Zenon
      <3> QED BY <3>1, <3>2, Zenon
  <2>10. \A t \in Nat : Begins(G[t], H[t])
      BY <2>9, Zenon DEF Grows
  <2>11. Rooted(log'[i], H)
      <3> SUFFICES ASSUME NEW k \in 1 .. Len(log'[i])
                   PROVE  Agrees(log'[i], H[log'[i][k].term], k)
          BY Zenon DEF Rooted
      <3>1. CASE k = Len(log[i]) + 1
          <4>1. H[log'[i][k].term] = log'[i]
              BY <2>3, <2>8, <3>1, Zenon
          <4>2. Len(log'[i]) \in Nat
              BY <2>3
          <4> QED BY <4>1, <4>2 DEF Agrees
      <3>2. CASE k # Len(log[i]) + 1
          <4>1. k \in 1 .. Len(log[i]) /\ log'[i][k] = log[i][k]
              BY <2>2, <2>3, <3>2 DEF Begins
          <4> DEFINE b == H[log[i][k].term]
          <4>2. Rooted(log[i], H)
              BY <2>2, <2>7, <2>8, <2>10, <1>RootedGrow, Zenon DEF Chronicle
          <4>3. Agrees(log[i], b, k)
              BY <4>1, <4>2, Zenon DEF Rooted
          <4>4. b = H[log'[i][k].term]
              BY <4>1, Zenon
          <4> HIDE DEF b
          <4>5. Agrees(log'[i], b, k)
              <5>1. \A x \in 1 .. k : x \in 1 .. Len(log[i])
                  BY <2>2, <4>1
              <5>2. \A x \in 1 .. k : log'[i][x] = log[i][x]
                  BY <2>3, <5>1, Zenon DEF Begins
              <5>3. k <= Len(log'[i])
                  BY <2>2, <2>3
              <5> QED BY <4>3, <5>2, <5>3, Zenon DEF Agrees
          <4> QED BY <4>4, <4>5, Zenon
      <3> QED BY <3>1, <3>2, Zenon
  <2>12. \A t \in Nat : GoodLog(H[t]) /\ Rooted(H[t], H)
      <3>1. GoodLog(log'[i])
          BY Zenon DEF TypeInv, SlotZero
      <3>2. ASSUME NEW t \in Nat \ {T} PROVE GoodLog(H[t]) /\ Rooted(H[t], H)
          <4>1. GoodLog(G[t]) /\ Rooted(G[t], G) /\ G[t] \in Seq(LogEntry)
              BY <2>7, Zenon DEF Chronicle, Typed
          <4>2. Rooted(G[t], H)
              BY <2>7, <2>8, <2>10, <4>1, <1>RootedGrow, Zenon
          <4> QED BY <2>8, <4>1, <4>2, Zenon
      <3> QED BY <2>2, <2>8, <2>11, <3>1, <3>2, Zenon
  <2>13. persisted'[i].log = log'[i] /\ \A j \in Server \ {i} : persisted'[j] = persisted[j]
      BY <2>1, <2>2, Zenon DEF persist
  <2>14. ASSUME NEW j \in Server, state'[j] = Leader PROVE log'[j] = H[currentTerm'[j]]
      <3>1. CASE j = i
          BY <2>1, <2>8, <3>1, Zenon
      <3>2. CASE j # i
          <4>1. state[j] = Leader
              BY <2>1, <2>14, Zenon
          <4>2. log[j] = G[currentTerm[j]]
              BY <4>1, Zenon DEF Chronicle
          <4>3. currentTerm[j] # T
              <5>1. PICK m \in aeReqs : m.src = i /\ m.term = T
                  BY <2>1, Zenon DEF ElectionInv, LeaderCalls
              <5>2. PICK n \in aeReqs : n.src = j /\ n.term = currentTerm[j]
                  BY <4>1, Zenon DEF ElectionInv, LeaderCalls
              <5> QED BY <3>2, <5>1, <5>2, Zenon DEF ElectionSafety
          <4>4. currentTerm[j] \in Nat \ {T}
              BY <2>2, <4>3, Zenon
          <4> QED BY <2>1, <2>3, <2>8, <3>2, <4>2, <4>4, Zenon
      <3> QED BY <3>1, <3>2, Zenon
  <2>15. \A t \in Nat : ~ Led(t)' => H[t] = <<Sentinel>>
      <3>1. Led(T)
          BY <2>1, Zenon DEF ElectionInv, LeaderCalls, Led
      <3> QED BY <2>6, <2>8, <3>1, Zenon DEF Led, Chronicle
  <2>16. \A m \in aeReqs' : m \in aeReqs \/ SliceOf(m, H[m.term])
      BY <2>5, <2>8, Zenon
  <2>17. \A j \in Server : /\ log'[j] = log[j] \/ Rooted(log'[j], H)
                           /\ \/ persisted'[j].log = persisted[j].log
                              \/ Rooted(persisted'[j].log, H)
      BY <2>3, <2>11, <2>13, Zenon
  <2>18. Chronicle(H)'
      BY <2>1, <2>8, <2>9, <2>12, <2>14, <2>15, <2>16, <2>17, <1>KeepChronicle, Zenon
  <2>19. Callers'
      BY <2>1, <2>5, Zenon DEF LogInv, Callers, Candidate, Leader
  <2>20. DiskCoversMemory'
      <3>1. ASSUME NEW j \in Server PROVE Begins(log'[j], persisted'[j].log)
          <4>1. CASE j = i
              BY <2>3, <2>13, <4>1, BeginsItself, Zenon
          <4>2. CASE j # i
              BY <2>3, <2>13, <4>2, DiskBegins, Zenon DEF LogInv
          <4> QED BY <4>1, <4>2, Zenon
      <3> QED BY <3>1, <1>DiskFacts, Zenon DEF ElectionInv
  <2>21. Tended(G, H)
      BY <2>1, <2>8, Zenon DEF Tended
  <2> QED BY <2>4, <2>9, <2>18, <2>19, <2>20, <2>21, Zenon DEF LogInv, Grown

  \* A leader sends its log as it is: heartbeats, and calls after a refusal.
<1>SendLogs.
      ASSUME TypeInv, TypeInv', ElectionInv, ElectionInv', LogInv, IndexesInRange',
             NEW i \in Server, state[i] = Leader,
             UNCHANGED <<currentTerm, log, state, persisted, aeReps>>,
             aeReqs \subseteq aeReqs',
             \A m \in aeReqs' :
                 \/ m \in aeReqs
                 \/ /\ m.src = i /\ m.dst # i /\ m.term = currentTerm[i]
                    /\ SliceOf(m, log[i]),
             NEW G, Chronicle(G)
      PROVE  LogInv' /\ Grown(G)
  <2> USE <1>SendLogs
  <2>1. log[i] = G[currentTerm[i]]
      BY Zenon DEF Chronicle
  <2>2. Grows(G, G) /\ Chronicle(G)'
      BY <2>1, <1>SameChronicle, Zenon
  <2>3. Callers'
      BY Zenon DEF LogInv, Callers, Candidate, Leader
  <2>4. DiskCoversMemory'
      <3>1. \A j \in Server : Begins(log'[j], persisted'[j].log)
          BY DiskBegins, Zenon DEF LogInv
      <3> QED BY <3>1, <1>DiskFacts, Zenon DEF ElectionInv
  <2> QED BY <2>2, <2>3, <2>4, Zenon DEF LogInv, Grown, Tended

  \* sendHeartbeats.
<1>SendHeartbeatsLogs.
      ASSUME TypeInv, TypeInv', ElectionInv, ElectionInv', LogInv,
             NEW i \in Server, sendHeartbeats(i), NEW G, Chronicle(G)
      PROVE  LogInv' /\ Grown(G)
  <2> USE <1>SendHeartbeatsLogs
  <2>1. /\ state[i] = Leader
        /\ UNCHANGED <<currentTerm, log, state, persisted, aeReps, nextIndex,
                       matchIndex>>
        /\ broadcastAppendEntries(i)
      BY Zenon DEF sendHeartbeats, serverVars, leaderVars
  <2>2. IndexesInRange'
      BY <2>1, Zenon DEF LogInv, IndexesInRange
  <2>3. aeReqs \subseteq aeReqs'
      BY <2>1, BroadcastSources, Zenon
  <2>4. \A m \in aeReqs' :
            \/ m \in aeReqs
            \/ m.src = i /\ m.dst # i /\ m.term = currentTerm[i] /\ SliceOf(m, log[i])
      <3>1. \A j \in Server : nextIndex'[i][j] \in 1 .. Len(log'[i])
          BY <2>1, <2>2, Zenon DEF IndexesInRange
      <3>2. log'[i] \in Seq(LogEntry)
          BY <2>1, LogTypes, Zenon
      <3> QED BY <2>1, <3>1, <3>2, BroadcastSlices, Zenon
  <2> QED BY <2>1, <2>2, <2>3, <2>4, <1>SendLogs, Zenon

  \* The new reply of AppendEntries stays within the log of the leader.
<1>ReplyWithin.
      ASSUME TypeInv, NEW G, Chronicle(G), NEW m \in aeReqs, NEW t, NEW ok \in BOOLEAN,
             NEW cTerm, NEW cIndex \in Int, AppendReply(m, t, ok, cTerm, cIndex),
             ~ ok /\ t <= m.term => cIndex <= m.prevLogIndex
      PROVE  \A r \in aeReps' :
                 \/ r \in aeReps
                 \/ /\ Within(r, G[r.argsTerm])
                    /\ r.src = m.dst /\ r.dst = m.src /\ r.argsTerm = m.term
                    /\ r.match = Reach(m) /\ r.success = ok
  <2> USE <1>ReplyWithin
  <2>1. /\ m.term \in Nat /\ m.prevLogIndex \in Nat /\ Len(m.entries) \in Nat
        /\ Reach(m) \in Nat
      BY AppendTypes, Zenon
  <2>2. G[m.term] \in Seq(LogEntry) /\ Len(G[m.term]) \in Nat
      BY <2>1 DEF Chronicle, Typed
  <2>3. Reach(m) < Len(G[m.term])
      BY Zenon DEF Chronicle, SliceOf
  <2>4. m.prevLogIndex < Len(G[m.term])
      BY <2>1, <2>2, <2>3 DEF Reach
  <2> SUFFICES ASSUME NEW r \in aeReps', r \notin aeReps
               PROVE  /\ Within(r, G[r.argsTerm])
                      /\ r.src = m.dst /\ r.dst = m.src /\ r.argsTerm = m.term
                      /\ r.match = Reach(m) /\ r.success = ok
      BY Zenon
  <2>5. /\ r.src = m.dst /\ r.dst = m.src /\ r.argsTerm = m.term
        /\ r.match = Reach(m) /\ r.term = t /\ r.success = ok
        /\ r.conflictIndex = cIndex
      BY DEF AppendReply
  <2>6. Within(r, G[m.term])
      <3>1. r.success => r.match < Len(G[m.term])
          BY <2>3, <2>5, Zenon
      <3>2. ASSUME ~ r.success, r.term <= r.argsTerm
            PROVE  r.conflictIndex < Len(G[m.term])
          <4>1. cIndex <= m.prevLogIndex
              BY <2>5, <3>2, Zenon
          <4> QED BY <2>1, <2>2, <2>4, <2>5, <4>1
      <3> QED BY <3>1, <3>2, Zenon DEF Within
  <2> QED BY <2>5, <2>6, Zenon

  \* AppendEntries, on each of its four ways out.
<1>AppendEntriesLogs.
      ASSUME WellOrdered, TypeInv, TypeInv', ElectionInv, ElectionInv',
             ElectionSafety, LogInv,
             NEW m \in aeReqs, AppendEntries(m), NEW G, Chronicle(G)
      PROVE  LogInv' /\ Grown(G)
  <2> USE <1>AppendEntriesLogs
  <2> DEFINE j == m.dst
  <2>1. /\ j \in Server /\ m.term \in Nat /\ m.prevLogIndex \in Nat
        /\ Len(m.entries) \in Nat
      BY AppendTypes, Zenon
  <2>2. UNCHANGED <<nextIndex, matchIndex, aeReqs>>
      BY Zenon DEF AppendEntries, leaderVars
  <2>3. /\ log \in [Server -> Seq(LogEntry)] /\ log[j] \in Seq(LogEntry)
        /\ Len(log[j]) \in Nat /\ GoodLog(log[j]) /\ currentTerm[j] \in Nat
        /\ persisted \in [Server -> Image]
      BY <2>1, LogTypes, Zenon
  <2>4. CASE AppendEntriesStale(m)
      <3>1. /\ m.term < currentTerm[j]
            /\ UNCHANGED <<currentTerm, log, state, persisted>>
            /\ AppendReply(m, currentTerm[j], FALSE, -1, 0)
          BY <2>4, Zenon DEF AppendEntriesStale, serverVars
      <3>2. ~ (currentTerm[j] <= m.term)
          BY <2>1, <2>3, <3>1
      <3>3. \A r \in aeReps' :
                r \in aeReps \/ (Within(r, G[r.argsTerm]) /\ r.src # r.dst)
          <4>1. FALSE \in BOOLEAN /\ 0 \in Int
              OBVIOUS
          <4>2. ~ FALSE /\ currentTerm[j] <= m.term => 0 <= m.prevLogIndex
              BY <3>2, Zenon
          <4> QED BY <3>1, <4>1, <4>2, <1>ReplyWithin, Zenon DEF LogInv, Callers
      <3>4. \A k \in Server :
                /\ state'[k] = Leader => /\ state[k] = Leader
                                         /\ currentTerm'[k] = currentTerm[k]
                /\ state'[k] = Candidate =>
                       \A n \in aeReqs : ~ (n.src = k /\ n.term = currentTerm'[k])
          BY <3>1, Zenon DEF LogInv, Callers
      <3>5. Quiet(j, G)
          BY <2>1, <2>2, <3>1, <3>3, <3>4, Zenon DEF Quiet
      <3> QED BY <2>1, <3>5, <1>QuietLogs, Zenon DEF ElectionInv
  <2>5. ASSUME AcceptTerm(m)
        PROVE  \A k \in Server :
                /\ state'[k] = Leader => /\ state[k] = Leader /\ k # j
                                         /\ currentTerm'[k] = currentTerm[k]
                /\ state'[k] = Candidate =>
                       \A n \in aeReqs : ~ (n.src = k /\ n.term = currentTerm'[k])
      <3>1. /\ state'[j] = Follower
            /\ \A k \in Server \ {j} : /\ state'[k] = state[k]
                                       /\ currentTerm'[k] = currentTerm[k]
          BY <2>5, AcceptTermLogs, Zenon
      <3> QED BY <3>1, Zenon DEF LogInv, Callers, Follower, Candidate, Leader
  <2>6. CASE AppendEntriesGap(m)
      <3>1. /\ AcceptTerm(m) /\ UNCHANGED log
            /\ persisted' = persisted \/ persist(j)
            /\ m.prevLogIndex > lastLogIndex(log[j])
            /\ AppendReply(m, currentTerm[j], FALSE, -1, lastLogIndex(log[j]) + 1)
          BY <2>6, Zenon DEF AppendEntriesGap
      <3>2. /\ lastLogIndex(log[j]) + 1 \in Int
            /\ lastLogIndex(log[j]) + 1 <= m.prevLogIndex
          BY <2>1, <2>3, <3>1 DEF lastLogIndex
      <3>3. \A r \in aeReps' :
                r \in aeReps \/ (Within(r, G[r.argsTerm]) /\ r.src # r.dst)
          BY <3>1, <3>2, <1>ReplyWithin, Zenon DEF LogInv, Callers
      <3>4. Quiet(j, G)
          BY <2>1, <2>2, <2>5, <3>1, <3>3, Zenon DEF Quiet
      <3> QED BY <2>1, <3>4, <1>QuietLogs, Zenon DEF ElectionInv
  <2>7. CASE AppendEntriesConflict(m)
      <3> DEFINE ct == At(log[j], m.prevLogIndex).term
                 ci == ConflictRun(log[j], m.prevLogIndex)
      <3>1. /\ AcceptTerm(m) /\ UNCHANGED log
            /\ persisted' = persisted \/ persist(j)
            /\ m.prevLogIndex <= lastLogIndex(log[j])
            /\ AppendReply(m, currentTerm[j], FALSE, ct, ci)
          BY <2>7, Zenon DEF AppendEntriesConflict
      <3>2. m.prevLogIndex \in 0 .. lastLogIndex(log[j])
          <4>1. m.prevLogIndex \in Nat /\ m.prevLogIndex <= lastLogIndex(log[j])
              BY <2>1, <3>1, Zenon
          <4>2. lastLogIndex(log[j]) \in Int
              BY <2>3 DEF lastLogIndex
          <4> QED BY ONLY <4>1, <4>2
      <3>3. ci \in 0 .. m.prevLogIndex
          <4> DEFINE lg == log[j]
                     p  == m.prevLogIndex
          <4>1. /\ WellOrdered /\ lg \in Seq(LogEntry) /\ GoodLog(lg)
                /\ p \in 0 .. lastLogIndex(lg)
              BY <2>3, <3>2, Zenon
          <4> HIDE DEF lg, p
          <4>2. ConflictRun(lg, p) \in 0 .. p
              BY ONLY <4>1, ConflictRunFacts, Zenon
          <4> QED BY <4>2, Zenon DEF lg, p
      <3> HIDE DEF ct, ci
      <3>4. ci \in Int /\ ci <= m.prevLogIndex
          BY <2>1, <3>3
      <3>5. \A r \in aeReps' :
                r \in aeReps \/ (Within(r, G[r.argsTerm]) /\ r.src # r.dst)
          BY <3>1, <3>4, <1>ReplyWithin, Zenon DEF LogInv, Callers
      <3>6. Quiet(j, G)
          BY <2>1, <2>2, <2>5, <3>1, <3>5, Zenon DEF Quiet
      <3> QED BY <2>1, <3>6, <1>QuietLogs, Zenon DEF ElectionInv
  <2>8. CASE AppendEntriesAccept(m)
      <3> DEFINE new == KeepMatching(m) \o m.entries
      <3>1. /\ AcceptTerm(m) /\ SaveAccepted(m)
            /\ m.prevLogIndex <= lastLogIndex(log[j]) /\ PrevMatches(m)
            /\ log' = [log EXCEPT ![j] = new]
            /\ AppendReply(m, m.term, TRUE, -1, 0)
          BY <2>8, Zenon DEF AppendEntriesAccept
      <3>2. /\ new \in Seq(LogEntry)
            /\ Begins(new, G[m.term])
            /\ Len(m.entries) = 0 => Begins(new, log[j])
          BY <3>1, AcceptedLog, Zenon
      <3> HIDE DEF new
      <3>3. log'[j] = new /\ \A k \in Server \ {j} : log'[k] = log[k]
          BY <2>1, <2>3, <3>1, Zenon
      <3>4. Rooted(new, G)
          <4>1. Typed(G) /\ G[m.term] \in Seq(LogEntry) /\ Rooted(G[m.term], G)
              BY <2>1, Zenon DEF Chronicle, Typed
          <4> QED BY <3>2, <4>1, <1>RootedShrink, Zenon
      <3>5. /\ \A k \in Server \ {j} : persisted'[k] = persisted[k]
            /\ \/ persisted'[j].log = new
               \/ persisted'[j].log \in {log[j], persisted[j].log} /\ Len(m.entries) = 0
          <4>1. CASE Len(m.entries) > 0
              <5>1. persist(j)
                  BY <3>1, <4>1, Zenon DEF SaveAccepted
              <5> QED BY <2>1, <2>3, <3>3, <5>1, Zenon DEF persist
          <4>2. CASE ~ (Len(m.entries) > 0)
              <5>1. Len(m.entries) = 0
                  BY <2>1, <4>2
              <5>2. \/ persisted' = persisted
                    \/ persisted' = [persisted EXCEPT ![j] =
                           [currentTerm |-> m.term, votedFor |-> None, log |-> log[j]]]
                  BY <3>1, <4>2, Zenon DEF SaveAccepted
              <5>3. CASE persisted' = persisted
                  BY <5>1, <5>3, Zenon
              <5>4. CASE persisted' = [persisted EXCEPT ![j] =
                           [currentTerm |-> m.term, votedFor |-> None, log |-> log[j]]]
                  BY <2>1, <2>3, <5>1, <5>4, Zenon
              <5> QED BY <5>2, <5>3, <5>4, Zenon
          <4> QED BY <4>1, <4>2, Zenon
      <3>6. \A r \in aeReps' :
                r \in aeReps \/ (Within(r, G[r.argsTerm]) /\ r.src # r.dst)
          <4>1. AppendReply(m, m.term, TRUE, -1, 0) /\ m.src # m.dst
              BY <3>1, Zenon DEF LogInv, Callers
          <4>2. Reach(m) < Len(G[m.term])
              BY Zenon DEF Chronicle, SliceOf
          <4> SUFFICES ASSUME NEW r \in aeReps', r \notin aeReps
                       PROVE  Within(r, G[r.argsTerm]) /\ r.src # r.dst
              BY Zenon
          <4>3. r = [src |-> m.dst, dst |-> m.src, argsTerm |-> m.term,
                     match |-> Reach(m), term |-> m.term, success |-> TRUE,
                     conflictTerm |-> -1, conflictIndex |-> 0]
              BY <4>1, Zenon DEF AppendReply
          <4>4. /\ r.src = m.dst /\ r.dst = m.src /\ r.argsTerm = m.term
                /\ r.match = Reach(m)
              BY <4>3, Zenon
          <4>5. r.success
              BY ONLY <4>3, Zenon
          <4> QED BY <4>1, <4>2, <4>4, <4>5, Zenon DEF Within
      <3>7. \A k \in Server : /\ log'[k] = log[k] \/ Rooted(log'[k], G)
                              /\ \/ persisted'[k].log = persisted[k].log
                                 \/ Rooted(persisted'[k].log, G)
          <4>1. Rooted(log[j], G)
              BY <2>1, Zenon DEF Chronicle
          <4> QED BY <3>3, <3>4, <3>5, <4>1, Zenon
      <3>8. \A k \in Server : state'[k] = Leader =>
                /\ state[k] = Leader
                /\ currentTerm'[k] = currentTerm[k] /\ log'[k] = log[k]
          BY <2>5, <3>1, <3>3, Zenon
      <3>9. Grows(G, G) /\ Chronicle(G)'
          BY <2>2, <3>6, <3>7, <3>8, <1>SameChronicle, Zenon
      <3>10. Callers'
          BY <2>2, <2>5, <3>1, <3>6, Zenon DEF LogInv, Callers
      <3>11. IndexesInRange'
          BY <2>2, <3>8, Zenon DEF LogInv, IndexesInRange
      <3>12. DiskCoversMemory'
          <4>1. ASSUME NEW k \in Server PROVE Begins(log'[k], persisted'[k].log)
              <5>1. /\ log[k] \in Seq(LogEntry) /\ persisted[k].log \in Seq(LogEntry)
                    /\ Begins(log[k], persisted[k].log)
                  BY LogTypes, DiskBegins, Zenon DEF LogInv
              <5>2. CASE k # j
                  BY <3>3, <3>5, <5>1, <5>2, Zenon
              <5>3. CASE k = j
                  <6>1. CASE persisted'[j].log = new
                      BY <3>2, <3>3, <5>3, <6>1, BeginsItself, Zenon
                  <6>2. CASE persisted'[j].log = log[j] /\ Len(m.entries) = 0
                      BY <3>2, <3>3, <5>3, <6>2, Zenon
                  <6>3. CASE persisted'[j].log = persisted[j].log /\ Len(m.entries) = 0
                      BY <3>2, <3>3, <5>1, <5>3, <6>3, <1>BeginsTransitive,
                         Zenon
                  <6> QED BY <3>5, <6>1, <6>2, <6>3, Zenon
              <5> QED BY <5>2, <5>3, Zenon
          <4> QED BY <4>1, <1>DiskFacts, Zenon DEF ElectionInv
      <3> QED BY <3>9, <3>10, <3>11, <3>12, Zenon DEF LogInv, Grown, Tended
  <2> QED BY <2>4, <2>6, <2>7, <2>8, Zenon DEF AppendEntries

  \* Where a leader backs up to is a slot of its log behind slot 0.
<1>BackUpRange.
      ASSUME WellOrdered, NEW lg \in Seq(LogEntry), GoodLog(lg),
             NEW ct \in Int, NEW ci \in Int, ci >= 1, ci < Len(lg), ct = -1 \/ ct >= 1
      PROVE  BackUpTo(lg, ct, ci) \in 1 .. lastLogIndex(lg)
  <2> USE <1>BackUpRange
  <2> DEFINE first == firstIndexOfTerm(lg, ct)
  <2>1. BackUpTo(lg, ct, ci) = IF ct = -1 THEN max(0, ci)
                               ELSE IF first = -1 THEN ci ELSE first
      BY Zenon DEF BackUpTo
  <2>2. Len(lg) \in Nat
      OBVIOUS
  <2>3. ci \in 1 .. lastLogIndex(lg) /\ max(0, ci) = ci
      BY <2>2 DEF lastLogIndex, max
  <2>4. ct # -1 => first = -1 \/ first \in 1 .. lastLogIndex(lg)
      BY firstIndexOfTermFacts, Zenon
  <2> HIDE DEF first
  <2> QED BY <2>1, <2>3, <2>4, Zenon

  \* replicateTo, when it gets a reply.
<1>AppendEntriesRepliedLogs.
      ASSUME WellOrdered, TypeInv, TypeInv', ElectionInv, ElectionInv', LogInv,
             NEW r \in aeReps, AppendEntriesReplied(r), NEW G, Chronicle(G)
      PROVE  LogInv' /\ Grown(G)
  <2> USE <1>AppendEntriesRepliedLogs
  <2> DEFINE i == r.dst
             j == r.src
  <2>1. /\ i \in Server /\ j \in Server /\ r.term \in Nat /\ r.match \in Nat
        /\ r.argsTerm \in Nat /\ r.conflictTerm \in Int /\ r.conflictIndex \in Int
      BY Zenon DEF TypeInv, TypeOK, AppendEntriesReply
  <2>2. state[i] = Leader /\ r.argsTerm = currentTerm[i] /\ UNCHANGED aeReps
      BY Zenon DEF AppendEntriesReplied
  <2>3. log[i] \in Seq(LogEntry) /\ Len(log[i]) \in Nat /\ GoodLog(log[i])
      BY <2>1, LogTypes, Zenon
  <2>4. Within(r, log[i])
      BY <2>1, <2>2, Zenon DEF Chronicle
  <2>5. /\ nextIndex \in [Server -> [Server -> Int]]
        /\ matchIndex \in [Server -> [Server -> Int]]
      BY Zenon DEF TypeInv, TypeOK
  <2>6. \A k, l \in Server : state[k] = Leader =>
            /\ nextIndex[k][l] \in 1 .. Len(log[k])
            /\ matchIndex[k][l] \in -1 .. lastLogIndex(log[k])
      BY Zenon DEF LogInv, IndexesInRange
  <2>7. j # i
      BY Zenon DEF LogInv, Callers
  <2>8. CASE AppendSucceeded(r)
      <3> DEFINE top   == max(matchIndex[i][j], r.match)
                 match == [matchIndex[i] EXCEPT ![j] = top]
      <3>1. /\ r.success
            /\ matchIndex' = [matchIndex EXCEPT ![i] = match]
            /\ nextIndex' = [nextIndex EXCEPT ![i][j] = match[j] + 1]
            /\ UNCHANGED <<currentTerm, log, state, persisted, aeReqs>>
          BY <2>8, Zenon DEF AppendSucceeded, serverVars
      <3>2. top \in 0 .. lastLogIndex(log[i])
          <4>1. matchIndex[i][j] \in -1 .. lastLogIndex(log[i]) /\ r.match < Len(log[i])
              BY <2>1, <2>2, <2>4, <2>6, <3>1, Zenon DEF Within
          <4> QED BY <2>1, <2>3, <4>1 DEF max, lastLogIndex
      <3> HIDE DEF top
      <3>3. match[j] = top /\ \A l \in Server \ {j} : match[l] = matchIndex[i][l]
          BY <2>1, <2>5, Zenon
      <3> HIDE DEF match
      <3>4. ASSUME NEW k \in Server, NEW l \in Server, state[k] = Leader
            PROVE  /\ nextIndex'[k][l] \in 1 .. Len(log[k])
                   /\ matchIndex'[k][l] \in -1 .. lastLogIndex(log[k])
          <4>1. CASE k = i /\ l = j
              <5>1. nextIndex'[k][l] = top + 1 /\ matchIndex'[k][l] = top
                  BY <2>1, <2>5, <3>1, <3>3, <4>1, Zenon
              <5> QED BY <2>3, <3>2, <4>1, <5>1 DEF lastLogIndex
          <4>2. CASE ~ (k = i /\ l = j)
              <5>1. nextIndex'[k][l] = nextIndex[k][l]
                  BY <2>1, <2>5, <3>1, <4>2, Zenon
              <5>2. matchIndex'[k][l] = matchIndex[k][l]
                  BY <2>1, <2>5, <3>1, <3>3, <4>2, Zenon
              <5> QED BY <2>6, <3>4, <5>1, <5>2, Zenon
          <4> QED BY <4>1, <4>2, Zenon
      <3>5. IndexesInRange'
          BY <3>1, <3>4, Zenon DEF IndexesInRange
      <3> QED BY <2>1, <2>2, <3>1, <3>5, <1>SendLogs, Zenon
  <2>9. CASE AppendFailed(r)
      <3> DEFINE n    == BackUpTo(log[i], r.conflictTerm, r.conflictIndex)
                 call == AppendArgs(i, j, currentTerm[i], log[i], n, commitIndex[i])
      <3>1. /\ ~ r.success
            /\ r.term <= r.argsTerm
            /\ nextIndex' = [nextIndex EXCEPT ![i][j] = n]
            /\ aeReqs' = aeReqs \cup {call}
            /\ UNCHANGED <<currentTerm, log, state, persisted, matchIndex>>
          BY <2>2, <2>9, Zenon DEF AppendFailed, serverVars
      <3>2. n \in 1 .. lastLogIndex(log[i])
          <4>1. r.conflictIndex >= 1 /\ (r.conflictTerm = -1 \/ r.conflictTerm >= 1)
              BY <3>1, Zenon DEF TypeInv, SlotZero, GoodReply
          <4>2. r.conflictIndex < Len(log[i])
              BY <2>4, <3>1, Zenon DEF Within
          <4> DEFINE lg == log[i]
                     ct == r.conflictTerm
                     ci == r.conflictIndex
          <4>3. /\ WellOrdered /\ lg \in Seq(LogEntry) /\ GoodLog(lg)
                /\ ct \in Int /\ ci \in Int /\ ci >= 1 /\ ci < Len(lg)
                /\ ct = -1 \/ ct >= 1
              BY <2>1, <2>3, <4>1, <4>2, Zenon
          <4> HIDE DEF lg, ct, ci
          <4>4. BackUpTo(lg, ct, ci) \in 1 .. lastLogIndex(lg)
              BY ONLY <4>3, <1>BackUpRange, Zenon
          <4> QED BY <4>4, Zenon DEF lg, ct, ci
      <3> HIDE DEF n
      <3>3. n \in 1 .. Len(log[i])
          BY <2>3, <3>2 DEF lastLogIndex
      <3>4. /\ SliceOf(call, log[i]) /\ call.src = i /\ call.dst = j
            /\ call.term = currentTerm[i]
          <4> DEFINE lg == log[i]
                     t  == currentTerm[i]
                     c  == commitIndex[i]
          <4>1. lg \in Seq(LogEntry) /\ n \in 1 .. Len(lg)
              BY <2>3, <3>3, Zenon
          <4> HIDE DEF lg, t, c
          <4>2. LET m == AppendArgs(i, j, t, lg, n, c)
                IN  SliceOf(m, lg) /\ m.src = i /\ m.dst = j /\ m.term = t
              BY ONLY <4>1, AppendArgsSlice
          <4> QED BY <4>2, Zenon DEF lg, t, c
      <3> HIDE DEF call
      <3>5. \A k, l \in Server : state[k] = Leader =>
                nextIndex'[k][l] \in 1 .. Len(log[k])
          BY <2>1, <2>5, <2>6, <3>1, <3>3, Zenon
      <3>6. IndexesInRange'
          BY <2>6, <3>1, <3>5, Zenon DEF IndexesInRange
      <3>7. \A m \in aeReqs' :
                \/ m \in aeReqs
                \/ m.src = i /\ m.dst # i /\ m.term = currentTerm[i] /\ SliceOf(m, log[i])
          BY <2>7, <3>1, <3>4, Zenon
      <3> QED BY <2>1, <2>2, <3>1, <3>6, <3>7, <1>SendLogs, Zenon
  <2>10. CASE AppendDeposed(r)
      <3>1. /\ becomeFollower(i, r.term)
            /\ UNCHANGED <<nextIndex, matchIndex, aeReqs>>
          BY <2>10, Zenon DEF AppendDeposed
      <3> QED BY <2>1, <2>2, <3>1, <1>BecomeFollowerLogs, Zenon
  <2> QED BY <2>8, <2>9, <2>10, Zenon DEF AppendEntriesReplied

  \* The goroutine of startElection that gets a reply.
<1>RequestVoteRepliedLogs.
      ASSUME TypeInv, TypeInv', ElectionInv, ElectionInv', ElectionSafety', LogInv,
             NEW r \in rvReps, RequestVoteReplied(r), NEW G, Chronicle(G)
      PROVE  LogInv' /\ Grown(G)
  <2> USE <1>RequestVoteRepliedLogs
  <2>1. r.dst \in Server /\ r.src \in Server /\ r.src # r.dst
      BY ElectionTypes, Zenon DEF ElectionInv, NoSelfCalls
  <2>2. state[r.dst] = Candidate /\ UNCHANGED aeReps
      BY Zenon DEF RequestVoteReplied
  <2>3. CASE becomeFollower(r.dst, r.term) /\ UNCHANGED <<leaderVars, aeReqs>>
      BY <2>1, <2>2, <2>3, <1>BecomeFollowerLogs, Zenon DEF leaderVars
  <2>4. CASE becomeLeader(r.dst)
      BY <2>1, <2>2, <2>4, <1>BecomeLeaderLogs, Zenon
  <2> QED BY <2>3, <2>4, Zenon DEF RequestVoteReplied

  \* applier, and a step that changes nothing.
<1>ApplierLogs.
      ASSUME TypeInv, TypeInv', ElectionInv', LogInv,
             UNCHANGED <<serverVars, leaderVars, aeReqs, aeReps>>, NEW G, Chronicle(G)
      PROVE  LogInv' /\ Grown(G)
  <2> USE <1>ApplierLogs
  <2>1. UNCHANGED <<currentTerm, votedFor, log, state, persisted, nextIndex,
                    matchIndex, aeReqs, aeReps>>
      BY Zenon DEF serverVars, leaderVars
  <2>2. Grows(G, G) /\ Chronicle(G)'
      BY <2>1, <1>SameChronicle, Zenon
  <2>3. LogInv'
      BY <2>1, Zenon DEF LogInv, Callers, IndexesInRange, DiskCoversMemory
  <2> QED BY <2>2, <2>3, Zenon DEF Grown, Tended

  \* Restart: the log that comes back is the one on disk.
<1>RestartLogs.
      ASSUME TypeInv, TypeInv', ElectionInv, ElectionInv', LogInv,
             NEW i \in Server, Restart(i), NEW G, Chronicle(G)
      PROVE  LogInv' /\ Grown(G)
  <2> USE <1>RestartLogs
  <2>1. /\ currentTerm' = [currentTerm EXCEPT ![i] = persisted[i].currentTerm]
        /\ log' = [log EXCEPT ![i] = persisted[i].log]
        /\ state' = [state EXCEPT ![i] = Follower]
        /\ nextIndex' = [nextIndex EXCEPT ![i] = [j \in Server |-> 0]]
        /\ matchIndex' = [matchIndex EXCEPT ![i] = [j \in Server |-> 0]]
        /\ UNCHANGED <<persisted, aeReqs, aeReps>>
      BY Zenon DEF Restart, netVars
  <2>2. /\ currentTerm \in [Server -> Nat] /\ log \in [Server -> Seq(LogEntry)]
        /\ state \in [Server -> {Follower, Candidate, Leader}]
      BY LogTypes, Zenon
  <2>3. /\ nextIndex \in [Server -> [Server -> Int]]
        /\ matchIndex \in [Server -> [Server -> Int]]
      BY Zenon DEF TypeInv, TypeOK
  <2>4. /\ state'[i] = Follower /\ log'[i] = persisted[i].log
        /\ \A k \in Server \ {i} :
               /\ state'[k] = state[k] /\ log'[k] = log[k]
               /\ currentTerm'[k] = currentTerm[k]
               /\ nextIndex'[k] = nextIndex[k] /\ matchIndex'[k] = matchIndex[k]
      BY <2>1, <2>2, <2>3, Zenon
  <2>5. \A k \in Server : state'[k] # Follower =>
            /\ state'[k] = state[k] /\ log'[k] = log[k]
            /\ currentTerm'[k] = currentTerm[k]
            /\ nextIndex'[k] = nextIndex[k] /\ matchIndex'[k] = matchIndex[k]
      BY <2>4, Zenon
  <2>6. Grows(G, G) /\ Chronicle(G)'
      <3>1. \A k \in Server : log'[k] = log[k] \/ Rooted(log'[k], G)
          BY <2>4, Zenon DEF Chronicle
      <3>2. \A k \in Server : state'[k] = Leader =>
                /\ state[k] = Leader
                /\ currentTerm'[k] = currentTerm[k] /\ log'[k] = log[k]
          BY <2>5, Zenon DEF Leader, Follower
      <3> QED BY <2>1, <3>1, <3>2, <1>SameChronicle, Zenon
  <2>7. Callers'
      BY <2>1, <2>5 DEF LogInv, Callers, Candidate, Follower
  <2>8. IndexesInRange'
      BY <2>5, Zenon DEF LogInv, IndexesInRange, Leader, Follower
  <2>9. DiskCoversMemory'
      <3>1. ASSUME NEW k \in Server PROVE Begins(log'[k], persisted'[k].log)
          <4>1. persisted[k].log \in Seq(LogEntry) /\ Begins(log[k], persisted[k].log)
              BY LogTypes, DiskBegins, Zenon DEF LogInv
          <4> QED BY <2>1, <2>4, <4>1, BeginsItself, Zenon
      <3> QED BY <3>1, <1>DiskFacts, Zenon DEF ElectionInv
  <2> QED BY <2>6, <2>7, <2>8, <2>9, Zenon DEF LogInv, Grown, Tended

<1> SUFFICES ASSUME WellOrdered, TypeInv, TypeInv', ElectionInv, ElectionInv',
                    ElectionSafety, ElectionSafety', LogInv, [Next]_vars,
                    NEW G, Chronicle(G)
             PROVE  LogInv' /\ Grown(G)
    BY Zenon
<1>1. ASSUME NEW i \in Server, startElection(i) \/ sendHeartbeats(i) \/ Restart(i)
      PROVE  LogInv' /\ Grown(G)
    BY <1>1, <1>StartElectionLogs, <1>SendHeartbeatsLogs, <1>RestartLogs, Zenon
<1>2. ASSUME NEW i \in Server, NEW c \in Command, Start(i, c)
      PROVE  LogInv' /\ Grown(G)
    BY <1>2, <1>StartLogs, Zenon
<1>3. ASSUME NEW m \in rvReqs, RequestVote(m) PROVE LogInv' /\ Grown(G)
    BY <1>3, <1>RequestVoteLogs, Zenon
<1>4. ASSUME NEW r \in rvReps, RequestVoteReplied(r) PROVE LogInv' /\ Grown(G)
    BY <1>4, <1>RequestVoteRepliedLogs, Zenon
<1>5. ASSUME NEW m \in aeReqs, AppendEntries(m) PROVE LogInv' /\ Grown(G)
    BY <1>5, <1>AppendEntriesLogs, Zenon
<1>6. ASSUME NEW r \in aeReps, AppendEntriesReplied(r) PROVE LogInv' /\ Grown(G)
    BY <1>6, <1>AppendEntriesRepliedLogs, Zenon
<1>7. ASSUME NEW i \in Server, applier(i) PROVE LogInv' /\ Grown(G)
    <2>1. UNCHANGED <<serverVars, leaderVars, aeReqs, aeReps>>
        BY <1>7, Zenon DEF applier, netVars
    <2> QED BY <2>1, <1>ApplierLogs, Zenon
<1>8. CASE UNCHANGED vars
    <2>1. UNCHANGED <<serverVars, leaderVars, aeReqs, aeReps>>
        BY <1>8, Zenon DEF vars, netVars
    <2> QED BY <2>1, <1>ApplierLogs, Zenon
<1> QED BY <1>1, <1>2, <1>3, <1>4, <1>5, <1>6, <1>7, <1>8, Zenon DEF Next

-----------------------------------------------------------------------------
(*****************************************************************************)
(* What a chronicle tells of the logs.                                       *)
(*****************************************************************************)

\* Two rooted logs with an entry of the same term in a slot agree up to it.
LEMMA ChronicleMatching == ASSUME TypeInv, NEW G, Chronicle(G) PROVE LogMatching
<1>1. \A a \in Logs : a \in Seq(LogEntry) /\ Rooted(a, G)
    <2>1. \A i \in Server : /\ log[i] \in Seq(LogEntry) /\ Rooted(log[i], G)
                            /\ persisted[i].log \in Seq(LogEntry)
                            /\ Rooted(persisted[i].log, G)
        BY LogTypes, Zenon DEF Chronicle
    <2> QED BY <2>1, Zenon DEF Logs
<1>2. Typed(G)
    BY Zenon DEF Chronicle
<1> SUFFICES ASSUME NEW a \in Logs, NEW b \in Logs,
                    NEW k \in 1 .. min(Len(a), Len(b)), a[k].term = b[k].term
             PROVE  SameUpTo(a, b, k)
    BY Zenon DEF LogMatching
<1>3. a \in Seq(LogEntry) /\ b \in Seq(LogEntry) /\ Rooted(a, G) /\ Rooted(b, G)
    BY <1>1, Zenon
<1>4. k \in Nat /\ k \in 1 .. Len(a) /\ k \in 1 .. Len(b)
    <2>1. Len(a) \in Nat /\ Len(b) \in Nat
        BY <1>3
    <2> QED BY <2>1 DEF min
<1>5. Agrees(a, b, k)
    BY <1>2, <1>3, <1>4, RootedAgree, Zenon
<1> QED BY <1>3, <1>4, <1>5, SameUpToFacts, Zenon

\* The chronicle of a term only grows, and a leader's log is that of its term.
LEMMA ChronicleAppends ==
    ASSUME TypeInv, TypeInv', NEW G, Chronicle(G), Grown(G)
    PROVE  LeaderAppends
<1>1. PICK H : Grows(G, H) /\ Chronicle(H)'
    BY Zenon DEF Grown
<1> SUFFICES ASSUME NEW i \in Server, state[i] = Leader, state'[i] = Leader,
                    currentTerm'[i] = currentTerm[i]
             PROVE  /\ Len(log'[i]) >= Len(log[i])
                    /\ SameUpTo(log[i], log'[i], Len(log[i]))
    BY Zenon DEF LeaderAppends
<1>2. currentTerm[i] \in Nat /\ log[i] \in Seq(LogEntry) /\ Len(log[i]) \in Nat
    BY LogTypes, Zenon
<1>3. log'[i] \in Seq(LogEntry) /\ Len(log'[i]) \in Nat
    BY DEF TypeInv, TypeOK
<1>4. log[i] = G[currentTerm[i]] /\ log'[i] = H[currentTerm[i]]
    BY <1>1, Zenon DEF Chronicle
<1>5. Begins(log[i], log'[i])
    BY <1>1, <1>2, <1>4, Zenon DEF Grows
<1>6. Agrees(log[i], log'[i], Len(log[i]))
    BY <1>2, <1>3, <1>5 DEF Begins, Agrees
<1> QED BY <1>2, <1>3, <1>5, <1>6, SameUpToFacts, Zenon DEF Begins

(* Were the leader's first entry of the conflicting term behind the refused  *)
(* slot, both logs would be the log of that term's leader up to the slot,    *)
(* and there would be no conflict.                                           *)
LEMMA ChronicleBackup ==
    ASSUME WellOrdered, TypeInv, NEW G, Chronicle(G)
    PROVE  BackupMovesDown
<1> SUFFICES ASSUME NEW m \in aeReqs, Conflicts(m)
             PROVE  BackUpTo(log[m.src], At(log[m.dst], m.prevLogIndex).term,
                             ConflictRun(log[m.dst], m.prevLogIndex))
                        <= m.prevLogIndex
    BY Zenon DEF BackupMovesDown
<1> DEFINE i     == m.src
           j     == m.dst
           p     == m.prevLogIndex
           ct    == At(log[j], p).term
           ci    == ConflictRun(log[j], p)
           first == firstIndexOfTerm(log[i], ct)
<1>1. i \in Server /\ j \in Server /\ m.term \in Nat /\ p \in Nat
    BY AppendTypes, Zenon
<1>2. /\ state[i] = Leader /\ currentTerm[i] = m.term
      /\ p <= lastLogIndex(log[j]) /\ ~ PrevMatches(m)
    BY Zenon DEF Conflicts
<1>3. /\ log[i] \in Seq(LogEntry) /\ GoodLog(log[i]) /\ Len(log[i]) \in Nat
      /\ log[j] \in Seq(LogEntry) /\ GoodLog(log[j]) /\ Len(log[j]) \in Nat
    BY <1>1, LogTypes, Zenon
<1>4. SliceOf(m, log[i])
    BY <1>1, <1>2, Zenon DEF Chronicle
<1>5. p + 1 \in 1 .. Len(log[j]) /\ p \in 0 .. lastLogIndex(log[j])
    BY <1>1, <1>2, <1>3 DEF lastLogIndex
<1>6. ct = log[j][p + 1].term /\ ct \in Nat
    <2>1. log[j][p + 1] \in LogEntry
        BY <1>3, <1>5
    <2> QED BY <2>1, Zenon DEF At, LogEntry
<1>7. ct # log[i][p + 1].term
    <2>1. m.prevLogTerm = log[i][p + 1].term
        BY <1>4, Zenon DEF SliceOf
    <2>2. ct # m.prevLogTerm
        BY <1>2, Zenon DEF PrevMatches
    <2> QED BY <2>1, <2>2, Zenon
<1>8. p >= 1 /\ ct >= 1
    <2>1. p # 0
        BY <1>3, <1>6, <1>7 DEF GoodLog
    <2>2. p + 1 \in 2 .. Len(log[j])
        BY <1>1, <1>5, <2>1
    <2> QED BY <1>1, <1>3, <1>6, <2>1, <2>2 DEF GoodLog
<1>9. ci \in 0 .. p
    <2> DEFINE lg == log[j]
    <2>1. /\ WellOrdered /\ lg \in Seq(LogEntry) /\ GoodLog(lg)
          /\ p \in 0 .. lastLogIndex(lg)
        BY <1>3, <1>5, Zenon
    <2> HIDE DEF lg, p
    <2>2. ConflictRun(lg, p) \in 0 .. p
        BY ONLY <2>1, ConflictRunFacts, Zenon
    <2> QED BY <2>2, Zenon DEF lg
<1>10. first # -1 => first \in 1 .. lastLogIndex(log[i]) /\ At(log[i], first).term = ct
    <2> DEFINE lg == log[i]
    <2>2. first = firstIndexOfTerm(lg, ct)
        BY Zenon
    <2> HIDE DEF lg, ct, first
    <2>1. /\ WellOrdered /\ lg \in Seq(LogEntry) /\ GoodLog(lg)
          /\ ct \in Int /\ ct >= 1
        <3>1. lg \in Seq(LogEntry) /\ GoodLog(lg)
            BY <1>3, Zenon DEF lg
        <3>2. ct \in Int /\ ct >= 1
            BY <1>6, <1>8
        <3> QED BY <3>1, <3>2, Zenon
    <2>3. first # -1 => first \in 1 .. lastLogIndex(lg) /\ At(lg, first).term = ct
        BY ONLY <2>1, <2>2, firstIndexOfTermFacts, Zenon
    <2> QED BY <2>3, Zenon DEF lg
<1>11. BackUpTo(log[i], ct, ci) = IF first = -1 THEN ci ELSE first
    <2>1. ct # -1
        BY <1>6
    <2> QED BY <2>1, Zenon DEF BackUpTo
<1> HIDE DEF ct, ci, first
<1>12. first # -1 => first <= p
    <2> SUFFICES ASSUME first # -1, ~ (first <= p) PROVE FALSE
        BY Zenon
    <2>1. /\ first \in Nat /\ first + 1 \in 1 .. Len(log[i]) /\ p + 1 < first + 1
          /\ log[i][first + 1].term = ct
        BY <1>1, <1>3, <1>10 DEF lastLogIndex, At
    <2>2. Agrees(log[i], G[ct], first + 1)
        BY <1>1, <2>1, Zenon DEF Chronicle, Rooted
    <2>3. Agrees(log[j], G[ct], p + 1)
        BY <1>1, <1>5, <1>6, Zenon DEF Chronicle, Rooted
    <2>4. p + 1 \in 1 .. (first + 1) /\ p + 1 \in 1 .. (p + 1)
        BY <1>1, <2>1
    <2>5. log[i][p + 1] = log[j][p + 1]
        BY <2>2, <2>3, <2>4, Zenon DEF Agrees
    <2> QED BY <1>6, <1>7, <2>5, Zenon
<1>13. (IF first = -1 THEN ci ELSE first) <= p
    BY <1>1, <1>9, <1>12
<1> QED BY <1>11, <1>13, Zenon DEF ct, ci

=============================================================================
