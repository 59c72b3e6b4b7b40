----------------------------- MODULE RaftProofs -----------------------------
(*****************************************************************************)
(* Facts about the operators that Raft is built from, and the proof that     *)
(* every step of Raft keeps the types and is a step of Election, for every   *)
(* group of peers, every set of commands and every bound.                    *)
(*                                                                           *)
(* That the naturals are well ordered takes induction, and so it is a        *)
(* hypothesis of the lemmas that search a log. RaftSafetyProofs, which has   *)
(* the theorems, proves it.                                                  *)
(*****************************************************************************)
EXTENDS Raft, TLAPS

-----------------------------------------------------------------------------
(*****************************************************************************)
(* Integers: the loops of the code that search a log end.                    *)
(*****************************************************************************)

WellOrdered ==
    \A T \in SUBSET Nat : T # {} => \E n \in T : \A k \in T : n <= k

\* A non-empty set of naturals has a least element.
LEMMA LeastElement ==
    ASSUME WellOrdered, NEW T, T \subseteq Nat, T # {}
    PROVE  \E n \in T : \A k \in T : n <= k
BY Zenon DEF WellOrdered

\* A non-empty set of integers with an upper bound has a greatest element.
LEMMA GreatestElement ==
    ASSUME WellOrdered, NEW T, T \subseteq Int, T # {}, NEW b \in Int, \A k \in T : k <= b
    PROVE  \E n \in T : \A k \in T : k <= n
<1> DEFINE D == {b - k : k \in T}
<1>1. D \subseteq Nat /\ D # {}
    <2>1. ASSUME NEW k \in T PROVE b - k \in Nat
        OBVIOUS
    <2>2. PICK k \in T : TRUE
        BY Zenon
    <2>3. b - k \in D
        BY Zenon
    <2> QED BY <2>1, <2>3, Zenon
<1>2. PICK d \in D : \A e \in D : d <= e
    BY <1>1, LeastElement, Zenon
<1>3. PICK n \in T : d = b - n
    BY Zenon
<1>4. ASSUME NEW k \in T PROVE k <= n
    <2>1. b - k \in D
        BY Zenon
    <2>2. b - n <= b - k
        BY <1>2, <1>3, <2>1, Zenon
    <2>3. k \in Int /\ n \in Int
        BY Zenon
    <2> QED BY <2>2, <2>3
<1> QED BY <1>4, Zenon

-----------------------------------------------------------------------------
(*****************************************************************************)
(* Sequences.                                                                *)
(*****************************************************************************)

LEMMA EntryOf ==
    ASSUME NEW S, NEW s \in Seq(S), NEW k \in 1 .. Len(s) PROVE s[k] \in S
OBVIOUS

LEMMA SameSeq ==
    ASSUME NEW S, NEW s \in Seq(S), NEW t \in Seq(S), Len(s) = Len(t),
           \A k \in 1 .. Len(s) : s[k] = t[k]
    PROVE  s = t
OBVIOUS

LEMMA EmptySeq == ASSUME NEW S PROVE << >> \in Seq(S) /\ Len(<< >>) = 0
OBVIOUS

LEMMA AppendFacts ==
    ASSUME NEW S, NEW s \in Seq(S), NEW e \in S
    PROVE  /\ Append(s, e) \in Seq(S)
           /\ Len(Append(s, e)) = Len(s) + 1
           /\ \A k \in 1 .. Len(s) : Append(s, e)[k] = s[k]
           /\ Append(s, e)[Len(s) + 1] = e
OBVIOUS

LEMMA ConcatFacts ==
    ASSUME NEW S, NEW s \in Seq(S), NEW t \in Seq(S)
    PROVE  /\ s \o t \in Seq(S)
           /\ Len(s \o t) = Len(s) + Len(t)
           /\ \A k \in 1 .. (Len(s) + Len(t)) :
                  (s \o t)[k] = IF k <= Len(s) THEN s[k] ELSE t[k - Len(s)]
OBVIOUS

LEMMA SubSeqFacts ==
    ASSUME NEW S, NEW s \in Seq(S), NEW a \in Int, NEW b \in Int,
           \A k \in a .. b : s[k] \in S
    PROVE  /\ SubSeq(s, a, b) \in Seq(S)
           /\ Len(SubSeq(s, a, b)) = IF a <= b THEN b - a + 1 ELSE 0
           /\ \A k \in 1 .. (b - a + 1) : SubSeq(s, a, b)[k] = s[a + k - 1]
OBVIOUS

-----------------------------------------------------------------------------
(*****************************************************************************)
(* The slices of a log.                                                      *)
(*****************************************************************************)

\* rf.log[:k] keeps the first k slots.
LEMMA UpToFacts ==
    ASSUME NEW S, NEW lg \in Seq(S), NEW k \in 0 .. Len(lg)
    PROVE  /\ UpTo(lg, k) \in Seq(S)
           /\ Len(UpTo(lg, k)) = k
           /\ \A n \in 1 .. k : UpTo(lg, k)[n] = lg[n]
<1>1. \A n \in 1 .. k : lg[n] \in S
    BY EntryOf
<1> QED BY <1>1, SubSeqFacts DEF UpTo

\* rf.log[k:] has the slots from k on, none when k is beyond the end.
LEMMA FromFacts ==
    ASSUME NEW S, NEW lg \in Seq(S), NEW k \in Nat
    PROVE  /\ From(lg, k) \in Seq(S)
           /\ Len(From(lg, k)) = IF k < Len(lg) THEN Len(lg) - k ELSE 0
           /\ \A n \in 1 .. Len(From(lg, k)) : From(lg, k)[n] = lg[k + n]
<1>1. \A n \in (k + 1) .. Len(lg) : lg[n] \in S
    BY EntryOf
<1>2. Len(lg) \in Nat
    OBVIOUS
<1> QED BY <1>1, <1>2, SubSeqFacts DEF From

\* The log that AppendEntries leaves: the first q entries, then the new ones.
Splice(new, lg, q, es) == new = UpTo(lg, q) \o es

LEMMA SpliceFacts ==
    ASSUME NEW lg \in Seq(LogEntry), NEW q \in 0 .. Len(lg),
           NEW es \in Seq(LogEntry), NEW new, Splice(new, lg, q, es)
    PROVE  /\ new \in Seq(LogEntry)
           /\ Len(new) = q + Len(es)
           /\ \A k \in 1 .. q : new[k] = lg[k]
           /\ \A k \in 1 .. Len(es) : new[q + k] = es[k]
<1> DEFINE keep == UpTo(lg, q)
<1>1. Len(lg) \in Nat /\ Len(es) \in Nat
    OBVIOUS
<1>2. /\ keep \in Seq(LogEntry)
      /\ Len(keep) = q
      /\ \A k \in 1 .. q : keep[k] = lg[k]
    BY UpToFacts, Zenon
<1>3. new = keep \o es
    BY Zenon DEF Splice
<1> HIDE DEF keep
<1>4. /\ new \in Seq(LogEntry)
      /\ Len(new) = Len(keep) + Len(es)
      /\ \A k \in 1 .. (Len(keep) + Len(es)) :
             new[k] = IF k <= Len(keep) THEN keep[k] ELSE es[k - Len(keep)]
    <2>1. /\ keep \o es \in Seq(LogEntry)
          /\ Len(keep \o es) = Len(keep) + Len(es)
          /\ \A k \in 1 .. (Len(keep) + Len(es)) :
                 (keep \o es)[k] =
                     IF k <= Len(keep) THEN keep[k] ELSE es[k - Len(keep)]
        BY <1>2, ConcatFacts, Zenon
    <2> QED BY ONLY <1>3, <2>1, Zenon
<1>5. \A k \in 1 .. q : new[k] = lg[k]
    BY <1>1, <1>2, <1>4
<1>6. ASSUME NEW k \in 1 .. Len(es) PROVE new[q + k] = es[k]
    <2>1. q + k \in 1 .. (q + Len(es)) /\ ~ (q + k <= q) /\ (q + k) - q = k
        BY <1>1
    <2> QED BY <1>2, <1>4, <2>1, Zenon
<1> QED BY <1>2, <1>4, <1>5, <1>6, Zenon

(* AppendEntries finds where the run of the conflicting term begins. The     *)
(* search ends behind slot 0 when that term is not the sentinel's.           *)
LEMMA ConflictRunFacts ==
    ASSUME WellOrdered, NEW lg \in Seq(LogEntry), GoodLog(lg),
           NEW k \in 0 .. lastLogIndex(lg)
    PROVE  /\ ConflictRun(lg, k) \in 0 .. k
           /\ At(lg, k).term # 0 => ConflictRun(lg, k) >= 1
<1> DEFINE T == {n \in 0 .. k : \A x \in n .. k : At(lg, x).term = At(lg, k).term}
<1>1. k \in T /\ T \subseteq Nat
    BY DEF lastLogIndex
<1>2. PICK n \in T : \A z \in T : n <= z
    BY <1>1, LeastElement, Zenon
<1>3. n = 0 \/ At(lg, n - 1).term # At(lg, k).term
    <2>1. SUFFICES ASSUME n # 0, At(lg, n - 1).term = At(lg, k).term
                   PROVE  FALSE
        BY Zenon
    <2>2. n - 1 \in T
        BY <2>1
    <2> QED BY <1>2, <2>2
<1> DEFINE P(c) == /\ \A x \in c .. k : At(lg, x).term = At(lg, k).term
                   /\ c = 0 \/ At(lg, c - 1).term # At(lg, k).term
<1>4. /\ ConflictRun(lg, k) \in 0 .. k
      /\ At(lg, ConflictRun(lg, k)).term = At(lg, k).term
    <2>1. \E c \in 0 .. k : P(c)
        BY <1>2, <1>3, Zenon
    <2>2. ConflictRun(lg, k) = CHOOSE c \in 0 .. k : P(c)
        BY Zenon DEF ConflictRun
    <2> HIDE DEF P
    <2>3. ConflictRun(lg, k) \in 0 .. k /\ P(ConflictRun(lg, k))
        BY <2>1, <2>2, Zenon
    <2> QED BY <2>3 DEF P
<1>5. At(lg, 0).term = 0
    BY DEF GoodLog, At, Sentinel
<1> QED BY <1>4, <1>5

(* The leader's search for a term finds a slot of that term, and never slot  *)
(* 0 for a term that an entry can have.                                      *)
LEMMA firstIndexOfTermFacts ==
    ASSUME WellOrdered, NEW lg \in Seq(LogEntry), GoodLog(lg),
           NEW t \in Int, t >= 1
    PROVE  /\ firstIndexOfTerm(lg, t) \in Int
           /\ firstIndexOfTerm(lg, t) # -1
                 => /\ firstIndexOfTerm(lg, t) \in 1 .. lastLogIndex(lg)
                    /\ At(lg, firstIndexOfTerm(lg, t)).term = t
<1> DEFINE T == {k \in 0 .. lastLogIndex(lg) : At(lg, k).term = t}
<1>1. CASE T = {}
    BY <1>1 DEF firstIndexOfTerm
<1>2. CASE T # {}
    <2>1. T \subseteq Nat
        OBVIOUS
    <2>2. PICK k \in T : \A z \in T : k <= z
        BY <1>2, <2>1, LeastElement, Zenon
    <2>3. \A n \in 0 .. (k - 1) : At(lg, n).term # t
        BY <2>2 DEF lastLogIndex
    <2> DEFINE P(c) == /\ At(lg, c).term = t
                       /\ \A n \in 0 .. (c - 1) : At(lg, n).term # t
    <2>4. /\ firstIndexOfTerm(lg, t) \in 0 .. lastLogIndex(lg)
          /\ At(lg, firstIndexOfTerm(lg, t)).term = t
        <3>1. \E c \in 0 .. lastLogIndex(lg) : P(c)
            BY <2>2, <2>3, Zenon
        <3>2. firstIndexOfTerm(lg, t) = CHOOSE c \in 0 .. lastLogIndex(lg) : P(c)
            BY <2>2, Zenon DEF firstIndexOfTerm
        <3> HIDE DEF P
        <3>3. /\ firstIndexOfTerm(lg, t) \in 0 .. lastLogIndex(lg)
              /\ P(firstIndexOfTerm(lg, t))
            BY <3>1, <3>2, Zenon
        <3> QED BY <3>3, Zenon DEF P
    <2>5. At(lg, 0).term = 0
        BY DEF GoodLog, At, Sentinel
    <2> QED BY <2>4, <2>5 DEF lastLogIndex
<1> QED BY <1>1, <1>2, Zenon

-----------------------------------------------------------------------------
(*****************************************************************************)
(* The types, with the sentinel in slot 0, and what elections keep.          *)
(*****************************************************************************)

TypeInv == TypeOK /\ SlotZero

\* The last entry of a log that startElection and isLogUpToDate read.
LEMMA LastEntryFacts ==
    ASSUME TypeInv, NEW i \in Server
    PROVE  /\ log[i] \in Seq(LogEntry) /\ Len(log[i]) \in Nat /\ Len(log[i]) >= 1
           /\ lastLogIndex(log[i]) \in Nat
           /\ lastLogTerm(log[i]) \in Nat
<1>1. Len(log[i]) \in Nat /\ Len(log[i]) >= 1 /\ log[i] \in Seq(LogEntry)
    BY DEF TypeInv, TypeOK
<1>2. log[i][Len(log[i])] \in LogEntry
    BY <1>1, EntryOf
<1> QED BY <1>1, <1>2 DEF lastLogIndex, lastLogTerm, At, LogEntry

NoSelfCalls ==
    /\ \A m \in rvReqs : m.src # m.dst
    /\ \A r \in rvReps : r.src # r.dst

TermsReached ==
    /\ \A m \in rvReqs : m.term <= currentTerm[m.src]
    /\ \A r \in rvReps : r.term <= currentTerm[r.src]
    /\ \A m \in aeReqs : m.term <= currentTerm[m.src]
    /\ \A r \in aeReps : r.term <= currentTerm[r.src]

VoteOnDisk ==
    \A i \in Server : /\ persisted[i].currentTerm = currentTerm[i]
                      /\ persisted[i].votedFor = votedFor[i]

LeaderCalls ==
    \A i \in Server : state[i] = Leader =>
        \E m \in aeReqs : m.src = i /\ m.term = currentTerm[i]

ElectionInv == NoSelfCalls /\ TermsReached /\ VoteOnDisk /\ LeaderCalls

\* The types of what elections read.
LEMMA ElectionTypes ==
    ASSUME TypeInv
    PROVE  /\ currentTerm \in [Server -> Nat]
           /\ votedFor \in [Server -> Server \cup {None}]
           /\ state \in [Server -> {Follower, Candidate, Leader}]
           /\ persisted \in [Server -> Image]
           /\ \A m \in rvReqs : m.src \in Server /\ m.dst \in Server /\ m.term \in Nat
           /\ \A r \in rvReps : /\ r.src \in Server /\ r.dst \in Server
                                /\ r.term \in Nat /\ r.argsTerm \in Nat
                                /\ r.voteGranted \in BOOLEAN
           /\ \A m \in aeReqs : m.src \in Server /\ m.dst \in Server /\ m.term \in Nat
           /\ \A r \in aeReps : /\ r.src \in Server /\ r.dst \in Server
                                /\ r.term \in Nat /\ r.argsTerm \in Nat
<1>1. /\ currentTerm \in [Server -> Nat]
      /\ votedFor \in [Server -> Server \cup {None}]
      /\ state \in [Server -> {Follower, Candidate, Leader}]
      /\ persisted \in [Server -> Image]
    BY Zenon DEF TypeInv, TypeOK
<1>2. /\ rvReqs \subseteq RequestVoteArgs /\ rvReps \subseteq RequestVoteReply
      /\ aeReqs \subseteq AppendEntriesArgs /\ aeReps \subseteq AppendEntriesReply
    BY Zenon DEF TypeInv, TypeOK
<1>3. \A m \in rvReqs : m.src \in Server /\ m.dst \in Server /\ m.term \in Nat
    BY <1>2, Zenon DEF RequestVoteArgs
<1>4. \A r \in rvReps : /\ r.src \in Server /\ r.dst \in Server
                        /\ r.term \in Nat /\ r.argsTerm \in Nat
                        /\ r.voteGranted \in BOOLEAN
    BY <1>2, Zenon DEF RequestVoteReply
<1>5. \A m \in aeReqs : m.src \in Server /\ m.dst \in Server /\ m.term \in Nat
    BY <1>2, Zenon DEF AppendEntriesArgs
<1>6. \A r \in aeReps : /\ r.src \in Server /\ r.dst \in Server
                        /\ r.term \in Nat /\ r.argsTerm \in Nat
    BY <1>2, Zenon DEF AppendEntriesReply
<1> QED BY <1>1, <1>3, <1>4, <1>5, <1>6, Zenon

\* broadcastAppendEntries calls every other peer, in the term of the caller.
LEMMA BroadcastSources ==
    ASSUME NEW i \in Server, broadcastAppendEntries(i)
    PROVE  /\ aeReqs \subseteq aeReqs'
           /\ \A m \in aeReqs' : m \in aeReqs \/ (m.src = i /\ m.term = currentTerm'[i])
           /\ \A j \in Server \ {i} :
                  \E m \in aeReqs' : m.src = i /\ m.term = currentTerm'[i]
<1> DEFINE call(j) == AppendArgs(i, j, currentTerm'[i], log'[i],
                                 nextIndex'[i][j], commitIndex'[i])
<1>1. \A j : call(j).src = i /\ call(j).term = currentTerm'[i]
    BY Zenon DEF AppendArgs
<1>2. aeReqs' = aeReqs \cup {call(j) : j \in Server \ {i}}
    BY Zenon DEF broadcastAppendEntries
<1> HIDE DEF call
<1>3. ASSUME NEW m \in aeReqs', m \notin aeReqs
      PROVE  m.src = i /\ m.term = currentTerm'[i]
    <2>1. PICK j \in Server \ {i} : m = call(j)
        BY <1>2, <1>3, Zenon
    <2> QED BY <1>1, <2>1, Zenon
<1>4. ASSUME NEW j \in Server \ {i}
      PROVE  \E m \in aeReqs' : m.src = i /\ m.term = currentTerm'[i]
    <2>1. call(j) \in aeReqs'
        BY <1>2, Zenon
    <2>2. call(j).src = i /\ call(j).term = currentTerm'[i]
        BY <1>1, Zenon
    <2> QED BY <2>1, <2>2, Zenon
<1> QED BY <1>2, <1>3, <1>4, Zenon

-----------------------------------------------------------------------------
(*****************************************************************************)
(* Types, and the sentinel in slot 0. Neither is inductive alone: a log      *)
(* stays non-empty because no call cuts slot 0, and no call does because the *)
(* indexes of leaders and replies stay positive.                             *)
(*****************************************************************************)

\* Make: Init has the types and the sentinels.
LEMMA InitTypeInv == Init => TypeInv
<1> SUFFICES ASSUME Init PROVE TypeInv
    BY Zenon
<1>1. Sentinel \in LogEntry
    BY Zenon DEF Sentinel, LogEntry
<1>2. <<Sentinel>> \in Seq(LogEntry) /\ GoodLog(<<Sentinel>>)
    BY <1>1 DEF GoodLog
<1>3. /\ currentTerm \in [Server -> Nat]
      /\ votedFor \in [Server -> Server \cup {None}]
      /\ state \in [Server -> {Follower, Candidate, Leader}]
      /\ handled \in [Server -> [term : Nat, reach : Nat]]
      /\ elections \in Nat /\ restarts \in Nat
    BY Zenon DEF Init
<1>4. /\ log \in [Server -> Seq(LogEntry)]
      /\ persisted \in [Server -> Image]
      /\ \A i \in Server : log[i] = <<Sentinel>> /\ persisted[i].log = <<Sentinel>>
    BY <1>2, Zenon DEF Init, Image
<1>5. /\ nextIndex \in [Server -> [Server -> Int]]
      /\ matchIndex \in [Server -> [Server -> Int]]
      /\ commitIndex \in [Server -> Nat]
    BY DEF Init
<1>6. applied \in [Server -> Seq(LogEntry)]
    BY EmptySeq, Zenon DEF Init
<1>7. rvReqs = {} /\ rvReps = {} /\ aeReqs = {} /\ aeReps = {}
    BY Zenon DEF Init
<1>8. \A i \in Server : GoodLog(log[i]) /\ GoodLog(persisted[i].log)
    BY <1>2, <1>4, Zenon
<1>9. TypeOK
    BY <1>3, <1>4, <1>5, <1>6, <1>7, <1>8, Zenon DEF TypeOK, GoodLog
<1>10. \A i \in Server : state[i] = Follower
    BY Zenon DEF Init
<1>11. SlotZero
    BY <1>7, <1>8, <1>10, Zenon DEF SlotZero, Follower, Leader
<1> QED BY <1>9, <1>11, Zenon DEF TypeInv

-----------------------------------------------------------------------------
\* The fields of an AppendEntries call.
Refusal(m, t, cTerm, cIndex) ==
    [src |-> m.dst, dst |-> m.src, argsTerm |-> m.term, match |-> Reach(m),
     term |-> t, success |-> FALSE, conflictTerm |-> cTerm,
     conflictIndex |-> cIndex]

\* Every step of Raft keeps the types and the sentinels.
LEMMA NextTypeInv == WellOrdered /\ TypeInv /\ [Next]_vars => TypeInv'
  \* A call made with a positive next index is well-typed and starts behind slot 0.
<1>AppendArgsFacts.
      ASSUME NEW i \in Server, NEW j \in Server, NEW t \in Nat,
             NEW lg \in Seq(LogEntry), GoodLog(lg),
             NEW n \in Int, n >= 1, NEW c \in Nat
      PROVE  /\ AppendArgs(i, j, t, lg, n, c) \in AppendEntriesArgs
             /\ GoodCall(AppendArgs(i, j, t, lg, n, c))
  <2> USE <1>AppendArgsFacts
  <2> DEFINE m == AppendArgs(i, j, t, lg, n, c)
  <2>1. /\ From(lg, n) \in Seq(LogEntry)
        /\ Len(From(lg, n)) = IF n < Len(lg) THEN Len(lg) - n ELSE 0
        /\ \A k \in 1 .. Len(From(lg, n)) : From(lg, n)[k] = lg[n + k]
      BY FromFacts
  <2>2. Len(lg) \in Nat /\ \A k \in 1 .. Len(lg) : lg[k] \in LogEntry
      BY EntryOf
  <2>3. m.prevLogTerm \in Nat
      BY <2>2 DEF AppendArgs, At, LogEntry
  <2>4. m \in AppendEntriesArgs
      BY <2>1, <2>3 DEF AppendArgs, AppendEntriesArgs
  <2>5. m.prevLogIndex = 0 => m.prevLogTerm = 0
      BY DEF AppendArgs, At, GoodLog, Sentinel
  <2>6. ASSUME NEW k \in 1 .. Len(m.entries) PROVE m.entries[k].term >= 1
      <3>1. m.entries = From(lg, n)
          BY Zenon DEF AppendArgs
      <3>2. n + k \in 2 .. Len(lg) /\ m.entries[k] = lg[n + k]
          BY <2>1, <2>2, <2>6, <3>1
      <3> QED BY <3>2, Zenon DEF GoodLog
  <2> QED BY <2>4, <2>5, <2>6, Zenon DEF GoodCall

  \* persist keeps the types of the saved images when it saves a typed state.
<1>PersistFacts.
      ASSUME NEW i \in Server, persist(i),
             persisted \in [Server -> Image],
             \A j \in Server : GoodLog(persisted[j].log),
             currentTerm'[i] \in Nat, votedFor'[i] \in Server \cup {None},
             log'[i] \in Seq(LogEntry), GoodLog(log'[i])
      PROVE  /\ persisted' \in [Server -> Image]
             /\ \A j \in Server : GoodLog(persisted'[j].log)
  <2> USE <1>PersistFacts
  <2> DEFINE im == [currentTerm |-> currentTerm'[i], votedFor |-> votedFor'[i],
                    log |-> log'[i]]
  <2>1. im \in Image /\ im.log = log'[i]
      BY Zenon DEF Image
  <2> HIDE DEF im
  <2>2. persisted' = [persisted EXCEPT ![i] = im]
      BY Zenon DEF persist, im
  <2> QED BY <2>1, <2>2, Zenon

  \* broadcastAppendEntries adds only such calls.
<1>BroadcastFacts.
      ASSUME NEW i \in Server, broadcastAppendEntries(i),
             aeReqs \subseteq AppendEntriesArgs, \A m \in aeReqs : GoodCall(m),
             currentTerm'[i] \in Nat, commitIndex'[i] \in Nat,
             log'[i] \in Seq(LogEntry), GoodLog(log'[i]),
             \A j \in Server : nextIndex'[i][j] \in Int /\ nextIndex'[i][j] >= 1
      PROVE  /\ aeReqs' \subseteq AppendEntriesArgs
             /\ \A m \in aeReqs' : GoodCall(m)
  <2> USE <1>BroadcastFacts
  <2>1. ASSUME NEW j \in Server
        PROVE  LET m == AppendArgs(i, j, currentTerm'[i], log'[i],
                                   nextIndex'[i][j], commitIndex'[i])
               IN  m \in AppendEntriesArgs /\ GoodCall(m)
      BY <2>1, <1>AppendArgsFacts, Zenon
  <2> QED BY <2>1, Zenon DEF broadcastAppendEntries

  \* startElection keeps the types: it touches the term, the vote, the role and
  \* the disk.
<1>StartElectionTypeInv.
      ASSUME TypeInv, NEW i \in Server, startElection(i) PROVE TypeInv'
  <2> USE <1>StartElectionTypeInv
  <2> USE DEF TypeInv
  <2>1. /\ currentTerm' \in [Server -> Nat]
        /\ votedFor' \in [Server -> Server \cup {None}]
        /\ state' \in [Server -> {Follower, Candidate, Leader}]
      BY DEF TypeOK, startElection
  <2>2. /\ \A j \in Server : state'[j] # Follower => currentTerm'[j] >= 1
        /\ \A j \in Server : state'[j] = Leader => state[j] = Leader
      <3>1. /\ state' = [state EXCEPT ![i] = Candidate]
            /\ currentTerm' = [currentTerm EXCEPT ![i] = currentTerm[i] + 1]
          BY Zenon DEF startElection
      <3>2. /\ state \in [Server -> {Follower, Candidate, Leader}]
            /\ currentTerm \in [Server -> Nat]
            /\ \A j \in Server : state[j] # Follower => currentTerm[j] >= 1
          BY Zenon DEF TypeOK, SlotZero
      <3> QED BY <3>1, <3>2 DEF Candidate, Leader
  <2>3. /\ persisted' \in [Server -> Image]
        /\ \A j \in Server : GoodLog(persisted'[j].log)
      <3>1. /\ persisted \in [Server -> Image]
            /\ log' \in [Server -> Seq(LogEntry)]
            /\ \A j \in Server : GoodLog(persisted[j].log) /\ GoodLog(log'[j])
            /\ persist(i)
          BY Zenon DEF TypeOK, SlotZero, startElection
      <3> QED BY <2>1, <3>1, <1>PersistFacts, Zenon
  <2>4. rvReqs' \subseteq RequestVoteArgs
      <3>1. lastLogIndex(log[i]) \in Nat /\ lastLogTerm(log[i]) \in Nat
          BY LastEntryFacts, Zenon
      <3>2. ASSUME NEW j \in Server
            PROVE  [src |-> i, dst |-> j, term |-> currentTerm'[i],
                    lastLogIndex |-> lastLogIndex(log[i]),
                    lastLogTerm  |-> lastLogTerm(log[i])] \in RequestVoteArgs
          BY <2>1, <3>1, Zenon DEF RequestVoteArgs
      <3>3. rvReqs \subseteq RequestVoteArgs
          BY Zenon DEF TypeOK
      <3> QED BY <3>2, <3>3, Zenon DEF startElection
  <2>5. /\ UNCHANGED <<log, nextIndex, matchIndex, commitIndex, applied,
                       rvReps, aeReqs, aeReps, handled, restarts>>
        /\ elections' \in Nat
      BY DEF TypeOK, startElection, leaderVars, applyVars
  <2>6. TypeOK'
      BY <2>1, <2>3, <2>4, <2>5, Zenon DEF TypeOK, GoodLog
  <2>7. SlotZero'
      BY <2>2, <2>3, <2>5, Zenon DEF SlotZero
  <2> QED BY <2>6, <2>7, Zenon

  \* RequestVote keeps the types, whether it grants the vote or not.
<1>RequestVoteTypeInv.
      ASSUME TypeInv, NEW m \in rvReqs, RequestVote(m) PROVE TypeInv'
  <2> USE <1>RequestVoteTypeInv
  <2> USE DEF TypeInv
  <2>1. /\ m \in RequestVoteArgs
        /\ m.dst \in Server /\ m.src \in Server /\ m.term \in Nat
      BY Zenon DEF TypeOK, RequestVoteArgs
  <2>2. /\ currentTerm' \in [Server -> Nat]
        /\ votedFor' \in [Server -> Server \cup {None}]
        /\ state' \in [Server -> {Follower, Candidate, Leader}]
        /\ \A j \in Server : state'[j] # Follower => currentTerm'[j] >= 1
        /\ \A j \in Server : state'[j] = Leader => state[j] = Leader
      BY <2>1, Zenon
         DEF TypeOK, SlotZero, RequestVote, max, Follower, Candidate, Leader
  <2>3. /\ persisted' \in [Server -> Image]
        /\ \A j \in Server : GoodLog(persisted'[j].log)
      <3>1. /\ persisted \in [Server -> Image]
            /\ log' \in [Server -> Seq(LogEntry)]
            /\ \A j \in Server : GoodLog(persisted[j].log) /\ GoodLog(log'[j])
            /\ persisted' = persisted \/ persist(m.dst)
          BY Zenon DEF TypeOK, SlotZero, RequestVote
      <3>2. CASE persist(m.dst)
          BY <2>1, <2>2, <3>1, <3>2, <1>PersistFacts, Zenon
      <3> QED BY <3>1, <3>2, Zenon
  <2>4. rvReps' \subseteq RequestVoteReply
      <3>1. /\ rvReps \subseteq RequestVoteReply
            /\ currentTerm[m.dst] \in Nat
          BY <2>1, Zenon DEF TypeOK
      <3>2. ASSUME NEW g \in BOOLEAN
            PROVE  [src |-> m.dst, dst |-> m.src, argsTerm |-> m.term,
                    term |-> currentTerm[m.dst], voteGranted |-> g]
                       \in RequestVoteReply
          BY <2>1, <3>1, Zenon DEF RequestVoteReply
      <3>3. PICK g \in BOOLEAN :
                rvReps' \subseteq rvReps \cup
                    {[src |-> m.dst, dst |-> m.src, argsTerm |-> m.term,
                      term |-> currentTerm[m.dst], voteGranted |-> g]}
          BY Zenon DEF RequestVote
      <3> QED BY <3>1, <3>2, <3>3, Zenon
  <2>5. UNCHANGED <<log, nextIndex, matchIndex, commitIndex, applied, rvReqs,
                    aeReqs, aeReps, handled, elections, restarts>>
      BY Zenon DEF RequestVote, leaderVars, applyVars, auxVars
  <2>6. TypeOK'
      BY <2>2, <2>3, <2>4, <2>5, Zenon DEF TypeOK, GoodLog
  <2>7. SlotZero'
      BY <2>2, <2>3, <2>5, Zenon DEF SlotZero
  <2> QED BY <2>6, <2>7, Zenon

  \* becomeFollower, wherever a reply with a newer term calls it.
<1>BecomeFollowerFacts.
      ASSUME TypeInv, NEW i \in Server, NEW t \in Nat, becomeFollower(i, t)
      PROVE  /\ currentTerm' \in [Server -> Nat]
             /\ votedFor' \in [Server -> Server \cup {None}]
             /\ state' \in [Server -> {Follower, Candidate, Leader}]
             /\ \A j \in Server : state'[j] # Follower =>
                    currentTerm'[j] >= 1 /\ state'[j] = state[j]
             /\ log' = log
             /\ persisted' \in [Server -> Image]
             /\ \A j \in Server : GoodLog(persisted'[j].log)
  <2> USE <1>BecomeFollowerFacts
  <2> USE DEF TypeInv
  <2>1. /\ currentTerm' \in [Server -> Nat]
        /\ votedFor' \in [Server -> Server \cup {None}]
        /\ state' \in [Server -> {Follower, Candidate, Leader}]
        /\ log' = log
      BY Zenon DEF TypeOK, becomeFollower
  <2>2. \A j \in Server : state'[j] # Follower =>
            currentTerm'[j] >= 1 /\ state'[j] = state[j]
      BY Zenon DEF TypeOK, SlotZero, becomeFollower
  <2>3. /\ persisted \in [Server -> Image]
        /\ log' \in [Server -> Seq(LogEntry)]
        /\ \A j \in Server : GoodLog(persisted[j].log) /\ GoodLog(log'[j])
        /\ persist(i)
      BY Zenon DEF TypeOK, SlotZero, becomeFollower
  <2> QED BY <2>1, <2>2, <2>3, <1>PersistFacts, Zenon

  \* becomeLeader starts all indexes behind the last entry, and broadcasts.
<1>BecomeLeaderFacts.
      ASSUME TypeInv, NEW i \in Server, becomeLeader(i), state[i] = Candidate
      PROVE  /\ UNCHANGED <<currentTerm, votedFor, log, persisted, commitIndex>>
             /\ state' \in [Server -> {Follower, Candidate, Leader}]
             /\ nextIndex' \in [Server -> [Server -> Int]]
             /\ matchIndex' \in [Server -> [Server -> Int]]
             /\ \A j \in Server : state'[j] # Follower => currentTerm[j] >= 1
             /\ \A j, k \in Server : state'[j] = Leader => nextIndex'[j][k] >= 1
             /\ aeReqs' \subseteq AppendEntriesArgs
             /\ \A m \in aeReqs' : GoodCall(m)
  <2> USE <1>BecomeLeaderFacts
  <2> USE DEF TypeInv
  <2>1. /\ UNCHANGED <<currentTerm, votedFor, log, persisted, commitIndex>>
        /\ state' = [state EXCEPT ![i] = Leader]
      BY Zenon DEF becomeLeader
  <2>2. Len(log[i]) \in Nat /\ Len(log[i]) >= 1
      BY LastEntryFacts, Zenon
  <2>3. /\ nextIndex' = [nextIndex EXCEPT ![i] = [j \in Server |-> Len(log[i])]]
        /\ matchIndex' = [matchIndex EXCEPT ![i] =
               [j \in Server |-> IF j = i THEN Len(log[i]) - 1 ELSE -1]]
      BY <2>2 DEF becomeLeader, lastLogIndex
  <2>4. /\ nextIndex \in [Server -> [Server -> Int]]
        /\ matchIndex \in [Server -> [Server -> Int]]
        /\ state \in [Server -> {Follower, Candidate, Leader}]
      BY Zenon DEF TypeOK
  <2>5. /\ state' \in [Server -> {Follower, Candidate, Leader}]
        /\ nextIndex' \in [Server -> [Server -> Int]]
        /\ matchIndex' \in [Server -> [Server -> Int]]
      BY <2>1, <2>2, <2>3, <2>4
  <2>6. /\ \A j \in Server : state[j] # Follower => currentTerm[j] >= 1
        /\ \A j, k \in Server : state[j] = Leader => nextIndex[j][k] >= 1
      BY Zenon DEF SlotZero
  <2>7. /\ \A j \in Server : state'[j] # Follower => currentTerm[j] >= 1
        /\ \A j, k \in Server : state'[j] = Leader => nextIndex'[j][k] >= 1
      BY <2>1, <2>2, <2>3, <2>4, <2>6, Zenon DEF Follower, Candidate
  <2>8. /\ aeReqs \subseteq AppendEntriesArgs
        /\ \A m \in aeReqs : GoodCall(m)
        /\ currentTerm'[i] \in Nat
        /\ commitIndex'[i] \in Nat
        /\ log'[i] \in Seq(LogEntry)
        /\ GoodLog(log'[i])
      BY <2>1, Zenon DEF TypeOK, SlotZero
  <2>9. \A j \in Server : nextIndex'[i][j] \in Int /\ nextIndex'[i][j] >= 1
      BY <2>2, <2>3, <2>4
  <2>10. broadcastAppendEntries(i)
      BY Zenon DEF becomeLeader
  <2>11. aeReqs' \subseteq AppendEntriesArgs /\ \A m \in aeReqs' : GoodCall(m)
      BY <2>8, <2>9, <2>10, <1>BroadcastFacts, Zenon
  <2> QED BY <2>1, <2>5, <2>7, <2>11, Zenon

  \* The reply of a vote keeps the types: the candidate leaves, or leads.
<1>RequestVoteRepliedTypeInv.
      ASSUME TypeInv, NEW r \in rvReps, RequestVoteReplied(r) PROVE TypeInv'
  <2> USE <1>RequestVoteRepliedTypeInv
  <2> DEFINE i == r.dst
  <2>1. i \in Server /\ r.term \in Nat
      BY Zenon DEF TypeInv, TypeOK, RequestVoteReply
  <2>2. UNCHANGED <<applied, rvReqs, rvReps, aeReps, handled, elections, restarts>>
      BY Zenon DEF RequestVoteReplied, auxVars
  <2>3. CASE becomeFollower(i, r.term) /\ UNCHANGED <<leaderVars, commitIndex, aeReqs>>
      <3>1. UNCHANGED <<nextIndex, matchIndex, commitIndex, aeReqs>>
          BY <2>3, Zenon DEF leaderVars
      <3>2. /\ currentTerm' \in [Server -> Nat]
            /\ votedFor' \in [Server -> Server \cup {None}]
            /\ state' \in [Server -> {Follower, Candidate, Leader}]
            /\ \A j \in Server : state'[j] # Follower =>
                   currentTerm'[j] >= 1 /\ state'[j] = state[j]
            /\ log' = log
            /\ persisted' \in [Server -> Image]
            /\ \A j \in Server : GoodLog(persisted'[j].log)
          BY <2>1, <2>3, <1>BecomeFollowerFacts, Zenon
      <3>3. TypeOK'
          BY <2>2, <3>1, <3>2, Zenon DEF TypeInv, TypeOK, GoodLog
      <3>4. SlotZero'
          BY <2>2, <3>1, <3>2, Zenon DEF TypeInv, SlotZero, Follower, Leader
      <3> QED BY <3>3, <3>4, Zenon DEF TypeInv
  <2>4. CASE becomeLeader(i)
      <3>1. state[i] = Candidate
          BY Zenon DEF RequestVoteReplied
      <3>2. /\ UNCHANGED <<currentTerm, votedFor, log, persisted, commitIndex>>
            /\ state' \in [Server -> {Follower, Candidate, Leader}]
            /\ nextIndex' \in [Server -> [Server -> Int]]
            /\ matchIndex' \in [Server -> [Server -> Int]]
            /\ \A j \in Server : state'[j] # Follower => currentTerm[j] >= 1
            /\ \A j, k \in Server : state'[j] = Leader => nextIndex'[j][k] >= 1
            /\ aeReqs' \subseteq AppendEntriesArgs
            /\ \A m \in aeReqs' : GoodCall(m)
          BY <2>1, <2>4, <3>1, <1>BecomeLeaderFacts, Zenon
      <3>3. TypeOK'
          BY <2>2, <3>2, Zenon DEF TypeInv, TypeOK
      <3>4. SlotZero'
          BY <2>2, <3>2, Zenon DEF TypeInv, SlotZero
      <3> QED BY <3>3, <3>4, Zenon DEF TypeInv
  <2> QED BY <2>3, <2>4, Zenon DEF RequestVoteReplied

  \* Start keeps the types: the entry it appends has the term of a leader, so at
  \* least 1.
<1>StartTypeInv.
      ASSUME TypeInv, NEW i \in Server, NEW c \in Command, Start(i, c) PROVE TypeInv'
  <2> USE <1>StartTypeInv
  <2> DEFINE e == [term |-> currentTerm[i], cmd |-> c]
             n == Len(log[i])
  <2>1. log[i] \in Seq(LogEntry) /\ n \in Nat /\ n >= 1
      BY LastEntryFacts, Zenon
  <2>2. /\ currentTerm \in [Server -> Nat]
        /\ votedFor \in [Server -> Server \cup {None}]
        /\ state \in [Server -> {Follower, Candidate, Leader}]
        /\ nextIndex \in [Server -> [Server -> Int]]
        /\ matchIndex \in [Server -> [Server -> Int]]
        /\ commitIndex \in [Server -> Nat]
        /\ log \in [Server -> Seq(LogEntry)]
      BY Zenon DEF TypeInv, TypeOK
  <2>3. /\ state[i] = Leader
        /\ UNCHANGED <<currentTerm, votedFor, state, commitIndex, applied,
                       rvReqs, rvReps, aeReps, handled, elections, restarts>>
      BY Zenon DEF Start, auxVars
  <2>4. e \in LogEntry /\ e.term >= 1
      BY <2>2, <2>3, Zenon DEF TypeInv, SlotZero, LogEntry, Leader, Follower
  <2>5. Append(log[i], e) \in Seq(LogEntry) /\ GoodLog(Append(log[i], e))
      <3>1. GoodLog(log[i])
          BY Zenon DEF TypeInv, SlotZero
      <3> HIDE DEF e
      <3>2. /\ Append(log[i], e) \in Seq(LogEntry)
            /\ Len(Append(log[i], e)) = n + 1
            /\ \A k \in 1 .. n : Append(log[i], e)[k] = log[i][k]
            /\ Append(log[i], e)[n + 1] = e
          BY <2>1, <2>4, AppendFacts
      <3> DEFINE new == Append(log[i], e)
      <3> HIDE DEF n, new
      <3>3. Len(new) >= 1 /\ new[1] = Sentinel
          BY <2>1, <3>1, <3>2 DEF GoodLog, new, n
      <3>4. ASSUME NEW k \in 2 .. Len(new) PROVE new[k].term >= 1
          <4>1. CASE k = n + 1
              BY <2>4, <3>2, <4>1, Zenon DEF new
          <4>2. CASE k # n + 1
              <5>1. k \in 2 .. n
                  BY <2>1, <3>2, <4>2 DEF new, n
              <5>2. new[k] = log[i][k]
                  BY <2>1, <3>2, <5>1 DEF new, n
              <5> QED BY <3>1, <5>1, <5>2, Zenon DEF GoodLog, n
          <4> QED BY <4>1, <4>2, Zenon
      <3> QED BY <3>2, <3>3, <3>4, Zenon DEF GoodLog, new
  <2>6. log' = [log EXCEPT ![i] = Append(log[i], e)]
      BY Zenon DEF Start
  <2>7. /\ log' \in [Server -> Seq(LogEntry)]
        /\ \A j \in Server : GoodLog(log'[j])
      <3>1. \A j \in Server : GoodLog(log[j])
          BY Zenon DEF TypeInv, SlotZero
      <3> HIDE DEF e
      <3> QED BY <2>2, <2>5, <2>6, <3>1, Zenon
  <2>8. /\ persisted' \in [Server -> Image]
        /\ \A j \in Server : GoodLog(persisted'[j].log)
      <3>1. /\ persisted \in [Server -> Image]
            /\ \A j \in Server : GoodLog(persisted[j].log)
            /\ persist(i)
          BY Zenon DEF TypeInv, TypeOK, SlotZero, Start
      <3> QED BY <2>2, <2>3, <2>7, <3>1, <1>PersistFacts, Zenon
  <2>9. /\ nextIndex' \in [Server -> [Server -> Int]]
        /\ matchIndex' \in [Server -> [Server -> Int]]
        /\ \A j, k \in Server : state[j] = Leader => nextIndex'[j][k] >= 1
      <3>1. /\ nextIndex' = [nextIndex EXCEPT ![i][i] = n - 1 + 2]
            /\ matchIndex' = [matchIndex EXCEPT ![i][i] = n - 1 + 1]
          BY Zenon DEF Start, lastLogIndex
      <3>2. \A j, k \in Server : state[j] = Leader => nextIndex[j][k] >= 1
          BY Zenon DEF TypeInv, SlotZero
      <3> HIDE DEF n
      <3> QED BY <2>1, <2>2, <3>1, <3>2
  <2>10. /\ aeReqs' \subseteq AppendEntriesArgs
         /\ \A m \in aeReqs' : GoodCall(m)
      <3>1. /\ aeReqs \subseteq AppendEntriesArgs
            /\ \A m \in aeReqs : GoodCall(m)
            /\ broadcastAppendEntries(i)
          BY Zenon DEF TypeInv, TypeOK, SlotZero, Start
      <3>2. currentTerm'[i] \in Nat /\ commitIndex'[i] \in Nat
          BY <2>2, <2>3, Zenon
      <3>3. \A j \in Server : nextIndex'[i][j] \in Int /\ nextIndex'[i][j] >= 1
          BY <2>3, <2>9, Zenon
      <3> QED BY <2>7, <3>1, <3>2, <3>3, <1>BroadcastFacts, Zenon
  <2>11. TypeOK'
      BY <2>3, <2>7, <2>8, <2>9, <2>10, Zenon DEF TypeInv, TypeOK, GoodLog
  <2>12. SlotZero'
      BY <2>3, <2>7, <2>8, <2>9, <2>10, Zenon DEF TypeInv, SlotZero
  <2> QED BY <2>11, <2>12, Zenon DEF TypeInv

  \* sendHeartbeats keeps the types: it only sends calls.
<1>SendHeartbeatsTypeInv.
      ASSUME TypeInv, NEW i \in Server, sendHeartbeats(i) PROVE TypeInv'
  <2> USE <1>SendHeartbeatsTypeInv
  <2>1. /\ state[i] = Leader
        /\ UNCHANGED <<currentTerm, votedFor, log, state, persisted, nextIndex,
                       matchIndex, commitIndex, applied, rvReqs, rvReps, aeReps,
                       handled, elections, restarts>>
      BY Zenon DEF sendHeartbeats, serverVars, leaderVars, applyVars, auxVars
  <2>2. /\ aeReqs' \subseteq AppendEntriesArgs
        /\ \A m \in aeReqs' : GoodCall(m)
      <3>1. /\ aeReqs \subseteq AppendEntriesArgs
            /\ \A m \in aeReqs : GoodCall(m)
            /\ broadcastAppendEntries(i)
            /\ currentTerm'[i] \in Nat /\ commitIndex'[i] \in Nat
            /\ log'[i] \in Seq(LogEntry) /\ GoodLog(log'[i])
            /\ \A j \in Server : nextIndex'[i][j] \in Int /\ nextIndex'[i][j] >= 1
          BY <2>1, Zenon DEF TypeInv, TypeOK, SlotZero, sendHeartbeats
      <3> QED BY <3>1, <1>BroadcastFacts, Zenon
  <2>3. TypeOK'
      BY <2>1, <2>2, Zenon DEF TypeInv, TypeOK
  <2>4. SlotZero'
      BY <2>1, <2>2, Zenon DEF TypeInv, SlotZero
  <2> QED BY <2>3, <2>4, Zenon DEF TypeInv

<1>CallFacts.
      ASSUME TypeInv, NEW m \in aeReqs
      PROVE  /\ m.src \in Server /\ m.dst \in Server /\ m.term \in Nat
             /\ m.prevLogIndex \in Nat /\ m.prevLogTerm \in Nat
             /\ m.entries \in Seq(LogEntry) /\ Len(m.entries) \in Nat
             /\ m.leaderCommit \in Nat /\ Reach(m) \in Nat
             /\ GoodCall(m)
  <2> USE <1>CallFacts
  <2>1. m \in AppendEntriesArgs /\ GoodCall(m)
      BY Zenon DEF TypeInv, TypeOK, SlotZero
  <2>2. /\ m.src \in Server /\ m.dst \in Server /\ m.term \in Nat
        /\ m.prevLogIndex \in Nat /\ m.prevLogTerm \in Nat
        /\ m.entries \in Seq(LogEntry)
        /\ m.leaderCommit \in Nat
      BY <2>1, Zenon DEF AppendEntriesArgs
  <2>3. Len(m.entries) \in Nat
      BY <2>2
  <2> QED BY <2>1, <2>2, <2>3 DEF Reach

  \* The part that all calls but the stale ones share keeps the types.
<1>AcceptTermFacts.
      ASSUME TypeInv, NEW m \in aeReqs, AcceptTerm(m)
      PROVE  /\ currentTerm' \in [Server -> Nat]
             /\ votedFor' \in [Server -> Server \cup {None}]
             /\ state' \in [Server -> {Follower, Candidate, Leader}]
             /\ \A j \in Server : state'[j] # Follower =>
                    currentTerm'[j] >= 1 /\ state'[j] = state[j]
             /\ StepsDown(m) => currentTerm'[m.dst] = m.term /\ votedFor'[m.dst] = None
  <2> USE <1>AcceptTermFacts
  <2>1. m.dst \in Server /\ m.term \in Nat
      BY <1>CallFacts, Zenon
  <2>2. /\ currentTerm \in [Server -> Nat]
        /\ votedFor \in [Server -> Server \cup {None}]
        /\ state \in [Server -> {Follower, Candidate, Leader}]
        /\ \A j \in Server : state[j] # Follower => currentTerm[j] >= 1
      BY Zenon DEF TypeInv, TypeOK, SlotZero
  <2> QED BY <2>1, <2>2 DEF AcceptTerm

  \* A reply of AppendEntries that has its type and points behind slot 0.
<1>AddReplyFacts.
      ASSUME TypeInv, NEW r \in AppendEntriesReply, GoodReply(r),
             aeReps' = aeReps \cup {r}
      PROVE  /\ aeReps' \subseteq AppendEntriesReply
             /\ \A x \in aeReps' : GoodReply(x)
  <2> USE <1>AddReplyFacts
  <2>1. /\ aeReps \subseteq AppendEntriesReply
        /\ \A x \in aeReps : GoodReply(x)
      BY Zenon DEF TypeInv, TypeOK, SlotZero
  <2> QED BY <2>1, Zenon

  \* A refusal of AppendEntries for a gap or a conflict points behind slot 0.
<1>RefusalFacts.
      ASSUME TypeInv, NEW m \in aeReqs, NEW t \in Nat,
             NEW cTerm \in Int, NEW cIndex \in Int,
             t <= m.term => cIndex >= 1 /\ (cTerm = -1 \/ cTerm >= 1)
      PROVE  /\ Refusal(m, t, cTerm, cIndex) \in AppendEntriesReply
             /\ GoodReply(Refusal(m, t, cTerm, cIndex))
  <2> USE <1>RefusalFacts
  <2> DEFINE r == Refusal(m, t, cTerm, cIndex)
  <2>1. m.src \in Server /\ m.dst \in Server /\ m.term \in Nat /\ Reach(m) \in Nat
      BY <1>CallFacts, Zenon
  <2>2. r \in AppendEntriesReply
      BY <2>1, Zenon DEF AppendEntriesReply, Refusal
  <2>3. GoodReply(r)
      BY Zenon DEF GoodReply, Refusal
  <2> QED BY <2>2, <2>3, Zenon

  \* A successful reply of AppendEntries is well formed.
<1>SuccessFacts.
      ASSUME TypeInv, NEW m \in aeReqs, AppendReply(m, m.term, TRUE, -1, 0)
      PROVE  /\ aeReps' \subseteq AppendEntriesReply
             /\ \A r \in aeReps' : GoodReply(r)
  <2> USE <1>SuccessFacts
  <2> DEFINE r == [src |-> m.dst, dst |-> m.src, argsTerm |-> m.term,
                   match |-> Reach(m), term |-> m.term, success |-> TRUE,
                   conflictTerm |-> -1, conflictIndex |-> 0]
  <2>1. m.src \in Server /\ m.dst \in Server /\ m.term \in Nat /\ Reach(m) \in Nat
      BY <1>CallFacts, Zenon
  <2>2. r \in AppendEntriesReply
      BY <2>1 DEF AppendEntriesReply
  <2>3. GoodReply(r)
      BY Zenon DEF GoodReply
  <2>4. aeReps' = aeReps \cup {r}
      BY Zenon DEF AppendReply
  <2> QED BY <2>2, <2>3, <2>4, <1>AddReplyFacts, Zenon

  \* What the handler needs to keep: the log, its saved image and the reply.
<1>AppendEntriesWrapUp.
      ASSUME TypeInv, NEW m \in aeReqs, MarkHandled(m),
             currentTerm' \in [Server -> Nat],
             votedFor' \in [Server -> Server \cup {None}],
             state' \in [Server -> {Follower, Candidate, Leader}],
             \A j \in Server : state'[j] # Follower =>
                 currentTerm'[j] >= 1 /\ state'[j] = state[j],
             log' \in [Server -> Seq(LogEntry)],
             \A j \in Server : GoodLog(log'[j]),
             persisted' \in [Server -> Image],
             \A j \in Server : GoodLog(persisted'[j].log),
             commitIndex' \in [Server -> Nat],
             aeReps' \subseteq AppendEntriesReply,
             \A r \in aeReps' : GoodReply(r),
             UNCHANGED <<leaderVars, applied, rvReqs, rvReps, aeReqs, elections,
                         restarts>>
      PROVE  TypeInv'
  <2> USE <1>AppendEntriesWrapUp
  <2>1. handled' \in [Server -> [term : Nat, reach : Nat]]
      <3>1. m.dst \in Server /\ m.term \in Nat /\ Reach(m) \in Nat
          BY <1>CallFacts, Zenon
      <3>2. handled \in [Server -> [term : Nat, reach : Nat]]
          BY Zenon DEF TypeInv, TypeOK
      <3> QED BY <3>1, <3>2, Zenon DEF MarkHandled
  <2>2. UNCHANGED <<nextIndex, matchIndex>>
      BY Zenon DEF leaderVars
  <2>3. TypeOK'
      BY <2>1, <2>2, Zenon DEF TypeInv, TypeOK, GoodLog
  <2>4. SlotZero'
      BY <2>2, Zenon DEF TypeInv, SlotZero, Leader, Follower
  <2> QED BY <2>3, <2>4, Zenon DEF TypeInv

  \* AppendEntries keeps the types, on each of its four ways out.
<1>AppendEntriesTypeInv.
      ASSUME WellOrdered, TypeInv, NEW m \in aeReqs, AppendEntries(m) PROVE TypeInv'
  <2> USE <1>AppendEntriesTypeInv
  <2> DEFINE j == m.dst
  <2>1. /\ j \in Server /\ m.term \in Nat /\ m.prevLogIndex \in Nat
        /\ m.prevLogTerm \in Nat /\ m.entries \in Seq(LogEntry)
        /\ Len(m.entries) \in Nat /\ m.leaderCommit \in Nat /\ GoodCall(m)
      BY <1>CallFacts, Zenon
  <2>2. /\ MarkHandled(m)
        /\ UNCHANGED <<leaderVars, applied, rvReqs, rvReps, aeReqs, elections,
                       restarts>>
      BY Zenon DEF AppendEntries
  <2>3. /\ currentTerm \in [Server -> Nat]
        /\ votedFor \in [Server -> Server \cup {None}]
        /\ state \in [Server -> {Follower, Candidate, Leader}]
        /\ \A k \in Server : state[k] # Follower => currentTerm[k] >= 1
        /\ log \in [Server -> Seq(LogEntry)]
        /\ \A k \in Server : GoodLog(log[k])
        /\ persisted \in [Server -> Image]
        /\ \A k \in Server : GoodLog(persisted[k].log)
        /\ commitIndex \in [Server -> Nat]
      BY Zenon DEF TypeInv, TypeOK, SlotZero
  <2>4. Len(log[j]) \in Nat /\ Len(log[j]) >= 1 /\ log[j] \in Seq(LogEntry)
      BY <2>1, LastEntryFacts, Zenon
  <2>5. CASE AppendEntriesStale(m)
      <3>1. /\ m.term < currentTerm[j]
            /\ aeReps' = aeReps \cup {Refusal(m, currentTerm[j], -1, 0)}
            /\ UNCHANGED <<currentTerm, votedFor, log, state, persisted, commitIndex>>
          BY <2>5, Zenon
             DEF AppendEntriesStale, serverVars, AppendReply, Refusal
      <3>2. aeReps' \subseteq AppendEntriesReply /\ \A r \in aeReps' : GoodReply(r)
          <4>1. currentTerm[j] \in Nat /\ ~ (currentTerm[j] <= m.term)
              BY <2>1, <2>3, <3>1
          <4>2. LET r == Refusal(m, currentTerm[j], -1, 0)
                IN  r \in AppendEntriesReply /\ GoodReply(r)
              BY <4>1, <1>RefusalFacts
          <4> QED BY <3>1, <4>2, <1>AddReplyFacts, Zenon
      <3>3. \A k \in Server : state'[k] # Follower =>
                currentTerm'[k] >= 1 /\ state'[k] = state[k]
          BY <2>3, <3>1, Zenon
      <3> QED BY <2>2, <2>3, <3>1, <3>2, <3>3, <1>AppendEntriesWrapUp, Zenon
  <2>6. ASSUME AcceptTerm(m), UNCHANGED <<log, commitIndex>>,
               persisted' = persisted \/ persist(j),
               aeReps' \subseteq AppendEntriesReply, \A r \in aeReps' : GoodReply(r)
        PROVE  TypeInv'
      <3>1. /\ currentTerm' \in [Server -> Nat]
            /\ votedFor' \in [Server -> Server \cup {None}]
            /\ state' \in [Server -> {Follower, Candidate, Leader}]
            /\ \A k \in Server : state'[k] # Follower =>
                   currentTerm'[k] >= 1 /\ state'[k] = state[k]
          BY <2>6, <1>AcceptTermFacts, Zenon
      <3>2. log' = log /\ commitIndex' = commitIndex
          BY <2>6, Zenon
      <3>3. persisted' \in [Server -> Image] /\ \A k \in Server : GoodLog(persisted'[k].log)
          <4>1. CASE persisted' = persisted
              BY <2>3, <4>1, Zenon
          <4>2. CASE persist(j)
              BY <2>1, <2>3, <3>1, <3>2, <4>2, <1>PersistFacts, Zenon
          <4> QED BY <2>6, <4>1, <4>2, Zenon
      <3> QED BY <2>2, <2>3, <2>6, <3>1, <3>2, <3>3, <1>AppendEntriesWrapUp,
                 Zenon
  <2>7. CASE AppendEntriesGap(m)
      <3>1. /\ AcceptTerm(m) /\ UNCHANGED <<log, commitIndex>>
            /\ persisted' = persisted \/ persist(j)
            /\ aeReps' = aeReps \cup
                   {Refusal(m, currentTerm[j], -1, lastLogIndex(log[j]) + 1)}
          BY <2>7, Zenon DEF AppendEntriesGap, AppendReply, Refusal
      <3>2. lastLogIndex(log[j]) + 1 \in Int /\ lastLogIndex(log[j]) + 1 >= 1
          BY <2>4 DEF lastLogIndex
      <3>3. aeReps' \subseteq AppendEntriesReply /\ \A r \in aeReps' : GoodReply(r)
          <4>1. currentTerm[j] \in Nat
              BY <2>1, <2>3, Zenon
          <4>2. LET r == Refusal(m, currentTerm[j], -1, lastLogIndex(log[j]) + 1)
                IN  r \in AppendEntriesReply /\ GoodReply(r)
              BY <3>2, <4>1, <1>RefusalFacts
          <4> QED BY <3>1, <4>2, <1>AddReplyFacts, Zenon
      <3> QED BY <2>6, <3>1, <3>3, Zenon
  <2>8. CASE AppendEntriesConflict(m)
      <3> DEFINE p == m.prevLogIndex
                 ct == At(log[j], p).term
                 ci == ConflictRun(log[j], p)
      <3>1. /\ AcceptTerm(m) /\ UNCHANGED <<log, commitIndex>>
            /\ persisted' = persisted \/ persist(j)
            /\ aeReps' = aeReps \cup {Refusal(m, currentTerm[j], ct, ci)}
            /\ p <= lastLogIndex(log[j])
          BY <2>8, Zenon DEF AppendEntriesConflict, AppendReply, Refusal
      <3>2. p \in 0 .. lastLogIndex(log[j])
          <4>1. p \in Nat /\ lastLogIndex(log[j]) \in Int
              BY <2>1, <2>4 DEF lastLogIndex
          <4> HIDE DEF p
          <4> QED BY <3>1, <4>1
      <3>3. ct \in Nat /\ ct >= 1
          <4>0. ct # m.prevLogTerm
              BY <2>8, Zenon DEF AppendEntriesConflict, PrevMatches
          <4>1. log[j][p + 1] \in LogEntry
              BY <2>4, <3>2, EntryOf DEF lastLogIndex
          <4>2. ct \in Nat
              BY <4>1, Zenon DEF At, LogEntry
          <4>3. CASE p = 0
              <5>1. m.prevLogTerm = 0
                  BY <2>1, <4>3, Zenon DEF GoodCall
              <5>2. ct # 0
                  BY <4>0, <5>1, Zenon
              <5> HIDE DEF ct
              <5> QED BY <4>2, <5>2
          <4>4. CASE p # 0
              <5>1. GoodLog(log[j]) /\ p + 1 \in 2 .. Len(log[j])
                  BY <2>1, <2>3, <2>4, <3>2, <4>4 DEF lastLogIndex
              <5> QED BY <4>2, <5>1, Zenon DEF GoodLog, At
          <4> QED BY <4>3, <4>4, Zenon
      <3>4. ci \in Int /\ ci >= 1
          <4>1. GoodLog(log[j])
              BY <2>1, <2>3, Zenon
          <4>2. ci \in 0 .. p /\ (ct # 0 => ci >= 1)
              BY <2>4, <3>2, <4>1, ConflictRunFacts, Zenon
          <4>3. p \in Int
              BY <3>2
          <4> HIDE DEF p, ct, ci
          <4>4. ct # 0
              BY <3>3
          <4> QED BY <4>2, <4>3, <4>4
      <3>5. aeReps' \subseteq AppendEntriesReply /\ \A r \in aeReps' : GoodReply(r)
          <4>1. currentTerm[j] \in Nat
              BY <2>1, <2>3, Zenon
          <4> HIDE DEF ct, ci
          <4>2. LET r == Refusal(m, currentTerm[j], ct, ci)
                IN  r \in AppendEntriesReply /\ GoodReply(r)
              BY <3>3, <3>4, <4>1, <1>RefusalFacts
          <4> QED BY <3>1, <4>2, <1>AddReplyFacts, Zenon
      <3> QED BY <2>6, <3>1, <3>5, Zenon
  <2>9. CASE AppendEntriesAccept(m)
      <3> DEFINE new == KeepMatching(m) \o m.entries
      <3>1. /\ AcceptTerm(m)
            /\ m.prevLogIndex <= lastLogIndex(log[j])
            /\ log' = [log EXCEPT ![j] = new]
            /\ SaveAccepted(m)
            /\ commitIndex' = [commitIndex EXCEPT ![j] =
                   IF m.leaderCommit > commitIndex[j]
                   THEN min(m.leaderCommit, lastLogIndex(new)) ELSE commitIndex[j]]
            /\ AppendReply(m, m.term, TRUE, -1, 0)
          BY <2>9, Zenon DEF AppendEntriesAccept
      <3>2. m.prevLogIndex < Len(log[j])
          BY <2>1, <2>4, <3>1 DEF lastLogIndex
      <3>3. /\ new \in Seq(LogEntry)
            /\ Len(new) = m.prevLogIndex + 1 + Len(m.entries)
            /\ \A k \in 1 .. (m.prevLogIndex + 1) : new[k] = log[j][k]
            /\ \A k \in 1 .. Len(m.entries) : new[m.prevLogIndex + 1 + k] = m.entries[k]
          <4> DEFINE lg == log[j]
                     q  == m.prevLogIndex + 1
                     es == m.entries
          <4>1. Splice(new, lg, q, es)
              BY Zenon DEF KeepMatching, Splice
          <4>2. lg \in Seq(LogEntry) /\ q \in 0 .. Len(lg) /\ es \in Seq(LogEntry)
              BY <2>1, <2>4, <3>2
          <4> HIDE DEF new, lg, q, es
          <4>3. /\ new \in Seq(LogEntry)
                /\ Len(new) = q + Len(es)
                /\ \A k \in 1 .. q : new[k] = lg[k]
                /\ \A k \in 1 .. Len(es) : new[q + k] = es[k]
              BY ONLY <4>1, <4>2, SpliceFacts
          <4> QED BY <4>3, Zenon DEF lg, q, es
      <3>4. GoodLog(new)
          <4>1. GoodLog(log[j])
              BY <2>1, <2>3, Zenon
          <4>2. /\ Len(new) >= 1 /\ new[1] = log[j][1]
              <5> HIDE DEF new
              <5> QED BY <2>1, <3>3
          <4>3. ASSUME NEW k \in 2 .. Len(new) PROVE new[k].term >= 1
              <5> HIDE DEF new
              <5>1. CASE k <= m.prevLogIndex + 1
                  <6>1. new[k] = log[j][k] /\ k \in 2 .. Len(log[j])
                      BY <2>1, <2>4, <3>2, <3>3, <5>1
                  <6> QED BY <4>1, <6>1, Zenon DEF GoodLog
              <5>2. CASE k > m.prevLogIndex + 1
                  <6> DEFINE q == k - (m.prevLogIndex + 1)
                  <6>1. q \in 1 .. Len(m.entries) /\ k = m.prevLogIndex + 1 + q
                      BY SMTT(30), <2>1, <3>3, <5>2
                  <6>2. new[k] = m.entries[q]
                      BY <3>3, <6>1, Zenon
                  <6> QED BY <2>1, <6>1, <6>2, Zenon DEF GoodCall
              <5> QED BY <2>1, <5>1, <5>2
          <4> QED BY <4>1, <4>2, <4>3, Zenon DEF GoodLog
      <3>5. /\ log' \in [Server -> Seq(LogEntry)]
            /\ \A k \in Server : GoodLog(log'[k])
          <4> HIDE DEF new
          <4> QED BY <2>1, <2>3, <3>1, <3>3, <3>4, Zenon
      <3>6. commitIndex' \in [Server -> Nat]
          <4>1. lastLogIndex(new) \in Nat
              <5> HIDE DEF new
              <5> QED BY <2>1, <3>3 DEF lastLogIndex
          <4> HIDE DEF new
          <4> QED BY <2>1, <2>3, <3>1, <4>1, Zenon DEF min
      <3>7. /\ currentTerm' \in [Server -> Nat]
            /\ votedFor' \in [Server -> Server \cup {None}]
            /\ state' \in [Server -> {Follower, Candidate, Leader}]
            /\ \A k \in Server : state'[k] # Follower =>
                   currentTerm'[k] >= 1 /\ state'[k] = state[k]
          BY <3>1, <1>AcceptTermFacts, Zenon
      <3>8. persisted' \in [Server -> Image] /\ \A k \in Server : GoodLog(persisted'[k].log)
          <4> DEFINE im == [currentTerm |-> m.term, votedFor |-> None, log |-> log[j]]
          <4>1. im \in Image /\ im.log = log[j]
              BY <2>1, <2>4, Zenon DEF Image
          <4>2. CASE persist(j)
              BY <2>1, <2>3, <3>5, <3>7, <4>2, <1>PersistFacts, Zenon
          <4>3. CASE persisted' = [persisted EXCEPT ![j] = im]
              <5> HIDE DEF im
              <5> QED BY <2>1, <2>3, <4>1, <4>3, Zenon
          <4>4. CASE persisted' = persisted
              BY <2>3, <4>4, Zenon
          <4> QED BY <3>1, <4>2, <4>3, <4>4, Zenon DEF SaveAccepted
      <3>9. aeReps' \subseteq AppendEntriesReply /\ \A r \in aeReps' : GoodReply(r)
          BY <3>1, <1>SuccessFacts, Zenon
      <3> QED BY <2>2, <3>5, <3>6, <3>7, <3>8, <3>9, <1>AppendEntriesWrapUp,
                 Zenon
  <2> QED BY <2>5, <2>7, <2>8, <2>9, Zenon DEF AppendEntries

  \* advanceCommitIndex leaves a natural number.
<1>AdvanceFacts.
      ASSUME WellOrdered, TypeInv, NEW i \in Server, NEW match,
             advanceCommitIndex(i, match)
      PROVE  commitIndex' \in [Server -> Nat]
  <2> USE <1>AdvanceFacts
  <2> DEFINE C == Committable(i, match)
  <2>1. commitIndex \in [Server -> Nat] /\ commitIndex[i] \in Nat
      BY Zenon DEF TypeInv, TypeOK
  <2>2. Len(log[i]) \in Nat
      BY LastEntryFacts, Zenon
  <2>3. C \subseteq Nat /\ \A k \in C : k <= Len(log[i]) - 1
      BY SMTT(30), <2>1, <2>2 DEF Committable, lastLogIndex
  <2>4. commitIndex' = [commitIndex EXCEPT ![i] =
            IF C = {} THEN commitIndex[i]
            ELSE CHOOSE n \in C : \A k \in C : k <= n]
      BY Zenon DEF advanceCommitIndex
  <2> HIDE DEF C
  <2>5. CASE C = {}
      BY <2>1, <2>4, <2>5, Zenon
  <2>6. CASE C # {}
      <3>1. \E n \in C : \A k \in C : k <= n
          <4>1. C \subseteq Int /\ Len(log[i]) - 1 \in Int
              BY <2>2, <2>3
          <4> QED BY <2>3, <2>6, <4>1, GreatestElement, Zenon
      <3>2. (CHOOSE n \in C : \A k \in C : k <= n) \in C
          BY <3>1, Zenon
      <3>3. (CHOOSE n \in C : \A k \in C : k <= n) \in Nat
          BY <2>3, <3>2, Zenon
      <3> QED BY <2>1, <2>4, <2>6, <3>3, Zenon
  <2> QED BY <2>5, <2>6, Zenon

  \* replicateTo keeps the types when it gets a reply: nextIndex stays behind
  \* slot 0.
<1>AppendEntriesRepliedTypeInv.
      ASSUME WellOrdered, TypeInv, NEW r \in aeReps, AppendEntriesReplied(r)
      PROVE  TypeInv'
  <2> USE <1>AppendEntriesRepliedTypeInv
  <2> DEFINE i == r.dst
  <2>1. /\ i \in Server /\ r.src \in Server /\ r.term \in Nat /\ r.match \in Nat
        /\ r.argsTerm \in Nat /\ r.conflictTerm \in Int /\ r.conflictIndex \in Int
      BY Zenon DEF TypeInv, TypeOK, AppendEntriesReply
  <2>2. GoodReply(r)
      BY Zenon DEF TypeInv, SlotZero
  <2>3. /\ state[i] = Leader
        /\ r.argsTerm = currentTerm[i]
        /\ UNCHANGED <<applied, rvReqs, rvReps, aeReps, handled, elections, restarts>>
      BY Zenon DEF AppendEntriesReplied, auxVars
  <2>4. /\ nextIndex \in [Server -> [Server -> Int]]
        /\ matchIndex \in [Server -> [Server -> Int]]
        /\ \A j, k \in Server : state[j] = Leader => nextIndex[j][k] >= 1
      BY Zenon DEF TypeInv, TypeOK, SlotZero
  <2>5. CASE AppendSucceeded(r)
      <3> DEFINE match == [matchIndex[i] EXCEPT ![r.src] = max(matchIndex[i][r.src], r.match)]
      <3>1. /\ matchIndex' = [matchIndex EXCEPT ![i] = match]
            /\ nextIndex' = [nextIndex EXCEPT ![i][r.src] = match[r.src] + 1]
            /\ advanceCommitIndex(i, match)
            /\ UNCHANGED <<currentTerm, votedFor, log, state, persisted, aeReqs>>
          BY <2>5, Zenon DEF AppendSucceeded, serverVars
      <3>2. match \in [Server -> Int] /\ match[r.src] + 1 \in Int /\ match[r.src] + 1 >= 1
          <4>1. matchIndex[i] \in [Server -> Int] /\ matchIndex[i][r.src] \in Int
              BY <2>1, <2>4, Zenon
          <4> DEFINE top == max(matchIndex[i][r.src], r.match)
          <4>2. top \in Int /\ top >= 0
              BY <2>1, <4>1 DEF max
          <4> HIDE DEF top
          <4>3. match[r.src] = top
              BY <2>1, <4>1, Zenon DEF top
          <4>4. match \in [Server -> Int]
              BY <2>1, <4>1, <4>2, Zenon DEF top
          <4> HIDE DEF match
          <4> QED BY <4>2, <4>3, <4>4
      <3> HIDE DEF match
      <3>3. /\ matchIndex' \in [Server -> [Server -> Int]]
            /\ nextIndex' \in [Server -> [Server -> Int]]
            /\ \A j, k \in Server : state[j] = Leader => nextIndex'[j][k] >= 1
          BY <2>1, <2>4, <3>1, <3>2, Zenon
      <3>4. commitIndex' \in [Server -> Nat]
          BY <2>1, <3>1, <1>AdvanceFacts, Zenon
      <3>5. TypeOK'
          BY <2>3, <3>1, <3>3, <3>4, Zenon DEF TypeInv, TypeOK
      <3>6. SlotZero'
          BY <2>3, <3>1, <3>3, Zenon DEF TypeInv, SlotZero
      <3> QED BY <3>5, <3>6, Zenon DEF TypeInv
  <2>6. CASE AppendFailed(r)
      <3> DEFINE first   == firstIndexOfTerm(log[i], r.conflictTerm)
                 nextIdx == IF r.conflictTerm = -1 THEN max(0, r.conflictIndex)
                            ELSE IF first = -1 THEN r.conflictIndex
                            ELSE first
                 call    == AppendArgs(i, r.src, currentTerm[i], log[i], nextIdx,
                                       commitIndex[i])
      <3>1. /\ ~ r.success
            /\ r.term <= r.argsTerm
            /\ nextIndex' = [nextIndex EXCEPT ![i][r.src] = nextIdx]
            /\ aeReqs' = aeReqs \cup {call}
            /\ UNCHANGED <<currentTerm, votedFor, log, state, persisted,
                           matchIndex, commitIndex>>
          BY <2>3, <2>6, Zenon DEF AppendFailed, BackUpTo, serverVars
      <3>2. r.conflictIndex >= 1 /\ (r.conflictTerm = -1 \/ r.conflictTerm >= 1)
          BY <2>2, <3>1, Zenon DEF GoodReply
      <3>3. log[i] \in Seq(LogEntry) /\ Len(log[i]) \in Nat /\ GoodLog(log[i])
          BY <2>1, LastEntryFacts, Zenon DEF TypeInv, SlotZero
      <3>4. nextIdx \in Int /\ nextIdx >= 1
          <4>1. CASE r.conflictTerm = -1
              <5>1. nextIdx = max(0, r.conflictIndex)
                  BY <4>1, Zenon
              <5> HIDE DEF nextIdx
              <5> QED BY <2>1, <3>2, <5>1 DEF max
          <4>2. CASE r.conflictTerm # -1
              <5>1. first \in Int /\ (first # -1 => first \in 1 .. lastLogIndex(log[i]))
                  BY <2>1, <3>2, <3>3, <4>2, firstIndexOfTermFacts, Zenon
              <5> HIDE DEF first
              <5> QED BY <2>1, <3>2, <4>2, <5>1
          <4> QED BY <4>1, <4>2, Zenon
      <3> HIDE DEF nextIdx
      <3>5. /\ nextIndex' \in [Server -> [Server -> Int]]
            /\ \A j, k \in Server : state[j] = Leader => nextIndex'[j][k] >= 1
          BY <2>1, <2>4, <3>1, <3>4, Zenon
      <3>6. call \in AppendEntriesArgs /\ GoodCall(call)
          <4>1. currentTerm[i] \in Nat /\ commitIndex[i] \in Nat
              BY <2>1, Zenon DEF TypeInv, TypeOK
          <4> QED BY <2>1, <3>3, <3>4, <4>1, <1>AppendArgsFacts, Zenon
      <3> HIDE DEF call
      <3>7. aeReqs' \subseteq AppendEntriesArgs /\ \A m \in aeReqs' : GoodCall(m)
          <4>1. aeReqs \subseteq AppendEntriesArgs /\ \A m \in aeReqs : GoodCall(m)
              BY Zenon DEF TypeInv, TypeOK, SlotZero
          <4> QED BY <3>1, <3>6, <4>1, Zenon
      <3>8. TypeOK'
          BY <2>3, <3>1, <3>5, <3>7, Zenon DEF TypeInv, TypeOK
      <3>9. SlotZero'
          BY <2>3, <3>1, <3>5, <3>7, Zenon DEF TypeInv, SlotZero
      <3> QED BY <3>8, <3>9, Zenon DEF TypeInv
  <2>7. CASE AppendDeposed(r)
      <3>1. UNCHANGED <<nextIndex, matchIndex, commitIndex, aeReqs>>
          BY <2>7, Zenon DEF AppendDeposed
      <3>2. /\ currentTerm' \in [Server -> Nat]
            /\ votedFor' \in [Server -> Server \cup {None}]
            /\ state' \in [Server -> {Follower, Candidate, Leader}]
            /\ \A j \in Server : state'[j] # Follower =>
                   currentTerm'[j] >= 1 /\ state'[j] = state[j]
            /\ log' = log
            /\ persisted' \in [Server -> Image]
            /\ \A j \in Server : GoodLog(persisted'[j].log)
          <4>1. becomeFollower(i, r.term)
              BY <2>7, Zenon DEF AppendDeposed
          <4> QED BY <2>1, <4>1, <1>BecomeFollowerFacts, Zenon
      <3>3. TypeOK'
          BY <2>3, <3>1, <3>2, Zenon DEF TypeInv, TypeOK, GoodLog
      <3>4. SlotZero'
          BY <2>3, <3>1, <3>2, Zenon DEF TypeInv, SlotZero, Follower, Leader
      <3> QED BY <3>3, <3>4, Zenon DEF TypeInv
  <2> QED BY <2>5, <2>6, <2>7, Zenon DEF AppendEntriesReplied

  \* applier keeps the types: what it delivers are entries of the log.
<1>ApplierTypeInv.
      ASSUME TypeInv, NEW i \in Server, applier(i) PROVE TypeInv'
  <2> USE <1>ApplierTypeInv
  <2> DEFINE a == Len(applied[i]) + 2
             b == commitIndex[i] + 1
             batch == SubSeq(log[i], a, b)
  <2>1. /\ applied \in [Server -> Seq(LogEntry)]
        /\ applied[i] \in Seq(LogEntry) /\ Len(applied[i]) \in Nat
        /\ commitIndex[i] \in Nat
      BY DEF TypeInv, TypeOK
  <2>2. log[i] \in Seq(LogEntry) /\ Len(log[i]) \in Nat
      BY LastEntryFacts, Zenon
  <2>3. /\ commitIndex[i] < Len(log[i])
        /\ applied' = [applied EXCEPT ![i] = applied[i] \o batch]
        /\ UNCHANGED <<currentTerm, votedFor, log, state, persisted, nextIndex,
                       matchIndex, commitIndex, rvReqs, rvReps, aeReqs, aeReps,
                       handled, elections, restarts>>
      BY <2>1 DEF applier, serverVars, leaderVars, netVars, auxVars
  <2>4. batch \in Seq(LogEntry)
      <3>1. ASSUME NEW k \in a .. b PROVE log[i][k] \in LogEntry
          <4>1. k \in 1 .. Len(log[i])
              BY <2>1, <2>2, <2>3
          <4> QED BY <2>2, <4>1, EntryOf, Zenon
      <3>2. a \in Int /\ b \in Int
          BY <2>1
      <3> HIDE DEF a, b
      <3> QED BY <3>1, <3>2, SubSeqFacts
  <2> HIDE DEF batch
  <2>5. applied[i] \o batch \in Seq(LogEntry)
      BY <2>1, <2>4, ConcatFacts, Zenon
  <2>6. applied' \in [Server -> Seq(LogEntry)]
      BY <2>1, <2>3, <2>5, Zenon
  <2>7. TypeOK'
      BY <2>3, <2>6, Zenon DEF TypeInv, TypeOK
  <2>8. SlotZero'
      BY <2>3, Zenon DEF TypeInv, SlotZero
  <2> QED BY <2>7, <2>8, Zenon DEF TypeInv

  \* A restart keeps the types: what comes back was saved.
<1>RestartTypeInv.
      ASSUME TypeInv, NEW i \in Server, Restart(i) PROVE TypeInv'
  <2> USE <1>RestartTypeInv
  <2>1. persisted[i] \in Image /\ GoodLog(persisted[i].log)
      BY Zenon DEF TypeInv, TypeOK, SlotZero
  <2>2. /\ currentTerm' = [currentTerm EXCEPT ![i] = persisted[i].currentTerm]
        /\ votedFor' = [votedFor EXCEPT ![i] = persisted[i].votedFor]
        /\ log' = [log EXCEPT ![i] = persisted[i].log]
        /\ state' = [state EXCEPT ![i] = Follower]
        /\ nextIndex' = [nextIndex EXCEPT ![i] = [j \in Server |-> 0]]
        /\ matchIndex' = [matchIndex EXCEPT ![i] = [j \in Server |-> 0]]
        /\ commitIndex' = [commitIndex EXCEPT ![i] = 0]
        /\ applied' = [applied EXCEPT ![i] = << >>]
        /\ restarts' = restarts + 1
        /\ UNCHANGED <<persisted, rvReqs, rvReps, aeReqs, aeReps, handled, elections>>
      BY Zenon DEF Restart, netVars
  <2>3. /\ currentTerm' \in [Server -> Nat]
        /\ votedFor' \in [Server -> Server \cup {None}]
        /\ log' \in [Server -> Seq(LogEntry)]
        /\ \A j \in Server : GoodLog(log'[j])
      BY <2>1, <2>2, Zenon DEF TypeInv, TypeOK, SlotZero, Image
  <2>4. /\ state' \in [Server -> {Follower, Candidate, Leader}]
        /\ nextIndex' \in [Server -> [Server -> Int]]
        /\ matchIndex' \in [Server -> [Server -> Int]]
        /\ commitIndex' \in [Server -> Nat]
        /\ restarts' \in Nat
      <3>1. /\ state \in [Server -> {Follower, Candidate, Leader}]
            /\ nextIndex \in [Server -> [Server -> Int]]
            /\ matchIndex \in [Server -> [Server -> Int]]
            /\ commitIndex \in [Server -> Nat]
            /\ restarts \in Nat
          BY Zenon DEF TypeInv, TypeOK
      <3>2. [j \in Server |-> 0] \in [Server -> Int]
          OBVIOUS
      <3> DEFINE zeros == [j \in Server |-> 0]
      <3> HIDE DEF zeros
      <3>3. zeros \in [Server -> Int]
          BY <3>2, Zenon DEF zeros
      <3>4. nextIndex' \in [Server -> [Server -> Int]]
          BY <2>2, <3>1, <3>3, Zenon DEF zeros
      <3>5. matchIndex' \in [Server -> [Server -> Int]]
          BY <2>2, <3>1, <3>3, Zenon DEF zeros
      <3> QED BY <2>2, <3>1, <3>4, <3>5
  <2>5. applied' \in [Server -> Seq(LogEntry)]
      BY <2>2, EmptySeq, Zenon DEF TypeInv, TypeOK
  <2>6. /\ \A j \in Server : state'[j] # Follower => currentTerm'[j] >= 1
        /\ \A j, k \in Server : state'[j] = Leader => nextIndex'[j][k] >= 1
      BY <2>2, Zenon DEF TypeInv, TypeOK, SlotZero, Follower, Leader
  <2>7. TypeOK'
      BY <2>2, <2>3, <2>4, <2>5, Zenon DEF TypeInv, TypeOK, GoodLog
  <2>8. SlotZero'
      BY <2>2, <2>3, <2>6, Zenon DEF TypeInv, SlotZero
  <2> QED BY <2>7, <2>8, Zenon DEF TypeInv

<1> SUFFICES ASSUME WellOrdered, TypeInv, [Next]_vars PROVE TypeInv'
    BY Zenon
<1>1. ASSUME NEW i \in Server, startElection(i) PROVE TypeInv'
    BY <1>1, <1>StartElectionTypeInv, Zenon
<1>2. ASSUME NEW i \in Server, NEW c \in Command, Start(i, c) PROVE TypeInv'
    BY <1>2, <1>StartTypeInv, Zenon
<1>3. ASSUME NEW i \in Server, sendHeartbeats(i) PROVE TypeInv'
    BY <1>3, <1>SendHeartbeatsTypeInv, Zenon
<1>4. ASSUME NEW i \in Server, applier(i) PROVE TypeInv'
    BY <1>4, <1>ApplierTypeInv, Zenon
<1>5. ASSUME NEW i \in Server, Restart(i) PROVE TypeInv'
    BY <1>5, <1>RestartTypeInv, Zenon
<1>6. ASSUME NEW m \in rvReqs, RequestVote(m) PROVE TypeInv'
    BY <1>6, <1>RequestVoteTypeInv, Zenon
<1>7. ASSUME NEW r \in rvReps, RequestVoteReplied(r) PROVE TypeInv'
    BY <1>7, <1>RequestVoteRepliedTypeInv, Zenon
<1>8. ASSUME NEW m \in aeReqs, AppendEntries(m) PROVE TypeInv'
    BY <1>8, <1>AppendEntriesTypeInv, Zenon
<1>9. ASSUME NEW r \in aeReps, AppendEntriesReplied(r) PROVE TypeInv'
    BY <1>9, <1>AppendEntriesRepliedTypeInv, Zenon
<1>10. ASSUME UNCHANGED vars PROVE TypeInv'
    <2>1. UNCHANGED <<currentTerm, votedFor, log, state, persisted, nextIndex,
                      matchIndex, commitIndex, applied, rvReqs, rvReps, aeReqs,
                      aeReps, handled, elections, restarts>>
        BY <1>10, Zenon
           DEF vars, serverVars, leaderVars, applyVars, netVars, auxVars
    <2> QED BY <2>1, Zenon DEF TypeInv, TypeOK, SlotZero
<1> QED BY <1>1, <1>2, <1>3, <1>4, <1>5, <1>6, <1>7, <1>8, <1>9, <1>10, Zenon
           DEF Next

-----------------------------------------------------------------------------
(*****************************************************************************)
(* Raft implements Election. What this needs to know of Raft besides the     *)
(* types: peers call each other and never themselves, a message speaks of no *)
(* term that its sender has not reached, the disk holds the term and the     *)
(* vote, and a leader has called someone.                                    *)
(*****************************************************************************)

\* A group of freshly made peers is an election that has not begun.
LEMMA InitElectionInv == ASSUME Init PROVE ElectionInv /\ Elect!Init
<1>1. ElectionInv
    BY Zenon
       DEF Init, ElectionInv, NoSelfCalls, TermsReached, VoteOnDisk,
           LeaderCalls,
           Follower, Leader
<1>2. Elect!Init
    BY Zenon DEF Init, Elect!Init, Ballots, Leads, Follower
<1> QED BY <1>1, <1>2, Zenon

\* Every step of the peers is a step of the election, or leaves it alone.
LEMMA NextStep ==
    TypeInv /\ TypeInv' /\ ElectionInv /\ [Next]_vars
        => ElectionInv' /\ [Elect!Next]_(Elect!vars)
  (* A step keeps ElectionInv if no term goes back, its new messages speak of  *)
  (* terms their senders have reached, and it saves what it must.              *)
<1>KeepElectionInv.
      ASSUME TypeInv, TypeInv', ElectionInv, VoteOnDisk',
             \A i \in Server : currentTerm[i] <= currentTerm'[i],
             \A m \in rvReqs' : m \in rvReqs \/ /\ m.src # m.dst
                                                /\ m.term <= currentTerm'[m.src],
             \A r \in rvReps' : r \in rvReps \/ /\ r.src # r.dst
                                                /\ r.term <= currentTerm'[r.src],
             \A m \in aeReqs' : m \in aeReqs \/ m.term <= currentTerm'[m.src],
             \A r \in aeReps' : r \in aeReps \/ r.term <= currentTerm'[r.src],
             aeReqs \subseteq aeReqs',
             \A i \in Server : state'[i] = Leader =>
                 \/ state[i] = Leader /\ currentTerm'[i] = currentTerm[i]
                 \/ \E m \in aeReqs' : m.src = i /\ m.term = currentTerm'[i]
      PROVE  ElectionInv'
  <2> USE <1>KeepElectionInv
  <2>1. \A i \in Server : currentTerm[i] \in Nat /\ currentTerm'[i] \in Nat
      <3>1. currentTerm \in [Server -> Nat] /\ currentTerm' \in [Server -> Nat]
          BY Zenon DEF TypeInv, TypeOK
      <3> QED BY <3>1, Zenon
  <2>2. NoSelfCalls'
      BY Zenon DEF ElectionInv, NoSelfCalls
  <2>3. ASSUME NEW m, m \in rvReqs \/ m \in rvReps \/ m \in aeReqs \/ m \in aeReps,
               m.term <= currentTerm[m.src]
        PROVE  m.term <= currentTerm'[m.src]
      <3>1. m.src \in Server /\ m.term \in Nat
          BY <2>3, ElectionTypes, Zenon
      <3> QED BY <2>1, <2>3, <3>1
  <2>4. TermsReached'
      <3>1. TermsReached
          BY Zenon DEF ElectionInv
      <3>2. \A m \in rvReqs' : m.term <= currentTerm'[m.src]
          BY <2>3, <3>1, Zenon DEF TermsReached
      <3>3. \A m \in rvReps' : m.term <= currentTerm'[m.src]
          BY <2>3, <3>1, Zenon DEF TermsReached
      <3>4. \A m \in aeReqs' : m.term <= currentTerm'[m.src]
          BY <2>3, <3>1, Zenon DEF TermsReached
      <3>5. \A m \in aeReps' : m.term <= currentTerm'[m.src]
          BY <2>3, <3>1, Zenon DEF TermsReached
      <3> QED BY <3>2, <3>3, <3>4, <3>5, Zenon DEF TermsReached
  <2>5. LeaderCalls'
      <3>1. \A i \in Server : state[i] = Leader =>
                \E m \in aeReqs : m.src = i /\ m.term = currentTerm[i]
          BY Zenon DEF ElectionInv, LeaderCalls
      <3> QED BY <3>1 DEF LeaderCalls
  <2> QED BY <2>2, <2>4, <2>5, Zenon DEF ElectionInv

  \* persist saves the term and the vote of the only peer that changed them.
<1>PersistVote.
      ASSUME TypeInv, VoteOnDisk, NEW i \in Server, persist(i),
             \A j \in Server \ {i} : /\ currentTerm'[j] = currentTerm[j]
                                     /\ votedFor'[j] = votedFor[j]
      PROVE  VoteOnDisk'
  <2> USE <1>PersistVote
  <2>1. persisted \in [Server -> Image]
      BY ElectionTypes, Zenon
  <2>2. /\ persisted'[i].currentTerm = currentTerm'[i]
        /\ persisted'[i].votedFor = votedFor'[i]
        /\ \A j \in Server \ {i} : persisted'[j] = persisted[j]
      BY <2>1, Zenon DEF persist
  <2> QED BY <2>2, Zenon DEF VoteOnDisk

  (* A step in which nothing that elections read has changed, but for the      *)
  (* calls of a peer that leads, is a stuttering step of Election.             *)
<1>Stutter.
      ASSUME UNCHANGED <<currentTerm, votedFor, state, rvReps>>,
             aeReqs \subseteq aeReqs',
             \A m \in aeReqs' :
                 \E n \in aeReqs : n.src = m.src /\ n.term = m.term
      PROVE  UNCHANGED Elect!vars
  <2> USE <1>Stutter
  <2>1. Ballots' = Ballots
      BY Zenon DEF Ballots
  <2>2. Leads' = Leads
      BY Zenon DEF Leads
  <2> QED BY <2>1, <2>2, Zenon DEF Elect!vars

  \* startElection is Stand.
<1>StartElectionStep.
      ASSUME TypeInv, TypeInv', ElectionInv, NEW i \in Server, startElection(i)
      PROVE  ElectionInv' /\ [Elect!Next]_(Elect!vars)
  <2> USE <1>StartElectionStep
  <2>1. /\ currentTerm' = [currentTerm EXCEPT ![i] = currentTerm[i] + 1]
        /\ state' = [state EXCEPT ![i] = Candidate]
        /\ votedFor' = [votedFor EXCEPT ![i] = i]
        /\ persist(i)
        /\ UNCHANGED <<rvReps, aeReqs, aeReps>>
      BY Zenon DEF startElection
  <2>2. /\ currentTerm \in [Server -> Nat]
        /\ votedFor \in [Server -> Server \cup {None}]
        /\ state \in [Server -> {Follower, Candidate, Leader}]
      BY ElectionTypes, Zenon
  <2>3. \A m \in rvReqs' : m \in rvReqs \/ /\ m.src # m.dst
                                           /\ m.term <= currentTerm'[m.src]
      <3>1. ASSUME NEW m \in rvReqs', m \notin rvReqs
            PROVE  m.src = i /\ m.src # m.dst /\ m.term = currentTerm'[i]
          BY <3>1 DEF startElection
      <3>2. currentTerm'[i] \in Nat
          BY <2>1, <2>2
      <3> QED BY <3>1, <3>2
  <2>4. VoteOnDisk'
      BY <2>1, <2>2, <1>PersistVote, Zenon DEF ElectionInv
  <2>5. \A j \in Server : /\ currentTerm[j] <= currentTerm'[j]
                          /\ state'[j] = Leader =>
                                 state[j] = Leader /\ currentTerm'[j] = currentTerm[j]
      BY <2>1, <2>2 DEF Candidate, Leader
  <2>6. ElectionInv'
      BY <2>1, <2>3, <2>4, <2>5, <1>KeepElectionInv, Zenon
  <2>7. Elect!Stand(i)
      BY <2>1, Zenon DEF Elect!Stand, Candidate, Ballots, Leads
  <2> QED BY <2>6, <2>7, Zenon DEF Elect!Next

  \* RequestVote is Grant, Observe or nothing.
<1>RequestVoteStep.
      ASSUME TypeInv, TypeInv', ElectionInv, NEW m \in rvReqs, RequestVote(m)
      PROVE  ElectionInv' /\ [Elect!Next]_(Elect!vars)
  <2> USE <1>RequestVoteStep
  <2> DEFINE j       == m.dst
             newer   == m.term > currentTerm[j]
             vote    == IF newer THEN None ELSE votedFor[j]
             granted == /\ m.term >= currentTerm[j]
                        /\ MayVote(vote, m.src)
                        /\ isLogUpToDate(log[j], m.lastLogIndex, m.lastLogTerm)
             ans(g)  == [src |-> j, dst |-> m.src, argsTerm |-> m.term,
                         term |-> currentTerm[j], voteGranted |-> g]
  <2>1. /\ currentTerm' = [currentTerm EXCEPT ![j] = max(m.term, currentTerm[j])]
        /\ state' = [state EXCEPT ![j] = IF newer THEN Follower ELSE state[j]]
        /\ votedFor' = [votedFor EXCEPT ![j] = IF granted THEN m.src ELSE vote]
        /\ IF newer \/ granted THEN persist(j) ELSE UNCHANGED persisted
        /\ UNCHANGED <<rvReqs, aeReqs, aeReps>>
      BY Zenon DEF RequestVote
  <2>2. /\ currentTerm \in [Server -> Nat]
        /\ votedFor \in [Server -> Server \cup {None}]
        /\ state \in [Server -> {Follower, Candidate, Leader}]
        /\ j \in Server /\ m.src \in Server /\ m.term \in Nat
      BY ElectionTypes, Zenon
  <2>3. m.src # j /\ m.term <= currentTerm[m.src]
      BY Zenon DEF ElectionInv, NoSelfCalls, TermsReached
  <2>4. \E g \in BOOLEAN :
            /\ g <=> granted
            /\ rvReps' = rvReps \cup {r \in {ans(g)} : r.voteGranted \/ r.term > r.argsTerm}
      <3>1. CASE granted
          BY <3>1, Zenon DEF RequestVote
      <3>2. CASE ~ granted
          BY <3>2, Zenon DEF RequestVote
      <3> QED BY <3>1, <3>2, Zenon
  <2>5. PICK g \in BOOLEAN :
            /\ g <=> granted
            /\ rvReps' = rvReps \cup {r \in {ans(g)} : r.voteGranted \/ r.term > r.argsTerm}
      BY <2>4, Zenon
  <2>6. /\ ans(g).src = j /\ ans(g).dst = m.src /\ ans(g).argsTerm = m.term
        /\ ans(g).term = currentTerm[j] /\ ans(g).voteGranted = g
      BY Zenon
  <2> HIDE DEF ans
  <2>7. \A k \in Server : /\ currentTerm[k] <= currentTerm'[k]
                          /\ state'[k] = Leader =>
                                 state[k] = Leader /\ currentTerm'[k] = currentTerm[k]
      BY <2>1, <2>2 DEF max, Follower, Leader
  <2>8. \A r \in rvReps' : r \in rvReps \/ /\ r.src # r.dst
                                           /\ r.term <= currentTerm'[r.src]
      <3>1. \A r \in rvReps' : r \in rvReps \/ r = ans(g)
          BY <2>5, Zenon
      <3> QED BY <2>2, <2>3, <2>6, <2>7, <3>1, Zenon
  <2>9. VoteOnDisk'
      <3>1. VoteOnDisk
          BY Zenon DEF ElectionInv
      <3>2. \A k \in Server \ {j} : currentTerm'[k] = currentTerm[k]
                                    /\ votedFor'[k] = votedFor[k]
          BY <2>1, <2>2, Zenon
      <3>3. CASE newer \/ granted
          <4>1. persist(j)
              BY <2>1, <3>3, Zenon
          <4> QED BY <2>2, <3>1, <3>2, <4>1, <1>PersistVote, Zenon
      <3>4. CASE ~ newer /\ ~ granted
          <4>1. UNCHANGED <<currentTerm, votedFor, persisted>>
              BY <2>1, <2>2, <3>4, Zenon DEF max
          <4> QED BY <3>1, <4>1, Zenon DEF VoteOnDisk
      <3> QED BY <3>3, <3>4, Zenon
  <2>10. ElectionInv'
      BY <2>1, <2>7, <2>8, <2>9, <1>KeepElectionInv, Zenon
  <2>11. Leads' = Leads
      BY <2>1, Zenon DEF Leads
  <2>12. CASE granted
      <3>1. rvReps' = rvReps \cup {ans(g)} /\ ans(g).voteGranted
          BY <2>5, <2>6, <2>12, Zenon
      <3>2. Ballots' = Ballots \cup {<<j, m.src, m.term>>}
          BY <2>6, <3>1, Zenon DEF Ballots
      <3>3. m.term >= currentTerm[j]
          BY <2>12, Zenon
      <3>4. currentTerm' = [currentTerm EXCEPT ![j] = m.term]
          <4>1. max(m.term, currentTerm[j]) = m.term
              BY <2>2, <3>3 DEF max
          <4> QED BY <2>1, <4>1, Zenon
      <3>5. m.term = currentTerm[j] => votedFor[j] \in {None, m.src}
          BY <2>2, <2>12 DEF MayVote
      <3>6. /\ votedFor' = [votedFor EXCEPT ![j] = m.src]
            /\ state' = [state EXCEPT ![j] = IF m.term > currentTerm[j]
                                            THEN "Follower" ELSE state[j]]
          BY <2>1, <2>12, Zenon DEF Follower
      <3>7. Elect!Grant(j, m.src, m.term)
          BY <2>3, <2>11, <3>2, <3>4, <3>5, <3>6, Zenon DEF Elect!Grant
      <3>8. m.term \in currentTerm[j] .. currentTerm[m.src]
          BY <2>2, <2>3, <3>3
      <3> QED BY <2>2, <2>10, <3>7, <3>8, Zenon DEF Elect!Next
  <2>13. CASE ~ granted
      <3>1. \A r \in rvReps' : r.voteGranted => r \in rvReps
          BY <2>5, <2>6, <2>13, Zenon
      <3>2. rvReps \subseteq rvReps'
          BY <2>5, Zenon
      <3>3. Ballots' = Ballots
          BY <3>1, <3>2, Zenon DEF Ballots
      <3>4. CASE newer
          <4>1. Elect!Observe(j, m.term)
              BY <2>1, <2>2, <2>11, <2>13, <3>3, <3>4, Zenon
                 DEF Elect!Observe, max, Follower
          <4>2. m.term \in currentTerm[j] .. currentTerm[m.src]
              BY <2>2, <2>3, <3>4
          <4> QED BY <2>2, <2>10, <4>1, <4>2, Zenon DEF Elect!Next
      <3>5. CASE ~ newer
          <4>1. UNCHANGED <<currentTerm, votedFor, state>>
              BY <2>1, <2>2, <2>13, <3>5, Zenon DEF max
          <4> QED BY <2>10, <2>11, <3>3, <4>1, Zenon DEF Elect!vars
      <3> QED BY <3>4, <3>5, Zenon
  <2> QED BY <2>12, <2>13, Zenon

  (* becomeFollower, for a reply with a newer term that peer k has reached, is *)
  (* Observe.                                                                  *)
<1>BecomeFollowerStep.
      ASSUME TypeInv, TypeInv', ElectionInv, NEW i \in Server, NEW k \in Server,
             NEW t \in Nat, t > currentTerm[i], t <= currentTerm[k],
             becomeFollower(i, t),
             UNCHANGED <<rvReqs, rvReps, aeReqs, aeReps>>
      PROVE  ElectionInv' /\ [Elect!Next]_(Elect!vars)
  <2> USE <1>BecomeFollowerStep
  <2>1. /\ state' = [state EXCEPT ![i] = Follower]
        /\ currentTerm' = [currentTerm EXCEPT ![i] = t]
        /\ votedFor' = [votedFor EXCEPT ![i] = None]
        /\ persist(i)
      BY Zenon DEF becomeFollower
  <2>2. /\ currentTerm \in [Server -> Nat]
        /\ votedFor \in [Server -> Server \cup {None}]
        /\ state \in [Server -> {Follower, Candidate, Leader}]
      BY ElectionTypes, Zenon
  <2>3. VoteOnDisk'
      BY <2>1, <2>2, <1>PersistVote, Zenon DEF ElectionInv
  <2>4. \A j \in Server : /\ currentTerm[j] <= currentTerm'[j]
                          /\ state'[j] = Leader =>
                                 state[j] = Leader /\ currentTerm'[j] = currentTerm[j]
      BY <2>1, <2>2 DEF Follower, Leader
  <2>5. ElectionInv'
      BY <2>3, <2>4, <1>KeepElectionInv, Zenon
  <2>6. Elect!Observe(i, t)
      BY <2>1, Zenon DEF Elect!Observe, Follower, Ballots, Leads
  <2>7. t \in currentTerm[i] .. currentTerm[k]
      BY <2>2
  <2> QED BY <2>5, <2>6, <2>7, Zenon DEF Elect!Next

  \* The goroutine of startElection does Observe or Win.
<1>RequestVoteRepliedStep.
      ASSUME TypeInv, TypeInv', ElectionInv, NEW r \in rvReps, RequestVoteReplied(r)
      PROVE  ElectionInv' /\ [Elect!Next]_(Elect!vars)
  <2> USE <1>RequestVoteRepliedStep
  <2> DEFINE i == r.dst
  <2>1. /\ currentTerm \in [Server -> Nat]
        /\ state \in [Server -> {Follower, Candidate, Leader}]
        /\ i \in Server /\ r.src \in Server /\ r.term \in Nat
        /\ \A v \in rvReps : v.src \in Server
      BY ElectionTypes, Zenon
  <2>2. r.src # i /\ r.term <= currentTerm[r.src]
      BY Zenon DEF ElectionInv, NoSelfCalls, TermsReached
  <2>3. state[i] = Candidate /\ UNCHANGED <<rvReqs, rvReps, aeReps>>
      BY Zenon DEF RequestVoteReplied
  <2>4. CASE r.term > currentTerm[i] /\ becomeFollower(i, r.term) /\ UNCHANGED aeReqs
      BY <2>1, <2>2, <2>3, <2>4, <1>BecomeFollowerStep, Zenon
  <2>5. CASE IsMajority(votes(i)) /\ becomeLeader(i)
      <3>1. /\ state' = [state EXCEPT ![i] = Leader]
            /\ UNCHANGED <<currentTerm, votedFor, persisted>>
            /\ broadcastAppendEntries(i)
          BY <2>5, Zenon DEF becomeLeader
      <3>2. /\ aeReqs \subseteq aeReqs'
            /\ \A m \in aeReqs' : m \in aeReqs \/ (m.src = i /\ m.term = currentTerm[i])
            /\ \E m \in aeReqs' : m.src = i /\ m.term = currentTerm[i]
          BY <2>1, <2>2, <3>1, BroadcastSources, Zenon
      <3>3. ElectionInv'
          <4>1. VoteOnDisk'
              BY <3>1, Zenon DEF ElectionInv, VoteOnDisk
          <4>2. \A m \in aeReqs' : m \in aeReqs \/ m.term <= currentTerm'[m.src]
              BY <2>1, <3>1, <3>2
          <4>3. \A j \in Server : currentTerm[j] <= currentTerm'[j]
              BY <2>1, <3>1
          <4>4. \A j \in Server : state'[j] = Leader =>
                    \/ state[j] = Leader /\ currentTerm'[j] = currentTerm[j]
                    \/ \E m \in aeReqs' : m.src = j /\ m.term = currentTerm'[j]
              BY <2>1, <3>1, <3>2, Zenon
          <4> QED BY <2>3, <3>2, <4>1, <4>2, <4>3, <4>4, <1>KeepElectionInv,
                     Zenon
      <3>4. Leads' = Leads \cup {<<i, currentTerm[i]>>}
          BY <3>2, Zenon DEF Leads
      <3>5. votes(i) = Elect!Supporters(i, currentTerm[i])
          <4> DEFINE t == currentTerm[i]
          <4>1. \A x : x \in votes(i) <=>
                    x = i \/ \E v \in rvReps : /\ v.voteGranted /\ v.src = x
                                              /\ v.dst = i /\ v.argsTerm = t
              BY Zenon DEF votes
          <4>2. \A x : <<x, i, t>> \in Ballots <=>
                    \E v \in rvReps : /\ v.voteGranted /\ v.src = x
                                      /\ v.dst = i /\ v.argsTerm = t
              BY Zenon DEF Ballots
          <4>3. \A x : x \in Elect!Supporters(i, t) <=>
                    x = i \/ (x \in Server /\ <<x, i, t>> \in Ballots)
              BY Zenon DEF Elect!Supporters
          <4>4. \A x : <<x, i, t>> \in Ballots => x \in Server
              BY <2>1, <4>2
          <4>5. /\ votes(i) = {x \in votes(i) : TRUE}
                /\ Elect!Supporters(i, t) = {x \in Elect!Supporters(i, t) : TRUE}
              BY Zenon DEF votes, Elect!Supporters
          <4> HIDE DEF t
          <4>6. \A x : x \in votes(i) <=> x \in Elect!Supporters(i, t)
              BY <4>1, <4>2, <4>3, <4>4, Zenon
          <4>7. votes(i) = Elect!Supporters(i, t)
              BY <4>5, <4>6, Zenon
          <4> QED BY <4>7, Zenon DEF t
      <3>6. /\ IsMajority(Elect!Supporters(i, currentTerm[i]))
            /\ Elect!Supporters(i, currentTerm[i]) \in SUBSET Server
          BY <2>1, <2>5, <3>5, Zenon DEF Elect!Supporters
      <3>7. Ballots' = Ballots
          BY <2>3, Zenon DEF Ballots
      <3>8. Elect!Win(i)
          <4>1. state[i] = "Candidate" /\ state' = [state EXCEPT ![i] = "Leader"]
              BY <2>3, <3>1, Zenon DEF Candidate, Leader
          <4>2. UNCHANGED <<currentTerm, votedFor, Ballots>>
              BY <3>1, <3>7, Zenon
          <4> QED BY <3>4, <3>6, <4>1, <4>2, Zenon DEF Elect!Win
      <3> QED BY <2>1, <3>3, <3>8, Zenon DEF Elect!Next
  <2> QED BY <2>4, <2>5, Zenon DEF RequestVoteReplied

  \* A step that at most lets leaders call does nothing to the election.
<1>QuietStep.
      ASSUME TypeInv, TypeInv', ElectionInv, VoteOnDisk',
             UNCHANGED <<currentTerm, votedFor, state, rvReqs, rvReps>>,
             aeReqs \subseteq aeReqs',
             \A m \in aeReqs' : m \in aeReqs \/
                 (\E i \in Server : state[i] = Leader /\ m.src = i
                                                      /\ m.term = currentTerm[i]),
             \A r \in aeReps' : r \in aeReps \/ (r.term <= currentTerm[r.src])
      PROVE  ElectionInv' /\ [Elect!Next]_(Elect!vars)
  <2> USE <1>QuietStep
  <2>1. currentTerm \in [Server -> Nat]
      BY ElectionTypes, Zenon
  <2>2. \A m \in aeReqs' : m \in aeReqs \/ m.term <= currentTerm'[m.src]
      BY <2>1
  <2>3. \A i \in Server : currentTerm[i] <= currentTerm'[i]
      BY <2>1
  <2>4. ElectionInv'
      BY <2>2, <2>3, <1>KeepElectionInv, Zenon
  <2>5. \A m \in aeReqs' : \E n \in aeReqs : n.src = m.src /\ n.term = m.term
      BY DEF ElectionInv, LeaderCalls
  <2>6. UNCHANGED Elect!vars
      BY <2>5, <1>Stutter, Zenon
  <2> QED BY <2>4, <2>6, Zenon

  \* Start sends calls in a term that its peer leads already: nothing to the
  \* election.
<1>StartStep.
      ASSUME TypeInv, TypeInv', ElectionInv,
             NEW i \in Server, NEW c \in Command, Start(i, c)
      PROVE  ElectionInv' /\ [Elect!Next]_(Elect!vars)
  <2> USE <1>StartStep
  <2>1. /\ state[i] = Leader
        /\ UNCHANGED <<currentTerm, votedFor, state, rvReqs, rvReps, aeReps>>
        /\ persist(i)
        /\ broadcastAppendEntries(i)
      BY Zenon DEF Start
  <2>2. VoteOnDisk'
      BY <2>1, <1>PersistVote, Zenon DEF ElectionInv
  <2>3. /\ aeReqs \subseteq aeReqs'
        /\ \A m \in aeReqs' : m \in aeReqs \/ (m.src = i /\ m.term = currentTerm[i])
      BY <2>1, BroadcastSources, Zenon
  <2> QED BY <2>1, <2>2, <2>3, <1>QuietStep, Zenon

  \* So does sendHeartbeats.
<1>SendHeartbeatsStep.
      ASSUME TypeInv, TypeInv', ElectionInv, NEW i \in Server, sendHeartbeats(i)
      PROVE  ElectionInv' /\ [Elect!Next]_(Elect!vars)
  <2> USE <1>SendHeartbeatsStep
  <2>1. /\ state[i] = Leader
        /\ UNCHANGED <<currentTerm, votedFor, state, persisted, rvReqs, rvReps, aeReps>>
        /\ broadcastAppendEntries(i)
      BY Zenon DEF sendHeartbeats, serverVars
  <2>2. VoteOnDisk'
      BY <2>1, Zenon DEF ElectionInv, VoteOnDisk
  <2>3. /\ aeReqs \subseteq aeReqs'
        /\ \A m \in aeReqs' : m \in aeReqs \/ (m.src = i /\ m.term = currentTerm[i])
      BY <2>1, BroadcastSources, Zenon
  <2> QED BY <2>1, <2>2, <2>3, <1>QuietStep, Zenon

  \* applier does not touch the election.
<1>ApplierStep.
      ASSUME TypeInv, TypeInv', ElectionInv, NEW i \in Server, applier(i)
      PROVE  ElectionInv' /\ [Elect!Next]_(Elect!vars)
  <2> USE <1>ApplierStep
  <2>1. UNCHANGED <<currentTerm, votedFor, state, persisted, rvReqs, rvReps,
                    aeReqs, aeReps>>
      BY Zenon DEF applier, serverVars, netVars
  <2>2. VoteOnDisk'
      BY <2>1, Zenon DEF ElectionInv, VoteOnDisk
  <2> QED BY <2>1, <2>2, <1>QuietStep, Zenon

  \* replicateTo is Observe when the reply has a newer term, and nothing
  \* otherwise.
<1>AppendEntriesRepliedStep.
      ASSUME TypeInv, TypeInv', ElectionInv, NEW r \in aeReps, AppendEntriesReplied(r)
      PROVE  ElectionInv' /\ [Elect!Next]_(Elect!vars)
  <2> USE <1>AppendEntriesRepliedStep
  <2> DEFINE i == r.dst
  <2>1. i \in Server /\ r.src \in Server /\ r.term \in Nat
      BY ElectionTypes, Zenon
  <2>2. state[i] = Leader /\ UNCHANGED <<rvReqs, rvReps, aeReps>>
      BY Zenon DEF AppendEntriesReplied
  <2>3. VoteOnDisk /\ r.term <= currentTerm[r.src]
      BY Zenon DEF ElectionInv, TermsReached
  <2>4. CASE AppendSucceeded(r)
      <3>1. UNCHANGED <<currentTerm, votedFor, state, persisted, aeReqs>>
          BY <2>4, Zenon DEF AppendSucceeded, serverVars
      <3>2. VoteOnDisk'
          BY <2>3, <3>1, Zenon DEF VoteOnDisk
      <3> QED BY <2>2, <3>1, <3>2, <1>QuietStep, Zenon
  <2>5. CASE AppendFailed(r)
      <3>1. UNCHANGED <<currentTerm, votedFor, state, persisted>>
          BY <2>5, Zenon DEF AppendFailed, serverVars
      <3>2. PICK n : aeReqs' = aeReqs \cup
                {AppendArgs(i, r.src, currentTerm[i], log[i], n, commitIndex[i])}
          BY <2>5, Zenon DEF AppendFailed
      <3>3. /\ aeReqs \subseteq aeReqs'
            /\ \A m \in aeReqs' : m \in aeReqs \/ (m.src = i /\ m.term = currentTerm[i])
          <4>1. /\ AppendArgs(i, r.src, currentTerm[i], log[i], n, commitIndex[i]).src = i
                /\ AppendArgs(i, r.src, currentTerm[i], log[i], n, commitIndex[i]).term
                       = currentTerm[i]
              BY Zenon DEF AppendArgs
          <4> QED BY <3>2, <4>1, Zenon
      <3>4. VoteOnDisk'
          BY <2>3, <3>1, Zenon DEF VoteOnDisk
      <3> QED BY <2>1, <2>2, <3>1, <3>3, <3>4, <1>QuietStep, Zenon
  <2>6. CASE AppendDeposed(r)
      <3>1. becomeFollower(i, r.term) /\ r.term > currentTerm[i] /\ UNCHANGED aeReqs
          BY <2>6, Zenon DEF AppendDeposed
      <3> QED BY <2>1, <2>2, <2>3, <3>1, <1>BecomeFollowerStep, Zenon
  <2> QED BY <2>4, <2>5, <2>6, Zenon DEF AppendEntriesReplied

  \* A restart is Crash: the disk holds the term and the vote.
<1>RestartStep.
      ASSUME TypeInv, TypeInv', ElectionInv, NEW i \in Server, Restart(i)
      PROVE  ElectionInv' /\ [Elect!Next]_(Elect!vars)
  <2> USE <1>RestartStep
  <2>1. /\ currentTerm \in [Server -> Nat]
        /\ votedFor \in [Server -> Server \cup {None}]
        /\ state \in [Server -> {Follower, Candidate, Leader}]
      BY ElectionTypes, Zenon
  <2>2. VoteOnDisk
      BY Zenon DEF ElectionInv
  <2>3. /\ UNCHANGED <<currentTerm, votedFor>>
        /\ state' = [state EXCEPT ![i] = Follower]
        /\ UNCHANGED <<persisted, rvReqs, rvReps, aeReqs, aeReps>>
      BY <2>1, <2>2, Zenon DEF Restart, VoteOnDisk, netVars
  <2>4. VoteOnDisk'
      BY <2>2, <2>3, Zenon DEF VoteOnDisk
  <2>5. \A j \in Server : /\ currentTerm[j] <= currentTerm'[j]
                          /\ state'[j] = Leader => state[j] = Leader
      BY <2>1, <2>3 DEF Follower, Leader
  <2>6. ElectionInv'
      BY <2>3, <2>4, <2>5, <1>KeepElectionInv, Zenon
  <2>7. Elect!Crash(i)
      BY <2>3, Zenon DEF Elect!Crash, Follower, Ballots, Leads
  <2> QED BY <2>6, <2>7, Zenon DEF Elect!Next

  \* What the new reply of AppendEntries says.
<1>NewAppendReply.
      ASSUME NEW m, NEW t, NEW ok, NEW cTerm, NEW cIndex,
             AppendReply(m, t, ok, cTerm, cIndex)
      PROVE  \A r \in aeReps' : r \in aeReps \/ (r.src = m.dst /\ r.term = t)
  BY <1>NewAppendReply DEF AppendReply

  (* AppendEntries is Observe for a newer term, Yield for a candidate of the   *)
  (* same term, and nothing to the election otherwise.                         *)
<1>AppendEntriesStep.
      ASSUME TypeInv, TypeInv', ElectionInv, NEW m \in aeReqs, AppendEntries(m)
      PROVE  ElectionInv' /\ [Elect!Next]_(Elect!vars)
  <2> USE <1>AppendEntriesStep
  <2> DEFINE j == m.dst
  <2>1. /\ currentTerm \in [Server -> Nat]
        /\ votedFor \in [Server -> Server \cup {None}]
        /\ state \in [Server -> {Follower, Candidate, Leader}]
        /\ persisted \in [Server -> Image]
        /\ j \in Server /\ m.src \in Server /\ m.term \in Nat
      BY ElectionTypes, Zenon
  <2>2. VoteOnDisk /\ TermsReached /\ m.term <= currentTerm[m.src]
      BY Zenon DEF ElectionInv, TermsReached
  <2>3. UNCHANGED <<rvReqs, rvReps, aeReqs>>
      BY Zenon DEF AppendEntries
  <2>4. CASE AppendEntriesStale(m)
      <3>1. /\ UNCHANGED <<currentTerm, votedFor, state, persisted>>
            /\ AppendReply(m, currentTerm[j], FALSE, -1, 0)
          BY <2>4, Zenon DEF AppendEntriesStale, serverVars
      <3>2. \A r \in aeReps' : r \in aeReps \/ r.term <= currentTerm[r.src]
          <4>1. \A r \in aeReps' : r \in aeReps \/ (r.src = j /\ r.term = currentTerm[j])
              BY <3>1, <1>NewAppendReply, Zenon
          <4>2. currentTerm[j] \in Nat
              BY <2>1, Zenon
          <4> QED BY <4>1, <4>2
      <3>3. VoteOnDisk'
          BY <2>2, <3>1, Zenon DEF VoteOnDisk
      <3> QED BY <2>3, <3>1, <3>2, <3>3, <1>QuietStep, Zenon
  <2>5. CASE AppendEntriesGap(m) \/ AppendEntriesConflict(m) \/ AppendEntriesAccept(m)
      <3>1. /\ m.term >= currentTerm[j]
            /\ currentTerm' = [currentTerm EXCEPT ![j] = m.term]
            /\ state' = [state EXCEPT ![j] = IF StepsDown(m) THEN Follower ELSE state[j]]
            /\ votedFor' = [votedFor EXCEPT ![j] = IF StepsDown(m) THEN None
                                                   ELSE votedFor[j]]
          BY <2>5, Zenon
             DEF AppendEntriesGap, AppendEntriesConflict, AppendEntriesAccept,
                      AcceptTerm
      <3>2. \A i \in Server : currentTerm[i] <= currentTerm'[i]
          <4>1. currentTerm \in [Server -> Nat] /\ j \in Server /\ m.term \in Nat
              BY <2>1, Zenon
          <4>2. /\ m.term >= currentTerm[j]
                /\ currentTerm' = [currentTerm EXCEPT ![j] = m.term]
              BY <3>1, Zenon
          <4> QED BY <4>1, <4>2
      <3>3. \A r \in aeReps' : r \in aeReps \/ r.term <= currentTerm'[r.src]
          <4>1. currentTerm'[j] = m.term /\ currentTerm[j] \in Nat
              BY <2>1, <3>1, Zenon
          <4>2. PICK t \in {m.term, currentTerm[j]} :
                    \A r \in aeReps' : r \in aeReps \/ (r.src = j /\ r.term = t)
              <5>1. CASE AppendEntriesGap(m)
                  <6>1. AppendReply(m, currentTerm[j], FALSE, -1,
                                    lastLogIndex(log[j]) + 1)
                      BY <5>1, Zenon DEF AppendEntriesGap
                  <6> QED BY <6>1, <1>NewAppendReply, Zenon
              <5>2. CASE AppendEntriesConflict(m)
                  <6>1. AppendReply(m, currentTerm[j], FALSE,
                                    At(log[j], m.prevLogIndex).term,
                                    ConflictRun(log[j], m.prevLogIndex))
                      BY <5>2, Zenon DEF AppendEntriesConflict
                  <6> QED BY <6>1, <1>NewAppendReply, Zenon
              <5>3. CASE AppendEntriesAccept(m)
                  <6>1. AppendReply(m, m.term, TRUE, -1, 0)
                      BY <5>3, Zenon DEF AppendEntriesAccept
                  <6> QED BY <6>1, <1>NewAppendReply, Zenon
              <5> QED BY <2>5, <5>1, <5>2, <5>3, Zenon
          <4>3. t <= currentTerm'[j]
              <5>1. m.term \in Nat /\ m.term >= currentTerm[j]
                  BY <2>1, <3>1, Zenon
              <5>2. CASE t = m.term
                  BY <4>1, <5>1, <5>2
              <5>3. CASE t = currentTerm[j]
                  BY <4>1, <5>1, <5>3, Zenon
              <5> QED BY <5>2, <5>3, Zenon
          <4> QED BY <4>2, <4>3, Zenon
      <3>4. VoteOnDisk'
          <4>1. \A k \in Server \ {j} : /\ currentTerm'[k] = currentTerm[k]
                                        /\ votedFor'[k] = votedFor[k]
              BY <2>1, <3>1, Zenon
          <4>2. \/ persist(j)
                \/ StepsDown(m) /\ persisted' = [persisted EXCEPT ![j] =
                       [currentTerm |-> m.term, votedFor |-> None, log |-> log[j]]]
                \/ ~ StepsDown(m) /\ persisted' = persisted
              BY <2>5, Zenon DEF AppendEntriesGap, AppendEntriesConflict,
                          AppendEntriesAccept, SaveAccepted
          <4>3. CASE persist(j)
              BY <2>1, <2>2, <4>1, <4>3, <1>PersistVote, Zenon
          <4>4. CASE StepsDown(m) /\ persisted' = [persisted EXCEPT ![j] =
                       [currentTerm |-> m.term, votedFor |-> None, log |-> log[j]]]
              <5>1. /\ persisted'[j].currentTerm = m.term
                    /\ persisted'[j].votedFor = None
                    /\ \A k \in Server \ {j} : persisted'[k] = persisted[k]
                  BY <2>1, <4>4, Zenon
              <5>2. currentTerm'[j] = m.term /\ votedFor'[j] = None
                  <6>1. votedFor' = [votedFor EXCEPT ![j] = None]
                      BY <3>1, <4>4, Zenon
                  <6> QED BY <2>1, <3>1, <6>1, Zenon
              <5> QED BY <2>2, <4>1, <5>1, <5>2, Zenon DEF VoteOnDisk
          <4>5. CASE ~ StepsDown(m) /\ persisted' = persisted
              <5>1. votedFor' = votedFor
                  <6>1. votedFor' = [votedFor EXCEPT ![j] = votedFor[j]]
                      BY <3>1, <4>5, Zenon
                  <6> QED BY <2>1, <6>1, Zenon
              <5>2. currentTerm' = currentTerm
                  <6>1. currentTerm[j] \in Nat /\ m.term \in Nat
                      BY <2>1, Zenon
                  <6>2. ~ (m.term > currentTerm[j]) /\ m.term >= currentTerm[j]
                      BY <3>1, <4>5, Zenon DEF StepsDown
                  <6>3. m.term = currentTerm[j]
                      BY <6>1, <6>2
                  <6>4. currentTerm' = [currentTerm EXCEPT ![j] = currentTerm[j]]
                      BY <3>1, <6>3, Zenon
                  <6> QED BY <2>1, <6>4, Zenon
              <5> QED BY <2>2, <4>5, <5>1, <5>2, Zenon DEF VoteOnDisk
          <4> QED BY <4>2, <4>3, <4>4, <4>5, Zenon
      <3>5. \A i \in Server : state'[i] = Leader =>
                state[i] = Leader /\ currentTerm'[i] = currentTerm[i]
          BY <2>1, <3>1 DEF StepsDown, Follower, Leader
      <3>6. ElectionInv'
          BY <2>3, <3>2, <3>3, <3>4, <3>5, <1>KeepElectionInv, Zenon
      <3>7. Ballots' = Ballots /\ Leads' = Leads
          BY <2>3, Zenon DEF Ballots, Leads
      <3>8. CASE m.term > currentTerm[j]
          <4>1. Elect!Observe(j, m.term)
              BY <3>1, <3>7, <3>8, Zenon DEF Elect!Observe, StepsDown, Follower
          <4>2. m.term \in currentTerm[j] .. currentTerm[m.src]
              BY <2>1, <2>2, <3>1
          <4> QED BY <2>1, <3>6, <4>1, <4>2, Zenon DEF Elect!Next
      <3>9. CASE m.term = currentTerm[j] /\ state[j] = Candidate
          <4>1. <<m.src, currentTerm[j]>> \in Leads
              BY <3>9, Zenon DEF Leads
          <4>2. UNCHANGED currentTerm
              BY <2>1, <3>1, <3>9, Zenon
          <4>3. Elect!Yield(j)
              BY <2>1, <3>1, <3>7, <3>9, <4>1, <4>2, Zenon
                 DEF Elect!Yield, StepsDown, Follower, Candidate
          <4> QED BY <2>1, <3>6, <4>3, Zenon DEF Elect!Next
      <3>10. CASE m.term = currentTerm[j] /\ state[j] # Candidate
          <4>1. UNCHANGED <<currentTerm, votedFor, state>>
              <5>1. ~ StepsDown(m)
                  BY <2>1, <3>10 DEF StepsDown
              <5>2. currentTerm' = [currentTerm EXCEPT ![j] = currentTerm[j]]
                  BY <3>1, <3>10, Zenon
              <5>3. /\ state' = [state EXCEPT ![j] = state[j]]
                    /\ votedFor' = [votedFor EXCEPT ![j] = votedFor[j]]
                  BY <3>1, <5>1, Zenon
              <5> QED BY <2>1, <5>2, <5>3, Zenon
          <4> QED BY <3>6, <3>7, <4>1, Zenon DEF Elect!vars
      <3>11. m.term > currentTerm[j] \/ m.term = currentTerm[j]
          <4>1. currentTerm[j] \in Nat /\ m.term \in Nat
              BY <2>1, Zenon
          <4> QED BY <3>1, <4>1
      <3> QED BY <3>8, <3>9, <3>10, <3>11, Zenon
  <2> QED BY <2>4, <2>5, Zenon DEF AppendEntries

<1> SUFFICES ASSUME TypeInv, TypeInv', ElectionInv, [Next]_vars
             PROVE  ElectionInv' /\ [Elect!Next]_(Elect!vars)
    BY Zenon
<1>1. ASSUME NEW i \in Server, \/ startElection(i) \/ sendHeartbeats(i)
                               \/ applier(i) \/ Restart(i)
      PROVE  ElectionInv' /\ [Elect!Next]_(Elect!vars)
    BY <1>1, <1>StartElectionStep, <1>SendHeartbeatsStep, <1>ApplierStep,
       <1>RestartStep, Zenon
<1>2. ASSUME NEW i \in Server, NEW c \in Command, Start(i, c)
      PROVE  ElectionInv' /\ [Elect!Next]_(Elect!vars)
    BY <1>2, <1>StartStep, Zenon
<1>3. ASSUME NEW m \in rvReqs, RequestVote(m)
      PROVE  ElectionInv' /\ [Elect!Next]_(Elect!vars)
    BY <1>3, <1>RequestVoteStep, Zenon
<1>4. ASSUME NEW r \in rvReps, RequestVoteReplied(r)
      PROVE  ElectionInv' /\ [Elect!Next]_(Elect!vars)
    BY <1>4, <1>RequestVoteRepliedStep, Zenon
<1>5. ASSUME NEW m \in aeReqs, AppendEntries(m)
      PROVE  ElectionInv' /\ [Elect!Next]_(Elect!vars)
    BY <1>5, <1>AppendEntriesStep, Zenon
<1>6. ASSUME NEW r \in aeReps, AppendEntriesReplied(r)
      PROVE  ElectionInv' /\ [Elect!Next]_(Elect!vars)
    BY <1>6, <1>AppendEntriesRepliedStep, Zenon
<1>7. CASE UNCHANGED vars
    <2>1. UNCHANGED <<currentTerm, votedFor, state, persisted, rvReqs, rvReps,
                      aeReqs, aeReps>>
        BY <1>7, Zenon DEF vars, serverVars, netVars
    <2>2. VoteOnDisk'
        BY <2>1, Zenon DEF ElectionInv, VoteOnDisk
    <2> QED BY <2>1, <2>2, <1>QuietStep, Zenon
<1> QED BY <1>1, <1>2, <1>3, <1>4, <1>5, <1>6, <1>7, Zenon DEF Next

=============================================================================
