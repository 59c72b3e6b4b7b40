--------------------------- MODULE KVServerProofs ---------------------------
(*****************************************************************************)
(* getQueueLen counts the Gets that wait, and a Get returns a value that is  *)
(* fresh unless some sync loop has counted a Get that it cannot serve: for   *)
(* any number of replicas, Gets and Puts, and any capacity of getQueue.      *)
(*****************************************************************************)
EXTENDS KVServer, TLAPS

SyncOps == [type : {"sync"}, server : Server, queuelen : Nat \ {0},
            version : Nat]
Op == {PutOp} \cup SyncOps

Calls == [pc : {"new", "counted", "queued", "failed", "done"}, at : Server,
          floor : Nat, value : Nat \cup {-1}]

Loops == [pc : {"count", "version", "submitted", "spin"}, queuelen : Nat,
          version : Nat]

DoOps == [pc : {"idle", "subtract", "serve"}, left : Nat]

\* TypeOK, and what the operations are.
Shapes ==
    /\ TypeOK
    /\ committed \in Seq(Op)
    /\ submitted \subseteq SyncOps

\* The Gets in the queue of a replica are there once, and wait there.
Queued(s) ==
    /\ \A k \in 1 .. Len(getQueue[s]) :
          get[getQueue[s][k]].pc = "queued" /\ get[getQueue[s][k]].at = s
    /\ \A j, k \in 1 .. Len(getQueue[s]) :
          getQueue[s][j] = getQueue[s][k] => j = k

\* How far the sync loop and DoOp of a replica are.
Stages(s) ==
    /\ loop[s].pc # "count" => loop[s].queuelen > 0
    /\ doOp[s].pc = "idle" => doOp[s].left = 0
    /\ doOp[s].pc # "idle" => lastApplied[s] < Len(committed)

(* A sync Put of the present version of its replica is the one that the loop *)
(* there waits for.                                                          *)
Current(op) == op.version = syncVersion[op.server]

Known(op) ==
    /\ op.version <= syncVersion[op.server]
    /\ Current(op) => /\ loop[op.server].pc \in {"submitted", "spin"}
                      /\ loop[op.server].version = op.version

Rounds ==
    /\ \A op \in submitted : Known(op)
    /\ \A k \in 1 .. Len(committed) :
          committed[k].type = "sync" => Known(committed[k])

\* The Puts among the first n operations.
PutsTo(n) == Cardinality({k \in 1 .. n : committed[k].type = "Put"})

\* A Put returns after it is committed, and a Get notes what has returned.
Noted ==
    /\ acked <= PutsTo(Len(committed))
    /\ \A g \in Reader : get[g].floor <= acked

\* The queue holds n Gets behind those that the DoOp under way takes out.
Holds(s, n) == n + doOp[s].left <= Len(getQueue[s])

Floor(s, k) == get[getQueue[s][k]].floor

(* When a loop counts no Get that it cannot serve, the Gets that a sync Put  *)
(* counts are in the queue when it is submitted,                             *)
CountedInTime ==
    \A s \in Server : loop[s].pc = "version" => Holds(s, loop[s].queuelen)

SubmittedInTime ==
    \A op \in submitted : Current(op) => Holds(op.server, op.queuelen)

(* ... none of them has seen a Put return that is not committed before the   *)
(* sync Put,                                                                 *)
Covered(op, k) ==
    /\ Holds(op.server, op.queuelen)
    /\ \A m \in 1 .. op.queuelen :
          Floor(op.server, doOp[op.server].left + m) <= PutsTo(k - 1)

CommittedInTime ==
    \A k \in 1 .. Len(committed) :
        committed[k].type = "sync" /\ Current(committed[k])
            => Covered(committed[k], k)

\* ... and the replica has applied those Puts when DoOp serves the Gets.
ServedInTime ==
    \A s \in Server : doOp[s].pc # "idle" =>
        /\ Holds(s, 0)
        /\ \A m \in 1 .. doOp[s].left : Floor(s, m) <= PutsTo(lastApplied[s])

Timely ==
    /\ CountedInTime /\ SubmittedInTime /\ CommittedInTime /\ ServedInTime
    /\ ReadsFresh

Inv ==
    /\ Shapes
    /\ \A s \in Server : Queued(s) /\ Stages(s)
    /\ QueueAccounted
    /\ Rounds
    /\ Noted
    /\ overcounted \/ Timely

-----------------------------------------------------------------------------
(*****************************************************************************)
(* What the lemmas use of finite sets. They assume it, and the library's     *)
(* theorems about finite sets discharge it at the end.                       *)
(*****************************************************************************)
EmptyCounts == Cardinality({}) = 0

IntervalsFinite == \A n \in Nat : IsFiniteSet(1 .. n)

SubsetsCount ==
    \A S, T : IsFiniteSet(T) /\ S \subseteq T
                 => IsFiniteSet(S) /\ Cardinality(S) <= Cardinality(T)

CountsAreNat == \A S : IsFiniteSet(S) => Cardinality(S) \in Nat

OneMoreCounts ==
    \A S, x : IsFiniteSet(S) /\ x \notin S
                 => Cardinality(S \cup {x}) = Cardinality(S) + 1

OneLessCounts ==
    \A S, x : IsFiniteSet(S) /\ x \in S
                 => Cardinality(S \ {x}) = Cardinality(S) - 1

FiniteSetsCount ==
    /\ EmptyCounts /\ IntervalsFinite /\ SubsetsCount
    /\ CountsAreNat /\ OneMoreCounts /\ OneLessCounts

-----------------------------------------------------------------------------
\* The Puts of a sequence of operations that grows.
LEMMA PutsAppended ==
    ASSUME FiniteSetsCount, Shapes, NEW op \in Op, committed' = Append(committed, op)
    PROVE  /\ committed' \in Seq(Op) /\ Len(committed') = Len(committed) + 1
           /\ \A k \in 1 .. Len(committed) : committed'[k] = committed[k]
           /\ committed'[Len(committed) + 1] = op
           /\ \A n \in 0 .. Len(committed) : PutsTo(n)' = PutsTo(n)
           /\ PutsTo(Len(committed)) <= PutsTo(Len(committed))'
<1>1. /\ committed' \in Seq(Op) /\ Len(committed') = Len(committed) + 1
      /\ \A k \in 1 .. Len(committed) : committed'[k] = committed[k]
      /\ committed'[Len(committed) + 1] = op
  BY DEF Shapes
<1>2. ASSUME NEW n \in 0 .. Len(committed) PROVE PutsTo(n)' = PutsTo(n)
  <2>1. Len(committed) \in Nat
    BY DEF Shapes
  <2>2. \A k \in 1 .. n : committed'[k] = committed[k]
    BY <1>1, <2>1
  <2>3. {k \in 1 .. n : committed'[k].type = "Put"}
            = {k \in 1 .. n : committed[k].type = "Put"}
    BY <2>2, Zenon
  <2> QED  BY <2>3, Zenon DEF PutsTo
<1>3. PutsTo(Len(committed)) <= PutsTo(Len(committed))'
  <2> DEFINE old == {k \in 1 .. Len(committed) : committed[k].type = "Put"}
             new == {k \in 1 .. Len(committed') : committed'[k].type = "Put"}
  <2>1. Len(committed) \in Nat /\ Len(committed') \in Nat
    BY <1>1 DEF Shapes
  <2>2. old \subseteq new
    BY <1>1, <2>1
  <2>3. IsFiniteSet(1 .. Len(committed'))
    BY <2>1, Zenon DEF FiniteSetsCount, IntervalsFinite
  <2>4. new \subseteq 1 .. Len(committed')
    BY Zenon
  <2> HIDE DEF old, new
  <2>5. IsFiniteSet(new)
    BY <2>3, <2>4, Zenon DEF FiniteSetsCount, SubsetsCount
  <2>6. Cardinality(old) <= Cardinality(new)
    BY <2>2, <2>5, Zenon DEF FiniteSetsCount, SubsetsCount
  <2> QED  BY <2>6, Zenon DEF PutsTo, old, new
<1> QED  BY <1>1, <1>2, <1>3, Zenon

LEMMA PutsAreNat ==
    ASSUME FiniteSetsCount, NEW n \in Nat
    PROVE  PutsTo(n) \in Nat
<1> DEFINE old == {k \in 1 .. n : committed[k].type = "Put"}
<1>1. IsFiniteSet(1 .. n)
  BY Zenon DEF FiniteSetsCount, IntervalsFinite
<1>2. old \subseteq 1 .. n
  BY Zenon
<1> HIDE DEF old
<1>3. IsFiniteSet(old)
  BY <1>1, <1>2, Zenon DEF FiniteSetsCount, SubsetsCount
<1>4. Cardinality(old) \in Nat
  BY <1>3, Zenon DEF FiniteSetsCount, CountsAreNat
<1> QED  BY <1>4, Zenon DEF PutsTo, old

\* The store of a replica is what it has applied.
LEMMA StoreIs ==
    ASSUME FiniteSetsCount, Shapes, NEW s \in Server
    PROVE  store(s) = PutsTo(lastApplied[s]) /\ store(s) \in Nat
<1> DEFINE n == lastApplied[s]
           ops == SubSeq(committed, 1, n)
<1>1. n \in Nat /\ n <= Len(committed) /\ committed \in Seq(Op)
  BY DEF Shapes, TypeOK
<1> HIDE DEF n
<1>2. Len(ops) = n /\ \A k \in 1 .. n : ops[k] = committed[k]
  BY <1>1
<1>3. {k \in 1 .. Len(ops) : ops[k].type = "Put"}
          = {k \in 1 .. n : committed[k].type = "Put"}
  BY <1>2, Zenon
<1>4. PutsIn(ops) = PutsTo(n)
  BY <1>3, Zenon DEF PutsIn, PutsTo
<1> QED  BY <1>1, <1>4, PutsAreNat, Zenon DEF store, n

(* The places of n Gets behind the first a of a queue of length b, also when *)
(* the first of the queue is taken out (e = 1).                              *)
LEMMA Places ==
    \A a, b, n, a1, b1 \in Nat, e \in {0, 1} :
        n + a <= b /\ a1 = a - e /\ b1 >= b - e =>
            /\ n + a1 <= b1
            /\ \A m \in 1 .. n : /\ a + m \in (e + 1) .. b /\ a + m \in 1 .. b
                                 /\ a1 + m = (a + m) - e
<1> TAKE a, b, n, a1, b1 \in Nat, e \in {0, 1}
<1>1. CASE e = 0
  BY <1>1
<1>2. CASE e = 1
  BY <1>2
<1> QED  BY <1>1, <1>2, Zenon

\* The types of what belongs to a replica.
LEMMA ReplicaShapes ==
    ASSUME Shapes, NEW s \in Server
    PROVE  /\ getQueue[s] \in Seq(Reader) /\ Len(getQueue[s]) \in Nat
           /\ doOp[s].pc \in {"idle", "subtract", "serve"}
           /\ doOp[s].left \in Nat
           /\ loop[s].pc \in {"count", "version", "submitted", "spin"}
           /\ loop[s].queuelen \in Nat /\ loop[s].version \in Nat
           /\ syncVersion[s] \in Nat /\ getQueueLen[s] \in Int
           /\ lastApplied[s] \in 0 .. Len(committed) /\ Len(committed) \in Nat
<1>1. getQueue[s] \in Seq(Reader) /\ Len(getQueue[s]) \in Nat
  BY DEF Shapes, TypeOK
<1>2. doOp[s] \in [pc : {"idle", "subtract", "serve"}, left : Nat]
  BY Zenon DEF Shapes, TypeOK
<1>3. loop[s] \in [pc : {"count", "version", "submitted", "spin"},
                   queuelen : Nat, version : Nat]
  BY Zenon DEF Shapes, TypeOK
<1>4. /\ syncVersion[s] \in Nat /\ getQueueLen[s] \in Int
      /\ lastApplied[s] \in 0 .. Len(committed) /\ Len(committed) \in Nat
  BY DEF Shapes, TypeOK
<1> QED  BY <1>1, <1>2, <1>3, <1>4, Zenon

\* A call of Get moves on, and nobody else does.
LEMMA GetMoves ==
    ASSUME Shapes, NEW g \in Reader, NEW x \in Calls,
           get' = [get EXCEPT ![g] = x]
    PROVE  /\ get' \in [Reader -> Calls]
           /\ get'[g] = x
           /\ \A h \in Reader : h # g => get'[h] = get[h]
<1>1. get \in [Reader -> Calls]
  BY Zenon DEF Shapes, TypeOK, Calls
<1> QED  BY <1>1, Zenon

-----------------------------------------------------------------------------
\* What a step leaves alone keeps what the invariant says of it.
LEMMA Frame ==
    ASSUME Inv
    PROVE  /\ UNCHANGED <<getQueue, get>> => \A s \in Server : Queued(s)'
           /\ UNCHANGED <<loop, doOp, lastApplied, committed>>
                  => \A s \in Server : Stages(s)'
           /\ UNCHANGED <<getQueueLen, get, doOp>> => QueueAccounted'
           /\ UNCHANGED <<submitted, committed, syncVersion, loop>> => Rounds'
           /\ UNCHANGED <<acked, committed, get>> => Noted'
<1>1. UNCHANGED <<getQueue, get>> => \A s \in Server : Queued(s)'
  <2> SUFFICES ASSUME UNCHANGED <<getQueue, get>>, NEW s \in Server
               PROVE  Queued(s)'
    BY Zenon
  <2>1. Queued(s)
    BY Zenon DEF Inv
  <2> QED  BY <2>1, Zenon DEF Queued
<1>2. UNCHANGED <<loop, doOp, lastApplied, committed>>
          => \A s \in Server : Stages(s)'
  BY Zenon DEF Inv, Stages
<1>3. UNCHANGED <<getQueueLen, get, doOp>> => QueueAccounted'
  BY Zenon DEF Inv, QueueAccounted, Waiting
<1>4. UNCHANGED <<submitted, committed, syncVersion, loop>> => Rounds'
  BY Zenon DEF Inv, Rounds, Known, Current
<1>5. UNCHANGED <<acked, committed, get>> => Noted'
  BY Zenon DEF Inv, Noted, PutsTo
<1> QED  BY <1>1, <1>2, <1>3, <1>4, <1>5, Zenon

LEMMA TimelyFrame ==
    ASSUME Timely, UNCHANGED <<getQueue, get, doOp, committed>>
    PROVE  /\ UNCHANGED loop => CountedInTime'
           /\ UNCHANGED <<submitted, syncVersion>> => SubmittedInTime'
           /\ UNCHANGED syncVersion => CommittedInTime'
           /\ UNCHANGED lastApplied => ServedInTime'
           /\ ReadsFresh'
<1>1. UNCHANGED loop => CountedInTime'
  BY Zenon DEF Timely, CountedInTime, Holds
<1>2. UNCHANGED <<submitted, syncVersion>> => SubmittedInTime'
  BY Zenon DEF Timely, SubmittedInTime, Current, Holds
<1>3. UNCHANGED syncVersion => CommittedInTime'
  BY Zenon DEF Timely, CommittedInTime, Covered, Current, Holds, Floor, PutsTo
<1>4. UNCHANGED lastApplied => ServedInTime'
  BY Zenon DEF Timely, ServedInTime, Holds, Floor, PutsTo
<1>5. ReadsFresh'
  BY Zenon DEF Timely, ReadsFresh
<1> QED  BY <1>1, <1>2, <1>3, <1>4, <1>5, Zenon

-----------------------------------------------------------------------------
(* An operation is committed: a client's Put, or a sync Put that was         *)
(* submitted. Every Put that has returned is committed before it.            *)
LEMMA CommitKeeps ==
    ASSUME FiniteSetsCount, Inv, NEW op \in Op, committed' = Append(committed, op),
           submitted' \subseteq submitted,
           op.type = "sync" => op \in submitted,
           UNCHANGED <<acked, lastApplied, syncVersion, getQueueLen, getQueue,
                       loop, doOp, get, overcounted, fails, restarts>>
    PROVE  Inv'
<1> DEFINE n == Len(committed)
<1>1. Shapes /\ Len(committed) \in Nat
  BY DEF Inv, Shapes
<1>2. /\ committed' \in Seq(Op) /\ Len(committed') = Len(committed) + 1
      /\ \A k \in 1 .. Len(committed) : committed'[k] = committed[k]
      /\ committed'[Len(committed) + 1] = op
      /\ \A m \in 0 .. Len(committed) : PutsTo(m)' = PutsTo(m)
      /\ PutsTo(Len(committed)) <= PutsTo(Len(committed))'
  BY <1>1, PutsAppended, Zenon
<1> HIDE DEF n
<1>3. \A k \in 1 .. Len(committed') :
          /\ k \in 1 .. n => committed'[k] = committed[k]
          /\ k \notin 1 .. n => k = n + 1 /\ committed'[k] = op
  BY <1>1, <1>2 DEF n
<1>4. Shapes'
  <2>1. ASSUME NEW k \in 1 .. Len(committed')
        PROVE  committed'[k].type \in {"Put", "sync"}
    BY <1>2 DEF Op, SyncOps, PutOp
  <2>2. lastApplied' \in [Server -> 0 .. Len(committed')]
    BY <1>1, <1>2 DEF Shapes, TypeOK
  <2> QED  BY <1>1, <1>2, <2>1, <2>2, Zenon DEF Shapes, TypeOK
<1>5. ASSUME NEW s \in Server PROVE Stages(s)'
  <2>1. Stages(s) /\ lastApplied[s] \in Nat
    BY <1>1 DEF Inv, Shapes, TypeOK
  <2> QED  BY <1>1, <1>2, <2>1 DEF Stages
<1>6. Rounds'
  <2>1. \A o : Known(o) => Known(o)'
    BY Zenon DEF Known, Current
  <2>2. \A o \in submitted' : Known(o)'
    BY <2>1, Zenon DEF Inv, Rounds
  <2>3. ASSUME NEW k \in 1 .. Len(committed'), committed'[k].type = "sync"
        PROVE  Known(committed[k])'
    <3>1. PICK o : o = committed'[k]
      BY Zenon
    <3>2. Known(o)
      BY <1>3, <2>3, <3>1, Zenon DEF Inv, Rounds, n
    <3>3. Known(o)'
      BY <2>1, <3>2, Zenon
    <3> QED  BY <3>1, <3>3, Zenon DEF Known, Current
  <2> QED  BY <2>2, <2>3, Zenon DEF Rounds
<1>7. Noted'
  <2>1. acked \in Nat /\ PutsTo(Len(committed)) \in Nat
        /\ PutsTo(Len(committed))' \in Nat
    <3>1. Len(committed) \in Nat /\ Len(committed') \in Nat
      BY <1>1, <1>2
    <3>2. PutsTo(Len(committed)) \in Nat
      BY <3>1, PutsAreNat, Zenon
    <3>3. PutsTo(Len(committed))' \in Nat
      <4> DEFINE new == {k \in 1 .. Len(committed') : committed'[k].type = "Put"}
      <4>1. IsFiniteSet(1 .. Len(committed')) /\ new \subseteq 1 .. Len(committed')
        BY <3>1, Zenon DEF FiniteSetsCount, IntervalsFinite
      <4> HIDE DEF new
      <4>2. IsFiniteSet(new)
        BY <4>1, Zenon DEF FiniteSetsCount, SubsetsCount
      <4>3. Cardinality(new) \in Nat
        BY <4>2, Zenon DEF FiniteSetsCount, CountsAreNat
      <4> QED  BY <4>3, Zenon DEF PutsTo, new
    <3> QED  BY <1>1, <3>2, <3>3, Zenon DEF Shapes, TypeOK
  <2> QED  BY <1>2, <2>1 DEF Inv, Noted
<1>8. ASSUME Timely PROVE Timely'
  <2>1. CountedInTime' /\ ReadsFresh'
    BY <1>8, Zenon DEF Timely, CountedInTime, Holds, ReadsFresh
  <2>2. SubmittedInTime'
    BY <1>8, Zenon DEF Timely, SubmittedInTime, Current, Holds
  <2>3. CommittedInTime'
    <3> SUFFICES ASSUME NEW k \in 1 .. Len(committed'),
                        committed'[k].type = "sync", Current(committed[k])'
                 PROVE  Covered(committed[k], k)'
      BY Zenon DEF CommittedInTime
    <3>1. PICK o : o = committed'[k]
      BY Zenon
    <3>2. o \in SyncOps /\ Current(o)
      BY <1>2, <3>1 DEF Current, Op, SyncOps, PutOp
    <3>3. PutsTo(k - 1)' = PutsTo(k - 1)
      BY <1>1, <1>2
    <3>4. Covered(o, k)
      <4>1. CASE k \in 1 .. n
        BY <1>3, <1>8, <3>1, <3>2, <4>1, Zenon DEF Timely, CommittedInTime, n
      <4>2. CASE k \notin 1 .. n
        <5>1. o = op /\ o \in submitted /\ k - 1 = Len(committed)
          BY <1>1, <1>3, <3>1, <4>2 DEF n
        <5>2. Holds(o.server, o.queuelen)
          BY <1>8, <3>2, <5>1, Zenon DEF Timely, SubmittedInTime
        <5>3. PICK r \in Server, q \in Nat : r = o.server /\ q = o.queuelen
          BY <3>2, Zenon DEF SyncOps
        <5>4. PICK a \in Nat, b \in Nat : a = doOp[r].left /\ b = Len(getQueue[r])
          BY <1>1, ReplicaShapes, Zenon
        <5>5. q + a <= b
          BY <5>2, <5>3, <5>4, Zenon DEF Holds
        <5>6. ASSUME NEW m \in 1 .. q PROVE Floor(r, a + m) <= PutsTo(k - 1)
          <6>1. a + m \in 1 .. b
            BY <5>5
          <6>2. getQueue[r][a + m] \in Reader
            BY <1>1, <5>4, <6>1, ReplicaShapes
          <6>3. /\ Floor(r, a + m) <= acked /\ Floor(r, a + m) \in Nat
                /\ acked <= PutsTo(k - 1) /\ acked \in Nat
            BY <1>1, <5>1, <6>2, Zenon DEF Inv, Noted, Floor, Shapes, TypeOK
          <6>4. PutsTo(k - 1) \in Nat
            BY <1>1, <5>1, PutsAreNat, Zenon
          <6> QED  BY <6>3, <6>4
        <5> QED  BY <5>2, <5>3, <5>4, <5>6, Zenon DEF Covered
      <4> QED  BY <4>1, <4>2, Zenon
    <3>5. Covered(o, k)'
      BY <3>3, <3>4, Zenon DEF Covered, Holds, Floor
    <3> QED  BY <3>1, <3>5, Zenon DEF Covered, Holds, Floor
  <2>4. ServedInTime'
    <3>1. \A s \in Server : PutsTo(lastApplied[s])' = PutsTo(lastApplied[s])
      <4> SUFFICES ASSUME NEW s \in Server
                   PROVE  PutsTo(lastApplied[s])' = PutsTo(lastApplied[s])
        BY Zenon
      <4>1. PICK m \in 0 .. Len(committed) : m = lastApplied[s]
        BY <1>1, Zenon DEF Shapes, TypeOK
      <4>2. PutsTo(m)' = PutsTo(m)
        BY <1>2, Zenon
      <4> QED  BY <4>1, <4>2, Zenon DEF PutsTo
    <3> QED  BY <1>8, <3>1, Zenon DEF Timely, ServedInTime, Holds, Floor
  <2> QED  BY <2>1, <2>2, <2>3, <2>4, Zenon DEF Timely
<1> QED  BY <1>4, <1>5, <1>6, <1>7, <1>8, Frame, Zenon DEF Inv

LEMMA ClientPutKeeps ==
    ASSUME FiniteSetsCount, Inv, ClientPut
    PROVE  Inv'
<1>1. PutOp \in Op /\ PutOp.type # "sync"
  BY Zenon DEF Op, PutOp
<1> QED  BY <1>1, CommitKeeps, Zenon DEF ClientPut

LEMMA CommitSyncKeeps ==
    ASSUME FiniteSetsCount, Inv, NEW op \in submitted, CommitSync(op)
    PROVE  Inv'
<1>1. op \in Op
  BY Zenon DEF Inv, Shapes, Op
<1> QED  BY <1>1, CommitKeeps, Zenon DEF CommitSync

LEMMA PutReturnsKeeps ==
    ASSUME FiniteSetsCount, Inv, PutReturns
    PROVE  Inv'
<1> USE DEF PutReturns
<1>1. Shapes'
  <2>1. acked' \in Nat
    BY DEF Inv, Shapes, TypeOK
  <2> QED  BY <2>1, Zenon DEF Inv, Shapes, TypeOK
<1>2. Noted'
  <2>1. acked \in Nat /\ \A g \in Reader : get[g].floor \in Nat
    BY Zenon DEF Inv, Shapes, TypeOK
  <2>2. PutsIn(committed) = PutsTo(Len(committed)) /\ PutsIn(committed) \in Nat
    <3>1. Len(committed) \in Nat
      BY DEF Inv, Shapes
    <3> QED  BY <3>1, PutsAreNat, Zenon DEF PutsIn, PutsTo
  <2>3. acked' <= PutsTo(Len(committed))
    BY <2>1, <2>2
  <2>4. PutsTo(Len(committed))' = PutsTo(Len(committed))
    BY Zenon DEF PutsTo
  <2>5. \A g \in Reader : get'[g].floor <= acked'
    BY <2>1 DEF Inv, Noted
  <2> QED  BY <2>3, <2>4, <2>5, Zenon DEF Noted
<1>3. Timely => Timely'
  BY TimelyFrame, Zenon DEF Timely
<1> QED  BY <1>1, <1>2, <1>3, Frame, Zenon DEF Inv

-----------------------------------------------------------------------------
(* Gets enter the queues behind those that wait there, or DoOp takes the     *)
(* first of a queue: d tells which. What is counted stays where it was       *)
(* counted.                                                                  *)
LEMMA QueuesMove ==
    ASSUME Inv, Timely, NEW d \in [Server -> {0, 1}],
           UNCHANGED <<committed, submitted, syncVersion, loop>>,
           \A s \in Server :
               /\ doOp'[s].pc # "idle" => /\ doOp[s].pc # "idle"
                                          /\ lastApplied'[s] = lastApplied[s]
               /\ doOp'[s].left \in Nat /\ doOp'[s].left = doOp[s].left - d[s]
               /\ Len(getQueue'[s]) \in Nat
               /\ Len(getQueue'[s]) >= Len(getQueue[s]) - d[s]
               /\ \A k \in (d[s] + 1) .. Len(getQueue[s]) :
                     Floor(s, k - d[s])' = Floor(s, k)
    PROVE  CountedInTime' /\ SubmittedInTime' /\ CommittedInTime' /\ ServedInTime'
<1> DEFINE Moved(s) ==
        /\ doOp'[s].pc # "idle" => /\ doOp[s].pc # "idle"
                                   /\ lastApplied'[s] = lastApplied[s]
        /\ doOp'[s].left \in Nat /\ doOp'[s].left = doOp[s].left - d[s]
        /\ Len(getQueue'[s]) \in Nat
        /\ Len(getQueue'[s]) >= Len(getQueue[s]) - d[s]
        /\ \A k \in (d[s] + 1) .. Len(getQueue[s]) :
              Floor(s, k - d[s])' = Floor(s, k)
<1>0. \A s \in Server : Moved(s)
  BY Zenon
<1> HIDE DEF Moved
<1>1. ASSUME NEW s \in Server, NEW n \in Nat, Holds(s, n)
      PROVE  /\ Holds(s, n)'
             /\ \A m \in 1 .. n :
                   Floor(s, doOp[s].left + m)' = Floor(s, doOp[s].left + m)
  <2>1. /\ Len(getQueue[s]) \in Nat /\ doOp[s].left \in Nat /\ d[s] \in {0, 1}
        /\ n + doOp[s].left <= Len(getQueue[s])
    BY <1>1, ReplicaShapes, Zenon DEF Inv, Holds
  <2>2. Moved(s)
    BY <1>0, Zenon
  <2>3. /\ n + doOp'[s].left <= Len(getQueue'[s])
        /\ \A m \in 1 .. n :
              /\ doOp[s].left + m \in (d[s] + 1) .. Len(getQueue[s])
              /\ doOp'[s].left + m = (doOp[s].left + m) - d[s]
    <3>1. /\ doOp'[s].left \in Nat /\ doOp'[s].left = doOp[s].left - d[s]
          /\ Len(getQueue'[s]) \in Nat
          /\ Len(getQueue'[s]) >= Len(getQueue[s]) - d[s]
      BY <2>2, Zenon DEF Moved
    <3>2. PICK a \in Nat, b \in Nat, a1 \in Nat, b1 \in Nat, e \in {0, 1} :
              /\ a = doOp[s].left /\ b = Len(getQueue[s]) /\ e = d[s]
              /\ a1 = doOp'[s].left /\ b1 = Len(getQueue'[s])
      BY <2>1, <3>1, Zenon
    <3>3. n + a <= b /\ a1 = a - e /\ b1 >= b - e
      BY <2>1, <3>1, <3>2, Zenon
    <3>4. /\ n + a1 <= b1
          /\ \A m \in 1 .. n : /\ a + m \in (e + 1) .. b
                               /\ a1 + m = (a + m) - e
      BY <3>3, Places
    <3> QED  BY <3>2, <3>4, Zenon
  <2>4. ASSUME NEW m \in 1 .. n
        PROVE  Floor(s, doOp[s].left + m)' = Floor(s, doOp[s].left + m)
    <3>1. PICK p \in Nat : p = doOp[s].left + m
      BY <2>1
    <3>2. /\ p \in (d[s] + 1) .. Len(getQueue[s])
          /\ doOp'[s].left + m = p - d[s]
      BY <2>3, <3>1, Zenon
    <3>3. Floor(s, p - d[s])' = Floor(s, p)
      BY <2>2, <3>2, Zenon DEF Moved
    <3> QED  BY <3>1, <3>2, <3>3, Zenon DEF Floor
  <2> QED  BY <2>3, <2>4, Zenon DEF Holds
<1>2. CountedInTime'
  <2> SUFFICES ASSUME NEW s \in Server, loop[s].pc = "version"
               PROVE  Holds(s, loop[s].queuelen)'
    BY Zenon DEF CountedInTime
  <2>1. PICK n \in Nat : n = loop[s].queuelen
    BY ReplicaShapes, Zenon DEF Inv
  <2>2. Holds(s, n)
    BY <2>1, Zenon DEF Timely, CountedInTime
  <2>3. Holds(s, n)'
    BY <1>1, <2>2, Zenon
  <2> QED  BY <2>1, <2>3, Zenon DEF Holds
<1>3. SubmittedInTime'
  <2> SUFFICES ASSUME NEW op \in submitted, Current(op)
               PROVE  Holds(op.server, op.queuelen)'
    BY Zenon DEF SubmittedInTime, Current
  <2>1. op.server \in Server /\ op.queuelen \in Nat
    BY Zenon DEF Inv, Shapes, SyncOps
  <2>2. Holds(op.server, op.queuelen)
    BY Zenon DEF Timely, SubmittedInTime
  <2> QED  BY <1>1, <2>1, <2>2, Zenon
<1>4. CommittedInTime'
  <2> SUFFICES ASSUME NEW k \in 1 .. Len(committed),
                      committed[k].type = "sync", Current(committed[k])
               PROVE  Covered(committed[k], k)'
    BY Zenon DEF CommittedInTime, Current
  <2>1. PICK o : o = committed[k]
    BY Zenon
  <2>2. o \in SyncOps
    BY <2>1 DEF Inv, Shapes, Op, PutOp
  <2>3. PICK r \in Server, n \in Nat : r = o.server /\ n = o.queuelen
    BY <2>2, Zenon DEF SyncOps
  <2>4. /\ Holds(r, n)
        /\ \A m \in 1 .. n : Floor(r, doOp[r].left + m) <= PutsTo(k - 1)
    BY <2>1, <2>3, Zenon DEF Timely, CommittedInTime, Covered
  <2>5. /\ Holds(r, n)'
        /\ \A m \in 1 .. n :
              Floor(r, doOp[r].left + m)' = Floor(r, doOp[r].left + m)
    BY <1>1, <2>4, Zenon
  <2>6. PutsTo(k - 1)' = PutsTo(k - 1)
    BY Zenon DEF PutsTo
  <2>7. \A m \in 1 .. n : Floor(r, doOp[r].left + m)' <= PutsTo(k - 1)'
    BY <2>4, <2>5, <2>6, Zenon
  <2>8. Covered(o, k)'
    BY <2>3, <2>5, <2>7, Zenon DEF Covered
  <2> QED  BY <2>1, <2>8, Zenon DEF Covered, Holds, Floor
<1>5. ServedInTime'
  <2> SUFFICES ASSUME NEW s \in Server, doOp'[s].pc # "idle"
               PROVE  /\ Holds(s, 0)'
                      /\ \A m \in 1 .. doOp'[s].left :
                            Floor(s, m)' <= PutsTo(lastApplied[s])'
    BY Zenon DEF ServedInTime
  <2>1. Moved(s) /\ d[s] \in {0, 1}
    BY <1>0, Zenon
  <2>2. /\ Holds(s, 0)
        /\ \A m \in 1 .. doOp[s].left : Floor(s, m) <= PutsTo(lastApplied[s])
    BY <2>1, Zenon DEF Timely, ServedInTime, Moved
  <2>3. Holds(s, 0)'
    BY <1>1, <2>2, Zenon
  <2>4. /\ doOp[s].left \in Nat /\ Len(getQueue[s]) \in Nat
        /\ 0 + doOp[s].left <= Len(getQueue[s])
    BY <2>2, ReplicaShapes, Zenon DEF Inv, Holds
  <2>5. ASSUME NEW m \in 1 .. doOp'[s].left
        PROVE  Floor(s, m)' <= PutsTo(lastApplied[s])'
    <3>1. PICK p \in Nat : p = m + d[s]
      BY <2>1
    <3>2. /\ p \in (d[s] + 1) .. Len(getQueue[s]) /\ p \in 1 .. doOp[s].left
          /\ p - d[s] = m
      BY <2>1, <2>4, <3>1 DEF Moved
    <3>3. Floor(s, p - d[s])' = Floor(s, p)
      BY <2>1, <3>2, Zenon DEF Moved
    <3>4. Floor(s, m)' = Floor(s, p)
      BY <3>2, <3>3, Zenon DEF Floor
    <3>5. PutsTo(lastApplied[s])' = PutsTo(lastApplied[s])
      BY <2>1, Zenon DEF PutsTo, Moved
    <3> QED  BY <2>2, <3>2, <3>4, <3>5, Zenon
  <2> QED  BY <2>3, <2>5, Zenon
<1> QED  BY <1>2, <1>3, <1>4, <1>5, Zenon

\* Nobody leaves a queue.
LEMMA QueuesStay ==
    ASSUME Inv, Timely,
           UNCHANGED <<committed, submitted, syncVersion, loop>>,
           \A s \in Server :
               /\ doOp'[s].pc # "idle" => /\ doOp[s].pc # "idle"
                                          /\ lastApplied'[s] = lastApplied[s]
               /\ doOp'[s].left = doOp[s].left
               /\ Len(getQueue'[s]) \in Nat
               /\ Len(getQueue'[s]) >= Len(getQueue[s])
               /\ \A k \in 1 .. Len(getQueue[s]) : Floor(s, k)' = Floor(s, k)
    PROVE  CountedInTime' /\ SubmittedInTime' /\ CommittedInTime' /\ ServedInTime'
<1> DEFINE d == [s \in Server |-> 0]
<1>1. ASSUME NEW s \in Server
      PROVE  /\ doOp'[s].pc # "idle" => /\ doOp[s].pc # "idle"
                                        /\ lastApplied'[s] = lastApplied[s]
             /\ doOp'[s].left \in Nat /\ doOp'[s].left = doOp[s].left - d[s]
             /\ Len(getQueue'[s]) \in Nat
             /\ Len(getQueue'[s]) >= Len(getQueue[s]) - d[s]
             /\ \A k \in (d[s] + 1) .. Len(getQueue[s]) :
                   Floor(s, k - d[s])' = Floor(s, k)
  <2>1. d[s] = 0 /\ doOp[s].left \in Nat /\ Len(getQueue[s]) \in Nat
    BY ReplicaShapes, Zenon DEF Inv
  <2>2. ASSUME NEW k \in (d[s] + 1) .. Len(getQueue[s])
        PROVE  Floor(s, k - d[s])' = Floor(s, k)
    <3>1. k \in 1 .. Len(getQueue[s]) /\ k - d[s] = k
      BY <2>1
    <3>2. Floor(s, k)' = Floor(s, k)
      BY <3>1, Zenon
    <3> QED  BY <3>1, <3>2, Zenon
  <2> QED  BY <2>1, <2>2
<1>2. d \in [Server -> {0, 1}]
  BY Zenon
<1> HIDE DEF d
<1> QED  BY <1>1, <1>2, QueuesMove, Zenon

LEMMA GetCountedKeeps ==
    ASSUME FiniteSetsCount, Inv, NEW g \in Reader, NEW s \in Server, GetCounted(g, s)
    PROVE  Inv'
<1> DEFINE f == IF get[g].pc = "new" THEN acked ELSE get[g].floor
           x == [get[g] EXCEPT !.pc = "counted", !.at = s, !.floor = f]
<1>1. /\ get[g].pc \in {"new", "failed"}
      /\ getQueueLen' = [getQueueLen EXCEPT ![s] = @ + 1]
      /\ UNCHANGED <<committed, submitted, acked, lastApplied, syncVersion,
                     getQueue, loop, doOp, overcounted, fails, restarts>>
  BY Zenon DEF GetCounted, ClerkCalls
<1>2. Shapes /\ get \in [Reader -> Calls] /\ acked \in Nat
  BY Zenon DEF Inv, Shapes, TypeOK, Calls
<1>3. get' = [get EXCEPT ![g] = x]
  BY <1>2, Zenon DEF GetCounted
<1>4. /\ x \in Calls /\ x.pc = "counted" /\ x.at = s
      /\ x.floor \in {acked, get[g].floor}
  <2>1. get[g] \in Calls /\ f \in Nat /\ f \in {acked, get[g].floor}
    BY <1>2, Zenon DEF Calls
  <2> HIDE DEF f
  <2> QED  BY <2>1, Zenon DEF Calls
<1> HIDE DEF x
<1>5. /\ get' \in [Reader -> Calls] /\ get'[g] = x
      /\ \A h \in Reader : h # g => get'[h] = get[h]
  BY <1>2, <1>3, <1>4, GetMoves, Zenon
<1>6. /\ get'[g].pc = "counted" /\ get'[g].at = s
      /\ get'[g].floor \in {acked, get[g].floor}
  BY <1>4, <1>5, Zenon
<1>7. Shapes'
  <2>1. getQueueLen \in [Server -> Int]
    BY <1>2, Zenon DEF Shapes, TypeOK
  <2>2. getQueueLen' \in [Server -> Int]
    BY <1>1, <2>1
  <2> QED  BY <1>1, <1>2, <1>5, <2>2, Zenon DEF Shapes, TypeOK, Calls
<1>8. \A r \in Server : \A k \in 1 .. Len(getQueue[r]) :
          /\ getQueue[r][k] \in Reader
          /\ get'[getQueue[r][k]] = get[getQueue[r][k]]
  <2> TAKE r \in Server
  <2> TAKE k \in 1 .. Len(getQueue[r])
  <2>1. getQueue[r][k] \in Reader
    BY <1>2, ReplicaShapes
  <2>2. Queued(r)
    BY Zenon DEF Inv
  <2>3. getQueue[r][k] # g
    BY <1>1, <2>2, Zenon DEF Queued
  <2> QED  BY <1>5, <2>1, <2>3, Zenon
<1>9. ASSUME NEW r \in Server PROVE Queued(r)'
  <2>1. Queued(r) /\ getQueue'[r] = getQueue[r]
    BY <1>1, Zenon DEF Inv
  <2> QED  BY <1>8, <2>1 DEF Queued
<1>10. QueueAccounted'
  <2> SUFFICES ASSUME NEW r \in Server
               PROVE  getQueueLen'[r] =
                          Cardinality(Waiting(r)')
                          - (IF doOp[r].pc = "serve" THEN doOp[r].left ELSE 0)
    BY <1>1, Zenon DEF QueueAccounted
  <2>1. /\ getQueueLen[r] =
               Cardinality(Waiting(r))
               - (IF doOp[r].pc = "serve" THEN doOp[r].left ELSE 0)
        /\ getQueueLen \in [Server -> Int] /\ doOp[r].left \in Nat
    BY <1>2, ReplicaShapes, Zenon DEF Inv, QueueAccounted, Shapes, TypeOK
  <2>2. CASE r # s
    <3>1. Waiting(r)' = Waiting(r)
      BY <1>1, <1>5, <1>6, <2>2, Zenon DEF Waiting
    <3>2. getQueueLen'[r] = getQueueLen[r]
      BY <1>1, <2>1, <2>2, Zenon
    <3> QED  BY <2>1, <3>1, <3>2, Zenon
  <2>3. CASE r = s
    <3>1. Waiting(r)' = Waiting(r) \cup {g} /\ g \notin Waiting(r)
      BY <1>1, <1>5, <1>6, <2>3, Zenon DEF Waiting
    <3>2. IsFiniteSet(Waiting(r))
      <4>1. IsFiniteSet(Reader) /\ Waiting(r) \subseteq Reader
        BY KVAssumption, Zenon DEF Waiting
      <4> QED  BY <4>1, Zenon DEF FiniteSetsCount, SubsetsCount
    <3>3. Cardinality(Waiting(r)) \in Nat
      BY <3>2, Zenon DEF FiniteSetsCount, CountsAreNat
    <3>4. Cardinality(Waiting(r) \cup {g}) = Cardinality(Waiting(r)) + 1
      BY <3>1, <3>2, Zenon DEF FiniteSetsCount, OneMoreCounts
    <3>5. getQueueLen'[r] = getQueueLen[r] + 1
      BY <1>1, <2>1, <2>3, Zenon
    <3> QED  BY <2>1, <3>1, <3>3, <3>4, <3>5
  <2> QED  BY <2>2, <2>3, Zenon
<1>11. Noted'
  <2>1. PutsTo(Len(committed))' = PutsTo(Len(committed))
    BY <1>1, Zenon DEF PutsTo
  <2>2. acked <= PutsTo(Len(committed)) /\ \A h \in Reader : get[h].floor <= acked
    BY Zenon DEF Inv, Noted
  <2>3. ASSUME NEW h \in Reader PROVE get'[h].floor <= acked
    <3>1. CASE h = g
      BY <1>2, <1>6, <2>2, <3>1
    <3>2. CASE h # g
      BY <1>5, <2>2, <3>2, Zenon
    <3> QED  BY <3>1, <3>2, Zenon
  <2> QED  BY <1>1, <2>1, <2>2, <2>3, Zenon DEF Noted
<1>12. ASSUME Timely PROVE Timely'
  <2>1. \A r \in Server : \A k \in 1 .. Len(getQueue[r]) :
            Floor(r, k)' = Floor(r, k)
    BY <1>1, <1>8, Zenon DEF Floor
  <2>2. CountedInTime' /\ SubmittedInTime' /\ CommittedInTime' /\ ServedInTime'
    BY <1>1, <1>12, <2>1, QueuesStay, ReplicaShapes DEF Inv
  <2>3. ReadsFresh'
    BY <1>5, <1>6, <1>12, Zenon DEF Timely, ReadsFresh
  <2> QED  BY <2>2, <2>3, Zenon DEF Timely
<1> QED  BY <1>1, <1>7, <1>9, <1>10, <1>11, <1>12, Frame, Zenon DEF Inv

LEMMA GetQueuedKeeps ==
    ASSUME Inv, NEW g \in Reader, GetQueued(g)
    PROVE  Inv'
<1>1. Shapes /\ get \in [Reader -> Calls] /\ getQueue \in [Server -> Seq(Reader)]
  BY Zenon DEF Inv, Shapes, TypeOK, Calls
<1>2. PICK s \in Server : s = get[g].at
  BY <1>1, Zenon DEF Calls
<1>3. /\ get[g].pc = "counted"
      /\ getQueue' = [getQueue EXCEPT ![s] = Append(getQueue[s], g)]
      /\ UNCHANGED <<committed, submitted, acked, lastApplied, syncVersion,
                     getQueueLen, loop, doOp, overcounted, fails, restarts>>
  BY <1>2, Zenon DEF GetQueued
<1>4. get' = [get EXCEPT ![g] = [get[g] EXCEPT !.pc = "queued"]]
  BY <1>1, Zenon DEF GetQueued
<1>5. [get[g] EXCEPT !.pc = "queued"] \in Calls
  BY <1>1, Zenon DEF Calls
<1>6. /\ get' \in [Reader -> Calls]
      /\ get'[g].pc = "queued"
      /\ \A h \in Reader : /\ h # g => get'[h] = get[h]
                           /\ get'[h].at = get[h].at
                           /\ get'[h].floor = get[h].floor
                           /\ get'[h].value = get[h].value
  <2>1. /\ get' \in [Reader -> Calls]
        /\ get'[g] = [get[g] EXCEPT !.pc = "queued"]
        /\ \A h \in Reader : h # g => get'[h] = get[h]
    BY <1>1, <1>4, <1>5, GetMoves, Zenon
  <2>2. get[g] \in Calls
    BY <1>1, Zenon
  <2>3. /\ get'[g].pc = "queued" /\ get'[g].at = get[g].at
        /\ get'[g].floor = get[g].floor /\ get'[g].value = get[g].value
    BY <2>1, <2>2, Zenon DEF Calls
  <2> QED  BY <2>1, <2>3, Zenon
<1>7. /\ getQueue[s] \in Seq(Reader)
      /\ getQueue'[s] \in Seq(Reader)
      /\ Len(getQueue'[s]) = Len(getQueue[s]) + 1
      /\ \A k \in 1 .. Len(getQueue[s]) : getQueue'[s][k] = getQueue[s][k]
      /\ getQueue'[s][Len(getQueue[s]) + 1] = g
      /\ \A r \in Server : r # s => getQueue'[r] = getQueue[r]
  <2>1. getQueue'[s] = Append(getQueue[s], g) /\ getQueue[s] \in Seq(Reader)
    BY <1>1, <1>3, Zenon
  <2> QED  BY <1>1, <1>3, <2>1
<1>8. Shapes'
  <2>1. getQueue' \in [Server -> Seq(Reader)]
    BY <1>1, <1>3, <1>7, Zenon
  <2> QED  BY <1>1, <1>3, <1>6, <2>1, Zenon DEF Shapes, TypeOK, Calls
<1>9. \A r \in Server : \A k \in 1 .. Len(getQueue[r]) :
          /\ getQueue[r][k] \in Reader /\ getQueue[r][k] # g
          /\ getQueue'[r][k] = getQueue[r][k]
          /\ get'[getQueue[r][k]] = get[getQueue[r][k]]
  <2> TAKE r \in Server
  <2> TAKE k \in 1 .. Len(getQueue[r])
  <2>1. getQueue[r][k] \in Reader
    BY <1>1, ReplicaShapes
  <2>2. Queued(r)
    BY Zenon DEF Inv
  <2>3. getQueue[r][k] # g
    BY <1>3, <2>2, Zenon DEF Queued
  <2>4. getQueue'[r][k] = getQueue[r][k]
    BY <1>7, Zenon
  <2> QED  BY <1>6, <2>1, <2>3, <2>4, Zenon
<1>10. ASSUME NEW r \in Server PROVE Queued(r)'
  <2>0. Queued(r)
    BY Zenon DEF Inv
  <2>1. CASE r # s
    <3>1. getQueue'[r] = getQueue[r]
      BY <1>7, <2>1, Zenon
    <3> QED  BY <1>9, <2>0, <3>1 DEF Queued
  <2>2. CASE r = s
    <3>1. PICK n \in Nat : n = Len(getQueue[r])
      BY <1>7, <2>2
    <3>2. /\ Len(getQueue'[r]) = n + 1 /\ getQueue'[r][n + 1] = g
          /\ \A k \in 1 .. n : /\ getQueue'[r][k] = getQueue[r][k]
                               /\ getQueue[r][k] # g
                               /\ get'[getQueue[r][k]] = get[getQueue[r][k]]
      BY <1>7, <1>9, <2>2, <3>1
    <3>3. \A k \in 1 .. (n + 1) : k \in 1 .. n \/ k = n + 1
      OBVIOUS
    <3>4. \A k \in 1 .. (n + 1) : /\ get'[getQueue'[r][k]].pc = "queued"
                                  /\ get'[getQueue'[r][k]].at = r
      <4> TAKE k \in 1 .. (n + 1)
      <4>1. CASE k \in 1 .. n
        BY <2>0, <3>1, <3>2, <4>1 DEF Queued
      <4>2. CASE k = n + 1
        BY <1>2, <1>6, <2>2, <3>2, <4>2, Zenon
      <4> QED  BY <3>3, <4>1, <4>2, Zenon
    <3>5. ASSUME NEW j \in 1 .. (n + 1), NEW k \in 1 .. (n + 1),
                 getQueue'[r][j] = getQueue'[r][k]
          PROVE  j = k
      <4>1. CASE j \in 1 .. n /\ k \in 1 .. n
        BY <2>0, <3>1, <3>2, <3>5, <4>1, Zenon DEF Queued
      <4>2. CASE j = n + 1 /\ k \in 1 .. n
        BY <3>2, <3>5, <4>2, Zenon
      <4>3. CASE j \in 1 .. n /\ k = n + 1
        BY <3>2, <3>5, <4>3, Zenon
      <4> QED  BY <3>3, <4>1, <4>2, <4>3, Zenon
    <3> QED  BY <3>2, <3>4, <3>5, Zenon DEF Queued
  <2> QED  BY <2>1, <2>2, Zenon
<1>11. QueueAccounted'
  <2>1. ASSUME NEW r \in Server PROVE Waiting(r)' = Waiting(r)
    BY <1>3, <1>6, Zenon DEF Waiting
  <2> QED  BY <1>3, <2>1, Zenon DEF Inv, QueueAccounted
<1>12. Noted'
  <2>1. PutsTo(Len(committed))' = PutsTo(Len(committed))
    BY <1>3, Zenon DEF PutsTo
  <2> QED  BY <1>3, <1>6, <2>1, Zenon DEF Inv, Noted
<1>13. ASSUME Timely PROVE Timely'
  <2>1. \A r \in Server : \A k \in 1 .. Len(getQueue[r]) :
            Floor(r, k)' = Floor(r, k)
    BY <1>9 DEF Floor
  <2>2. ASSUME NEW r \in Server
        PROVE  /\ Len(getQueue'[r]) \in Nat
               /\ Len(getQueue'[r]) >= Len(getQueue[r])
    <3>1. Len(getQueue[r]) \in Nat
      BY <1>1, ReplicaShapes, Zenon
    <3>2. CASE r = s
      BY <1>7, <3>1, <3>2
    <3>3. CASE r # s
      BY <1>7, <3>1, <3>3
    <3> QED  BY <3>2, <3>3, Zenon
  <2>3. CountedInTime' /\ SubmittedInTime' /\ CommittedInTime' /\ ServedInTime'
    BY <1>3, <1>13, <2>1, <2>2, QueuesStay, Zenon
  <2>4. ReadsFresh'
    <3>1. \A h \in Reader : get'[h].pc = "done" => get[h].pc = "done"
      BY <1>6, Zenon
    <3> QED  BY <1>6, <1>13, <3>1, Zenon DEF Timely, ReadsFresh
  <2> QED  BY <2>3, <2>4, Zenon DEF Timely
<1> QED  BY <1>3, <1>8, <1>10, <1>11, <1>12, <1>13, Frame, Zenon DEF Inv

-----------------------------------------------------------------------------
\* The places of the n Gets behind those that DoOp takes out.
LEMMA Behind ==
    ASSUME Shapes, NEW s \in Server, NEW n \in Nat, Holds(s, n)
    PROVE  \A m \in 1 .. n : doOp[s].left + m \in 1 .. Len(getQueue[s])
<1>1. PICK a \in Nat, b \in Nat : a = doOp[s].left /\ b = Len(getQueue[s])
  BY ReplicaShapes, Zenon
<1>2. n + a <= b
  BY <1>1, Zenon DEF Holds
<1>3. \A m \in 1 .. n : a + m \in 1 .. b
  BY <1>2
<1> QED  BY <1>1, <1>3, Zenon

(* The sync loop of a replica goes to x. A Put that it waits for it still    *)
(* waits for, and what it counts is in the queue.                            *)
LEMMA LoopKeeps ==
    ASSUME Inv, NEW s \in Server, NEW x \in Loops,
           loop' = [loop EXCEPT ![s] = x],
           x.pc # "count" => x.queuelen > 0,
           \A op \in SyncOps :
               op.server = s /\ Known(op) /\ Current(op)
                   => x.pc \in {"submitted", "spin"} /\ x.version = op.version,
           UNCHANGED <<committed, submitted, acked, lastApplied, syncVersion,
                       getQueueLen, getQueue, doOp, get, fails, restarts>>,
           overcounted' \in BOOLEAN,
           ~ overcounted' => /\ ~ overcounted
                             /\ x.pc = "version" => Holds(s, x.queuelen)
    PROVE  Inv'
<1>1. Shapes /\ loop \in [Server -> Loops]
  BY Zenon DEF Inv, Shapes, TypeOK, Loops
<1>2. /\ loop' \in [Server -> Loops] /\ loop'[s] = x
      /\ \A r \in Server : r # s => loop'[r] = loop[r]
  BY <1>1, Zenon
<1>3. Shapes'
  BY <1>1, <1>2, Zenon DEF Shapes, TypeOK, Loops
<1>4. ASSUME NEW r \in Server PROVE Stages(r)'
  <2>1. Stages(r)
    BY Zenon DEF Inv
  <2>2. CASE r = s
    BY <1>2, <2>1, <2>2, Zenon DEF Stages
  <2>3. CASE r # s
    BY <1>2, <2>1, <2>3, Zenon DEF Stages
  <2> QED  BY <2>2, <2>3, Zenon
<1>5. ASSUME NEW op \in SyncOps, Known(op) PROVE Known(op)'
  <2>1. op.server \in Server
    BY Zenon DEF SyncOps
  <2>2. CASE op.server = s
    BY <1>2, <1>5, <2>2, Zenon DEF Known, Current
  <2>3. CASE op.server # s
    BY <1>2, <1>5, <2>1, <2>3, Zenon DEF Known, Current
  <2> QED  BY <2>2, <2>3, Zenon
<1>6. Rounds'
  <2>1. ASSUME NEW op \in submitted PROVE Known(op)'
    BY <1>1, <1>5, Zenon DEF Inv, Rounds, Shapes
  <2>2. ASSUME NEW k \in 1 .. Len(committed), committed[k].type = "sync"
        PROVE  Known(committed[k])'
    <3>1. PICK o : o = committed[k]
      BY Zenon
    <3>2. o \in SyncOps /\ Known(o)
      BY <1>1, <2>2, <3>1 DEF Inv, Rounds, Shapes, Op, PutOp
    <3>3. Known(o)'
      BY <1>5, <3>2, Zenon
    <3> QED  BY <3>1, <3>3, Zenon DEF Known, Current
  <2> QED  BY <2>1, <2>2, Zenon DEF Rounds
<1>7. ASSUME ~ overcounted' PROVE Timely'
  <2>1. Timely /\ (x.pc = "version" => Holds(s, x.queuelen))
    BY <1>7, Zenon DEF Inv
  <2>2. SubmittedInTime' /\ CommittedInTime' /\ ServedInTime' /\ ReadsFresh'
    BY <2>1, TimelyFrame, Zenon
  <2>3. CountedInTime'
    <3> SUFFICES ASSUME NEW r \in Server, loop'[r].pc = "version"
                 PROVE  Holds(r, loop[r].queuelen)'
      BY Zenon DEF CountedInTime
    <3>1. CASE r = s
      BY <1>2, <2>1, <3>1, Zenon DEF Holds
    <3>2. CASE r # s
      BY <1>2, <2>1, <3>2, Zenon DEF Timely, CountedInTime, Holds
    <3> QED  BY <3>1, <3>2, Zenon
  <2> QED  BY <2>2, <2>3, Zenon DEF Timely
<1>8. (\A r \in Server : Queued(r)') /\ QueueAccounted' /\ Noted'
  BY Frame, Zenon
<1> QED  BY <1>3, <1>4, <1>6, <1>7, <1>8, Zenon DEF Inv

LEMMA LoopCountKeeps ==
    ASSUME Inv, NEW s \in Server, LoopCount(s)
    PROVE  Inv'
<1> DEFINE x == [loop[s] EXCEPT !.pc = "version", !.queuelen = getQueueLen[s]]
<1>1. /\ loop[s].pc = "count" /\ getQueueLen[s] > 0
      /\ UNCHANGED <<committed, submitted, acked, lastApplied, syncVersion,
                     getQueueLen, getQueue, doOp, get, fails, restarts>>
  BY Zenon DEF LoopCount
<1>2. Shapes /\ loop \in [Server -> Loops] /\ getQueueLen[s] \in Int
  BY Zenon DEF Inv, Shapes, TypeOK, Loops
<1>3. loop' = [loop EXCEPT ![s] = x]
  BY <1>2, Zenon DEF LoopCount
<1>4. x \in Loops /\ x.pc = "version" /\ x.queuelen = getQueueLen[s]
  <2>1. loop[s] \in Loops /\ getQueueLen[s] \in Nat
    BY <1>1, <1>2
  <2> QED  BY <2>1, Zenon DEF Loops
<1> HIDE DEF x
<1>5. overcounted' \in BOOLEAN
  BY Zenon DEF LoopCount
<1>6. ASSUME ~ overcounted' PROVE ~ overcounted /\ Holds(s, x.queuelen)
  <2>1. ~ overcounted /\ ~ getQueueLen[s] > Len(getQueue[s]) - doOp[s].left
    BY <1>6, Zenon DEF LoopCount, Servable
  <2>2. Len(getQueue[s]) \in Nat /\ doOp[s].left \in Nat
    BY <1>2, ReplicaShapes, Zenon
  <2> QED  BY <1>2, <1>4, <2>1, <2>2 DEF Holds
<1>7. \A op \in SyncOps : ~ (op.server = s /\ Known(op) /\ Current(op))
  BY <1>1, Zenon DEF Known
<1> QED  BY <1>1, <1>3, <1>4, <1>5, <1>6, <1>7, LoopKeeps, Zenon

LEMMA LoopOKKeeps ==
    ASSUME Inv, NEW s \in Server, LoopOK(s)
    PROVE  Inv'
<1> DEFINE x == [loop[s] EXCEPT !.pc = "spin"]
<1>1. /\ loop[s].pc = "submitted"
      /\ UNCHANGED <<committed, submitted, acked, lastApplied, syncVersion,
                     getQueueLen, getQueue, doOp, get, overcounted, fails,
                     restarts>>
  BY Zenon DEF LoopOK
<1>2. loop \in [Server -> Loops] /\ loop[s] \in Loops /\ overcounted \in BOOLEAN
  BY Zenon DEF Inv, Shapes, TypeOK, Loops
<1>3. loop' = [loop EXCEPT ![s] = x]
  BY <1>2, Zenon DEF LoopOK
<1>4. /\ x \in Loops /\ x.pc = "spin" /\ x.queuelen = loop[s].queuelen
      /\ x.version = loop[s].version
  BY <1>2, Zenon DEF Loops
<1> HIDE DEF x
<1>5. loop[s].queuelen > 0
  BY <1>1, Zenon DEF Inv, Stages
<1>6. \A op \in SyncOps :
          op.server = s /\ Known(op) /\ Current(op)
              => x.pc \in {"submitted", "spin"} /\ x.version = op.version
  BY <1>4, Zenon DEF Known
<1>7. overcounted' \in BOOLEAN /\ (~ overcounted' => ~ overcounted)
  BY <1>1, <1>2, Zenon
<1>8. x.pc # "version" /\ (x.pc # "count" => x.queuelen > 0)
  BY <1>4, <1>5, Zenon
<1> QED  BY <1>1, <1>3, <1>4, <1>6, <1>7, <1>8, LoopKeeps, Zenon

LEMMA LoopSeesAppliedKeeps ==
    ASSUME Inv, NEW s \in Server, LoopSeesApplied(s)
    PROVE  Inv'
<1> DEFINE x == [loop[s] EXCEPT !.pc = "count"]
<1>1. /\ syncVersion[s] # loop[s].version
      /\ UNCHANGED <<committed, submitted, acked, lastApplied, syncVersion,
                     getQueueLen, getQueue, doOp, get, overcounted, fails,
                     restarts>>
  BY Zenon DEF LoopSeesApplied
<1>2. loop \in [Server -> Loops] /\ loop[s] \in Loops /\ overcounted \in BOOLEAN
  BY Zenon DEF Inv, Shapes, TypeOK, Loops
<1>3. loop' = [loop EXCEPT ![s] = x]
  BY <1>2, Zenon DEF LoopSeesApplied
<1>4. x \in Loops /\ x.pc = "count"
  BY <1>2, Zenon DEF Loops
<1> HIDE DEF x
<1>5. \A op \in SyncOps : ~ (op.server = s /\ Known(op) /\ Current(op))
  BY <1>1, Zenon DEF Known, Current
<1>6. overcounted' \in BOOLEAN /\ (~ overcounted' => ~ overcounted)
  BY <1>1, <1>2, Zenon
<1>7. x.pc # "version" /\ (x.pc # "count" => x.queuelen > 0)
  BY <1>4, Zenon
<1> QED  BY <1>1, <1>3, <1>4, <1>5, <1>6, <1>7, LoopKeeps, Zenon

\* The Put that the loop submits is the first of its version.
LEMMA LoopSubmitKeeps ==
    ASSUME Inv, NEW s \in Server, LoopSubmit(s)
    PROVE  Inv'
<1> DEFINE x == [loop[s] EXCEPT !.pc = "submitted", !.version = syncVersion[s]]
           new == SyncOp(s, loop[s].queuelen, syncVersion[s])
<1>1. /\ loop[s].pc = "version"
      /\ submitted' = submitted \cup {new}
      /\ UNCHANGED <<committed, acked, lastApplied, syncVersion, getQueueLen,
                     getQueue, doOp, get, overcounted, fails, restarts>>
  BY Zenon DEF LoopSubmit
<1>2. /\ Shapes /\ loop \in [Server -> Loops] /\ loop[s] \in Loops
      /\ syncVersion[s] \in Nat /\ loop[s].queuelen \in Nat
  BY Zenon DEF Inv, Shapes, TypeOK, Loops
<1>3. loop' = [loop EXCEPT ![s] = x]
  BY <1>2, Zenon DEF LoopSubmit
<1>4. /\ x \in Loops /\ x.pc = "submitted" /\ x.version = syncVersion[s]
      /\ x.queuelen = loop[s].queuelen
  BY <1>2, Zenon DEF Loops
<1>5. loop[s].queuelen > 0
  BY <1>1, Zenon DEF Inv, Stages
<1>6. /\ loop' \in [Server -> Loops]
      /\ loop'[s].pc = "submitted" /\ loop'[s].version = syncVersion[s]
      /\ loop'[s].queuelen = loop[s].queuelen
      /\ \A r \in Server : r # s => loop'[r] = loop[r]
  <2> HIDE DEF x
  <2> QED  BY <1>2, <1>3, <1>4, Zenon
<1>7. /\ new \in SyncOps /\ new.server = s /\ new.version = syncVersion[s]
      /\ new.queuelen = loop[s].queuelen
  BY <1>2, <1>5 DEF SyncOp, SyncOps
<1> HIDE DEF x, new
<1>8. Shapes'
  <2>1. submitted' \subseteq SyncOps
    BY <1>1, <1>2, <1>7, Zenon DEF Shapes
  <2>2. \A op \in submitted' : op.server \in Server /\ op.queuelen > 0
    BY <2>1 DEF SyncOps
  <2> QED  BY <1>1, <1>2, <1>6, <2>1, <2>2, Zenon DEF Shapes, TypeOK, Loops
<1>9. ASSUME NEW r \in Server PROVE Stages(r)'
  <2>1. Stages(r)
    BY Zenon DEF Inv
  <2>2. CASE r = s
    BY <1>1, <1>5, <1>6, <2>1, <2>2, Zenon DEF Stages
  <2>3. CASE r # s
    BY <1>1, <1>6, <2>1, <2>3, Zenon DEF Stages
  <2> QED  BY <2>2, <2>3, Zenon
<1>10. ASSUME NEW op \in SyncOps, Known(op) PROVE Known(op)'
  <2>1. op.server \in Server
    BY Zenon DEF SyncOps
  <2>2. CASE op.server = s
    BY <1>1, <1>10, <2>2, Zenon DEF Known, Current
  <2>3. CASE op.server # s
    BY <1>1, <1>6, <1>10, <2>1, <2>3, Zenon DEF Known, Current
  <2> QED  BY <2>2, <2>3, Zenon
<1>11. Rounds'
  <2>1. ASSUME NEW op \in submitted' PROVE Known(op)'
    <3>1. CASE op \in submitted
      BY <1>2, <1>10, <3>1, Zenon DEF Inv, Rounds, Shapes
    <3>2. CASE op = new
      BY <1>1, <1>2, <1>6, <1>7, <3>2 DEF Known, Current
    <3> QED  BY <1>1, <3>1, <3>2, Zenon
  <2>2. ASSUME NEW k \in 1 .. Len(committed), committed[k].type = "sync"
        PROVE  Known(committed[k])'
    <3>1. PICK o : o = committed[k]
      BY Zenon
    <3>2. o \in SyncOps /\ Known(o)
      BY <1>2, <2>2, <3>1 DEF Inv, Rounds, Shapes, Op, PutOp
    <3>3. Known(o)'
      BY <1>10, <3>2, Zenon
    <3> QED  BY <1>1, <3>1, <3>3, Zenon DEF Known, Current
  <2> QED  BY <1>1, <2>1, <2>2, Zenon DEF Rounds
<1>12. ASSUME Timely PROVE Timely'
  <2>1. CommittedInTime' /\ ServedInTime' /\ ReadsFresh'
    BY <1>1, <1>12, TimelyFrame, Zenon
  <2>2. CountedInTime'
    <3> SUFFICES ASSUME NEW r \in Server, loop'[r].pc = "version"
                 PROVE  Holds(r, loop[r].queuelen)'
      BY Zenon DEF CountedInTime
    <3>1. r # s
      BY <1>6, Zenon
    <3> QED  BY <1>1, <1>6, <1>12, <3>1, Zenon DEF Timely, CountedInTime, Holds
  <2>3. SubmittedInTime'
    <3> SUFFICES ASSUME NEW op \in submitted', Current(op)'
                 PROVE  Holds(op.server, op.queuelen)'
      BY Zenon DEF SubmittedInTime
    <3>1. CASE op \in submitted
      BY <1>1, <1>12, <3>1, Zenon DEF Timely, SubmittedInTime, Current, Holds
    <3>2. CASE op = new
      <4>1. Holds(s, loop[s].queuelen)
        BY <1>1, <1>12, Zenon DEF Timely, CountedInTime
      <4> QED  BY <1>1, <1>7, <3>2, <4>1, Zenon DEF Holds
    <3> QED  BY <1>1, <3>1, <3>2, Zenon
  <2> QED  BY <2>1, <2>2, <2>3, Zenon DEF Timely
<1>13. (\A r \in Server : Queued(r)') /\ QueueAccounted' /\ Noted'
  BY <1>1, Frame, Zenon
<1> QED  BY <1>1, <1>8, <1>9, <1>11, <1>12, <1>13, Zenon DEF Inv

-----------------------------------------------------------------------------
(* A replica takes a new syncVersion: every sync Put that names it is from   *)
(* then on one of an earlier round.                                          *)
LEMMA RoundEnds ==
    ASSUME Inv, NEW s \in Server,
           syncVersion' = [syncVersion EXCEPT ![s] = @ + 1],
           \A r \in Server : r # s => loop'[r] = loop[r]
    PROVE  /\ syncVersion' \in [Server -> Nat]
           /\ \A op \in SyncOps :
                 Known(op) => /\ Known(op)'
                              /\ Current(op)' => op.server # s /\ Current(op)
<1>1. syncVersion \in [Server -> Nat]
  BY Zenon DEF Inv, Shapes, TypeOK
<1>2. /\ syncVersion' \in [Server -> Nat]
      /\ syncVersion'[s] = syncVersion[s] + 1
      /\ \A r \in Server : r # s => syncVersion'[r] = syncVersion[r]
  BY <1>1
<1>3. ASSUME NEW op \in SyncOps, Known(op)
      PROVE  /\ Known(op)'
             /\ Current(op)' => op.server # s /\ Current(op)
  <2>1. PICK r \in Server, v \in Nat : r = op.server /\ v = op.version
    BY Zenon DEF SyncOps
  <2>2. CASE r = s
    <3>1. v <= syncVersion[s] /\ syncVersion[s] \in Nat
      BY <1>1, <1>3, <2>1, <2>2, Zenon DEF Known
    <3>2. v <= syncVersion'[s] /\ v # syncVersion'[s]
      BY <1>2, <3>1
    <3> QED  BY <2>1, <2>2, <3>2, Zenon DEF Known, Current
  <2>3. CASE r # s
    BY <1>2, <1>3, <2>1, <2>3, Zenon DEF Known, Current
  <2> QED  BY <2>2, <2>3, Zenon
<1> QED  BY <1>2, <1>3, Zenon

LEMMA RoundEndsKeeps ==
    ASSUME Inv, NEW s \in Server,
           syncVersion' = [syncVersion EXCEPT ![s] = @ + 1],
           UNCHANGED <<committed, submitted>>,
           \A r \in Server : r # s => loop'[r] = loop[r]
    PROVE  /\ Rounds'
           /\ \A op \in submitted : Current(op)' => op.server # s /\ Current(op)
           /\ \A k \in 1 .. Len(committed) :
                 committed[k].type = "sync" /\ Current(committed[k])'
                     => committed[k].server # s /\ Current(committed[k])
<1>1. ASSUME NEW op \in submitted
      PROVE  /\ Known(op)'
             /\ Current(op)' => op.server # s /\ Current(op)
  <2>1. op \in SyncOps /\ Known(op)
    BY Zenon DEF Inv, Rounds, Shapes
  <2> QED  BY <2>1, RoundEnds, Zenon
<1>2. ASSUME NEW k \in 1 .. Len(committed), committed[k].type = "sync"
      PROVE  /\ Known(committed[k])'
             /\ Current(committed[k])'
                    => committed[k].server # s /\ Current(committed[k])
  <2>1. PICK o : o = committed[k]
    BY Zenon
  <2>2. o \in SyncOps /\ Known(o)
    BY <1>2, <2>1 DEF Inv, Rounds, Shapes, Op, PutOp
  <2>3. Known(o)' /\ (Current(o)' => o.server # s /\ Current(o))
    BY <2>2, RoundEnds, Zenon
  <2> QED  BY <2>1, <2>3, Zenon DEF Known, Current
<1>3. Rounds'
  BY <1>1, <1>2, Zenon DEF Rounds
<1> QED  BY <1>1, <1>2, <1>3, Zenon

LEMMA RoundEndsTimely ==
    ASSUME Inv, Timely, NEW s \in Server,
           syncVersion' = [syncVersion EXCEPT ![s] = @ + 1],
           UNCHANGED <<committed, submitted>>,
           \A r \in Server : r # s =>
               /\ loop'[r] = loop[r] /\ doOp'[r] = doOp[r]
               /\ getQueue'[r] = getQueue[r] /\ lastApplied'[r] = lastApplied[r],
           \A g \in Reader : get'[g].floor = get[g].floor,
           loop'[s].pc # "version",
           doOp'[s].pc # "idle" =>
               /\ Holds(s, 0)'
               /\ \A m \in 1 .. doOp'[s].left :
                     Floor(s, m)' <= PutsTo(lastApplied'[s])
    PROVE  CountedInTime' /\ SubmittedInTime' /\ CommittedInTime' /\ ServedInTime'
<1>0. Shapes
  BY Zenon DEF Inv
<1>1. ASSUME NEW r \in Server, r # s, NEW n, Holds(r, n) PROVE Holds(r, n)'
  BY <1>1, Zenon DEF Holds
<1>2. ASSUME NEW r \in Server, r # s, NEW k \in 1 .. Len(getQueue[r])
      PROVE  Floor(r, k)' = Floor(r, k)
  <2>1. getQueue[r][k] \in Reader
    BY <1>0, ReplicaShapes
  <2> QED  BY <1>2, <2>1, Zenon DEF Floor
<1>3. CountedInTime'
  <2> SUFFICES ASSUME NEW r \in Server, loop'[r].pc = "version"
               PROVE  Holds(r, loop[r].queuelen)'
    BY Zenon DEF CountedInTime
  <2>1. r # s /\ loop'[r] = loop[r]
    BY Zenon
  <2>2. Holds(r, loop[r].queuelen)
    BY <2>1, Zenon DEF Timely, CountedInTime
  <2> QED  BY <2>1, <2>2, Zenon DEF Holds
<1>4. SubmittedInTime'
  <2> SUFFICES ASSUME NEW op \in submitted, Current(op)'
               PROVE  Holds(op.server, op.queuelen)'
    BY Zenon DEF SubmittedInTime
  <2>1. op.server # s /\ Current(op)
    BY RoundEndsKeeps, Zenon
  <2>2. op.server \in Server
    BY <1>0, Zenon DEF Shapes, SyncOps
  <2>3. Holds(op.server, op.queuelen)
    BY <2>1, Zenon DEF Timely, SubmittedInTime
  <2> QED  BY <1>1, <2>1, <2>2, <2>3, Zenon
<1>5. CommittedInTime'
  <2> SUFFICES ASSUME NEW k \in 1 .. Len(committed), committed[k].type = "sync",
                      Current(committed[k])'
               PROVE  Covered(committed[k], k)'
    BY Zenon DEF CommittedInTime
  <2>1. committed[k].server # s /\ Current(committed[k])
    BY RoundEndsKeeps, Zenon
  <2>2. PICK o : o = committed[k]
    BY Zenon
  <2>3. PICK r \in Server, n \in Nat : r = o.server /\ n = o.queuelen
    BY <1>0, <2>2 DEF Shapes, Op, PutOp, SyncOps
  <2>4. /\ r # s /\ Holds(r, n)
        /\ \A m \in 1 .. n : Floor(r, doOp[r].left + m) <= PutsTo(k - 1)
    BY <2>1, <2>2, <2>3, Zenon DEF Timely, CommittedInTime, Covered
  <2>5. \A m \in 1 .. n : doOp[r].left + m \in 1 .. Len(getQueue[r])
    BY <1>0, <2>4, Behind, Zenon
  <2>6. Holds(r, n)' /\ doOp'[r] = doOp[r]
    BY <1>1, <2>4, Zenon
  <2>7. PutsTo(k - 1)' = PutsTo(k - 1)
    BY Zenon DEF PutsTo
  <2>8. ASSUME NEW m \in 1 .. n
        PROVE  Floor(r, doOp[r].left + m)' <= PutsTo(k - 1)'
    <3>1. PICK p : p = doOp[r].left + m
      BY Zenon
    <3>2. Floor(r, p)' = Floor(r, p)
      BY <1>2, <2>4, <2>5, <3>1, Zenon
    <3>3. Floor(r, doOp[r].left + m)' = Floor(r, p)
      BY <2>6, <3>1, <3>2, Zenon DEF Floor
    <3> QED  BY <2>4, <2>7, <3>1, <3>3, Zenon
  <2>9. Covered(o, k)'
    BY <2>3, <2>6, <2>8, Zenon DEF Covered
  <2> QED  BY <2>2, <2>9, Zenon DEF Covered, Holds, Floor
<1>6. ServedInTime'
  <2> SUFFICES ASSUME NEW r \in Server, doOp'[r].pc # "idle"
               PROVE  /\ Holds(r, 0)'
                      /\ \A m \in 1 .. doOp'[r].left :
                            Floor(r, m)' <= PutsTo(lastApplied[r])'
    BY Zenon DEF ServedInTime
  <2>1. PutsTo(lastApplied[r])' = PutsTo(lastApplied'[r])
    BY Zenon DEF PutsTo
  <2>2. CASE r = s
    BY <2>1, <2>2, Zenon
  <2>3. CASE r # s
    <3>1. /\ doOp'[r] = doOp[r] /\ lastApplied'[r] = lastApplied[r]
          /\ doOp[r].left \in Nat /\ Len(getQueue[r]) \in Nat
      BY <1>0, <2>3, ReplicaShapes, Zenon
    <3>2. /\ Holds(r, 0)
          /\ \A m \in 1 .. doOp[r].left : Floor(r, m) <= PutsTo(lastApplied[r])
      BY <3>1, Zenon DEF Timely, ServedInTime
    <3>3. 0 + doOp[r].left <= Len(getQueue[r])
      BY <3>2, Zenon DEF Holds
    <3>4. \A m \in 1 .. doOp[r].left : m \in 1 .. Len(getQueue[r])
      BY <3>1, <3>3
    <3>5. \A m \in 1 .. doOp[r].left : Floor(r, m)' = Floor(r, m)
      BY <1>2, <2>3, <3>4, Zenon
    <3>6. Holds(r, 0)'
      BY <1>1, <2>3, <3>2, Zenon
    <3> QED  BY <2>1, <3>1, <3>2, <3>5, <3>6, Zenon
  <2> QED  BY <2>2, <2>3, Zenon
<1> QED  BY <1>3, <1>4, <1>5, <1>6, Zenon

LEMMA LoopFailsKeeps ==
    ASSUME Inv, NEW s \in Server, LoopFails(s)
    PROVE  Inv'
<1>1. /\ syncVersion' = [syncVersion EXCEPT ![s] = @ + 1]
      /\ UNCHANGED <<committed, submitted, acked, lastApplied, getQueueLen,
                     getQueue, doOp, get, overcounted, restarts>>
  BY Zenon DEF LoopFails
<1>2. /\ Shapes /\ loop \in [Server -> Loops] /\ loop[s] \in Loops
      /\ fails \in 0 .. MaxFails /\ fails < MaxFails /\ fails' = fails + 1
  BY Zenon DEF Inv, Shapes, TypeOK, Loops, LoopFails
<1>3. loop' = [loop EXCEPT ![s] = [loop[s] EXCEPT !.pc = "count"]]
  BY <1>2, Zenon DEF LoopFails
<1>4. /\ [loop[s] EXCEPT !.pc = "count"] \in Loops
      /\ [loop[s] EXCEPT !.pc = "count"].pc = "count"
  BY <1>2, Zenon DEF Loops
<1>5. /\ loop' \in [Server -> Loops] /\ loop'[s].pc = "count"
      /\ \A r \in Server : r # s => loop'[r] = loop[r]
  BY <1>2, <1>3, <1>4, Zenon
<1>6. Shapes'
  <2>1. fails' \in 0 .. MaxFails
    BY <1>2, KVAssumption
  <2>2. syncVersion' \in [Server -> Nat]
    BY <1>1, <1>5, RoundEnds, Zenon
  <2> QED  BY <1>1, <1>2, <1>5, <2>1, <2>2, Zenon DEF Shapes, TypeOK, Loops
<1>7. ASSUME NEW r \in Server PROVE Stages(r)'
  <2>1. Stages(r)
    BY Zenon DEF Inv
  <2>2. CASE r = s
    BY <1>1, <1>5, <2>1, <2>2, Zenon DEF Stages
  <2>3. CASE r # s
    BY <1>1, <1>5, <2>1, <2>3, Zenon DEF Stages
  <2> QED  BY <2>2, <2>3, Zenon
<1>8. Rounds'
  BY <1>1, <1>5, RoundEndsKeeps, Zenon
<1>9. ASSUME Timely PROVE Timely'
  <2>1. doOp'[s].pc # "idle" =>
            /\ Holds(s, 0)'
            /\ \A m \in 1 .. doOp'[s].left :
                  Floor(s, m)' <= PutsTo(lastApplied'[s])
    BY <1>1, <1>9, Zenon DEF Timely, ServedInTime, Holds, Floor, PutsTo
  <2>2. loop'[s].pc # "version"
    BY <1>5, Zenon
  <2>3. CountedInTime' /\ SubmittedInTime' /\ CommittedInTime' /\ ServedInTime'
    BY <1>1, <1>5, <1>9, <2>1, <2>2, RoundEndsTimely, Zenon
  <2>4. ReadsFresh'
    BY <1>1, <1>9, Zenon DEF Timely, ReadsFresh
  <2> QED  BY <2>3, <2>4, Zenon DEF Timely
<1>10. (\A r \in Server : Queued(r)') /\ QueueAccounted' /\ Noted'
  BY <1>1, Frame, Zenon
<1> QED  BY <1>1, <1>6, <1>7, <1>8, <1>9, <1>10, Zenon DEF Inv

(* DoOp sets out to serve the Gets of the round: they are the first of the   *)
(* queue, and what they must see is applied.                                 *)
LEMMA DoOpSyncKeeps ==
    ASSUME Inv, NEW s \in Server, DoOpSync(s)
    PROVE  Inv'
<1>0. Shapes /\ Len(committed) \in Nat /\ lastApplied[s] \in Nat
  <2>1. Shapes
    BY Zenon DEF Inv
  <2> QED  BY <2>1, ReplicaShapes
<1>1. /\ doOp[s].pc = "idle" /\ lastApplied[s] < Len(committed)
      /\ syncVersion' = [syncVersion EXCEPT ![s] = @ + 1]
      /\ UNCHANGED <<committed, submitted, acked, lastApplied, getQueueLen,
                     getQueue, loop, get, overcounted, fails, restarts>>
  BY Zenon DEF DoOpSync
<1>2. PICK k \in 1 .. Len(committed) : k = lastApplied[s] + 1
  BY <1>0, <1>1
<1>3. PICK o \in SyncOps : o = committed[k] /\ o.server = s /\ Current(o)
  <2>1. /\ committed[k].type = "sync" /\ committed[k].server = s
        /\ committed[k].version = syncVersion[s]
    BY <1>2, Zenon DEF DoOpSync, NextOp, Matches
  <2>2. committed[k] \in SyncOps
    BY <1>0, <2>1 DEF Shapes, Op, PutOp
  <2> QED  BY <2>1, <2>2, Zenon DEF Current
<1>4. PICK n \in Nat : n = o.queuelen
  BY Zenon DEF SyncOps
<1>5. doOp' = [doOp EXCEPT ![s] = [pc |-> "subtract", left |-> n]]
  BY <1>2, <1>3, <1>4, Zenon DEF DoOpSync, NextOp
<1>6. /\ doOp' \in [Server -> DoOps]
      /\ doOp'[s].pc = "subtract" /\ doOp'[s].left = n
      /\ \A r \in Server : r # s => doOp'[r] = doOp[r]
  <2>1. doOp \in [Server -> DoOps]
    BY <1>0, Zenon DEF Shapes, TypeOK, DoOps
  <2>2. [pc |-> "subtract", left |-> n] \in DoOps
    BY Zenon DEF DoOps
  <2> QED  BY <1>5, <2>1, <2>2, Zenon
<1>7. doOp[s].left = 0
  BY <1>1, Zenon DEF Inv, Stages
<1>8. loop[s].pc \in {"submitted", "spin"}
  <2>1. Known(o)
    BY <1>3, Zenon DEF Inv, Rounds, SyncOps
  <2> QED  BY <1>3, <2>1, Zenon DEF Known
<1>9. Shapes'
  <2>1. syncVersion' \in [Server -> Nat]
    BY <1>1, RoundEnds, Zenon
  <2> QED  BY <1>0, <1>1, <1>6, <2>1, Zenon DEF Shapes, TypeOK, DoOps
<1>10. ASSUME NEW r \in Server PROVE Stages(r)'
  <2>1. Stages(r)
    BY Zenon DEF Inv
  <2>2. CASE r = s
    BY <1>1, <1>6, <2>1, <2>2, Zenon DEF Stages
  <2>3. CASE r # s
    BY <1>1, <1>6, <2>1, <2>3, Zenon DEF Stages
  <2> QED  BY <2>2, <2>3, Zenon
<1>11. QueueAccounted'
  <2> SUFFICES ASSUME NEW r \in Server
               PROVE  getQueueLen[r] =
                          Cardinality(Waiting(r))
                          - (IF doOp'[r].pc = "serve" THEN doOp'[r].left ELSE 0)
    BY <1>1, Zenon DEF QueueAccounted, Waiting
  <2>1. getQueueLen[r] =
            Cardinality(Waiting(r))
            - (IF doOp[r].pc = "serve" THEN doOp[r].left ELSE 0)
    BY Zenon DEF Inv, QueueAccounted
  <2>2. CASE r = s
    BY <1>1, <1>6, <2>1, <2>2, Zenon
  <2>3. CASE r # s
    BY <1>6, <2>1, <2>3, Zenon
  <2> QED  BY <2>2, <2>3, Zenon
<1>12. Rounds'
  BY <1>1, RoundEndsKeeps, Zenon
<1>13. ASSUME Timely PROVE Timely'
  <2>1. Covered(o, k)
    BY <1>3, <1>13, Zenon DEF Timely, CommittedInTime, SyncOps
  <2>2. /\ n + 0 <= Len(getQueue[s])
        /\ \A m \in 1 .. n : Floor(s, 0 + m) <= PutsTo(k - 1)
    BY <1>3, <1>4, <1>7, <2>1, Zenon DEF Covered, Holds
  <2>3. Holds(s, 0)'
    <3>1. Len(getQueue[s]) \in Nat
      BY <1>0, ReplicaShapes, Zenon
    <3> QED  BY <1>1, <1>6, <2>2, <3>1 DEF Holds
  <2>4. ASSUME NEW m \in 1 .. n
        PROVE  Floor(s, m)' <= PutsTo(lastApplied'[s])
    <3>1. 0 + m = m /\ k - 1 = lastApplied[s]
      BY <1>0, <1>2
    <3>2. Floor(s, m) <= PutsTo(lastApplied[s])
      BY <2>2, <3>1, Zenon
    <3> QED  BY <1>1, <3>2, Zenon DEF Floor
  <2>5. doOp'[s].pc # "idle" =>
            /\ Holds(s, 0)'
            /\ \A m \in 1 .. doOp'[s].left :
                  Floor(s, m)' <= PutsTo(lastApplied'[s])
    BY <1>6, <2>3, <2>4, Zenon
  <2>6. loop'[s].pc # "version"
    BY <1>1, <1>8, Zenon
  <2>7. CountedInTime' /\ SubmittedInTime' /\ CommittedInTime' /\ ServedInTime'
    BY <1>1, <1>6, <1>13, <2>5, <2>6, RoundEndsTimely, Zenon
  <2>8. ReadsFresh'
    BY <1>1, <1>13, Zenon DEF Timely, ReadsFresh
  <2> QED  BY <2>7, <2>8, Zenon DEF Timely
<1>14. (\A r \in Server : Queued(r)') /\ Noted'
  BY <1>1, Frame, Zenon
<1> QED  BY <1>1, <1>9, <1>10, <1>11, <1>12, <1>13, <1>14, Zenon DEF Inv

LEMMA RestartKeeps ==
    ASSUME FiniteSetsCount, Inv, NEW s \in Server, Restart(s)
    PROVE  Inv'
<1>1. /\ syncVersion' = [syncVersion EXCEPT ![s] = @ + 1]
      /\ UNCHANGED <<committed, submitted, acked, overcounted>>
      /\ fails < MaxFails /\ fails' = fails + 1
      /\ restarts < MaxRestarts /\ restarts' = restarts + 1
  BY Zenon DEF Restart
<1>2. Shapes /\ get \in [Reader -> Calls]
  BY Zenon DEF Inv, Shapes, TypeOK, Calls
<1>3. /\ loop' \in [Server -> Loops] /\ loop'[s].pc = "count"
      /\ \A r \in Server : r # s => loop'[r] = loop[r]
  <2>1. loop \in [Server -> Loops] /\ loop' = [loop EXCEPT ![s] = IdleLoop]
    BY <1>2, Zenon DEF Restart, Shapes, TypeOK, Loops
  <2>2. IdleLoop \in Loops /\ IdleLoop.pc = "count"
    BY Zenon DEF IdleLoop, Loops
  <2> QED  BY <2>1, <2>2, Zenon
<1>4. /\ doOp' \in [Server -> DoOps]
      /\ doOp'[s].pc = "idle" /\ doOp'[s].left = 0
      /\ \A r \in Server : r # s => doOp'[r] = doOp[r]
  <2>1. doOp \in [Server -> DoOps] /\ doOp' = [doOp EXCEPT ![s] = IdleDoOp]
    BY <1>2, Zenon DEF Restart, Shapes, TypeOK, DoOps
  <2>2. IdleDoOp \in DoOps /\ IdleDoOp.pc = "idle" /\ IdleDoOp.left = 0
    BY Zenon DEF IdleDoOp, DoOps
  <2> QED  BY <2>1, <2>2, Zenon
<1>5. /\ getQueue' \in [Server -> Seq(Reader)] /\ getQueue'[s] = << >>
      /\ \A r \in Server : r # s => getQueue'[r] = getQueue[r]
  <2>1. /\ getQueue \in [Server -> Seq(Reader)]
        /\ getQueue' = [getQueue EXCEPT ![s] = << >>]
    BY <1>2, Zenon DEF Restart, Shapes, TypeOK
  <2>2. << >> \in Seq(Reader)
    OBVIOUS
  <2> QED  BY <2>1, <2>2, Zenon
<1>6. /\ getQueueLen' \in [Server -> Int] /\ getQueueLen'[s] = 0
      /\ \A r \in Server : r # s => getQueueLen'[r] = getQueueLen[r]
  <2>1. /\ getQueueLen \in [Server -> Int]
        /\ getQueueLen' = [getQueueLen EXCEPT ![s] = 0]
    BY <1>2, Zenon DEF Restart, Shapes, TypeOK
  <2> QED  BY <2>1
<1>7. /\ lastApplied' \in [Server -> 0 .. Len(committed)]
      /\ \A r \in Server : r # s => lastApplied'[r] = lastApplied[r]
  <2>1. /\ lastApplied \in [Server -> 0 .. Len(committed)]
        /\ lastApplied' = [lastApplied EXCEPT ![s] = 0]
        /\ 0 \in 0 .. Len(committed)
    BY <1>2 DEF Restart, Shapes, TypeOK
  <2> QED  BY <2>1, Zenon
<1>8. /\ get' \in [Reader -> Calls]
      /\ \A g \in Reader :
            /\ g \in Waiting(s) => get'[g].pc = "failed"
            /\ g \notin Waiting(s) => get'[g] = get[g]
            /\ get'[g].at = get[g].at /\ get'[g].floor = get[g].floor
            /\ get'[g].value = get[g].value
  <2>1. get' = [g \in Reader |-> IF g \in Waiting(s)
                                 THEN [get[g] EXCEPT !.pc = "failed"]
                                 ELSE get[g]]
    BY Zenon DEF Restart
  <2>2. ASSUME NEW g \in Reader
        PROVE  /\ get'[g] \in Calls
               /\ g \in Waiting(s) => get'[g].pc = "failed"
               /\ g \notin Waiting(s) => get'[g] = get[g]
               /\ get'[g].at = get[g].at /\ get'[g].floor = get[g].floor
               /\ get'[g].value = get[g].value
    <3>1. get[g] \in Calls
      BY <1>2, Zenon
    <3>2. CASE g \in Waiting(s)
      <4>1. get'[g] = [get[g] EXCEPT !.pc = "failed"]
        BY <2>1, <3>2, Zenon
      <4> QED  BY <3>1, <3>2, <4>1, Zenon DEF Calls
    <3>3. CASE g \notin Waiting(s)
      BY <2>1, <3>1, <3>3, Zenon
    <3> QED  BY <3>2, <3>3, Zenon
  <2>3. get' \in [Reader -> Calls]
    <3>1. \A g \in Reader : get'[g] \in Calls
      BY <2>2, Zenon
    <3>2. get' = [g \in Reader |-> get'[g]]
      BY <2>1, Zenon
    <3> QED  BY <3>1, <3>2, Zenon
  <2> QED  BY <2>2, <2>3, Zenon
<1>9. Shapes'
  <2>1. fails' \in 0 .. MaxFails /\ restarts' \in 0 .. MaxRestarts
    <3>1. /\ fails \in 0 .. MaxFails /\ fails < MaxFails /\ fails' = fails + 1
          /\ restarts \in 0 .. MaxRestarts /\ restarts < MaxRestarts
          /\ restarts' = restarts + 1
      BY <1>1, <1>2, Zenon DEF Shapes, TypeOK
    <3>2. MaxFails \in Nat /\ MaxRestarts \in Nat
      BY KVAssumption, Zenon
    <3> QED  BY ONLY <3>1, <3>2
  <2>2. syncVersion' \in [Server -> Nat]
    BY <1>1, <1>3, RoundEnds, Zenon
  <2> QED  BY <1>1, <1>2, <1>3, <1>4, <1>5, <1>6, <1>7, <1>8, <2>1, <2>2, Zenon
           DEF Shapes, TypeOK, Loops, DoOps, Calls
<1>10. ASSUME NEW r \in Server PROVE Queued(r)'
  <2>1. CASE r = s
    BY <1>5, <2>1 DEF Queued
  <2>2. CASE r # s
    <3>1. Queued(r) /\ getQueue'[r] = getQueue[r]
      BY <1>5, <2>2, Zenon DEF Inv
    <3>2. ASSUME NEW k \in 1 .. Len(getQueue[r])
          PROVE  get'[getQueue[r][k]] = get[getQueue[r][k]]
      <4>1. PICK h \in Reader : h = getQueue[r][k]
        BY <1>2, ReplicaShapes
      <4>2. h \notin Waiting(s)
        BY <2>2, <3>1, <4>1, Zenon DEF Queued, Waiting
      <4> QED  BY <1>8, <4>1, <4>2, Zenon
    <3> QED  BY <3>1, <3>2, Zenon DEF Queued
  <2> QED  BY <2>1, <2>2, Zenon
<1>11. ASSUME NEW r \in Server PROVE Stages(r)'
  <2>1. Stages(r)
    BY Zenon DEF Inv
  <2>2. CASE r = s
    BY <1>3, <1>4, <2>2, Zenon DEF Stages
  <2>3. CASE r # s
    BY <1>1, <1>3, <1>4, <1>7, <2>1, <2>3, Zenon DEF Stages
  <2> QED  BY <2>2, <2>3, Zenon
<1>12. QueueAccounted'
  <2> SUFFICES ASSUME NEW r \in Server
               PROVE  getQueueLen'[r] =
                          Cardinality(Waiting(r)')
                          - (IF doOp'[r].pc = "serve" THEN doOp'[r].left ELSE 0)
    BY Zenon DEF QueueAccounted
  <2>1. CASE r = s
    <3>1. Waiting(r)' = {}
      BY <1>8, <2>1, Zenon DEF Waiting
    <3>2. Cardinality({}) = 0
      BY Zenon DEF FiniteSetsCount, EmptyCounts
    <3> QED  BY <1>4, <1>6, <2>1, <3>1, <3>2
  <2>2. CASE r # s
    <3>1. ASSUME NEW g \in Reader PROVE g \in Waiting(r)' <=> g \in Waiting(r)
      <4>1. CASE g \in Waiting(s)
        BY <1>8, <2>2, <4>1, Zenon DEF Waiting
      <4>2. CASE g \notin Waiting(s)
        BY <1>8, <4>2, Zenon DEF Waiting
      <4> QED  BY <4>1, <4>2, Zenon
    <3>2. Waiting(r)' = Waiting(r)
      <4>1. Waiting(r) \subseteq Reader /\ Waiting(r)' \subseteq Reader
        BY Zenon DEF Waiting
      <4> QED  BY <3>1, <4>1, Zenon
    <3>3. getQueueLen[r] =
              Cardinality(Waiting(r))
              - (IF doOp[r].pc = "serve" THEN doOp[r].left ELSE 0)
      BY Zenon DEF Inv, QueueAccounted
    <3> QED  BY <1>4, <1>6, <2>2, <3>2, <3>3, Zenon
  <2> QED  BY <2>1, <2>2, Zenon
<1>13. Rounds'
  BY <1>1, <1>3, RoundEndsKeeps, Zenon
<1>14. Noted'
  <2>1. PutsTo(Len(committed))' = PutsTo(Len(committed))
    BY <1>1, Zenon DEF PutsTo
  <2> QED  BY <1>1, <1>8, <2>1, Zenon DEF Inv, Noted
<1>15. ASSUME Timely PROVE Timely'
  <2>1. loop'[s].pc # "version" /\ ~ (doOp'[s].pc # "idle")
    BY <1>3, <1>4, Zenon
  <2>2. CountedInTime' /\ SubmittedInTime' /\ CommittedInTime' /\ ServedInTime'
    BY <1>1, <1>3, <1>4, <1>5, <1>7, <1>8, <1>15, <2>1, RoundEndsTimely, Zenon
  <2>3. ReadsFresh'
    <3> SUFFICES ASSUME NEW g \in Reader, get'[g].pc = "done"
                 PROVE  get'[g].value >= get'[g].floor
      BY Zenon DEF ReadsFresh
    <3>1. g \notin Waiting(s)
      BY <1>8, Zenon
    <3> QED  BY <1>8, <1>15, <3>1, Zenon DEF Timely, ReadsFresh
  <2> QED  BY <2>2, <2>3, Zenon DEF Timely
<1> QED  BY <1>1, <1>9, <1>10, <1>11, <1>12, <1>13, <1>14, <1>15, Zenon DEF Inv

-----------------------------------------------------------------------------
LEMMA DoOpPlainKeeps ==
    ASSUME Inv, NEW s \in Server, DoOpPlain(s)
    PROVE  Inv'
<1>1. /\ doOp[s].pc = "idle" /\ lastApplied[s] < Len(committed)
      /\ lastApplied' = [lastApplied EXCEPT ![s] = @ + 1]
      /\ UNCHANGED <<committed, submitted, acked, syncVersion, getQueueLen,
                     getQueue, loop, doOp, get, overcounted, fails, restarts>>
  BY Zenon DEF DoOpPlain
<1>2. /\ Shapes /\ Len(committed) \in Nat
      /\ lastApplied \in [Server -> 0 .. Len(committed)]
  <2>1. Shapes
    BY Zenon DEF Inv
  <2>2. Len(committed) \in Nat
    BY <2>1, ReplicaShapes, Zenon
  <2> QED  BY <2>1, <2>2, Zenon DEF Shapes, TypeOK
<1>3. /\ lastApplied' \in [Server -> 0 .. Len(committed)]
      /\ \A r \in Server : r # s => lastApplied'[r] = lastApplied[r]
  <2>1. lastApplied[s] + 1 \in 0 .. Len(committed)
    BY <1>1, <1>2
  <2> QED  BY <1>1, <1>2, <2>1, Zenon
<1>4. Shapes'
  BY <1>1, <1>2, <1>3, Zenon DEF Shapes, TypeOK
<1>5. ASSUME NEW r \in Server PROVE Stages(r)'
  <2>1. Stages(r)
    BY Zenon DEF Inv
  <2>2. CASE r = s
    BY <1>1, <2>1, <2>2, Zenon DEF Stages
  <2>3. CASE r # s
    BY <1>1, <1>3, <2>1, <2>3, Zenon DEF Stages
  <2> QED  BY <2>2, <2>3, Zenon
<1>6. ASSUME Timely PROVE Timely'
  <2>1. ASSUME NEW r \in Server
        PROVE  /\ doOp'[r].pc # "idle" => /\ doOp[r].pc # "idle"
                                          /\ lastApplied'[r] = lastApplied[r]
               /\ doOp'[r].left = doOp[r].left
               /\ Len(getQueue'[r]) \in Nat
               /\ Len(getQueue'[r]) >= Len(getQueue[r])
               /\ \A k \in 1 .. Len(getQueue[r]) : Floor(r, k)' = Floor(r, k)
    <3>1. Len(getQueue[r]) \in Nat
      BY <1>2, ReplicaShapes, Zenon
    <3>2. \A k \in 1 .. Len(getQueue[r]) : Floor(r, k)' = Floor(r, k)
      BY <1>1, Zenon DEF Floor
    <3> QED  BY <1>1, <1>3, <3>1, <3>2
  <2>2. CountedInTime' /\ SubmittedInTime' /\ CommittedInTime' /\ ServedInTime'
    BY <1>1, <1>6, <2>1, QueuesStay, Zenon
  <2>3. ReadsFresh'
    BY <1>1, <1>6, Zenon DEF Timely, ReadsFresh
  <2> QED  BY <2>2, <2>3, Zenon DEF Timely
<1>7. (\A r \in Server : Queued(r)') /\ QueueAccounted' /\ Rounds' /\ Noted'
  BY <1>1, Frame, Zenon
<1> QED  BY <1>1, <1>4, <1>5, <1>6, <1>7, Zenon DEF Inv

LEMMA DoOpSubtractKeeps ==
    ASSUME FiniteSetsCount, Inv, NEW s \in Server, DoOpSubtract(s)
    PROVE  Inv'
<1>1. /\ doOp[s].pc = "subtract"
      /\ getQueueLen' = [getQueueLen EXCEPT ![s] = @ - doOp[s].left]
      /\ UNCHANGED <<committed, submitted, acked, lastApplied, syncVersion,
                     getQueue, loop, get, overcounted, fails, restarts>>
  BY Zenon DEF DoOpSubtract
<1>2. /\ Shapes /\ doOp \in [Server -> DoOps] /\ getQueueLen \in [Server -> Int]
      /\ doOp[s] \in DoOps
  BY Zenon DEF Inv, Shapes, TypeOK, DoOps
<1>3. /\ doOp' \in [Server -> DoOps]
      /\ doOp'[s].pc = "serve" /\ doOp'[s].left = doOp[s].left
      /\ \A r \in Server : r # s => doOp'[r] = doOp[r]
  <2>1. doOp' = [doOp EXCEPT ![s] = [doOp[s] EXCEPT !.pc = "serve"]]
    BY <1>2, Zenon DEF DoOpSubtract
  <2>2. /\ [doOp[s] EXCEPT !.pc = "serve"] \in DoOps
        /\ [doOp[s] EXCEPT !.pc = "serve"].pc = "serve"
        /\ [doOp[s] EXCEPT !.pc = "serve"].left = doOp[s].left
    BY <1>2, Zenon DEF DoOps
  <2> QED  BY <1>2, <2>1, <2>2, Zenon
<1>4. /\ getQueueLen' \in [Server -> Int]
      /\ getQueueLen'[s] = getQueueLen[s] - doOp[s].left
      /\ \A r \in Server : r # s => getQueueLen'[r] = getQueueLen[r]
  <2>1. getQueueLen[s] - doOp[s].left \in Int
    BY <1>2 DEF DoOps
  <2> QED  BY <1>1, <1>2, <2>1, Zenon
<1>5. Shapes'
  BY <1>1, <1>2, <1>3, <1>4, Zenon DEF Shapes, TypeOK, DoOps
<1>6. ASSUME NEW r \in Server PROVE Stages(r)'
  <2>1. Stages(r)
    BY Zenon DEF Inv
  <2>2. CASE r = s
    BY <1>1, <1>3, <2>1, <2>2, Zenon DEF Stages
  <2>3. CASE r # s
    BY <1>1, <1>3, <2>1, <2>3, Zenon DEF Stages
  <2> QED  BY <2>2, <2>3, Zenon
<1>7. QueueAccounted'
  <2> SUFFICES ASSUME NEW r \in Server
               PROVE  getQueueLen'[r] =
                          Cardinality(Waiting(r))
                          - (IF doOp'[r].pc = "serve" THEN doOp'[r].left ELSE 0)
    BY <1>1, Zenon DEF QueueAccounted, Waiting
  <2>1. getQueueLen[r] =
            Cardinality(Waiting(r))
            - (IF doOp[r].pc = "serve" THEN doOp[r].left ELSE 0)
    BY Zenon DEF Inv, QueueAccounted
  <2>2. CASE r = s
    <3>1. Cardinality(Waiting(r)) \in Nat
      <4>1. IsFiniteSet(Waiting(r))
        <5>1. IsFiniteSet(Reader) /\ Waiting(r) \subseteq Reader
          BY KVAssumption, Zenon DEF Waiting
        <5> QED  BY <5>1, Zenon DEF FiniteSetsCount, SubsetsCount
      <4> QED  BY <4>1, Zenon DEF FiniteSetsCount, CountsAreNat
    <3>2. getQueueLen[s] = Cardinality(Waiting(r)) - 0
      BY <1>1, <2>1, <2>2, Zenon
    <3>3. doOp[s].left \in Nat
      BY <1>2, Zenon DEF DoOps
    <3>4. getQueueLen'[s] = Cardinality(Waiting(r)) - doOp[s].left
      BY <1>4, <3>1, <3>2, <3>3
    <3> QED  BY <1>3, <2>2, <3>4, Zenon
  <2>3. CASE r # s
    BY <1>3, <1>4, <2>1, <2>3, Zenon
  <2> QED  BY <2>2, <2>3, Zenon
<1>8. ASSUME Timely PROVE Timely'
  <2>1. ASSUME NEW r \in Server
        PROVE  /\ doOp'[r].pc # "idle" => /\ doOp[r].pc # "idle"
                                          /\ lastApplied'[r] = lastApplied[r]
               /\ doOp'[r].left = doOp[r].left
               /\ Len(getQueue'[r]) \in Nat
               /\ Len(getQueue'[r]) >= Len(getQueue[r])
               /\ \A k \in 1 .. Len(getQueue[r]) : Floor(r, k)' = Floor(r, k)
    <3>1. Len(getQueue[r]) \in Nat
      BY <1>2, ReplicaShapes, Zenon
    <3>2. \A k \in 1 .. Len(getQueue[r]) : Floor(r, k)' = Floor(r, k)
      BY <1>1, Zenon DEF Floor
    <3>3. /\ doOp'[r].pc # "idle" => doOp[r].pc # "idle"
          /\ doOp'[r].left = doOp[r].left
      BY <1>1, <1>3, Zenon
    <3> QED  BY <1>1, <3>1, <3>2, <3>3
  <2>2. CountedInTime' /\ SubmittedInTime' /\ CommittedInTime' /\ ServedInTime'
    BY <1>1, <1>8, <2>1, QueuesStay, Zenon
  <2>3. ReadsFresh'
    BY <1>1, <1>8, Zenon DEF Timely, ReadsFresh
  <2> QED  BY <2>2, <2>3, Zenon DEF Timely
<1>9. (\A r \in Server : Queued(r)') /\ Rounds' /\ Noted'
  BY <1>1, Frame, Zenon
<1> QED  BY <1>1, <1>5, <1>6, <1>7, <1>8, <1>9, Zenon DEF Inv

LEMMA DoOpDoneKeeps ==
    ASSUME Inv, NEW s \in Server, DoOpDone(s)
    PROVE  Inv'
<1>1. /\ doOp[s].pc = "serve" /\ doOp[s].left = 0
      /\ lastApplied' = [lastApplied EXCEPT ![s] = @ + 1]
      /\ UNCHANGED <<committed, submitted, acked, syncVersion, getQueueLen,
                     getQueue, loop, get, overcounted, fails, restarts>>
  BY Zenon DEF DoOpDone
<1>2. /\ Shapes /\ doOp \in [Server -> DoOps] /\ doOp[s] \in DoOps
      /\ Len(committed) \in Nat
      /\ lastApplied \in [Server -> 0 .. Len(committed)]
  <2>1. Shapes
    BY Zenon DEF Inv
  <2>2. Len(committed) \in Nat
    BY <2>1, ReplicaShapes, Zenon
  <2>3. lastApplied \in [Server -> 0 .. Len(committed)]
    BY <2>1, Zenon DEF Shapes, TypeOK
  <2>4. doOp \in [Server -> DoOps]
    BY <2>1, Zenon DEF Shapes, TypeOK, DoOps
  <2> QED  BY <2>1, <2>2, <2>3, <2>4, Zenon
<1>3. /\ doOp' \in [Server -> DoOps]
      /\ doOp'[s].pc = "idle" /\ doOp'[s].left = doOp[s].left
      /\ \A r \in Server : r # s => doOp'[r] = doOp[r]
  <2>1. doOp' = [doOp EXCEPT ![s] = [doOp[s] EXCEPT !.pc = "idle"]]
    BY <1>2, Zenon DEF DoOpDone
  <2>2. /\ [doOp[s] EXCEPT !.pc = "idle"] \in DoOps
        /\ [doOp[s] EXCEPT !.pc = "idle"].pc = "idle"
        /\ [doOp[s] EXCEPT !.pc = "idle"].left = doOp[s].left
    BY <1>2, Zenon DEF DoOps
  <2> QED  BY <1>2, <2>1, <2>2, Zenon
<1>4. /\ lastApplied' \in [Server -> 0 .. Len(committed)]
      /\ \A r \in Server : r # s => lastApplied'[r] = lastApplied[r]
  <2>1. lastApplied[s] < Len(committed)
    BY <1>1, Zenon DEF Inv, Stages
  <2>2. lastApplied[s] + 1 \in 0 .. Len(committed)
    BY <1>2, <2>1
  <2> QED  BY <1>1, <1>2, <2>2, Zenon
<1>5. Shapes'
  BY <1>1, <1>2, <1>3, <1>4, Zenon DEF Shapes, TypeOK, DoOps
<1>6. ASSUME NEW r \in Server PROVE Stages(r)'
  <2>1. Stages(r)
    BY Zenon DEF Inv
  <2>2. CASE r = s
    BY <1>1, <1>3, <2>1, <2>2, Zenon DEF Stages
  <2>3. CASE r # s
    BY <1>1, <1>3, <1>4, <2>1, <2>3, Zenon DEF Stages
  <2> QED  BY <2>2, <2>3, Zenon
<1>7. QueueAccounted'
  <2> SUFFICES ASSUME NEW r \in Server
               PROVE  getQueueLen[r] =
                          Cardinality(Waiting(r))
                          - (IF doOp'[r].pc = "serve" THEN doOp'[r].left ELSE 0)
    BY <1>1, Zenon DEF QueueAccounted, Waiting
  <2>1. getQueueLen[r] =
            Cardinality(Waiting(r))
            - (IF doOp[r].pc = "serve" THEN doOp[r].left ELSE 0)
    BY Zenon DEF Inv, QueueAccounted
  <2>2. CASE r = s
    BY <1>1, <1>3, <2>1, <2>2, Zenon
  <2>3. CASE r # s
    BY <1>3, <2>1, <2>3, Zenon
  <2> QED  BY <2>2, <2>3, Zenon
<1>8. ASSUME Timely PROVE Timely'
  <2>1. ASSUME NEW r \in Server
        PROVE  /\ doOp'[r].pc # "idle" => /\ doOp[r].pc # "idle"
                                          /\ lastApplied'[r] = lastApplied[r]
               /\ doOp'[r].left = doOp[r].left
               /\ Len(getQueue'[r]) \in Nat
               /\ Len(getQueue'[r]) >= Len(getQueue[r])
               /\ \A k \in 1 .. Len(getQueue[r]) : Floor(r, k)' = Floor(r, k)
    <3>1. Len(getQueue[r]) \in Nat
      BY <1>2, ReplicaShapes, Zenon
    <3>2. \A k \in 1 .. Len(getQueue[r]) : Floor(r, k)' = Floor(r, k)
      BY <1>1, Zenon DEF Floor
    <3>3. /\ doOp'[r].pc # "idle" => /\ doOp[r].pc # "idle"
                                     /\ lastApplied'[r] = lastApplied[r]
          /\ doOp'[r].left = doOp[r].left
      BY <1>3, <1>4, Zenon
    <3> QED  BY <1>1, <3>1, <3>2, <3>3
  <2>2. CountedInTime' /\ SubmittedInTime' /\ CommittedInTime' /\ ServedInTime'
    BY <1>1, <1>8, <2>1, QueuesStay, Zenon
  <2>3. ReadsFresh'
    BY <1>1, <1>8, Zenon DEF Timely, ReadsFresh
  <2> QED  BY <2>2, <2>3, Zenon DEF Timely
<1>9. (\A r \in Server : Queued(r)') /\ Rounds' /\ Noted'
  BY <1>1, Frame, Zenon
<1> QED  BY <1>1, <1>5, <1>6, <1>7, <1>8, <1>9, Zenon DEF Inv

(* DoOp serves the first Get of the queue. What that Get must see, the store *)
(* of the replica has.                                                       *)
LEMMA DoOpServeKeeps ==
    ASSUME FiniteSetsCount, Inv, NEW s \in Server, DoOpServe(s)
    PROVE  Inv'
<1>0. /\ Shapes /\ get \in [Reader -> Calls]
      /\ doOp \in [Server -> DoOps] /\ doOp[s] \in DoOps
      /\ getQueue \in [Server -> Seq(Reader)] /\ getQueue[s] \in Seq(Reader)
  BY Zenon DEF Inv, Shapes, TypeOK, Calls, DoOps
<1>1. /\ doOp[s].pc = "serve" /\ doOp[s].left > 0 /\ getQueue[s] # << >>
      /\ getQueue' = [getQueue EXCEPT ![s] = Tail(getQueue[s])]
      /\ UNCHANGED <<committed, submitted, acked, lastApplied, syncVersion,
                     getQueueLen, loop, overcounted, fails, restarts>>
  BY Zenon DEF DoOpServe
<1>2. PICK b \in Nat : b = Len(getQueue[s]) /\ b > 0
  BY <1>0, <1>1
<1>3. PICK g \in Reader : g = getQueue[s][1] /\ g = Head(getQueue[s])
  BY <1>0, <1>1, <1>2
<1>4. PICK v \in Nat : v = store(s)
  BY <1>0, StoreIs, Zenon
<1>5. /\ getQueue' \in [Server -> Seq(Reader)]
      /\ Len(getQueue'[s]) = b - 1
      /\ \A k \in 1 .. (b - 1) : getQueue'[s][k] = getQueue[s][k + 1]
      /\ \A r \in Server : r # s => getQueue'[r] = getQueue[r]
  <2>1. /\ Tail(getQueue[s]) \in Seq(Reader) /\ Len(Tail(getQueue[s])) = b - 1
        /\ \A k \in 1 .. (b - 1) : Tail(getQueue[s])[k] = getQueue[s][k + 1]
    BY <1>0, <1>1, <1>2
  <2>2. getQueue'[s] = Tail(getQueue[s])
    BY <1>0, <1>1, Zenon
  <2>3. getQueue' \in [Server -> Seq(Reader)]
    BY <1>0, <1>1, <2>1, Zenon
  <2>4. \A r \in Server : r # s => getQueue'[r] = getQueue[r]
    BY <1>0, <1>1, Zenon
  <2> QED  BY <2>1, <2>2, <2>3, <2>4, Zenon
<1>6. /\ doOp' \in [Server -> DoOps]
      /\ doOp'[s].pc = "serve" /\ doOp'[s].left = doOp[s].left - 1
      /\ \A r \in Server : r # s => doOp'[r] = doOp[r]
  <2> DEFINE y == [doOp[s] EXCEPT !.left = doOp[s].left - 1]
  <2>1. doOp' = [doOp EXCEPT ![s] = y]
    <3>1. doOp' = [doOp EXCEPT ![s].left = @ - 1]
      BY Zenon DEF DoOpServe
    <3> QED  BY <1>0, <3>1, Zenon
  <2>2. y \in DoOps /\ y.pc = "serve" /\ y.left = doOp[s].left - 1
    <3>1. /\ doOp[s] \in [pc : {"idle", "subtract", "serve"}, left : Nat]
          /\ doOp[s].pc = "serve" /\ doOp[s].left - 1 \in Nat
      BY <1>0, <1>1 DEF DoOps
    <3> QED  BY ONLY <3>1, Zenon DEF DoOps
  <2> HIDE DEF y
  <2> QED  BY <1>0, <2>1, <2>2, Zenon
<1>7. /\ get' \in [Reader -> Calls]
      /\ get'[g].pc = "done" /\ get'[g].value = v
      /\ get'[g].floor = get[g].floor
      /\ \A h \in Reader : h # g => get'[h] = get[h]
  <2> DEFINE x == [get[g] EXCEPT !.pc = "done", !.value = v]
  <2>1. get' = [get EXCEPT ![g] = x]
    BY <1>0, <1>3, <1>4, Zenon DEF DoOpServe
  <2>2. /\ x \in Calls /\ x.pc = "done" /\ x.value = v
        /\ x.floor = get[g].floor
    <3>1. get[g] \in Calls
      BY <1>0, Zenon
    <3> QED  BY <3>1, Zenon DEF Calls
  <2> HIDE DEF x
  <2>3. /\ get' \in [Reader -> Calls] /\ get'[g] = x
        /\ \A h \in Reader : h # g => get'[h] = get[h]
    BY <1>0, <2>1, <2>2, GetMoves, Zenon
  <2> QED  BY <2>2, <2>3, Zenon
<1>8. Shapes'
  BY <1>0, <1>1, <1>5, <1>6, <1>7, Zenon DEF Shapes, TypeOK, Calls, DoOps
<1>9. /\ get[g].pc = "queued" /\ get[g].at = s
      /\ \A k \in 2 .. b : getQueue[s][k] # g /\ getQueue[s][k] \in Reader
      /\ \A r \in Server : \A k \in 1 .. Len(getQueue[r]) :
            r # s => getQueue[r][k] # g /\ getQueue[r][k] \in Reader
  <2>1. Queued(s)
    BY Zenon DEF Inv
  <2>2. get[g].pc = "queued" /\ get[g].at = s
    BY <1>2, <1>3, <2>1 DEF Queued
  <2>3. ASSUME NEW k \in 2 .. b
        PROVE  getQueue[s][k] # g /\ getQueue[s][k] \in Reader
    <3>1. 1 \in 1 .. b /\ k \in 1 .. b /\ k # 1
      BY <1>2
    <3> QED  BY <1>0, <1>2, <1>3, <2>1, <3>1 DEF Queued
  <2>4. ASSUME NEW r \in Server, NEW k \in 1 .. Len(getQueue[r]), r # s
        PROVE  getQueue[r][k] # g /\ getQueue[r][k] \in Reader
    <3>1. Queued(r) /\ getQueue[r] \in Seq(Reader)
      BY <1>0, Zenon DEF Inv
    <3> QED  BY <2>2, <2>4, <3>1 DEF Queued
  <2> QED  BY <2>2, <2>3, <2>4, Zenon
<1>10. ASSUME NEW r \in Server PROVE Queued(r)'
  <2>0. Queued(r)
    BY Zenon DEF Inv
  <2>1. CASE r # s
    <3>1. getQueue'[r] = getQueue[r]
      BY <1>5, <2>1, Zenon
    <3>2. \A k \in 1 .. Len(getQueue[r]) :
              get'[getQueue[r][k]] = get[getQueue[r][k]]
      BY <1>7, <1>9, <2>1, Zenon
    <3> QED  BY <2>0, <3>1, <3>2, Zenon DEF Queued
  <2>2. CASE r = s
    <3>1. ASSUME NEW k \in 1 .. (b - 1)
          PROVE  /\ k + 1 \in 1 .. b
                 /\ getQueue'[s][k] = getQueue[s][k + 1]
                 /\ get'[getQueue'[s][k]] = get[getQueue[s][k + 1]]
      <4>1. k + 1 \in 1 .. b /\ k + 1 \in 2 .. b
        BY <1>2
      <4>2. PICK h \in Reader : h = getQueue[s][k + 1] /\ h # g
        BY <1>9, <4>1, Zenon
      <4>3. getQueue'[s][k] = h
        BY <1>5, <4>2, Zenon
      <4> QED  BY <1>7, <4>1, <4>2, <4>3, Zenon
    <3>2. \A k \in 1 .. (b - 1) : /\ get'[getQueue'[s][k]].pc = "queued"
                                  /\ get'[getQueue'[s][k]].at = s
      BY <1>2, <2>0, <2>2, <3>1 DEF Queued
    <3>3. ASSUME NEW j \in 1 .. (b - 1), NEW k \in 1 .. (b - 1),
                 getQueue'[s][j] = getQueue'[s][k]
          PROVE  j = k
      <4>1. getQueue[s][j + 1] = getQueue[s][k + 1]
        BY <3>1, <3>3, Zenon
      <4>2. j + 1 = k + 1
        BY <1>2, <2>0, <2>2, <3>1, <4>1, Zenon DEF Queued
      <4> QED  BY <4>2
    <3> QED  BY <1>5, <2>2, <3>2, <3>3, Zenon DEF Queued
  <2> QED  BY <2>1, <2>2, Zenon
<1>11. ASSUME NEW r \in Server PROVE Stages(r)'
  <2>1. Stages(r)
    BY Zenon DEF Inv
  <2>2. CASE r = s
    BY <1>1, <1>6, <2>1, <2>2, Zenon DEF Stages
  <2>3. CASE r # s
    BY <1>1, <1>6, <2>1, <2>3, Zenon DEF Stages
  <2> QED  BY <2>2, <2>3, Zenon
<1>12. QueueAccounted'
  <2> SUFFICES ASSUME NEW r \in Server
               PROVE  getQueueLen[r] =
                          Cardinality(Waiting(r)')
                          - (IF doOp'[r].pc = "serve" THEN doOp'[r].left ELSE 0)
    BY <1>1, Zenon DEF QueueAccounted
  <2>1. getQueueLen[r] =
            Cardinality(Waiting(r))
            - (IF doOp[r].pc = "serve" THEN doOp[r].left ELSE 0)
    BY Zenon DEF Inv, QueueAccounted
  <2>2. CASE r # s
    <3>1. Waiting(r)' = Waiting(r)
      BY <1>7, <1>9, <2>2, Zenon DEF Waiting
    <3> QED  BY <1>6, <2>1, <2>2, <3>1, Zenon
  <2>3. CASE r = s
    <3>1. Waiting(r)' = Waiting(r) \ {g} /\ g \in Waiting(r)
      BY <1>7, <1>9, <2>3, Zenon DEF Waiting
    <3>2. IsFiniteSet(Waiting(r))
      <4>1. IsFiniteSet(Reader) /\ Waiting(r) \subseteq Reader
        BY KVAssumption, Zenon DEF Waiting
      <4> QED  BY <4>1, Zenon DEF FiniteSetsCount, SubsetsCount
    <3>3. Cardinality(Waiting(r)) \in Nat
      BY <3>2, Zenon DEF FiniteSetsCount, CountsAreNat
    <3>4. Cardinality(Waiting(r) \ {g}) = Cardinality(Waiting(r)) - 1
      BY <3>1, <3>2, Zenon DEF FiniteSetsCount, OneLessCounts
    <3>5. getQueueLen[s] = Cardinality(Waiting(r)) - doOp[s].left
      BY <1>1, <2>1, <2>3, Zenon
    <3>6. doOp[s].left \in Nat
      BY <1>0, Zenon DEF DoOps
    <3>7. getQueueLen[s] = Cardinality(Waiting(r)') - doOp'[s].left
      BY <1>6, <3>1, <3>3, <3>4, <3>5, <3>6
    <3> QED  BY <1>6, <2>3, <3>7, Zenon
  <2> QED  BY <2>2, <2>3, Zenon
<1>13. \A h \in Reader : get'[h].floor = get[h].floor
  BY <1>7, Zenon
<1>14. Noted'
  <2>1. PutsTo(Len(committed))' = PutsTo(Len(committed))
    BY <1>1, Zenon DEF PutsTo
  <2> QED  BY <1>1, <1>13, <2>1, Zenon DEF Inv, Noted
<1>15. ASSUME Timely PROVE Timely'
  <2> DEFINE d == [r \in Server |-> IF r = s THEN 1 ELSE 0]
  <2>1. ASSUME NEW r \in Server
        PROVE  /\ doOp'[r].pc # "idle" => /\ doOp[r].pc # "idle"
                                          /\ lastApplied'[r] = lastApplied[r]
               /\ doOp'[r].left \in Nat /\ doOp'[r].left = doOp[r].left - d[r]
               /\ Len(getQueue'[r]) \in Nat
               /\ Len(getQueue'[r]) >= Len(getQueue[r]) - d[r]
               /\ \A k \in (d[r] + 1) .. Len(getQueue[r]) :
                     Floor(r, k - d[r])' = Floor(r, k)
    <3>1. CASE r = s
      <4>1. d[r] = 1
        BY <3>1, Zenon
      <4> HIDE DEF d
      <4>2. ASSUME NEW k \in 2 .. b
            PROVE  Floor(s, k - 1)' = Floor(s, k)
        <5>1. k - 1 \in 1 .. (b - 1) /\ (k - 1) + 1 = k
          BY <1>2
        <5>2. PICK h \in Reader : h = getQueue[s][k]
          BY <1>9, Zenon
        <5>3. getQueue'[s][k - 1] = h
          BY <1>5, <5>1, <5>2, Zenon
        <5> QED  BY <1>13, <5>2, <5>3, Zenon DEF Floor
      <4>3. doOp'[s].left \in Nat /\ doOp[s].left \in Nat
        BY <1>0, <1>6, Zenon DEF DoOps
      <4>4. b - 1 \in Nat
        BY <1>2
      <4>5. 1 + 1 = 2
        OBVIOUS
      <4>6. \A k \in (d[r] + 1) .. Len(getQueue[r]) :
                Floor(r, k - d[r])' = Floor(r, k)
        BY <1>2, <3>1, <4>1, <4>2, <4>5, Zenon
      <4> QED  BY <1>1, <1>2, <1>5, <1>6, <3>1, <4>1, <4>3, <4>4, <4>6
    <3>2. CASE r # s
      <4>1. d[r] = 0
        BY <3>2, Zenon
      <4> HIDE DEF d
      <4>2. doOp'[r] = doOp[r] /\ getQueue'[r] = getQueue[r]
        BY <1>5, <1>6, <3>2, Zenon
      <4>3. doOp[r].left \in Nat /\ Len(getQueue[r]) \in Nat
        BY <1>0, ReplicaShapes, Zenon
      <4>4. ASSUME NEW k \in (d[r] + 1) .. Len(getQueue[r])
            PROVE  Floor(r, k - d[r])' = Floor(r, k)
        <5>1. k \in 1 .. Len(getQueue[r]) /\ k - d[r] = k
          BY <4>1, <4>3
        <5>2. PICK h \in Reader : h = getQueue[r][k]
          BY <1>9, <3>2, <5>1, Zenon
        <5>3. getQueue'[r][k] = h
          BY <4>2, <5>2, Zenon
        <5> QED  BY <1>13, <5>1, <5>2, <5>3, Zenon DEF Floor
      <4>5. /\ doOp'[r].left = doOp[r].left - d[r]
            /\ Len(getQueue'[r]) >= Len(getQueue[r]) - d[r]
        BY <4>1, <4>2, <4>3
      <4> QED  BY <1>1, <4>2, <4>3, <4>4, <4>5, Zenon
    <3> QED  BY <3>1, <3>2, Zenon
  <2>2. d \in [Server -> {0, 1}]
    BY Zenon
  <2> HIDE DEF d
  <2>3. CountedInTime' /\ SubmittedInTime' /\ CommittedInTime' /\ ServedInTime'
    BY <1>1, <1>15, <2>1, <2>2, QueuesMove, Zenon
  <2>4. v >= get[g].floor
    <3>1. 1 \in 1 .. doOp[s].left
      BY <1>0, <1>1 DEF DoOps
    <3>2. Floor(s, 1) <= PutsTo(lastApplied[s])
      BY <1>1, <1>15, <3>1, Zenon DEF Timely, ServedInTime
    <3>3. v = PutsTo(lastApplied[s]) /\ get[g].floor = Floor(s, 1)
      BY <1>0, <1>3, <1>4, StoreIs, Zenon DEF Floor
    <3>4. get[g].floor \in Nat
      BY <1>0, Zenon DEF Calls
    <3> QED  BY <3>2, <3>3, <3>4, Zenon
  <2>5. ReadsFresh'
    BY <1>7, <1>15, <2>4, Zenon DEF Timely, ReadsFresh
  <2> QED  BY <2>3, <2>5, Zenon DEF Timely
<1>16. Rounds'
  BY <1>1, Frame, Zenon
<1> QED  BY <1>1, <1>8, <1>10, <1>11, <1>12, <1>14, <1>15, <1>16, Zenon DEF Inv

-----------------------------------------------------------------------------
LEMMA InitInv ==
    ASSUME FiniteSetsCount, Init
    PROVE  Inv
<1> USE DEF Init
<1>1. Shapes
  <2>1. /\ lastApplied \in [Server -> 0 .. Len(committed)]
        /\ syncVersion \in [Server -> Nat] /\ getQueueLen \in [Server -> Int]
        /\ getQueue \in [Server -> Seq(Reader)]
    OBVIOUS
  <2>2. /\ loop \in [Server -> Loops] /\ doOp \in [Server -> DoOps]
    BY Zenon DEF IdleLoop, IdleDoOp, Loops, DoOps
  <2>3. get \in [Reader -> Calls]
    <3>1. (CHOOSE s \in Server : TRUE) \in Server
      BY KVAssumption, Zenon
    <3> QED  BY <3>1, Zenon DEF Calls
  <2>4. fails \in 0 .. MaxFails /\ restarts \in 0 .. MaxRestarts
    BY KVAssumption
  <2>5. overcounted \in BOOLEAN
    BY Zenon
  <2> QED  BY <2>1, <2>2, <2>3, <2>4, <2>5
           DEF Shapes, TypeOK, Loops, DoOps, Calls
<1>2. ASSUME NEW s \in Server PROVE Queued(s) /\ Stages(s)
  BY DEF Queued, Stages, IdleLoop, IdleDoOp
<1>3. QueueAccounted
  <2> SUFFICES ASSUME NEW s \in Server
               PROVE  getQueueLen[s] =
                          Cardinality(Waiting(s))
                          - (IF doOp[s].pc = "serve" THEN doOp[s].left ELSE 0)
    BY Zenon DEF QueueAccounted
  <2>1. Waiting(s) = {}
    BY Zenon DEF Waiting
  <2>2. Cardinality({}) = 0
    BY Zenon DEF FiniteSetsCount, EmptyCounts
  <2> QED  BY <2>1, <2>2 DEF IdleDoOp
<1>4. Rounds
  BY DEF Rounds
<1>5. Noted
  <2>1. Len(committed) = 0 /\ {k \in 1 .. 0 : committed[k].type = "Put"} = {}
    OBVIOUS
  <2>2. PutsTo(Len(committed)) = 0
    BY <2>1, Zenon DEF FiniteSetsCount, EmptyCounts, PutsTo
  <2> QED  BY <2>2 DEF Noted
<1>6. Timely
  <2>1. CountedInTime /\ ServedInTime
    BY Zenon DEF CountedInTime, ServedInTime, IdleLoop, IdleDoOp
  <2>2. SubmittedInTime /\ CommittedInTime
    BY DEF SubmittedInTime, CommittedInTime
  <2>3. ReadsFresh
    BY Zenon DEF ReadsFresh
  <2> QED  BY <2>1, <2>2, <2>3, Zenon DEF Timely
<1> QED  BY <1>1, <1>2, <1>3, <1>4, <1>5, <1>6, Zenon DEF Inv

LEMMA NextInv ==
    ASSUME FiniteSetsCount, Inv, [Next]_vars
    PROVE  Inv'
<1>1. CASE ClientPut
  BY <1>1, ClientPutKeeps, Zenon
<1>2. CASE PutReturns
  BY <1>2, PutReturnsKeeps, Zenon
<1>3. CASE \E op \in submitted : CommitSync(op)
  BY <1>3, CommitSyncKeeps, Zenon
<1>4. CASE \E g \in Reader, s \in Server : GetCounted(g, s)
  BY <1>4, GetCountedKeeps, Zenon
<1>5. CASE \E g \in Reader : GetQueued(g)
  BY <1>5, GetQueuedKeeps, Zenon
<1>6. CASE \E s \in Server : Loop(s)
  BY <1>6, LoopCountKeeps, LoopSubmitKeeps, LoopOKKeeps, LoopSeesAppliedKeeps,
     LoopFailsKeeps, Zenon DEF Loop
<1>7. CASE \E s \in Server : DoOp(s)
  BY <1>7, DoOpPlainKeeps, DoOpSyncKeeps, DoOpSubtractKeeps, DoOpServeKeeps,
     DoOpDoneKeeps, Zenon DEF DoOp
<1>8. CASE \E s \in Server : Restart(s)
  BY <1>8, RestartKeeps, Zenon
<1>9. CASE UNCHANGED vars
  <2>1. UNCHANGED <<committed, submitted, acked, lastApplied, syncVersion,
                    getQueueLen, getQueue, loop, doOp, get, overcounted, fails,
                    restarts>>
    BY <1>9, Zenon DEF vars
  <2>2. Shapes'
    BY <2>1, Zenon DEF Inv, Shapes, TypeOK
  <2>3. Timely => Timely'
    BY <2>1, TimelyFrame, Zenon DEF Timely
  <2>4. /\ \A s \in Server : Queued(s)' /\ Stages(s)'
        /\ QueueAccounted' /\ Rounds' /\ Noted'
    BY <2>1, Frame, Zenon
  <2> QED  BY <2>1, <2>2, <2>3, <2>4, Zenon DEF Inv
<1> QED  BY <1>1, <1>2, <1>3, <1>4, <1>5, <1>6, <1>7, <1>8, <1>9, Zenon
            DEF Next

-----------------------------------------------------------------------------
INSTANCE FiniteSetTheorems

LEMMA SetsCount == FiniteSetsCount
<1>1. EmptyCounts /\ CountsAreNat
  BY FS_EmptySet, FS_CardinalityType, Zenon DEF EmptyCounts, CountsAreNat
<1>2. IntervalsFinite
  BY FS_Interval DEF IntervalsFinite
<1>3. SubsetsCount
  BY FS_Subset, Zenon DEF SubsetsCount
<1>4. OneMoreCounts
  BY FS_AddElement, Zenon DEF OneMoreCounts
<1>5. OneLessCounts
  BY FS_RemoveElement, Zenon DEF OneLessCounts
<1> QED  BY <1>1, <1>2, <1>3, <1>4, <1>5, Zenon DEF FiniteSetsCount

LEMMA InvHolds == Spec => []Inv
<1>1. Init => Inv
  BY InitInv, SetsCount, Zenon
<1>2. Inv /\ [Next]_vars => Inv'
  BY NextInv, SetsCount, Zenon
<1> QED  BY <1>1, <1>2, PTL DEF Spec

(* What the sync loops, DoOp, the queues and the calls of Get hold keeps its *)
(* type, whatever is submitted, committed, given up or restarted.            *)
THEOREM ReplicasTyped == Spec => []TypeOK
<1>1. Inv => TypeOK
  BY Zenon DEF Inv, Shapes
<1> QED  BY <1>1, InvHolds, PTL

(* Get adds to getQueueLen before it queues, DoOp subtracts before it serves *)
(* and a restart drops both: at every moment the counter is the number of    *)
(* Gets that wait less those that a DoOp has set out to serve.               *)
THEOREM CounterIsExact == Spec => []QueueAccounted
<1>1. Inv => QueueAccounted
  BY Zenon DEF Inv
<1> QED  BY <1>1, InvHolds, PTL

(* A Get returns every Put that had returned when it was called, as long as  *)
(* no sync loop has counted a Get that was not in the queue, or that a DoOp  *)
(* was about to take out of it. Late commits of sync Puts, failed rounds and *)
(* restarts do not endanger that.                                            *)
THEOREM ReadsAreFresh == Spec => []FreshUnlessOvercounted
<1>1. Inv => FreshUnlessOvercounted
  BY Zenon DEF Inv, Timely, FreshUnlessOvercounted
<1> QED  BY <1>1, InvHolds, PTL

=============================================================================
