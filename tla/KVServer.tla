------------------------------ MODULE KVServer ------------------------------
(*****************************************************************************)
(* The reads of kvraft1/server.go ("Lazy-ALR"). A Get waits in a queue of    *)
(* the replica that it reached. The sync loop of the replica commits a dummy *)
(* Put to the key "sync" that names the replica, the number of Gets that     *)
(* wait and the replica's syncVersion; when the replica applies it, DoOp     *)
(* serves that many Gets from the local store.                               *)
(*                                                                           *)
(* Raft and the RSM are reduced to what they promise here: what is submitted *)
(* may enter one common sequence of operations, once, now or later or never, *)
(* and every replica applies that sequence in order. One key stands for all: *)
(* its value is the number of Puts that have changed it. Random numbers are  *)
(* taken to be fresh.                                                        *)
(*****************************************************************************)
EXTENDS Integers, Sequences, FiniteSets

CONSTANTS
    Server,         \* the replicas
    Reader,         \* the calls of Get, one each
    QueueCap,       \* the capacity of getQueue, 10000 in the code
    MaxPuts,        \* bound: client Puts
    MaxFails,       \* bound: rounds of sync loops that fail, and restarts
    MaxRestarts     \* bound: restarts among them

ASSUME KVAssumption ==
    /\ Server # {}
    /\ IsFiniteSet(Reader)
    /\ QueueCap \in Nat \ {0}
    /\ MaxPuts \in Nat
    /\ MaxFails \in Nat
    /\ MaxRestarts \in Nat

VARIABLES
    committed,      \* the operations that Raft has committed, in order
    submitted,      \* the sync Puts that may still be committed
    acked,          \* client Puts that have returned OK
    lastApplied,    \* per replica, how much of committed DoOp has finished
    syncVersion,    \* kv.syncVersion
    getQueueLen,    \* kv.getQueueLen
    getQueue,       \* kv.getQueue
    loop,           \* per replica, the sync loop
    doOp,           \* per replica, the DoOp that is under way
    get,            \* per call of Get, how far it is
    overcounted,    \* history: has a loop counted Gets that it cannot serve?
    fails,          \* rounds that have failed, and restarts
    restarts        \* restarts

vars == <<committed, submitted, acked, lastApplied, syncVersion, getQueueLen,
          getQueue, loop, doOp, get, overcounted, fails, restarts>>

PutOp == [type |-> "Put"]
SyncOp(s, n, v) ==
    [type |-> "sync", server |-> s, queuelen |-> n, version |-> v]

PutsIn(ops) == Cardinality({k \in 1 .. Len(ops) : ops[k].type = "Put"})

\* kv.kv, which is also kv.versions: the Puts among what the replica applied.
store(s) == PutsIn(SubSeq(committed, 1, lastApplied[s]))

-----------------------------------------------------------------------------
\* Client Puts, at whatever replica leads.  They return after they commit.
ClientPut ==
    /\ PutsIn(committed) < MaxPuts
    /\ committed' = Append(committed, PutOp)
    /\ UNCHANGED <<submitted, acked, lastApplied, syncVersion, getQueueLen,
                   getQueue, loop, doOp, get, overcounted, fails, restarts>>

PutReturns ==
    /\ acked < PutsIn(committed)
    /\ acked' = acked + 1
    /\ UNCHANGED <<committed, submitted, lastApplied, syncVersion, getQueueLen,
                   getQueue, loop, doOp, get, overcounted, fails, restarts>>

-----------------------------------------------------------------------------
(* Clerk.Get calls some replica, and again when the call has failed. One     *)
(* that gives up after ten seconds counts as a call of its own: it stays in  *)
(* the queue, and the next call is another reader.                           *)
ClerkCalls(g) == get[g].pc \in {"new", "failed"}

(* At the replica Get adds itself to getQueueLen and then to getQueue. The   *)
(* history notes what a linearizable read must at least return.              *)
GetCounted(g, s) ==
    /\ ClerkCalls(g)
    /\ getQueueLen' = [getQueueLen EXCEPT ![s] = @ + 1]
    /\ get' = [get EXCEPT
           ![g].pc = "counted",
           ![g].at = s,
           ![g].floor = IF get[g].pc = "new" THEN acked ELSE @]
    /\ UNCHANGED <<committed, submitted, acked, lastApplied, syncVersion,
                   getQueue, loop, doOp, overcounted, fails, restarts>>

GetQueued(g) ==
    LET s == get[g].at
    IN  /\ get[g].pc = "counted"
        /\ Len(getQueue[s]) < QueueCap
        /\ getQueue' = [getQueue EXCEPT ![s] = Append(@, g)]
        /\ get' = [get EXCEPT ![g].pc = "queued"]
        /\ UNCHANGED <<committed, submitted, acked, lastApplied, syncVersion,
                       getQueueLen, loop, doOp, overcounted, fails, restarts>>

-----------------------------------------------------------------------------
\* The Gets in the queue that the DoOp under way leaves there.
Servable(s) == Len(getQueue[s]) - doOp[s].left

\* Mutant: a round starts although no Get waits.
LoopCountIdle(s) ==
    /\ loop[s].pc = "count"
    /\ loop' = [loop EXCEPT ![s].pc = "version", ![s].queuelen = getQueueLen[s]]
    /\ overcounted' = (overcounted \/ getQueueLen[s] > Servable(s))
    /\ UNCHANGED <<committed, submitted, acked, lastApplied, syncVersion,
                   getQueueLen, getQueue, doOp, get, fails, restarts>>

\* The sync loop reads getQueueLen,
LoopCount(s) ==
    /\ loop[s].pc = "count"
    /\ getQueueLen[s] > 0
    /\ loop' = [loop EXCEPT ![s].pc = "version", ![s].queuelen = getQueueLen[s]]
    /\ overcounted' = (overcounted \/ getQueueLen[s] > Servable(s))
    /\ UNCHANGED <<committed, submitted, acked, lastApplied, syncVersion,
                   getQueueLen, getQueue, doOp, get, fails, restarts>>

\* ... then syncVersion, without a lock, and submits the sync Put.
LoopSubmit(s) ==
    /\ loop[s].pc = "version"
    /\ loop' = [loop EXCEPT ![s].pc = "submitted",
                            ![s].version = syncVersion[s]]
    /\ submitted' = submitted \cup
           {SyncOp(s, loop[s].queuelen, syncVersion[s])}
    /\ UNCHANGED <<committed, acked, lastApplied, syncVersion, getQueueLen,
                   getQueue, doOp, get, overcounted, fails, restarts>>

\* Raft commits a sync Put, perhaps long after its caller has given up.
CommitSync(op) ==
    /\ op \in submitted
    /\ committed' = Append(committed, op)
    /\ submitted' = submitted \ {op}
    /\ UNCHANGED <<acked, lastApplied, syncVersion, getQueueLen, getQueue, loop,
                   doOp, get, overcounted, fails, restarts>>

\* The Put that the loop of replica s waits for.
Round(s) == SyncOp(s, loop[s].queuelen, loop[s].version)

\* The loop learns that its Put was committed,
LoopOK(s) ==
    /\ loop[s].pc = "submitted"
    /\ \E k \in DOMAIN committed : committed[k] = Round(s)
    /\ loop' = [loop EXCEPT ![s].pc = "spin"]
    /\ UNCHANGED <<committed, submitted, acked, lastApplied, syncVersion,
                   getQueueLen, getQueue, doOp, get, overcounted, fails,
                   restarts>>

\* ... and waits, without a lock, until this replica has applied it;
LoopSeesApplied(s) ==
    /\ loop[s].pc = "spin"
    /\ syncVersion[s] # loop[s].version
    /\ loop' = [loop EXCEPT ![s].pc = "count"]
    /\ UNCHANGED <<committed, submitted, acked, lastApplied, syncVersion,
                   getQueueLen, getQueue, doOp, get, overcounted, fails,
                   restarts>>

(* ... or it gets another answer or none, and takes a new syncVersion under  *)
(* kv.mu, which DoOp holds while it is under way.                            *)
LoopFails(s) ==
    /\ loop[s].pc = "submitted"
    /\ fails < MaxFails
    /\ fails' = fails + 1
    /\ doOp[s].pc = "idle"
    /\ syncVersion' = [syncVersion EXCEPT ![s] = @ + 1]
    /\ loop' = [loop EXCEPT ![s].pc = "count"]
    /\ UNCHANGED <<committed, submitted, acked, lastApplied, getQueueLen,
                   getQueue, doOp, get, overcounted, restarts>>

-----------------------------------------------------------------------------
NextOp(s) == committed[lastApplied[s] + 1]

\* Mutant: DoOp serves whatever sync Put names this replica.
MatchesAny(s, op) == op.server = s

Matches(s, op) == op.server = s /\ op.version = syncVersion[s]

\* DoOp applies a client Put, or a sync Put that is not for this round.
DoOpPlain(s) ==
    /\ doOp[s].pc = "idle"
    /\ lastApplied[s] < Len(committed)
    /\ NextOp(s).type = "sync" => ~ Matches(s, NextOp(s))
    /\ lastApplied' = [lastApplied EXCEPT ![s] = @ + 1]
    /\ UNCHANGED <<committed, submitted, acked, syncVersion, getQueueLen,
                   getQueue, loop, doOp, get, overcounted, fails, restarts>>

\* DoOp applies the sync Put of this round: it takes a new syncVersion,
DoOpSync(s) ==
    /\ doOp[s].pc = "idle"
    /\ lastApplied[s] < Len(committed)
    /\ NextOp(s).type = "sync" /\ Matches(s, NextOp(s))
    /\ syncVersion' = [syncVersion EXCEPT ![s] = @ + 1]
    /\ doOp' = [doOp EXCEPT ![s] = [pc |-> "subtract",
                                    left |-> NextOp(s).queuelen]]
    /\ UNCHANGED <<committed, submitted, acked, lastApplied, getQueueLen,
                   getQueue, loop, get, overcounted, fails, restarts>>

\* Mutant: one Get too few is subtracted.
SubtractFewer(s) ==
    /\ doOp[s].pc = "subtract"
    /\ getQueueLen' = [getQueueLen EXCEPT ![s] = @ - doOp[s].left + 1]
    /\ doOp' = [doOp EXCEPT ![s].pc = "serve"]
    /\ UNCHANGED <<committed, submitted, acked, lastApplied, syncVersion,
                   getQueue, loop, get, overcounted, fails, restarts>>

\* Mutant: one Get too many is subtracted.
SubtractMore(s) ==
    /\ doOp[s].pc = "subtract"
    /\ getQueueLen' = [getQueueLen EXCEPT ![s] = @ - doOp[s].left - 1]
    /\ doOp' = [doOp EXCEPT ![s].pc = "serve"]
    /\ UNCHANGED <<committed, submitted, acked, lastApplied, syncVersion,
                   getQueue, loop, get, overcounted, fails, restarts>>

\* ... subtracts the Gets that it is about to serve,
DoOpSubtract(s) ==
    /\ doOp[s].pc = "subtract"
    /\ getQueueLen' = [getQueueLen EXCEPT ![s] = @ - doOp[s].left]
    /\ doOp' = [doOp EXCEPT ![s].pc = "serve"]
    /\ UNCHANGED <<committed, submitted, acked, lastApplied, syncVersion,
                   getQueue, loop, get, overcounted, fails, restarts>>

(* ... serves them in turn, each by a goroutine that reads the store, and    *)
(* waits for the next one when getQueue is empty.                            *)
DoOpServe(s) ==
    /\ doOp[s].pc = "serve"
    /\ doOp[s].left > 0
    /\ getQueue[s] # << >>
    /\ getQueue' = [getQueue EXCEPT ![s] = Tail(@)]
    /\ get' = [get EXCEPT ![Head(getQueue[s])].pc = "done",
                          ![Head(getQueue[s])].value = store(s)]
    /\ doOp' = [doOp EXCEPT ![s].left = @ - 1]
    /\ UNCHANGED <<committed, submitted, acked, lastApplied, syncVersion,
                   getQueueLen, loop, overcounted, fails, restarts>>

DoOpDone(s) ==
    /\ doOp[s].pc = "serve"
    /\ doOp[s].left = 0
    /\ doOp' = [doOp EXCEPT ![s].pc = "idle"]
    /\ lastApplied' = [lastApplied EXCEPT ![s] = @ + 1]
    /\ UNCHANGED <<committed, submitted, acked, syncVersion, getQueueLen,
                   getQueue, loop, get, overcounted, fails, restarts>>

-----------------------------------------------------------------------------
IdleLoop == [pc |-> "count", queuelen |-> 0, version |-> 0]
IdleDoOp == [pc |-> "idle", left |-> 0]

Waiting(s) ==
    {g \in Reader : get[g].at = s /\ get[g].pc \in {"counted", "queued"}}

\* Mutant: the syncVersion of a new instance is always the same.
RestartSameVersion(s) ==
    /\ fails < MaxFails /\ restarts < MaxRestarts
    /\ fails' = fails + 1
    /\ restarts' = restarts + 1
    /\ lastApplied' = [lastApplied EXCEPT ![s] = 0]
    /\ syncVersion' = [syncVersion EXCEPT ![s] = 1]
    /\ getQueueLen' = [getQueueLen EXCEPT ![s] = 0]
    /\ getQueue' = [getQueue EXCEPT ![s] = << >>]
    /\ loop' = [loop EXCEPT ![s] = IdleLoop]
    /\ doOp' = [doOp EXCEPT ![s] = IdleDoOp]
    /\ get' = [g \in Reader |-> IF g \in Waiting(s)
                                THEN [get[g] EXCEPT !.pc = "failed"]
                                ELSE get[g]]
    /\ UNCHANGED <<committed, submitted, acked, overcounted>>

(* A replica is shut down and StartKVServer runs again: the store is empty   *)
(* until the log is replayed, the syncVersion is a new random number, and    *)
(* the calls of the Gets that waited fail. The Put of its old loop may still *)
(* be committed.                                                             *)
Restart(s) ==
    /\ fails < MaxFails /\ restarts < MaxRestarts
    /\ fails' = fails + 1
    /\ restarts' = restarts + 1
    /\ lastApplied' = [lastApplied EXCEPT ![s] = 0]
    /\ syncVersion' = [syncVersion EXCEPT ![s] = @ + 1]
    /\ getQueueLen' = [getQueueLen EXCEPT ![s] = 0]
    /\ getQueue' = [getQueue EXCEPT ![s] = << >>]
    /\ loop' = [loop EXCEPT ![s] = IdleLoop]
    /\ doOp' = [doOp EXCEPT ![s] = IdleDoOp]
    /\ get' = [g \in Reader |-> IF g \in Waiting(s)
                                THEN [get[g] EXCEPT !.pc = "failed"]
                                ELSE get[g]]
    /\ UNCHANGED <<committed, submitted, acked, overcounted>>

-----------------------------------------------------------------------------
\* StartKVServer on every replica.
Init ==
    /\ committed = << >>
    /\ submitted = {}
    /\ acked = 0
    /\ lastApplied = [s \in Server |-> 0]
    /\ syncVersion = [s \in Server |-> 1]
    /\ getQueueLen = [s \in Server |-> 0]
    /\ getQueue = [s \in Server |-> << >>]
    /\ loop = [s \in Server |-> IdleLoop]
    /\ doOp = [s \in Server |-> IdleDoOp]
    /\ get = [g \in Reader |-> [pc |-> "new", at |-> CHOOSE s \in Server : TRUE,
                                floor |-> 0, value |-> -1]]
    /\ overcounted = FALSE
    /\ fails = 0
    /\ restarts = 0

Loop(s) == \/ LoopCount(s) \/ LoopSubmit(s) \/ LoopOK(s) \/ LoopSeesApplied(s)
           \/ LoopFails(s)

DoOp(s) == \/ DoOpPlain(s) \/ DoOpSync(s) \/ DoOpSubtract(s) \/ DoOpServe(s)
           \/ DoOpDone(s)

Next ==
    \/ ClientPut
    \/ PutReturns
    \/ \E op \in submitted : CommitSync(op)
    \/ \E g \in Reader, s \in Server : GetCounted(g, s)
    \/ \E g \in Reader : GetQueued(g)
    \/ \E s \in Server : Loop(s) \/ DoOp(s) \/ Restart(s)

Spec == Init /\ [][Next]_vars

(* The goroutines of a replica keep running, and every replica keeps         *)
(* applying. Raft commits the Put of a loop that goes on waiting; by         *)
(* MaxFails, not all rounds fail. Puts that the loop has given up, and       *)
(* clients, need not do anything.                                            *)
Fairness ==
    /\ \A g \in Reader :
           /\ WF_vars(GetQueued(g))
           /\ WF_vars(/\ get[g].pc = "failed"
                      /\ \E s \in Server : GetCounted(g, s))
    /\ \A s \in Server : /\ WF_vars(Loop(s)) /\ WF_vars(DoOp(s))
                         /\ WF_vars(loop[s].pc = "submitted"
                                    /\ CommitSync(Round(s)))

FairSpec == Spec /\ Fairness

-----------------------------------------------------------------------------
\* Every variable of a replica and every operation have their types.
TypeOK ==
    /\ \A k \in 1 .. Len(committed) : committed[k].type \in {"Put", "sync"}
    /\ \A op \in submitted : op.server \in Server /\ op.queuelen > 0
    /\ acked \in Nat
    /\ lastApplied \in [Server -> 0 .. Len(committed)]
    /\ syncVersion \in [Server -> Nat]
    /\ getQueueLen \in [Server -> Int]
    /\ getQueue \in [Server -> Seq(Reader)]
    /\ loop \in [Server -> [pc : {"count", "version", "submitted", "spin"},
                            queuelen : Nat, version : Nat]]
    /\ doOp \in [Server -> [pc : {"idle", "subtract", "serve"}, left : Nat]]
    /\ get \in [Reader -> [pc : {"new", "counted", "queued", "failed",
                                 "done"},
                           at : Server, floor : Nat, value : Nat \cup {-1}]]
    /\ overcounted \in BOOLEAN
    /\ fails \in 0 .. MaxFails
    /\ restarts \in 0 .. MaxRestarts

(* getQueueLen, kept with atomic additions outside any lock, is the number   *)
(* of Gets that wait and that no DoOp has set out to serve.                  *)
QueueAccounted ==
    \A s \in Server :
        getQueueLen[s] = Cardinality(Waiting(s))
                         - (IF doOp[s].pc = "serve" THEN doOp[s].left ELSE 0)

(* README.md: "all writes that were committed before the read are visible to *)
(* the backup replica processing the read". A Get that was called after a    *)
(* Put had returned sees that Put.                                           *)
ReadsFresh ==
    \A g \in Reader : get[g].pc = "done" => get[g].value >= get[g].floor

(* As long as no sync loop has counted a Get that is on its way into the     *)
(* queue or that a DoOp is about to take out, every read is fresh: the       *)
(* window between the count and the queue is the only weak spot.             *)
FreshUnlessOvercounted == overcounted \/ ReadsFresh

(* Every Get that has entered a replica is answered, whatever sync Puts      *)
(* fail, are committed late, or count too many Gets.                         *)
GetsServed ==
    \A g \in Reader : []<>(get[g].pc \in {"new", "done"})

(* Unless a loop has counted a Get too many, a DoOp that serves Gets finds   *)
(* them and ends: it holds kv.mu, so the replica applies nothing until it    *)
(* does.                                                                     *)
DoOpEnds ==
    \A s \in Server : []<>(doOp[s].pc = "idle" \/ overcounted)

=============================================================================
