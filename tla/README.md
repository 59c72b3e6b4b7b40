# Verification of raft-kvs

This directory is a TLA+ development of the Go program under `src/src`: a
key/value store replicated by Raft, with a replicated-state-machine layer, a
read path of its own ("Lazy-ALR") and a test bed that simulates the network, the
disks and the crashes. The modules are translated from the source; comments in
them name the functions they stand for, and `PROJECT.json` gives the lines.

## 1. The system

| part | source | state | operations |
|---|---|---|---|
| Raft peer: elections | `raft/leader_election.go`, `raft/raft.go` | `currentTerm`, `votedFor`, `state`, `leaderId`, timers | `startElection`, `RequestVote`, the reply goroutine, `becomeLeader`, `becomeFollower`, `ticker` |
| Raft peer: replication | `raft/log_replication.go`, `raft/util.go` | `log`, `nextIndex`, `matchIndex`, `commitIndex` | `Start`, `AppendEntries`, `replicateTo`, `advanceCommitIndex`, `broadcastAppendEntries`, `sendHeartbeats` |
| Raft peer: disk | `raft/persistence.go`, `tester1/persister.go` | the saved image | `persist`, `readPersist` |
| Raft peer: delivery | `raft/raft.go` | `lastApplied`, `applyCh` | `applier`, `abortPendingCommands`, `Kill` |
| RSM | `kvraft1/rsm/rsm.go` | `opChs` | `Submit`, the reader goroutine |
| key/value server | `kvraft1/server.go` | `kv`, `versions`, `syncVersion`, `getQueue`, `getQueueLen`, `opChs` | `DoOp`, `Get`, `Put`, the sync loop, `Snapshot`, `Restore`, `Kill` |
| client | `kvraft1/client.go` | the order of `servers`, `firstAttempt` | `Get`, `Put`, `moveServerToFront`, `moveServerToBack` |
| network | `labrpc/labrpc.go` | which ends are enabled, which servers are alive | `Call`, `processReq`, `Enable`, `AddServer`, `DeleteServer`, `DeleteEnd` |
| group of servers | `tester1/group.go`, `tester1/srv.go`, `tester1/persister.go` | instances, connections, saved images | `StartServer`, `ShutdownServer`, `ConnectAll`, `DisconnectAll`, `Partition` |
| clients of the test bed | `tester1/clnts.go` | ends made so far, servers allowed | `Call`, `ConnectAll`, `DeleteClient` |
| sequential model | `models1/kv.go` | value and version of a key | `Init`, `Step` |

### How the parts interact

- A **clerk** tries the servers one after another. A Put goes through
  `rsm.Submit`, a Get through the queue of whichever replica it reached.
- **Submit** gives the operation a random id, registers a channel under it, calls
  `Start` and waits. The **reader** goroutine of the RSM receives what Raft sends
  on `applyCh`, calls `DoOp`, and passes the result to the channel with that id.
- **applier** sends committed entries on `applyCh` without `rf.mu`.
  `AppendEntries` and `Kill` send *Aborted* messages on the same channel with
  `rf.mu` held, for entries that are cut off or not applied. All these channels
  are unbuffered.
- The **sync loop** of each replica counts the Gets that wait and commits a dummy
  Put to the key `sync` through the leader. When a replica applies its own
  current sync Put, `DoOp` serves that many Gets, with `kv.mu` held.
- **Raft peers** talk by `labrpc`, which loses, delays and reorders calls and
  replies. A crash keeps what `persist` has written, and nothing else.
- A crash is an operation of the **group**: it disconnects the server, takes it
  off the network, replaces its persister by a copy and calls `Kill`. The old
  instance goes on running, with its old persister. A start makes a new instance
  with fresh ends and a copy of the saved state.

### What is hard about it

- Messages between peers arrive late, in another order, or never. Votes and
  replies arrive after their receiver has changed its term or its role.
- Peers crash between any two locked sections. Some sections change the log
  without saving it.
- `ticker`, `applier`, `Submit` and the sync loop read state, let go of the lock,
  and act on what they read.
- Three goroutines send on one unbuffered channel, two of them with a lock held
  that the receiver's customers need.
- The read path keeps its counters with atomic operations outside the lock.
- Retries repeat a Put that may still be performed by an earlier call.
- Calls are under way while the group changes: a handler saves and answers while
  its server is shut down, copied and replaced under the same name.

`PROJECT.json` lists these as hazards, each at the line where it bites.

### What correct means

| property | says | who promises it |
|---|---|---|
| `ElectionSafety` | at most one leader per term | `checkOneLeader`, `raft/test.go` |
| `PromisesKept` | terms and votes survive everything, crashes included | `raft/persistence.go` |
| `LogMatching`, `LeaderAppendOnly`, `LeaderCompleteness` | the logs stay what Raft needs | Raft, Figure 2 of whose paper `persistence.go` cites |
| `StateMachineSafety` | peers apply the same entries | `checkLogs`, `raft/test.go` |
| `MatchIsDurable`, `DiskCoversMemory` | what a leader counts is on a disk | `raft/persistence.go` |
| `SlotZero`, `IndexesInRange`, `CommitWithinLog` | no index leaves the log, `applier` never spins | the Go slices |
| `BackupMovesDown` | after a refusal for a conflict the next call starts strictly earlier | the comments of `replicateTo` |
| `ExecutesLog`, `OkIsExecuted` | the state machine executes the committed log; OK means executed | the comment of `Submit` |
| `NobodyForgotten`, `ReturnsInTerm`, `StopsAfterKill` | every `Submit` is told how it ended | `rsm_test.go` |
| `AtMostOnce`, `AnswersHonest`, `ErrVersionHonest` | a Put happens at most once and its answer is true | the comment of `Clerk.Put` |
| `ReadsFresh` | a Get sees the Puts that returned before it | `README.md` |
| `QueueAccounted`, `GetsServed`, `DoOpEnds` | Gets are counted and answered | `kvraft1/server.go` |
| `PositiveReplyKept` | what a positive reply promises is in the saved state of the server | the comments of `processReq` and `ShutdownServer` |
| `LinksAsAsked`, `IsolatedUnlessReconnected`, `ClientsAsAllowed` | the network is what the tester asked for | `tester1/group.go`, `tester1/clnts.go` |
| `CallReturns` | a call returns unless its handler does not | the comment of package `labrpc` |

## 2. Modules

| module | models | kind |
|---|---|---|
| `Raft` | elections, replication, disk and delivery of a group of peers | specification |
| `Election` | what elections promise, without messages, logs or disks | abstract specification |
| `RSM` | `Submit`, the reader, `applier`, `Kill` and the Aborted messages of one server | specification |
| `KVServer` | `Get`, the sync loop and `DoOp` of several replicas | specification |
| `Clerk` | `Clerk.Put`, its retries, and the version check of the service | specification |
| `Network` | `labrpc`: ends, servers, `Call`, `processReq` | component of `Group` |
| `Group` | the test bed on that network: instances, persisters, connections, clients | specification |
| `MCRaft`, `MCContest`, `MCDivided` | `Raft` for TLC, from `Make`, from a contested term, from a divided log | TLC |
| `MCKVServer`, `MCClerk` | `KVServer` and `Clerk` for TLC | TLC |
| `RaftProofs` | operators and types of `Raft`; every step is one of `Election` | proofs |
| `RaftLogProofs`, `RaftCommitProofs` | the logs of `Raft`; what a majority holds, later leaders have | proofs |
| `RaftSafetyProofs` | what is committed stays committed; the theorems about `Raft` | proofs |
| `ElectionProofs`, `RSMProofs`, `KVServerProofs`, `ClerkProofs` | theorems about the module of that name | proofs |

The modules meet through what they promise. `Raft` says that peers agree on one
sequence of entries when calls arrive in order. `KVServer` and `Clerk` start from
such a sequence. `RSM` takes from `Raft` the moves that the rest of the group can
force on one server. `Group` and `Network` are the ground under `Raft` and
`Clerk`, which keep their effect only: a call or a reply is lost, late or
overtaken, and a restart begins with what a handler had saved when it answered,
which is what `PositiveReplyKept` shows.

### Raft

An action is a section of code that runs with `rf.mu` held. The variables keep
the names of the fields of `rf`; slot `k` of the Go slice is element `k + 1` of
`log[i]`, and the sentinel in slot 0 is there.

| action | code |
|---|---|
| `startElection` | `startElection`, up to the goroutines that call |
| `RequestVote`, `RequestVoteReplied` | the handler, and what the goroutine of `startElection` does with the reply |
| `Start`, `sendHeartbeats` | the same, with the calls that `broadcastAppendEntries` makes |
| `AppendEntries` | the handler, one disjunct for each way out: stale, gap, conflict, accepted |
| `AppendEntriesReplied` | `replicateTo` after the call, with `advanceCommitIndex` |
| `applier` | one round of the loop |
| `Restart` | a crash and `Make` with `readPersist` |

`persist` is called in the actions at the places where the code calls it.
Messages stay in sets once sent, so they may be delivered late, in any order, more
than once, or never. `Reordering = FALSE` restricts AppendEntries calls of a
leader to the order in which they were sent (`Deliverable`). Time is left out:
any timer may expire at any moment. `MaxElections`, `MaxIndex`, `MaxRestarts` and
`Heartbeats` bound a behaviour.

The Aborted messages of `AppendEntries` belong to `RSM`, and are not in `Raft`.

### RSM

One server, at the grain of its channel operations and of its sections under
`rf.mu`. A send and its receive are one step. `AppendEntries` and `Kill` hold
`lock` from their first step to their last, with the sends in between
(`AbortSend`); every other section under `rf.mu` is one step that needs `lock` to
be free. `Submit` is `Register`, `StartLeading` or `StartFollowing`, `Deliver`,
`GetState`, `Leave`. The reader is `ApplierSend` or `AbortSend`, `LookUp`,
`Deliver`. The applier is `ApplierTop`, `ApplierCopy`, `ApplierSend`,
`ApplierMark`. `BecomeLeader`, `StepDown`, `AdvanceCommit` and
`AppendEntriesCall` are what the group does to the server. Calls are assumed to
keep what is committed, which is what `Raft` shows for calls in order.

### KVServer

`GetCounted` and `GetQueued` are the two steps of `Get`: the
atomic addition and the entry into the queue. `Loop` is the sync loop, one step
per atomic read. `DoOp` is split where other goroutines can see the difference:
the change of `syncVersion`, the subtraction from `getQueueLen`, and every Get
taken from the queue. One key stands for all; its value is the number of Puts
that have changed it. A Get remembers in `floor` how many Puts had returned when
it was called. `overcounted` is a history variable: some round has counted a Get
that was not in the queue, or that a `DoOp` was about to take out.

`Restart` is a shutdown and `StartKVServer`: the store is empty, the log is
applied again from its beginning, `syncVersion` is a new number, and the Gets that
waited fail. The clerk then calls again (`ClerkCalls`), and `floor` stays what it
was when its `Get` began. The sync Puts of the old instance, committed or still
on their way, are applied by the new one.

### Clerk

`Put` begins, `Call` sends to the current server, `DoOp` performs a call at any
later time, `Answered` returns, `TryNext` moves on in the pass, `Timeout` gives up
after ten seconds. `performed` counts how often a Put has changed the key.

### Network and Group

`Group` takes `Network` by `INSTANCE`: names are the positions `1..N` of the
servers, and ends belong to instances of servers or to clients.

| action | code |
|---|---|
| `Call`, `ProcessReq`, `Handler` | `ClientEnd.Call`; `processReq` step by step, with what it reads once (`readEndnameInfo`) and what it reads again (`isServerDead`); the handler, which saves and returns |
| `ConnectAll`, `ConnectOne`, `DisconnectAll`, `Partition`, `ShutdownServer`, `Shutdown`, `StartServer`, `StartServers` | the operations of `ServerGrp`. Each puts a list of steps into `todo` |
| `restart`, `SetReliable` | `raft/test.go`, `tester1/config.go` |
| `TesterStep` | the next step of the list: `connect`, `disconnect`, `deleteServer`, `supersede`, the read and the write of `rfsrv.Kill`, `startServer`, `addServer` |
| `ClntCall`, `ClntConnectAll`, `DeleteClient` | the operations of a client; `makeEnd` makes the end that the call needs |
| `PeerCall` | a call of an instance, also of one that was shut down |

The tester is one thread, so an operation begins when the one before has
returned; calls and handlers run between its steps. The loops of `connect` and
`disconnect` over the ends of one server are one step: they take no decision that
a call could change, every call reads a single end, and a call that is between
two iterations is as well before or after the step. `disk` is the persister of an
instance, `saved` the copy that a shutdown leaves, and `live` tells which of the
two `srv.saved` is. A persisted state is the set of updates it holds. A client
that may call every server has all of them in its list, where the code has nil.
The initial state is that after `MakeConfig`.

## 3. What TLC checks

| run | question | result |
|---|---|---|
| `any_order` | From `Make` on three peers, with messages in any order and a crash: elections, promises, disks, slot 0, and the refinement of `Election` | holds |
| `in_order` | The same group with each leader's calls in order: do peers apply the same entries, is `matchIndex` on disk? | holds |
| `divided` | Two terms have left different entries in slot 1; another election and a crash follow: does the commit rule protect what is committed, do logs match, does backing up go back? | holds |
| `reordered` | Do peers apply the same commands when a call overtakes another? | **violated** |
| `submits` | Do `Submit`, reader, applier, abort and Kill keep the log's order and forget nobody? | holds |
| `shutdown` | Does every `Submit` that waits return after Kill? | **violated** |
| `reads` | Are Gets counted exactly, and fresh unless a round overcounts? | holds |
| `served` | Is every Get answered, with a queue that is too small and a replica that restarts, and is it still fresh? | holds |
| `stale` | Is every Get fresh? | **violated** |
| `puts` | Does a Put happen at most once, are its answers true? | holds |
| `resend` | Does ErrVersion always mean that nothing happened? | **violated** |
| `testbed` | While the tester shuts down, starts, connects and partitions: are positive replies kept, are the links those asked for, does every call return? | holds |

### Disagreements between the code and its documents

1. **Reordered calls erase acknowledged entries** (`reordered`).
   `AppendEntries` cuts the log behind `PrevLogIndex` on every call that fits.
   The comment says "Truncate any conflicting entries". A heartbeat that arrives
   after a later call erases the entry of that call, although it was acknowledged
   and counted. Two peers then apply different commands at one index. The trace
   has no duplicate, only two calls in another order, which `labrpc` announces.
2. **Shutdown can block** (`shutdown`). Kill sends Aborted messages for everything
   that is not *marked* as applied, with `rf.mu` held. An entry that is executed
   but not marked gets two messages. Its Submit takes the first and then waits
   for `rf.mu` in `GetState`, still registered. The reader blocks handing it the
   second, Kill blocks sending the next one, and nobody moves. `rsm_test.go` says
   "Test if Submit() terminates after tester's Shutdown() has called raft's
   Kill()". `AppendEntries` can do the same when it cuts off executed entries.
3. **Stale reads** (`stale`). `Get` counts itself before it is in the queue, and
   `DoOp` changes `syncVersion` before it subtracts. A round can announce more
   Gets than it will find. `DoOp` then waits and serves Gets that came after a
   later Put had returned.
4. **ErrVersion for a Put that was performed** (`resend`). A resend to the second
   server of the first pass still counts as the first RPC.

`FreshUnlessOvercounted` and `StateMachineSafety` say what does hold: with no
overcounting every read is fresh, and with calls in order peers agree.

`IsolatedUnlessReconnected` also says what does hold. `restart` in `raft/test.go`
starts one server and then calls `ConnectAll`, which enables the ends of servers
that are still shut down. Those old instances talk again, and when their server
gets a new instance nothing can disable the old ends any more: `disconnect` looks
only at the ends of the current one. Every other instance that was shut down
reaches nobody.

### Bounds, and why they are enough

- **Three peers** is the smallest group with a minority. Two elections give a
  leader and a rival; a crash of any peer at any moment falls between them.
- **One log slot** suffices for agreement on an index and for an erased entry. The
  commit rule needs an older entry under a newer one, so `divided` has two slots
  and begins in the third of four terms. Its initial state is reachable; the
  comment of `MCDivided` gives the steps. Its calls arrive in order, as
  `LeaderCompleteness` needs that; so `LogMatching` is checked with a crash and
  with calls that are lost or repeated, not with calls that overtake others.
- **`MCContest`** begins when the first timer has expired. Every behaviour that
  does anything passes such a state; the choice of the peer is a symmetry.
- **`Heartbeats = FALSE`** means that every later beat is lost. The calls that
  `becomeLeader` and `Start` make still repeat and overtake each other.
- **Views.** `MCRaft` tells states apart without messages that nobody can act on
  any more. Its comment says why this is sound. `LogView` also leaves out what is
  committed and applied, and serves only runs whose properties do not read it.
- **RSM:** two Submits, so that one is behind the other in the log and in the
  list of aborts; terms enough to lose and take office; one call of another
  leader, which may cut, keep and send again any part of the log.
- **KVServer:** two replicas, two Gets, a Put and a failed round in `reads`. A
  round that fails may be committed later. In `served` two Gets meet a queue of
  one, and the replica fails a round or restarts. One replica is enough for a
  restart: the log that it replays has its own sync Puts, and those of others
  serve nobody. A Get that gives up after ten seconds stays in the queue and its
  next call is another Get, with a `floor` that can only ask for more.
- **Clerk:** two clerks compete for one version. Four calls are two passes over
  two servers, so `firstAttempt` takes both values.
- **Group:** two servers, each started twice; one call, of a client or of any
  instance; three operations of the tester. That is a shutdown, a start and a
  connect or another shutdown, in any order, and a call can begin before the
  first and end after the last. Two servers are enough for a link and for a side
  of a partition that is empty. The initial network is unreliable: it does all
  that a reliable one does.

`CHECK_DEADLOCK FALSE` stands where the system really stops: all Gets answered,
all Puts returned, all Submits done, the tester at the end of its operations.

### Fairness

`KVServer!FairSpec` asks that a Get that is counted enters the queue when there is
room, that the loop and `DoOp` go on when they can, and that a sync Put that the
loop waits for is committed in the end. The first are goroutines of a fair
scheduler. The last is Raft's promise with a leader and a majority; only
`MaxFails` rounds fail. A clerk whose call has failed calls again, as its loop
does. Nothing is asked of Puts, of new Gets or of restarts.

`RSM!FairSpec` asks that every goroutine goes on when it can and that two ready
ends of a channel meet. While the server lives and leads, the others acknowledge.
Nothing is asked of elections, calls or Kill.

`Group!Spec` asks that the tester goes on with an operation that it has begun,
that `processReq` goes on when it can (its delays end), and that a handler that
was not chosen to hang returns. Nothing is asked of new operations or new calls.

## 4. What is proved

TLAPS checks every theorem for any set of peers, replicas, clerks, Gets and
commands, and any bounds.

| theorem | statement |
|---|---|
| `ElectionProofs!OneLeaderAlways` | `Election!Spec => []OneLeader`, for quorums that meet |
| `ElectionProofs!PromiseAlways` | `Election!Spec => [][Promise]_vars` |
| `RaftSafetyProofs!TypeCorrect` | `Raft!Spec => []TypeOK` |
| `RaftSafetyProofs!SentinelStays` | `Raft!Spec => []SlotZero` |
| `RaftSafetyProofs!ElectionRefinement` | `Raft!Spec => Elect!Spec` |
| `RaftSafetyProofs!ElectionSafe` | `Raft!Spec => []ElectionSafety` |
| `RaftSafetyProofs!PromisesAreKept` | `Raft!Spec => PromisesKept` |
| `RaftSafetyProofs!LogsMatch` | `Raft!Spec => []LogMatching` |
| `RaftSafetyProofs!LeadersAppend` | `Raft!Spec => LeaderAppendOnly` |
| `RaftSafetyProofs!IndexesStayInRange` | `Raft!Spec => []IndexesInRange` |
| `RaftSafetyProofs!NothingLostByCrash` | `Raft!Spec => []DiskCoversMemory` |
| `RaftSafetyProofs!BackupEnds` | `Raft!Spec => []BackupMovesDown` |
| `RaftSafetyProofs!DeliveriesNeverDiffer` | `Raft!Spec => []StateMachineSafety`, for calls in order |
| `RaftSafetyProofs!LeadersHaveCommitted` | `Raft!Spec => []LeaderCompleteness`, for calls in order |
| `RaftSafetyProofs!CommitsStayInLog` | `Raft!Spec => []CommitWithinLog`, for calls in order |
| `RaftSafetyProofs!MatchesSurviveCrashes` | `Raft!Spec => []MatchIsDurable`, for calls in order |
| `RSMProofs!ReplicaTypes` | `RSM!Spec => []TypeOK` |
| `RSMProofs!CommandsRunOnce` | `RSM!Spec => []ExecutesLog` |
| `RSMProofs!OkMeansExecuted` | `RSM!Spec => []OkIsExecuted` |
| `RSMProofs!WaitersAreRemembered` | `RSM!Spec => []NobodyForgotten` |
| `KVServerProofs!ReplicasTyped` | `KVServer!Spec => []TypeOK` |
| `KVServerProofs!CounterIsExact` | `KVServer!Spec => []QueueAccounted` |
| `KVServerProofs!ReadsAreFresh` | `KVServer!Spec => []FreshUnlessOvercounted` |
| `ClerkProofs!OrdersArePermutations` | `Clerk!Spec => []TypeOK` |
| `ClerkProofs!PutAtMostOnce` | `Clerk!Spec => []AtMostOnce` |
| `ClerkProofs!PutAnswersHonest` | `Clerk!Spec => []AnswersHonest` |

**Assumptions.** The peers, the servers of a clerk and the calls of Get are
finite sets, `None` is neither a peer nor a command, and the bounds are naturals.
Each module states its own, and TLC evaluates them. The four theorems "for calls
in order" assume `~ Reordering`: a peer handles no AppendEntries older than one it
has handled. The code does not ensure that, and without it the four are false. The
runs on reordered calls show how (section 3); the theorems show that nothing else
goes wrong.

**Types and slot 0.** `TypeOK` and `SlotZero` are inductive only together. A log
stays non-empty because no call cuts slot 0; no call does because the indexes of
leaders and the conflict indexes of replies stay positive; those stay positive
because the search for a conflicting term stops behind slot 0.

**One leader per term.** The usual invariant, one ballot per peer and term, is
false for this code: `becomeFollower` clears `votedFor` of a candidate that meets
the leader of its own term, and the peer may vote again. `ElectionProofs` uses a
weaker one. As long as a term has no leader, there is one ballot per peer. Behind
every leader stands a quorum of *loyal* peers: each gave its only ballot of the
term to that leader, and either has left the term or still remembers its vote and
is no candidate. Two quorums share a peer, so a term has one leader.

**Refinement.** `RaftProofs` maps the votes granted in replies to ballots and the
senders of AppendEntries calls to leaders. It needs four facts besides the types:
no peer calls itself, no message speaks of a term that its sender has not reached,
the disk holds the term and the vote, and a leader has called someone. Every
action is then a step of `Election` or a stutter. `RaftSafetyProofs` shows that
majorities meet and carries both properties of `Election` over to `Raft`.

**Logs.** `RaftLogProofs` remembers for every term the log of its leader. Such a
*chronicle* `G` is not a variable; the invariant says that one exists. Every log,
in memory or on disk, agrees with `G[t]` up to its last entry of term `t`, every
call of term `t` is a slice of `G[t]`, and the log of a leader is `G` of its own
term. A step that extends a chronicle extends that of one term only, the term of
its leader, and a term has one leader. Two logs with an entry of one index and
term then agree with one chronicle, and so with each other. None of this depends
on the order of calls: a late call cuts a log, but never makes a wrong one. The
saved log is covered by the same chronicle, also when a cut was not saved.

**Commits.** With calls out of order, a peer may cut off what it has
acknowledged, so nothing stronger can be said. In order, `RaftCommitProofs` says
that a peer *holds* a slot of term `t` when it has led `t` or has acknowledged a
call that reaches it. What it holds is in its log, or it has met a later leader
whose log lacks it (`Kept`). A vote repeats this of the candidate's log
(`Ballot`), and a leader has a majority of such voters behind it (`Elected`). An
entry of term `t` is *chosen* when a majority holds it and its term is `t`. If
some later leader lacked a chosen entry, the first one that did would share a
voter with the majority that holds it, and that voter could not have voted for
it. `RaftSafetyProofs` goes on from there: `advanceCommitIndex` commits only
below a chosen entry, because it asks for the present term; so what is committed
is in every later leader's log, in the logs that follow it, and in what the peers
apply.

**RSM.** The invariant of `RSMProofs` says what is on its way. What `applier` has
copied outside the lock is still the committed part of the log, since calls keep
that part (`Copied`, `Replaces`). What was executed is a prefix of the log
(`Executes`). A command is in a log once, in the term in which its Submit put it
there (`Origin`). A Submit that waits is either ahead of what was executed, among
the aborts to be sent, or with the reader; and while AppendEntries holds the lock
this is true of the old log and of the new one (`Remembered`).

**Reads.** `KVServerProofs` follows a Get through the counter, the queue and the
sync Put. A sync Put whose version is the present one of its replica is the only
one, and the loop there waits for it (`Rounds`). As long as no loop has counted
too many, the Gets that it counts are in the queue behind those that a `DoOp`
under way takes out (`CountedInTime`, `SubmittedInTime`); when the Put is
committed, all they must see is committed before it (`CommittedInTime`); and when
`DoOp` applies it, they are the first of the queue and the store has what they
must see (`ServedInTime`). A failed round and a restart change the version, so
that a late sync Put serves nobody.

**Puts.** A Put that has changed the key has left its version behind, so no later
call of it fits (`Spent`). Before its first call is performed it has changed
nothing (`Pending`). After one call that was refused, no call is left that could
change anything (`Told`, `Missed`). The order in which a clerk tries the servers
stays a permutation: a server that answered is moved to its front, one that timed
out to its end.

**Layout.** In the proofs about `Raft`, the steps named after an action
(`<1>RestartMoves`, `<1>AppendEntriesLogs`) say what that action does; the last
steps of the same proof combine them along `Next`. `KVServerProofs` states the
facts about counting that it needs as definitions (`FiniteSetsCount`), and its
lemma `SetsCount` takes them from the library.

The invariants of `RSMProofs` and `KVServerProofs` were checked with TLC on small
instances before they were proved.

**Only model-checked.** Liveness (`GetsServed`, `DoOpEnds`, `ReturnsInTerm`,
`CallReturns`), which is out of the prover's reach. The invariants
of `Group`: an operation of the group is there a list of small steps, made by
flattening a sequence of sequences, and what such a recursive definition yields
takes induction over data. The four properties that are violated (section 3) are
not theorems.

## 5. What is not modelled

- **Time.** Timers may expire at any moment, so nothing is said of how long
  anything takes, nor of elections that succeed.
- **Snapshots.** `Snapshot` is an empty function; `Restore` is never called.
- **`leaderId`**, a hint that only the sync loop reads: a wrong one is a round
  that fails.
- **Values and several keys.** The version of one key decides everything here.
- **A client Put to the key `sync`.** No client of the repository makes one.
- **Restarts in `RSM`.** A new instance has no Submits of the old one; what
  happens to those is the question of `shutdown`.
- **The end of a test.** `Config.Cleanup` and `Network.Cleanup` take the network
  down; nothing is started or called afterwards.
- **`ConnectTo`, `Disconnect` and `DisconnectAll` of a client.** Nothing calls
  them.
- **`models1/kv.go`.** Its `Step` takes ErrMaybe at the current version only for a
  Put that was performed within its call. A Put that gives up promises less, so
  the clerks do not implement that model; `AtMostOnce` and `AnswersHonest` say
  what they do promise.
- **Test drivers** (`kvtest1`, `kvraft1/test.go`, `rsm/test.go`, most of
  `raft/test.go`). They call the system and compare results; the properties above
  state what they compare.
- **`labgob`, `tester1/annotation.go`.** A wrapper of an encoder, and the report of
  a test; no state of the system.

## 6. Plan

Done, in this order: elections; replication and disk; the abstract elections and
the refinement; the read path; the clerk; the RSM; fast backup; restarts of the
read path; the network and the test bed; theorems for the logs and commits of
`Raft`, the RSM, the read path and the clerk.

Next, the most important first:

1. Theorems about `Group`: `ClientsAsAllowed`, which does not depend on the steps
   of an operation under way; then `PositiveReplyKept` and
   `IsolatedUnlessReconnected`, with the operations stated without flattening.
2. `RSM` after a second term of office: a reader that is left blocked by a Submit
   that has returned also blocks every later Submit.
