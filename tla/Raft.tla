-------------------------------- MODULE Raft --------------------------------
(*****************************************************************************)
(* A group of Raft peers (src/src/raft). Every action is one section of code *)
(* that runs with rf.mu held: an RPC handler, the part of an RPC goroutine   *)
(* that handles the reply, or a step of ticker, applier or Start.            *)
(*                                                                           *)
(* Time is left out: an election timeout may expire at any moment. leaderId  *)
(* is left out: only the key/value server reads it, as a hint. Snapshot is   *)
(* an empty function in the code and changes nothing. The Aborted messages   *)
(* that AppendEntries sends on applyCh are the business of the replicated-   *)
(* state-machine layer and are left out here.                                *)
(*****************************************************************************)
EXTENDS Integers, Sequences, FiniteSets

CONSTANTS
    Server,         \* the peers, rf.peers
    Command,        \* what clients pass to Start
    None,           \* votedFor = -1, and the command of the sentinel entry
    Reordering,     \* may an AppendEntries overtake a later one of its leader?
    Heartbeats,     \* bound: do heartbeat timers expire, or are all beats lost?
    MaxElections,   \* bound: elections started in one behaviour
    MaxIndex,       \* bound: no command is appended beyond this index
    MaxRestarts     \* bound: crashes in one behaviour

ASSUME ServerAssumption == IsFiniteSet(Server) /\ None \notin Server

ASSUME CommandAssumption == None \notin Command

ASSUME BoundAssumption ==
    /\ Reordering \in BOOLEAN
    /\ Heartbeats \in BOOLEAN
    /\ MaxElections \in Nat
    /\ MaxIndex \in Nat
    /\ MaxRestarts \in Nat

VARIABLES
    currentTerm,    \* rf.currentTerm
    votedFor,       \* rf.votedFor
    log,            \* rf.log; slot k of the Go slice is element k + 1
    state,          \* rf.state
    nextIndex,      \* rf.nextIndex
    matchIndex,     \* rf.matchIndex
    commitIndex,    \* rf.commitIndex
    applied,        \* what the applier delivered; rf.lastApplied is its length
    persisted,      \* the last image saved in rf.persister
    rvReqs,         \* RequestVote calls sent so far
    rvReps,         \* their replies, each with the term of its call
    aeReqs,         \* AppendEntries calls sent so far
    aeReps,         \* their replies, each with the call's term and reach
    handled,        \* per peer, the newest AppendEntries it has handled
    elections,      \* elections started so far
    restarts        \* crashes so far

serverVars == <<currentTerm, votedFor, log, state, persisted>>
leaderVars == <<nextIndex, matchIndex>>
applyVars  == <<commitIndex, applied>>
netVars    == <<rvReqs, rvReps, aeReqs, aeReps>>
auxVars    == <<handled, elections, restarts>>
vars       == <<serverVars, leaderVars, applyVars, netVars, auxVars>>

Follower  == "Follower"
Candidate == "Candidate"
Leader    == "Leader"

LogEntry == [term : Nat, cmd : Command \cup {None}]

\* Make puts an entry of term 0 in slot 0 of every log.
Sentinel == [term |-> 0, cmd |-> None]

-----------------------------------------------------------------------------
(*****************************************************************************)
(* The Go slices, indexed from 0.                                            *)
(*****************************************************************************)
At(lg, k)        == lg[k + 1]                       \* rf.log[k]
From(lg, k)      == SubSeq(lg, k + 1, Len(lg))      \* rf.log[k:]
UpTo(lg, k)      == SubSeq(lg, 1, k)                \* rf.log[:k]
lastLogIndex(lg) == Len(lg) - 1
lastLogTerm(lg)  == At(lg, lastLogIndex(lg)).term

min(a, b) == IF a < b THEN a ELSE b
max(a, b) == IF a > b THEN a ELSE b

firstIndexOfTerm(lg, t) ==
    IF \E k \in 0 .. lastLogIndex(lg) : At(lg, k).term = t
    THEN CHOOSE k \in 0 .. lastLogIndex(lg) :
            /\ At(lg, k).term = t
            /\ \A n \in 0 .. (k - 1) : At(lg, n).term # t
    ELSE -1

\* Mutant: AppendEntries reports the slot before the run.
ConflictRunEarly(lg, k) ==
    CHOOSE n \in -1 .. k :
        /\ \A x \in (n + 1) .. k : At(lg, x).term = At(lg, k).term
        /\ n = -1 \/ At(lg, n).term # At(lg, k).term

\* The first slot of the run of equal terms that ends in slot k.
ConflictRun(lg, k) ==
    CHOOSE n \in 0 .. k :
        /\ \A x \in n .. k : At(lg, x).term = At(lg, k).term
        /\ n = 0 \/ At(lg, n - 1).term # At(lg, k).term

\* Mutant: half of the peers is enough.
IsHalf(Q) == Cardinality(Q) >= Cardinality(Server) \div 2

IsMajority(Q) == Cardinality(Q) > Cardinality(Server) \div 2

\* Mutant: voters do not compare logs.
NoLogCheck(lg, candidateIndex, candidateTerm) == TRUE

isLogUpToDate(lg, candidateIndex, candidateTerm) ==
    \/ candidateTerm > lastLogTerm(lg)
    \/ candidateTerm = lastLogTerm(lg) /\ candidateIndex >= lastLogIndex(lg)

-----------------------------------------------------------------------------
(*****************************************************************************)
(* Messages. A call that was sent may reach its handler, and a reply its     *)
(* caller, at any later time, more than once or never: no message is ever    *)
(* removed. Without Reordering a peer handles no AppendEntries older than    *)
(* one it has handled already, where the age is the position in the leader's *)
(* sending order. Each call carries the whole tail of the log, so that order *)
(* is the order of terms and then of the last index carried.                 *)
(*****************************************************************************)
RequestVoteArgs ==
    [src : Server, dst : Server, term : Nat,
     lastLogIndex : Nat, lastLogTerm : Nat]

RequestVoteReply ==
    [src : Server, dst : Server, argsTerm : Nat, term : Nat,
     voteGranted : BOOLEAN]

AppendEntriesArgs ==
    [src : Server, dst : Server, term : Nat, prevLogIndex : Nat,
     prevLogTerm : Nat, entries : Seq(LogEntry), leaderCommit : Nat]

AppendEntriesReply ==
    [src : Server, dst : Server, argsTerm : Nat, match : Nat, term : Nat,
     success : BOOLEAN, conflictTerm : Int, conflictIndex : Int]

Reach(m) == m.prevLogIndex + Len(m.entries)

Deliverable(m) ==
    \/ Reordering
    \/ m.term > handled[m.dst].term
    \/ m.term = handled[m.dst].term /\ Reach(m) >= handled[m.dst].reach

MarkHandled(m) ==
    handled' = IF Reordering THEN handled
               ELSE [handled EXCEPT
                        ![m.dst] = [term |-> m.term, reach |-> Reach(m)]]

\* The call that peer i, leading term t with log lg, makes to peer j.
AppendArgs(i, j, t, lg, nextIdx, commit) ==
    LET prevIdx == nextIdx - 1
    IN  [src |-> i, dst |-> j, term |-> t,
         prevLogIndex |-> prevIdx,
         prevLogTerm  |-> IF prevIdx >= 0 /\ prevIdx < Len(lg)
                          THEN At(lg, prevIdx).term ELSE 0,
         entries      |-> From(lg, nextIdx),
         leaderCommit |-> commit]

\* broadcastAppendEntries, in the state that the enclosing action leaves.
broadcastAppendEntries(i) ==
    aeReqs' = aeReqs \cup
        {AppendArgs(i, j, currentTerm'[i], log'[i], nextIndex'[i][j],
                    commitIndex'[i]) : j \in Server \ {i}}

\* Mutant: the vote is not saved.
persistNoVote(i) ==
    persisted' = [persisted EXCEPT ![i] =
        [currentTerm |-> currentTerm'[i],
         votedFor    |-> None,
         log         |-> log'[i]]]

\* persist, in the state that the enclosing action leaves.
persist(i) ==
    persisted' = [persisted EXCEPT ![i] =
        [currentTerm |-> currentTerm'[i],
         votedFor    |-> votedFor'[i],
         log         |-> log'[i]]]

-----------------------------------------------------------------------------
(*****************************************************************************)
(* Elections.                                                                *)
(*****************************************************************************)

\* becomeFollower, for the callers that do nothing after it.
becomeFollower(i, t) ==
    /\ state' = [state EXCEPT ![i] = Follower]
    /\ currentTerm' = [currentTerm EXCEPT ![i] = t]
    /\ votedFor' = [votedFor EXCEPT ![i] = None]
    /\ UNCHANGED log
    /\ persist(i)

(* ticker looks at rf.state and at the clock, releases rf.mu and only then   *)
(* calls startElection, which does not look again. A peer that became leader *)
(* in between starts an election too: there is no guard on state.            *)
startElection(i) ==
    /\ elections < MaxElections
    /\ elections' = elections + 1
    /\ currentTerm' = [currentTerm EXCEPT ![i] = @ + 1]
    /\ state' = [state EXCEPT ![i] = Candidate]
    /\ votedFor' = [votedFor EXCEPT ![i] = i]
    /\ UNCHANGED log
    /\ persist(i)
    /\ rvReqs' = rvReqs \cup
           {[src |-> i, dst |-> j, term |-> currentTerm'[i],
             lastLogIndex |-> lastLogIndex(log[i]),
             lastLogTerm  |-> lastLogTerm(log[i])] : j \in Server \ {i}}
    /\ UNCHANGED <<leaderVars, applyVars, rvReps, aeReqs, aeReps,
                   handled, restarts>>

\* Mutant: a peer votes for everyone who asks.
VotesAgain(vote, candidate) == TRUE

MayVote(vote, candidate) == vote \in {None, candidate}

(* The handler of a RequestVote call. reply.Term is the term before the      *)
(* call. A refusal without a newer term is dropped here: its receiver        *)
(* ignores it in every state.                                                *)
RequestVote(m) ==
    LET j       == m.dst
        newer   == m.term > currentTerm[j]
        vote    == IF newer THEN None ELSE votedFor[j]
        granted == /\ m.term >= currentTerm[j]
                   /\ MayVote(vote, m.src)
                   /\ isLogUpToDate(log[j], m.lastLogIndex, m.lastLogTerm)
    IN  /\ currentTerm' = [currentTerm EXCEPT ![j] = max(m.term, @)]
        /\ state' = [state EXCEPT ![j] = IF newer THEN Follower ELSE @]
        /\ votedFor' = [votedFor EXCEPT ![j] = IF granted THEN m.src ELSE vote]
        /\ UNCHANGED log
        /\ IF newer \/ granted THEN persist(j) ELSE UNCHANGED persisted
        /\ rvReps' = rvReps \cup
               {r \in {[src |-> j, dst |-> m.src, argsTerm |-> m.term,
                        term |-> currentTerm[j], voteGranted |-> granted]} :
                   r.voteGranted \/ r.term > r.argsTerm}
        /\ UNCHANGED <<leaderVars, applyVars, rvReqs, aeReqs, aeReps, auxVars>>

\* becomeLeader, entered with the last vote of a majority.
becomeLeader(i) ==
    /\ state' = [state EXCEPT ![i] = Leader]
    /\ UNCHANGED <<currentTerm, votedFor, log, persisted, commitIndex>>
    /\ nextIndex' = [nextIndex EXCEPT ![i] =
           [j \in Server |-> lastLogIndex(log[i]) + 1]]
    /\ matchIndex' = [matchIndex EXCEPT ![i] =
           [j \in Server |-> IF j = i THEN lastLogIndex(log[i]) ELSE -1]]
    /\ broadcastAppendEntries(i)

(* The peers whose votes startElection may have counted when the last of     *)
(* these replies arrives. A vote that completes no majority only adds to a   *)
(* counter that nothing else reads: it is no step of its own.                *)
votes(i) ==
    {i} \cup {r.src : r \in {v \in rvReps : /\ v.dst = i
                                           /\ v.argsTerm = currentTerm[i]
                                           /\ v.voteGranted}}

(* The goroutine of startElection that gets the reply r. It does nothing     *)
(* when the term or the role has changed since the call.                     *)
RequestVoteReplied(r) ==
    LET i == r.dst
    IN  /\ r.argsTerm = currentTerm[i]
        /\ state[i] = Candidate
        /\ \/ /\ r.term > currentTerm[i]
              /\ becomeFollower(i, r.term)
              /\ UNCHANGED <<leaderVars, commitIndex, aeReqs>>
           \/ /\ r.term <= currentTerm[i]
              /\ r.voteGranted
              /\ IsMajority(votes(i))
              /\ becomeLeader(i)
        /\ UNCHANGED <<applied, rvReqs, rvReps, aeReps, auxVars>>

-----------------------------------------------------------------------------
(*****************************************************************************)
(* Log replication.                                                          *)
(*****************************************************************************)

\* Start, called with command c on a peer that believes it leads.
Start(i, c) ==
    /\ state[i] = Leader
    /\ lastLogIndex(log[i]) < MaxIndex
    /\ log' = [log EXCEPT ![i] =
           Append(@, [term |-> currentTerm[i], cmd |-> c])]
    /\ matchIndex' = [matchIndex EXCEPT ![i][i] = lastLogIndex(log[i]) + 1]
    /\ nextIndex' = [nextIndex EXCEPT ![i][i] = lastLogIndex(log[i]) + 2]
    /\ UNCHANGED <<currentTerm, votedFor, state, commitIndex>>
    /\ persist(i)
    /\ broadcastAppendEntries(i)
    /\ UNCHANGED <<applied, rvReqs, rvReps, aeReps, auxVars>>

\* sendHeartbeats, called by ticker.
sendHeartbeats(i) ==
    /\ Heartbeats
    /\ state[i] = Leader
    /\ UNCHANGED <<serverVars, leaderVars, applyVars>>
    /\ broadcastAppendEntries(i)
    /\ UNCHANGED <<rvReqs, rvReps, aeReps, auxVars>>

AppendReply(m, t, ok, cTerm, cIndex) ==
    aeReps' = aeReps \cup
        {[src |-> m.dst, dst |-> m.src, argsTerm |-> m.term,
          match |-> Reach(m), term |-> t, success |-> ok,
          conflictTerm |-> cTerm, conflictIndex |-> cIndex]}

\* The handler of AppendEntries turns down a call of an older term.
AppendEntriesStale(m) ==
    /\ m.term < currentTerm[m.dst]
    /\ AppendReply(m, currentTerm[m.dst], FALSE, -1, 0)
    /\ UNCHANGED <<serverVars, commitIndex>>

\* Mutant: becomeFollower runs for every call that is not stale.
StepsDownAlways(m) == TRUE

(* A call of this term or a newer one. becomeFollower runs for a newer term, *)
(* and for a candidate of the same term: it then takes back the vote that    *)
(* the candidate gave to itself.                                             *)
StepsDown(m) ==
    m.term > currentTerm[m.dst] \/ state[m.dst] = Candidate

AcceptTerm(m) ==
    LET j == m.dst
    IN  /\ m.term >= currentTerm[j]
        /\ currentTerm' = [currentTerm EXCEPT ![j] = m.term]
        /\ state' = [state EXCEPT ![j] = IF StepsDown(m) THEN Follower ELSE @]
        /\ votedFor' = [votedFor EXCEPT ![j] = IF StepsDown(m) THEN None ELSE @]

\* Mutant: the gap is reported one slot too early.
AppendEntriesGapEarly(m) ==
    LET j == m.dst
    IN  /\ AcceptTerm(m)
        /\ m.prevLogIndex > lastLogIndex(log[j])
        /\ UNCHANGED <<log, commitIndex>>
        /\ IF StepsDown(m) THEN persist(j) ELSE UNCHANGED persisted
        /\ AppendReply(m, currentTerm[j], FALSE, -1, lastLogIndex(log[j]))

\* ... that starts beyond the end of the log,
AppendEntriesGap(m) ==
    LET j == m.dst
    IN  /\ AcceptTerm(m)
        /\ m.prevLogIndex > lastLogIndex(log[j])
        /\ UNCHANGED <<log, commitIndex>>
        /\ IF StepsDown(m) THEN persist(j) ELSE UNCHANGED persisted
        /\ AppendReply(m, currentTerm[j], FALSE, -1, lastLogIndex(log[j]) + 1)

\* Mutant: the term of the previous entry is not compared.
AnyPrev(m) == TRUE

PrevMatches(m) ==
    \/ m.prevLogIndex < 0
    \/ At(log[m.dst], m.prevLogIndex).term = m.prevLogTerm

\* ... or whose previous entry has another term here,
AppendEntriesConflict(m) ==
    LET j == m.dst
    IN  /\ AcceptTerm(m)
        /\ m.prevLogIndex <= lastLogIndex(log[j])
        /\ ~ PrevMatches(m)
        /\ UNCHANGED <<log, commitIndex>>
        /\ IF StepsDown(m) THEN persist(j) ELSE UNCHANGED persisted
        /\ AppendReply(m, currentTerm[j], FALSE,
                       At(log[j], m.prevLogIndex).term,
                       ConflictRun(log[j], m.prevLogIndex))

\* Mutant: the appended entries are not saved.
SaveStepDownOnly(m) ==
    persisted' = IF StepsDown(m)
        THEN [persisted EXCEPT ![m.dst] =
                [currentTerm |-> m.term, votedFor |-> None, log |-> log[m.dst]]]
        ELSE persisted

(* The save that goes with an accepted call. Without entries the cut is not  *)
(* saved, and the save of becomeFollower comes before the cut.               *)
SaveAccepted(m) ==
    IF Len(m.entries) > 0
    THEN persist(m.dst)
    ELSE persisted' = IF StepsDown(m)
            THEN [persisted EXCEPT ![m.dst] =
                    [currentTerm |-> m.term, votedFor |-> None,
                     log |-> log[m.dst]]]
            ELSE persisted

\* Mutant: the entry before the new ones is cut off too.
KeepTooLittle(m) == UpTo(log[m.dst], m.prevLogIndex)

\* What stays of the log: all up to prevLogIndex, and nothing behind it.
KeepMatching(m) == UpTo(log[m.dst], m.prevLogIndex + 1)

(* ... or that fits. Everything behind prevLogIndex goes, whether it differs *)
(* from the entries of the call or not.                                      *)
AppendEntriesAccept(m) ==
    LET j      == m.dst
        newLog == KeepMatching(m) \o m.entries
    IN  /\ AcceptTerm(m)
        /\ m.prevLogIndex <= lastLogIndex(log[j])
        /\ PrevMatches(m)
        /\ log' = [log EXCEPT ![j] = newLog]
        /\ SaveAccepted(m)
        /\ commitIndex' = [commitIndex EXCEPT ![j] =
               IF m.leaderCommit > @
               THEN min(m.leaderCommit, lastLogIndex(newLog)) ELSE @]
        /\ AppendReply(m, m.term, TRUE, -1, 0)

\* The handler of an AppendEntries call.
AppendEntries(m) ==
    /\ Deliverable(m)
    /\ \/ AppendEntriesStale(m)
       \/ AppendEntriesGap(m)
       \/ AppendEntriesConflict(m)
       \/ AppendEntriesAccept(m)
    /\ MarkHandled(m)
    /\ UNCHANGED <<leaderVars, applied, rvReqs, rvReps, aeReqs, elections,
                   restarts>>

\* Mutant: entries of earlier terms are committed by counting too.
CommittableAnyTerm(i, match) ==
    {n \in (commitIndex[i] + 1) .. lastLogIndex(log[i]) :
        IsMajority({i} \cup {j \in Server : match[j] >= n})}

\* The indexes that advanceCommitIndex may commit, given the new matchIndex.
Committable(i, match) ==
    {n \in (commitIndex[i] + 1) .. lastLogIndex(log[i]) :
        /\ At(log[i], n).term = currentTerm[i]
        /\ IsMajority({i} \cup {j \in Server : match[j] >= n})}

advanceCommitIndex(i, match) ==
    commitIndex' = [commitIndex EXCEPT ![i] =
        IF Committable(i, match) = {} THEN @
        ELSE CHOOSE n \in Committable(i, match) :
                 \A k \in Committable(i, match) : k <= n]

\* replicateTo gets the reply of a call that succeeded,
AppendSucceeded(r) ==
    LET i     == r.dst
        match == [matchIndex[i] EXCEPT ![r.src] = max(@, r.match)]
    IN  /\ r.term <= currentTerm[i]
        /\ r.success
        /\ matchIndex' = [matchIndex EXCEPT ![i] = match]
        /\ nextIndex' = [nextIndex EXCEPT ![i][r.src] = match[r.src] + 1]
        /\ advanceCommitIndex(i, match)
        /\ UNCHANGED <<serverVars, aeReqs>>

\* Mutant: the leader goes on behind the entry that conflicts.
BackUpBehind(lg, conflictTerm, conflictIndex) ==
    LET first == firstIndexOfTerm(lg, conflictTerm)
    IN  IF conflictTerm = -1 THEN max(0, conflictIndex)
        ELSE IF first = -1 THEN conflictIndex + 1
        ELSE first

\* Where a leader with this log continues after a call was refused.
BackUpTo(lg, conflictTerm, conflictIndex) ==
    LET first == firstIndexOfTerm(lg, conflictTerm)
    IN  IF conflictTerm = -1 THEN max(0, conflictIndex)
        ELSE IF first = -1 THEN conflictIndex
        ELSE first

\* ... of a call that failed: it backs up and calls again,
AppendFailed(r) ==
    LET i       == r.dst
        nextIdx == BackUpTo(log[i], r.conflictTerm, r.conflictIndex)
    IN  /\ r.term <= currentTerm[i]
        /\ ~ r.success
        /\ nextIndex' = [nextIndex EXCEPT ![i][r.src] = nextIdx]
        /\ aeReqs' = aeReqs \cup
               {AppendArgs(i, r.src, currentTerm[i], log[i], nextIdx,
                           commitIndex[i])}
        /\ UNCHANGED <<serverVars, matchIndex, commitIndex>>

\* ... or of a peer in a newer term.
AppendDeposed(r) ==
    /\ r.term > currentTerm[r.dst]
    /\ becomeFollower(r.dst, r.term)
    /\ UNCHANGED <<nextIndex, matchIndex, commitIndex, aeReqs>>

\* replicateTo does nothing once the peer no longer leads the call's term.
AppendEntriesReplied(r) ==
    /\ state[r.dst] = Leader
    /\ r.argsTerm = currentTerm[r.dst]
    /\ \/ AppendSucceeded(r)
       \/ AppendFailed(r)
       \/ AppendDeposed(r)
    /\ UNCHANGED <<applied, rvReqs, rvReps, aeReps, auxVars>>

-----------------------------------------------------------------------------
(*****************************************************************************)
(* Applying, crashing.                                                       *)
(*****************************************************************************)

(* One round of applier: it copies the entries under rf.mu and delivers the  *)
(* copies, so that only the state at the time of the copy matters.           *)
applier(i) ==
    LET start == Len(applied[i]) + 1
        end   == commitIndex[i]
    IN  /\ end >= start
        /\ end < Len(log[i])
        /\ applied' = [applied EXCEPT ![i] =
               @ \o SubSeq(log[i], start + 1, end + 1)]
        /\ UNCHANGED <<serverVars, leaderVars, commitIndex, netVars, auxVars>>

(* Kill, and Make with a copy of the persister. A killed instance is cut off *)
(* by labrpc and its calls to the persister no longer count.                 *)
Restart(i) ==
    /\ restarts < MaxRestarts
    /\ restarts' = restarts + 1
    /\ currentTerm' = [currentTerm EXCEPT ![i] = persisted[i].currentTerm]
    /\ votedFor' = [votedFor EXCEPT ![i] = persisted[i].votedFor]
    /\ log' = [log EXCEPT ![i] = persisted[i].log]
    /\ state' = [state EXCEPT ![i] = Follower]
    /\ nextIndex' = [nextIndex EXCEPT ![i] = [j \in Server |-> 0]]
    /\ matchIndex' = [matchIndex EXCEPT ![i] = [j \in Server |-> 0]]
    /\ commitIndex' = [commitIndex EXCEPT ![i] = 0]
    /\ applied' = [applied EXCEPT ![i] = << >>]
    /\ UNCHANGED <<persisted, netVars, handled, elections>>

-----------------------------------------------------------------------------
(*****************************************************************************)
(* The specification.                                                        *)
(*****************************************************************************)

\* Make on an empty persister, for every peer.
Init ==
    /\ currentTerm = [i \in Server |-> 0]
    /\ votedFor = [i \in Server |-> None]
    /\ log = [i \in Server |-> <<Sentinel>>]
    /\ state = [i \in Server |-> Follower]
    /\ nextIndex = [i \in Server |-> [j \in Server |-> 0]]
    /\ matchIndex = [i \in Server |-> [j \in Server |-> 0]]
    /\ commitIndex = [i \in Server |-> 0]
    /\ applied = [i \in Server |-> << >>]
    /\ persisted = [i \in Server |->
           [currentTerm |-> 0, votedFor |-> None, log |-> <<Sentinel>>]]
    /\ rvReqs = {}
    /\ rvReps = {}
    /\ aeReqs = {}
    /\ aeReps = {}
    /\ handled = [i \in Server |-> [term |-> 0, reach |-> 0]]
    /\ elections = 0
    /\ restarts = 0

Next ==
    \/ \E i \in Server :
          \/ startElection(i)
          \/ \E c \in Command : Start(i, c)
          \/ sendHeartbeats(i)
          \/ applier(i)
          \/ Restart(i)
    \/ \E m \in rvReqs : RequestVote(m)
    \/ \E r \in rvReps : RequestVoteReplied(r)
    \/ \E m \in aeReqs : AppendEntries(m)
    \/ \E r \in aeReps : AppendEntriesReplied(r)

Spec == Init /\ [][Next]_vars

-----------------------------------------------------------------------------
(*****************************************************************************)
(* Properties of elections and of crashes.                                   *)
(*****************************************************************************)

Image == [currentTerm : Nat, votedFor : Server \cup {None}, log : Seq(LogEntry)]

\* Every variable of a peer, its saved image and every message have their types.
TypeOK ==
    /\ currentTerm \in [Server -> Nat]
    /\ votedFor \in [Server -> Server \cup {None}]
    /\ log \in [Server -> Seq(LogEntry)]
    /\ \A i \in Server : Len(log[i]) >= 1
    /\ state \in [Server -> {Follower, Candidate, Leader}]
    /\ nextIndex \in [Server -> [Server -> Int]]
    /\ matchIndex \in [Server -> [Server -> Int]]
    /\ commitIndex \in [Server -> Nat]
    /\ applied \in [Server -> Seq(LogEntry)]
    /\ persisted \in [Server -> Image]
    /\ \A i \in Server : Len(persisted[i].log) >= 1
    /\ rvReqs \subseteq RequestVoteArgs
    /\ rvReps \subseteq RequestVoteReply
    /\ aeReqs \subseteq AppendEntriesArgs
    /\ aeReps \subseteq AppendEntriesReply
    /\ handled \in [Server -> [term : Nat, reach : Nat]]
    /\ elections \in Nat
    /\ restarts \in Nat

(* At most one peer ever leads a term (checkOneLeader in raft/test.go fails  *)
(* on "term %d has %d (>1) leaders"). becomeLeader broadcasts, so the calls  *)
(* sent so far name every leader of the past too. becomeFollower forgets the *)
(* vote of a candidate that meets the leader of its own term: such a peer    *)
(* can vote twice in that term, and this must not elect a second leader.     *)
ElectionSafety ==
    \A m, n \in aeReqs : m.term = n.term => m.src = n.src

(* What the messages sent so far tell of elections: the votes that peers     *)
(* have granted to each other, and who has led which term.                   *)
Ballots ==
    {<<r.src, r.dst, r.argsTerm>> : r \in {v \in rvReps : v.voteGranted}}

Leads == {<<m.src, m.term>> : m \in aeReqs}

Elect == INSTANCE Election WITH
             Quorum <- {Q \in SUBSET Server : IsMajority(Q)},
             term <- currentTerm, vote <- votedFor, role <- state,
             ballots <- Ballots, leads <- Leads

(* Elections over a network that loses, reorders and repeats messages, among *)
(* peers that crash, do what the module Election says of them.               *)
ElectionRefined == Elect!Spec

(* What a peer holds in memory between two locked sections is what it would  *)
(* find after a crash: the term and the vote exactly, and at least its log.  *)
(* The saved log may be longer, since AppendEntries does not save the cut    *)
(* that a call without entries makes.                                        *)
DiskCoversMemory ==
    \A i \in Server :
        /\ persisted[i].currentTerm = currentTerm[i]
        /\ persisted[i].votedFor = votedFor[i]
        /\ Len(log[i]) <= Len(persisted[i].log)
        /\ log[i] = SubSeq(persisted[i].log, 1, Len(log[i]))

(* A peer never goes back to an earlier term, not even by a crash, and never *)
(* takes back within a term the vote it gave to another peer.                *)
PromiseKept ==
    \A i \in Server :
        /\ currentTerm'[i] >= currentTerm[i]
        /\ currentTerm'[i] = currentTerm[i] /\ votedFor[i] \notin {None, i}
              => votedFor'[i] = votedFor[i]

PromisesKept == [][PromiseKept]_vars

-----------------------------------------------------------------------------
(*****************************************************************************)
(* Properties of the logs that hold in whatever order calls arrive.          *)
(*****************************************************************************)

SameUpTo(a, b, k) == SubSeq(a, 1, k) = SubSeq(b, 1, k)

\* The logs in memory and on disk.
Logs == {log[i] : i \in Server} \cup {persisted[i].log : i \in Server}

(* Two logs that have an entry of the same term in the same slot agree up to *)
(* that slot, though AppendEntries cuts logs short at any call that fits and *)
(* a crash brings back entries that were cut in memory only.                 *)
LogMatching ==
    \A a, b \in Logs : \A k \in 1 .. min(Len(a), Len(b)) :
        a[k].term = b[k].term => SameUpTo(a, b, k)

(* While a peer leads it never loses or overwrites an entry: no call of its  *)
(* own term can reach the truncation in AppendEntries.                       *)
LeaderAppends ==
    \A i \in Server :
        state[i] = Leader /\ state'[i] = Leader /\ currentTerm'[i] = currentTerm[i]
            => /\ Len(log'[i]) >= Len(log[i])
               /\ SameUpTo(log[i], log'[i], Len(log[i]))

LeaderAppendOnly == [][LeaderAppends]_vars

(* Slot 0 is where every backing up ends: it holds the sentinel in every log *)
(* and is never sent, cut or overwritten. A call starts behind it, and the   *)
(* conflict information of a reply points behind it.                         *)
GoodLog(lg) ==
    /\ Len(lg) >= 1
    /\ lg[1] = Sentinel
    /\ \A k \in 2 .. Len(lg) : lg[k].term >= 1

GoodCall(m) ==
    /\ m.prevLogIndex = 0 => m.prevLogTerm = 0
    /\ \A k \in 1 .. Len(m.entries) : m.entries[k].term >= 1

GoodReply(r) ==
    ~ r.success /\ r.term <= r.argsTerm
        => /\ r.conflictIndex >= 1
           /\ r.conflictTerm = -1 \/ r.conflictTerm >= 1

SlotZero ==
    /\ \A i \in Server : GoodLog(log[i]) /\ GoodLog(persisted[i].log)
    /\ \A m \in aeReqs : GoodCall(m)
    /\ \A r \in aeReps : GoodReply(r)
    /\ \A i \in Server : state[i] # Follower => currentTerm[i] >= 1
    /\ \A i, j \in Server : state[i] = Leader => nextIndex[i][j] >= 1

(* A leader's indexes stay within its log: rf.log[nextIdx:] and rf.log[N]    *)
(* are in range, and slot 0, where every backing up ends, is never sent.     *)
IndexesInRange ==
    \A i, j \in Server : state[i] = Leader =>
        /\ nextIndex[i][j] \in 1 .. Len(log[i])
        /\ matchIndex[i][j] \in -1 .. lastLogIndex(log[i])

\* The leader's call would be refused for the previous entry.
Conflicts(m) ==
    /\ Deliverable(m)
    /\ state[m.src] = Leader /\ currentTerm[m.src] = m.term
    /\ currentTerm[m.dst] <= m.term
    /\ m.prevLogIndex <= lastLogIndex(log[m.dst])
    /\ ~ PrevMatches(m)

(* Backing up ends: whatever the two logs look like, the conflict that the   *)
(* handler reports takes the leader to an earlier slot than the one that was *)
(* refused, so that its next call starts further down. If firstIndexOfTerm   *)
(* could point behind that slot, replicateTo would call again for ever.      *)
BackupMovesDown ==
    \A m \in aeReqs : Conflicts(m) =>
        BackUpTo(log[m.src], At(log[m.dst], m.prevLogIndex).term,
                 ConflictRun(log[m.dst], m.prevLogIndex)) <= m.prevLogIndex

-----------------------------------------------------------------------------
(*****************************************************************************)
(* Properties that need AppendEntries calls in order.                        *)
(*****************************************************************************)

(* No two peers deliver different entries at the same index.                 *)
StateMachineSafety ==
    \A i, j \in Server :
        \A k \in 1 .. min(Len(applied[i]), Len(applied[j])) :
            applied[i][k] = applied[j][k]

(* What checkLogs in raft/test.go demands: no two peers deliver different    *)
(* commands at the same index ("some server has already committed a          *)
(* different value for this entry!").                                        *)
CommandsAgree ==
    \A i, j \in Server :
        \A k \in 1 .. min(Len(applied[i]), Len(applied[j])) :
            applied[i][k].cmd = applied[j][k].cmd

(* What a peer counts as committed stays in the log, so that the test end <  *)
(* len(rf.log) in applier never keeps it spinning.                           *)
CommitWithinLog ==
    \A i \in Server : commitIndex[i] <= lastLogIndex(log[i])

(* What a peer has committed is in the log of the leader of any later term.  *)
LeaderCompleteness ==
    \A i, j \in Server :
        state[j] = Leader /\ currentTerm[j] >= currentTerm[i]
            => /\ commitIndex[i] <= lastLogIndex(log[j])
               /\ SameUpTo(log[i], log[j], commitIndex[i] + 1)

(* A leader's matchIndex speaks of the disk: up to it the follower would     *)
(* find the leader's entries after a crash, unless it has left for a newer   *)
(* term.                                                                     *)
MatchIsDurable ==
    \A i, j \in Server :
        state[i] = Leader /\ currentTerm[j] = currentTerm[i]
            => /\ matchIndex[i][j] < Len(persisted[j].log)
               /\ SameUpTo(persisted[j].log, log[i], matchIndex[i][j] + 1)

=============================================================================
