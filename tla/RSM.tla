--------------------------------- MODULE RSM ---------------------------------
(*****************************************************************************)
(* One server's replicated-state-machine layer (kvraft1/rsm/rsm.go) and the  *)
(* goroutines of its Raft instance that it meets: Submit, the reader of      *)
(* applyCh, applier, Kill, and AppendEntries, which sends an Aborted message *)
(* for every entry that it cuts off. applyCh and the channel of a Submit are *)
(* unbuffered: a send and its receive are one step. AppendEntries and Kill   *)
(* send with rf.mu held; every other section under rf.mu is one step that    *)
(* needs the lock to be free.                                                *)
(*                                                                           *)
(* The other peers are reduced to what module Raft says of calls that arrive *)
(* in order: they make this server lead or follow, and a call keeps what     *)
(* this server has committed, although it may cut that off and send it again *)
(* when the leader has backed up past it.                                    *)
(*****************************************************************************)
EXTENDS Integers, Sequences

CONSTANTS
    Submitter,      \* the calls of Submit, one each
    Other,          \* a command of another server
    MaxTerm,        \* bound: terms
    MaxIndex,       \* bound: the length of the log
    MaxCalls,       \* bound: calls of AppendEntries by other servers
    Kills           \* is the server shut down at some time?

ASSUME RSMAssumption ==
    /\ Other \notin Submitter
    /\ MaxTerm \in Nat
    /\ MaxIndex \in Nat
    /\ MaxCalls \in Nat
    /\ Kills \in BOOLEAN

VARIABLES
    term,           \* rf.currentTerm
    leading,        \* rf.state = Leader
    log,            \* rf.log without the sentinel
    commitIndex,    \* rf.commitIndex
    lastApplied,    \* rf.lastApplied
    lock,           \* who holds rf.mu while it sends: "free" when nobody does
    aborts,         \* what the holder still has to send
    accepted,       \* what AppendEntries leaves behind: log and commitIndex
    killer,         \* how far Kill is; rf.dead is set unless it is "idle"
    applier,        \* how far applier is
    batch,          \* the entries that applier has copied and not yet marked
    reader,         \* how far the reader goroutine is
    holding,        \* its message: the command and "done" or "aborted"
    pc,             \* per Submit, how far it is
    termBeforeOp,   \* termBeforeOp
    answer,         \* what Submit returns
    executed,       \* history: the commands that DoOp has executed
    calls           \* calls of AppendEntries so far

raftVars   == <<term, leading, log, commitIndex>>
lockVars   == <<lock, aborts, accepted, killer>>
applyVars  == <<lastApplied, applier, batch>>
readerVars == <<reader, holding, executed>>
submitVars == <<pc, termBeforeOp, answer>>
vars       == <<raftVars, lockVars, applyVars, readerVars, submitVars, calls>>

Free == lock = "free"

\* No call is being handled, and the reader holds no message.
NoCall == [log |-> << >>, commitIndex |-> 0]
NoMessage == [cmd |-> Other, result |-> "done"]

Commands(entries) == [k \in 1 .. Len(entries) |-> entries[k].cmd]

-----------------------------------------------------------------------------
\* Submit puts its channel into opChs,
Register(c) ==
    /\ pc[c] = "new"
    /\ pc' = [pc EXCEPT ![c] = "start"]
    /\ UNCHANGED <<raftVars, lockVars, applyVars, readerVars, termBeforeOp,
                   answer, calls>>

\* ... and calls Start, which appends the command when the server leads.
StartLeading(c) ==
    /\ pc[c] = "start" /\ Free
    /\ leading
    /\ Len(log) < MaxIndex
    /\ log' = Append(log, [cmd |-> c, term |-> term])
    /\ termBeforeOp' = [termBeforeOp EXCEPT ![c] = term]
    /\ pc' = [pc EXCEPT ![c] = "wait"]
    /\ UNCHANGED <<term, leading, commitIndex, lockVars, applyVars, readerVars,
                   answer, calls>>

StartFollowing(c) ==
    /\ pc[c] = "start" /\ Free
    /\ ~ leading
    /\ answer' = [answer EXCEPT ![c] = "ErrWrongLeader"]
    /\ pc' = [pc EXCEPT ![c] = "leave"]
    /\ UNCHANGED <<raftVars, lockVars, applyVars, readerVars, termBeforeOp,
                   calls>>

\* Mutant: Submit takes "aborted" for a result.
AlwaysChecks(result) == "check"

AfterReceive(result) == IF result = "aborted" THEN "leave" ELSE "check"

\* The reader hands the result to the Submit that waits for it.
Deliver(c) ==
    /\ reader = "deliver" /\ holding.cmd = c
    /\ pc[c] = "wait"
    /\ reader' = "receive" /\ holding' = NoMessage
    /\ pc' = [pc EXCEPT ![c] = AfterReceive(holding.result)]
    /\ answer' = [answer EXCEPT ![c] = IF holding.result = "aborted"
                                       THEN "ErrWrongLeader" ELSE @]
    /\ UNCHANGED <<raftVars, lockVars, applyVars, executed, termBeforeOp, calls>>

GetState(c) ==
    /\ pc[c] = "check" /\ Free
    /\ answer' = [answer EXCEPT ![c] =
           IF leading /\ term = termBeforeOp[c] THEN "OK" ELSE "ErrWrongLeader"]
    /\ pc' = [pc EXCEPT ![c] = "leave"]
    /\ UNCHANGED <<raftVars, lockVars, applyVars, readerVars, termBeforeOp,
                   calls>>

\* The deferred function takes the channel out of opChs.
Leave(c) ==
    /\ pc[c] = "leave"
    /\ pc' = [pc EXCEPT ![c] = "done"]
    /\ UNCHANGED <<raftVars, lockVars, applyVars, readerVars, termBeforeOp,
                   answer, calls>>

opChs == {c \in Submitter : pc[c] \notin {"new", "done"}}

-----------------------------------------------------------------------------
\* applier: it stops when the server is killed,
ApplierTop ==
    /\ applier = "top"
    /\ applier' = IF killer = "idle" THEN "copy" ELSE "stopped"
    /\ UNCHANGED <<raftVars, lockVars, lastApplied, batch, readerVars,
                   submitVars, calls>>

\* Mutant: the entry applied last is copied again.
CopyAgain ==
    SubSeq(Commands(log), IF lastApplied = 0 THEN 1 ELSE lastApplied,
           commitIndex)

Unapplied == SubSeq(Commands(log), lastApplied + 1, commitIndex)

\* ... copies what is committed,
ApplierCopy ==
    /\ applier = "copy" /\ Free
    /\ commitIndex > lastApplied
    /\ batch' = Unapplied
    /\ applier' = "send"
    /\ UNCHANGED <<raftVars, lockVars, lastApplied, readerVars, submitVars,
                   calls>>

\* ... sends it without the lock; the reader executes what it receives,
ApplierSend ==
    /\ applier = "send"
    /\ reader = "receive"
    /\ applier' = "mark"
    /\ reader' = "lookup"
    /\ holding' = [cmd |-> Head(batch), result |-> "done"]
    /\ executed' = Append(executed, Head(batch))
    /\ UNCHANGED <<raftVars, lockVars, lastApplied, batch, submitVars, calls>>

(* Mutant: the whole batch is marked as applied when its first entry is      *)
(* sent.                                                                     *)
MarkBatch ==
    /\ applier = "mark" /\ Free
    /\ lastApplied' = lastApplied + Len(batch)
    /\ batch' = Tail(batch)
    /\ applier' = IF Len(batch) = 1 THEN "top" ELSE "send"
    /\ UNCHANGED <<raftVars, lockVars, readerVars, submitVars, calls>>

\* ... and marks it as applied.
ApplierMark ==
    /\ applier = "mark" /\ Free
    /\ lastApplied' = lastApplied + 1
    /\ batch' = Tail(batch)
    /\ applier' = IF Len(batch) = 1 THEN "top" ELSE "send"
    /\ UNCHANGED <<raftVars, lockVars, readerVars, submitVars, calls>>

-----------------------------------------------------------------------------
\* The holder of rf.mu sends an Aborted message.
AbortSend ==
    /\ aborts # << >>
    /\ reader = "receive"
    /\ aborts' = Tail(aborts)
    /\ reader' = "lookup"
    /\ holding' = [cmd |-> Head(aborts), result |-> "aborted"]
    /\ UNCHANGED <<raftVars, lock, accepted, killer, applyVars, executed,
                   submitVars, calls>>

\* Mutant: only Aborted messages reach the Submit that waits.
LookUpAborted ==
    /\ reader = "lookup"
    /\ IF holding.cmd \in opChs /\ holding.result = "aborted"
       THEN reader' = "deliver" /\ UNCHANGED holding
       ELSE reader' = "receive" /\ holding' = NoMessage
    /\ UNCHANGED <<raftVars, lockVars, applyVars, executed, submitVars, calls>>

\* The reader looks for a Submit that waits for the message.
LookUp ==
    /\ reader = "lookup"
    /\ IF holding.cmd \in opChs
       THEN reader' = "deliver" /\ UNCHANGED holding
       ELSE reader' = "receive" /\ holding' = NoMessage
    /\ UNCHANGED <<raftVars, lockVars, applyVars, executed, submitVars, calls>>

-----------------------------------------------------------------------------
\* This server wins an election,
BecomeLeader ==
    /\ Free
    /\ ~ leading /\ term < MaxTerm
    /\ term' = term + 1
    /\ leading' = TRUE
    /\ UNCHANGED <<log, commitIndex, lockVars, applyVars, readerVars,
                   submitVars, calls>>

\* ... hears of a newer term or starts an election,
StepDown(t) ==
    /\ Free
    /\ t > term
    /\ term' = t
    /\ leading' = FALSE
    /\ UNCHANGED <<log, commitIndex, lockVars, applyVars, readerVars,
                   submitVars, calls>>

\* ... or commits, up to an entry of its own term.
AdvanceCommit(k) ==
    /\ Free
    /\ leading
    /\ k > commitIndex /\ log[k].term = term
    /\ commitIndex' = k
    /\ UNCHANGED <<term, leading, log, lockVars, applyVars, readerVars,
                   submitVars, calls>>

\* Mutant: the first entry that is cut off is not reported.
CutOffLate(prev) == SubSeq(Commands(log), prev + 2, Len(log))

CutOff(prev) == SubSeq(Commands(log), prev + 1, Len(log))

(* A call of the leader of term t that fits at prev. The leader's log agrees *)
(* with this server's up to same, and may hold another entry behind it.      *)
AppendEntries(t, prev, same, more, commit) ==
    LET kept == SubSeq(log, 1, same) \o more
    IN  /\ Free
        /\ calls < MaxCalls
        /\ leading => t > term
        /\ commit <= Len(kept) /\ Len(kept) <= MaxIndex
        /\ term' = t
        /\ leading' = FALSE
        /\ lock' = "AppendEntries"
        /\ aborts' = CutOff(prev)
        /\ accepted' = [log |-> kept, commitIndex |-> commit]
        /\ calls' = calls + 1
        /\ UNCHANGED <<log, commitIndex, killer, applyVars, readerVars,
                       submitVars>>

AppendEntriesCall ==
    \E t \in 1 .. MaxTerm, prev \in 0 .. Len(log) :
        \E same \in commitIndex .. Len(log),
           more \in {<< >>, <<[cmd |-> Other, term |-> t]>>} :
            /\ t >= term /\ prev <= same
            /\ \E commit \in commitIndex .. MaxIndex :
                  AppendEntries(t, prev, same, more, commit)

AppendEntriesEnds ==
    /\ lock = "AppendEntries" /\ aborts = << >>
    /\ log' = accepted.log
    /\ commitIndex' = accepted.commitIndex
    /\ lock' = "free" /\ accepted' = NoCall
    /\ UNCHANGED <<term, leading, aborts, killer, applyVars, readerVars,
                   submitVars, calls>>

-----------------------------------------------------------------------------
\* Kill sets rf.dead, takes rf.mu and reports what is not applied.
KillCalled ==
    /\ Kills
    /\ killer = "idle"
    /\ killer' = "called"
    /\ UNCHANGED <<raftVars, lock, aborts, accepted, applyVars, readerVars,
                   submitVars, calls>>

KillLocks ==
    /\ killer = "called" /\ Free
    /\ killer' = "aborting"
    /\ lock' = "Kill"
    /\ aborts' = CutOff(lastApplied)
    /\ UNCHANGED <<raftVars, accepted, applyVars, readerVars, submitVars, calls>>

KillEnds ==
    /\ lock = "Kill" /\ aborts = << >>
    /\ killer' = "done"
    /\ lock' = "free"
    /\ UNCHANGED <<raftVars, aborts, accepted, applyVars, readerVars,
                   submitVars, calls>>

-----------------------------------------------------------------------------
\* MakeRSM, on a server that leads no term yet.
Init ==
    /\ term = 0
    /\ leading = FALSE
    /\ log = << >>
    /\ commitIndex = 0
    /\ lastApplied = 0
    /\ lock = "free"
    /\ aborts = << >>
    /\ accepted = NoCall
    /\ killer = "idle"
    /\ applier = "top"
    /\ batch = << >>
    /\ reader = "receive"
    /\ holding = NoMessage
    /\ pc = [c \in Submitter |-> "new"]
    /\ termBeforeOp = [c \in Submitter |-> 0]
    /\ answer = [c \in Submitter |-> "none"]
    /\ executed = << >>
    /\ calls = 0

Submit(c) == \/ Register(c) \/ StartLeading(c) \/ StartFollowing(c)
             \/ GetState(c) \/ Leave(c)

Applier == ApplierTop \/ ApplierCopy \/ ApplierMark

Holder == AppendEntriesEnds \/ KillLocks \/ KillEnds

Next ==
    \/ \E c \in Submitter : Submit(c) \/ Deliver(c)
    \/ Applier
    \/ ApplierSend
    \/ AbortSend
    \/ LookUp
    \/ Holder
    \/ KillCalled
    \/ BecomeLeader
    \/ \E t \in 1 .. MaxTerm : StepDown(t)
    \/ \E k \in 1 .. Len(log) : AdvanceCommit(k)
    \/ AppendEntriesCall

Spec == Init /\ [][Next]_vars

(* Every goroutine goes on when it can, and both ends of a channel that are  *)
(* ready meet. While the server lives and leads, the others acknowledge.     *)
Fairness ==
    /\ \A c \in Submitter : WF_vars(Submit(c)) /\ WF_vars(Deliver(c))
    /\ WF_vars(Applier) /\ WF_vars(ApplierSend)
    /\ WF_vars(AbortSend) /\ WF_vars(LookUp) /\ WF_vars(Holder)
    /\ WF_vars(killer = "idle"
               /\ \E k \in 1 .. Len(log) : AdvanceCommit(k))

FairSpec == Spec /\ Fairness

-----------------------------------------------------------------------------
Entry == [cmd : Submitter \cup {Other}, term : 1 .. MaxTerm]

\* The values of the variables of Raft's goroutines, of the RSM and of Submit.
TypeOK ==
    /\ term \in 0 .. MaxTerm
    /\ leading \in BOOLEAN
    /\ log \in Seq(Entry) /\ Len(log) <= MaxIndex
    /\ commitIndex \in 0 .. Len(log)
    /\ lastApplied \in 0 .. commitIndex
    /\ lock \in {"free", "AppendEntries", "Kill"}
    /\ aborts \in Seq(Submitter \cup {Other})
    /\ Free => aborts = << >>
    /\ accepted.log \in Seq(Entry) /\ accepted.commitIndex \in 0 .. MaxIndex
    /\ killer \in {"idle", "called", "aborting", "done"}
    /\ applier \in {"top", "copy", "send", "mark", "stopped"}
    /\ batch \in Seq(Submitter \cup {Other})
    /\ reader \in {"receive", "lookup", "deliver"}
    /\ holding \in [cmd : Submitter \cup {Other}, result : {"done", "aborted"}]
    /\ pc \in [Submitter -> {"new", "start", "wait", "check", "leave", "done"}]
    /\ termBeforeOp \in [Submitter -> 0 .. MaxTerm]
    /\ answer \in [Submitter -> {"none", "OK", "ErrWrongLeader"}]
    /\ executed \in Seq(Submitter \cup {Other})
    /\ calls \in 0 .. MaxCalls

(* The state machine has executed the commands of the committed log, in its  *)
(* order and each once, although AppendEntries cuts and rebuilds the log     *)
(* between the moments at which applier copies, sends and marks.             *)
ExecutesLog ==
    /\ Len(executed) = lastApplied + (IF applier = "mark" THEN 1 ELSE 0)
    /\ Len(executed) <= commitIndex
    /\ executed = SubSeq(Commands(log), 1, Len(executed))

(* Submit answers OK only for a command that the state machine has executed  *)
(* and that the log holds, committed, in the term in which Start put it      *)
(* there.                                                                    *)
OkIsExecuted ==
    \A c \in Submitter : answer[c] = "OK" =>
        \E k \in 1 .. Len(executed) :
            executed[k] = c /\ log[k] = [cmd |-> c, term |-> termBeforeOp[c]]

(* A Submit that waits is never forgotten: its command is still to be        *)
(* executed, or to be reported as cut off, or its message is with the        *)
(* reader.                                                                   *)
NobodyForgotten ==
    \A c \in Submitter : pc[c] = "wait" =>
        \/ \E k \in Len(executed) + 1 .. Len(log) : log[k].cmd = c
        \/ \E k \in 1 .. Len(aborts) : aborts[k] = c
        \/ reader # "receive" /\ holding.cmd = c

(* A Submit of a leader that keeps its term returns, as long as no other     *)
(* leader has called and the server is not killed.                           *)
ReturnsInTerm ==
    \A c \in Submitter :
        pc[c] = "wait" ~> \/ pc[c] = "done"
                          \/ term # termBeforeOp[c]
                          \/ calls > 0
                          \/ killer # "idle"

(* "Test if Submit() terminates after tester's Shutdown() has called raft's  *)
(* Kill()" (rsm_test.go): a Submit that waits when Kill is called returns.   *)
StopsAfterKill ==
    \A c \in Submitter : pc[c] = "wait" /\ killer = "called" ~> pc[c] = "done"

=============================================================================
