------------------------------ MODULE RSMProofs ------------------------------
(*****************************************************************************)
(* The state machine executes the committed log, Submit answers OK only for  *)
(* what was executed, and no Submit that waits is forgotten: for any number  *)
(* of Submits, any length of the log, and any number of calls that cut it.   *)
(*****************************************************************************)
EXTENDS RSM, TLAPS

\* What applier has copied is committed, and follows what is marked.
Copied ==
    applier \in {"send", "mark"} =>
        /\ Len(batch) >= 1
        /\ lastApplied + Len(batch) <= commitIndex
        /\ \A k \in 1 .. Len(batch) : batch[k] = log[lastApplied + k].cmd

Marks == IF applier = "mark" THEN 1 ELSE 0

Executes ==
    /\ Len(executed) = lastApplied + Marks
    /\ Len(executed) <= commitIndex
    /\ \A k \in 1 .. Len(executed) : executed[k] = log[k].cmd

\* What AppendEntries leaves behind keeps what is committed.
Replaces ==
    lock = "AppendEntries" =>
        /\ Len(accepted.log) <= MaxIndex
        /\ commitIndex <= accepted.commitIndex
        /\ accepted.commitIndex <= Len(accepted.log)
        /\ \A k \in 1 .. commitIndex : accepted.log[k] = log[k]

\* A command is in a log because its Submit has put it there, once.
Origin(lg) ==
    \A k \in 1 .. Len(lg) : lg[k].cmd \in Submitter =>
        /\ pc[lg[k].cmd] \notin {"new", "start"}
        /\ lg[k].term = termBeforeOp[lg[k].cmd]

WasExecuted(c) == \E k \in 1 .. Len(executed) : executed[k] = c

\* "done" is said of what was executed only.
Answers ==
    /\ reader # "receive" /\ holding.result = "done" => WasExecuted(holding.cmd)
    /\ \A c \in Submitter : pc[c] = "check" \/ answer[c] = "OK" => WasExecuted(c)

\* With the log lg, the command c is still to be executed or reported.
Due(c, lg) ==
    \/ \E k \in (Len(executed) + 1) .. Len(lg) : lg[k].cmd = c
    \/ \E k \in 1 .. Len(aborts) : aborts[k] = c
    \/ reader # "receive" /\ holding.cmd = c

\* Also with the log that the call under way leaves behind.
Remembered ==
    \A c \in Submitter : pc[c] = "wait" =>
        Due(c, log) /\ (lock = "AppendEntries" => Due(c, accepted.log))

Inv ==
    /\ TypeOK
    /\ leading => term >= 1
    /\ Copied /\ Executes /\ Replaces
    /\ Origin(log) /\ Origin(accepted.log)
    /\ Answers /\ Remembered

-----------------------------------------------------------------------------
(* The commands of a log, a stretch of a sequence, and what is left of one   *)
(* when its first element is sent.                                           *)
LEMMA CommandsOf ==
    ASSUME NEW lg \in Seq(Entry)
    PROVE  /\ Commands(lg) \in Seq(Submitter \cup {Other})
           /\ Len(Commands(lg)) = Len(lg)
           /\ \A k \in 1 .. Len(lg) : Commands(lg)[k] = lg[k].cmd
<1>1. ASSUME NEW k \in 1 .. Len(lg)
      PROVE  lg[k].cmd \in Submitter \cup {Other}
  <2>1. lg[k] \in Entry
    OBVIOUS
  <2> QED  BY <2>1, Zenon DEF Entry
<1>2. Commands(lg) \in [1 .. Len(lg) -> Submitter \cup {Other}]
  BY <1>1, Zenon DEF Commands
<1>3. Commands(lg) \in Seq(Submitter \cup {Other})
  BY <1>2, Len(lg) \in Nat
<1>4. DOMAIN Commands(lg) = 1 .. Len(lg) /\ Len(Commands(lg)) \in Nat
  BY <1>2, <1>3
<1>5. Len(Commands(lg)) = Len(lg)
  BY <1>3, <1>4, Len(lg) \in Nat
<1> QED  BY <1>3, <1>5, Zenon DEF Commands

LEMMA Stretch ==
    ASSUME NEW S, NEW s \in Seq(S), NEW m \in Nat, NEW n \in Nat,
           m <= n, n <= Len(s)
    PROVE  /\ SubSeq(s, m + 1, n) \in Seq(S)
           /\ Len(SubSeq(s, m + 1, n)) = n - m
           /\ \A k \in 1 .. (n - m) : SubSeq(s, m + 1, n)[k] = s[m + k]
OBVIOUS

LEMMA Rest ==
    ASSUME NEW S, NEW s \in Seq(S), Len(s) >= 1
    PROVE  /\ Head(s) \in S /\ Head(s) = s[1]
           /\ Tail(s) \in Seq(S)
           /\ Len(Tail(s)) = Len(s) - 1
           /\ \A k \in 1 .. Len(Tail(s)) : Tail(s)[k] = s[k + 1]
OBVIOUS

\* The commands behind an index are a stretch of the commands of the log.
LEMMA CommandsBehind ==
    ASSUME NEW lg \in Seq(Entry), NEW m \in Nat, NEW n \in Nat,
           m <= n, n <= Len(lg)
    PROVE  /\ SubSeq(Commands(lg), m + 1, n) \in Seq(Submitter \cup {Other})
           /\ Len(SubSeq(Commands(lg), m + 1, n)) = n - m
           /\ \A k \in 1 .. (n - m) :
                 SubSeq(Commands(lg), m + 1, n)[k] = lg[m + k].cmd
<1> HIDE DEF Commands
<1>1. /\ Commands(lg) \in Seq(Submitter \cup {Other})
      /\ Len(Commands(lg)) = Len(lg)
      /\ \A k \in 1 .. Len(lg) : Commands(lg)[k] = lg[k].cmd
  BY CommandsOf, Zenon
<1>2. /\ SubSeq(Commands(lg), m + 1, n) \in Seq(Submitter \cup {Other})
      /\ Len(SubSeq(Commands(lg), m + 1, n)) = n - m
      /\ \A k \in 1 .. (n - m) :
            SubSeq(Commands(lg), m + 1, n)[k] = Commands(lg)[m + k]
  BY <1>1, Stretch
<1>3. \A k \in 1 .. (n - m) : m + k \in 1 .. Len(lg)
  OBVIOUS
<1> QED  BY <1>1, <1>2, <1>3, Zenon

-----------------------------------------------------------------------------
\* What a step leaves alone keeps what the invariant says of it.
LEMMA Frame ==
    ASSUME Inv
    PROVE  /\ UNCHANGED <<applier, batch, lastApplied, commitIndex, log>>
                  => Copied'
           /\ UNCHANGED <<executed, applier, lastApplied, commitIndex, log>>
                  => Executes'
           /\ UNCHANGED <<lock, accepted, commitIndex, log>> => Replaces'
           /\ UNCHANGED <<log, pc, termBeforeOp>> => Origin(log)'
           /\ UNCHANGED <<accepted, pc, termBeforeOp>> => Origin(accepted.log)'
           /\ UNCHANGED <<reader, holding, executed, pc, answer>> => Answers'
           /\ UNCHANGED <<log, executed, aborts, reader, holding, lock,
                          accepted, pc>> => Remembered'
<1>1. UNCHANGED <<applier, batch, lastApplied, commitIndex, log>> => Copied'
  BY Zenon DEF Inv, Copied
<1>2. UNCHANGED <<executed, applier, lastApplied, commitIndex, log>>
          => Executes'
  BY Zenon DEF Inv, Executes, Marks
<1>3. UNCHANGED <<lock, accepted, commitIndex, log>> => Replaces'
  BY Zenon DEF Inv, Replaces
<1>4. UNCHANGED <<log, pc, termBeforeOp>> => Origin(log)'
  BY Zenon DEF Inv, Origin
<1>5. UNCHANGED <<accepted, pc, termBeforeOp>> => Origin(accepted.log)'
  BY Zenon DEF Inv, Origin
<1>6. UNCHANGED <<reader, holding, executed, pc, answer>> => Answers'
  BY Zenon DEF Inv, Answers, WasExecuted
<1>7. UNCHANGED <<log, executed, aborts, reader, holding, lock, accepted, pc>>
          => Remembered'
  BY Zenon DEF Inv, Remembered, Due
<1> QED  BY <1>1, <1>2, <1>3, <1>4, <1>5, <1>6, <1>7, Zenon

\* A Submit that goes on and does not wait, before or after, changes nothing.
LEMMA SubmitFrame ==
    ASSUME Inv, NEW c \in Submitter, NEW s,
           pc' = [pc EXCEPT ![c] = s],
           UNCHANGED <<raftVars, lockVars, applyVars, readerVars,
                       termBeforeOp, calls>>,
           pc[c] # "wait", s # "wait",
           pc[c] = "new" \/ s \notin {"new", "start"}
    PROVE  /\ leading' => term' >= 1
           /\ Copied' /\ Executes' /\ Replaces'
           /\ Origin(log)' /\ Origin(accepted.log)'
           /\ Remembered'
<1> USE DEF raftVars, lockVars, applyVars, readerVars
<1>1. pc \in [Submitter -> {"new", "start", "wait", "check", "leave", "done"}]
  BY Zenon DEF Inv, TypeOK
<1>2. \A d \in Submitter : pc'[d] = "wait" => pc[d] = "wait"
  BY <1>1, Zenon
<1>3. \A d \in Submitter :
          pc[d] \notin {"new", "start"} => pc'[d] \notin {"new", "start"}
  BY <1>1, Zenon
<1>4. (leading' => term' >= 1) /\ Copied' /\ Executes' /\ Replaces'
  BY Frame, Zenon DEF Inv
<1>5. Origin(log)'
  BY <1>3, Zenon DEF Inv, Origin
<1>6. Origin(accepted.log)'
  BY <1>3, Zenon DEF Inv, Origin
<1>7. Remembered'
  BY <1>2, Zenon DEF Inv, Remembered, Due
<1> QED  BY <1>4, <1>5, <1>6, <1>7, Zenon

-----------------------------------------------------------------------------
\* Submit.
LEMMA RegisterKeeps ==
    ASSUME Inv, NEW c \in Submitter, Register(c)
    PROVE  Inv'
<1> USE DEF Register, raftVars, lockVars, applyVars, readerVars
<1>1. TypeOK'
  BY DEF Inv, TypeOK, Free
<1>2. Answers'
  <2>1. \A d \in Submitter : pc'[d] = "check" => pc[d] = "check"
    BY Zenon DEF Inv, TypeOK
  <2> QED  BY <2>1, Zenon DEF Inv, Answers, WasExecuted
<1> QED  BY <1>1, <1>2, SubmitFrame, Zenon DEF Inv

LEMMA StartLeadingKeeps ==
    ASSUME Inv, NEW c \in Submitter, StartLeading(c)
    PROVE  Inv'
<1> USE DEF StartLeading, lockVars, applyVars, readerVars
<1> DEFINE e == [cmd |-> c, term |-> term]
<1>1. /\ log \in Seq(Entry) /\ Len(log) <= MaxIndex
      /\ commitIndex \in 0 .. Len(log)
      /\ term \in 0 .. MaxTerm /\ term >= 1
      /\ pc \in [Submitter -> {"new", "start", "wait", "check", "leave", "done"}]
      /\ termBeforeOp \in [Submitter -> 0 .. MaxTerm]
  BY Zenon DEF Inv, TypeOK
<1>2. e \in Entry
  BY <1>1, RSMAssumption DEF Entry
<1>3. /\ log' \in Seq(Entry) /\ Len(log') = Len(log) + 1
      /\ \A k \in 1 .. Len(log) : log'[k] = log[k]
      /\ log'[Len(log) + 1] = e
  BY <1>1, <1>2
<1>4. TypeOK'
  <2>1. /\ Len(log') <= MaxIndex /\ commitIndex' \in 0 .. Len(log')
        /\ pc' \in [Submitter ->
                        {"new", "start", "wait", "check", "leave", "done"}]
        /\ termBeforeOp' \in [Submitter -> 0 .. MaxTerm]
    BY <1>1, <1>3, RSMAssumption
  <2> QED  BY <1>3, <2>1, Zenon DEF Inv, TypeOK, Free
<1>5. /\ leading' => term' >= 1
      /\ Copied' /\ Executes' /\ Replaces'
  <2>1. Copied'
    BY <1>3 DEF Inv, TypeOK, Copied
  <2>2. Executes'
    BY <1>3 DEF Inv, TypeOK, Executes, Marks
  <2>3. Replaces'
    BY Zenon DEF Inv, Replaces, Free
  <2> QED  BY <2>1, <2>2, <2>3, Zenon DEF Inv
<1>6. Origin(log)' /\ Origin(accepted.log)'
  <2>1. Origin(log)'
    <3> SUFFICES ASSUME NEW k \in 1 .. Len(log'), log'[k].cmd \in Submitter
                 PROVE  /\ pc'[log'[k].cmd] \notin {"new", "start"}
                        /\ log'[k].term = termBeforeOp'[log'[k].cmd]
      BY Zenon DEF Origin
    <3>1. CASE k \in 1 .. Len(log)
      BY <1>1, <1>3, <3>1 DEF Inv, Origin
    <3>2. CASE k = Len(log) + 1
      BY <1>1, <1>3, <3>2
    <3> QED  BY <1>1, <1>3, <3>1, <3>2
  <2>2. \A d \in Submitter : pc[d] \notin {"new", "start"} =>
            /\ pc'[d] \notin {"new", "start"}
            /\ termBeforeOp'[d] = termBeforeOp[d]
    BY <1>1, Zenon
  <2>3. Origin(accepted.log)'
    BY <2>2, Zenon DEF Inv, Origin
  <2> QED  BY <2>1, <2>3, Zenon
<1>7. Answers'
  <2>1. \A d \in Submitter : pc'[d] = "check" => pc[d] = "check"
    BY <1>1, Zenon
  <2> QED  BY <2>1, Zenon DEF Inv, Answers, WasExecuted
<1>8. Remembered'
  <2> SUFFICES ASSUME NEW d \in Submitter, pc'[d] = "wait"
               PROVE  Due(d, log)'
    BY Zenon DEF Remembered, Free
  <2>1. executed \in Seq(Submitter \cup {Other}) /\ Len(executed) <= Len(log)
    BY <1>1 DEF Inv, TypeOK, Executes
  <2>2. CASE d = c
    <3>1. /\ Len(log') \in (Len(executed') + 1) .. Len(log')
          /\ log'[Len(log')].cmd = d
      BY <1>1, <1>3, <2>1, <2>2
    <3> QED  BY <3>1, Zenon DEF Due
  <2>3. CASE d # c
    <3>1. Due(d, log)
      BY <1>1, <2>3, Zenon DEF Inv, Remembered
    <3>2. ASSUME NEW k \in (Len(executed) + 1) .. Len(log), log[k].cmd = d
          PROVE  Due(d, log)'
      <4>1. k \in (Len(executed') + 1) .. Len(log') /\ log'[k].cmd = d
        BY <1>1, <1>3, <2>1, <3>2
      <4> QED  BY <4>1, Zenon DEF Due
    <3> QED  BY <3>1, <3>2, Zenon DEF Due
  <2> QED  BY <2>2, <2>3, Zenon
<1> QED  BY <1>4, <1>5, <1>6, <1>7, <1>8, Zenon DEF Inv

LEMMA StartFollowingKeeps ==
    ASSUME Inv, NEW c \in Submitter, StartFollowing(c)
    PROVE  Inv'
<1> USE DEF StartFollowing, raftVars, lockVars, applyVars, readerVars
<1>1. TypeOK'
  BY Zenon DEF Inv, TypeOK, Free
<1>2. Answers'
  <2>1. \A d \in Submitter : pc'[d] = "check" \/ answer'[d] = "OK" =>
            pc[d] = "check" \/ answer[d] = "OK"
    BY Zenon DEF Inv, TypeOK
  <2> QED  BY <2>1, Zenon DEF Inv, Answers, WasExecuted
<1> QED  BY <1>1, <1>2, SubmitFrame, Zenon DEF Inv

LEMMA DeliverKeeps ==
    ASSUME Inv, NEW c \in Submitter, Deliver(c)
    PROVE  Inv'
<1> USE DEF Deliver, raftVars, lockVars, applyVars
<1>1. /\ pc \in [Submitter -> {"new", "start", "wait", "check", "leave", "done"}]
      /\ answer \in [Submitter -> {"none", "OK", "ErrWrongLeader"}]
      /\ holding.result \in {"done", "aborted"}
  BY Zenon DEF Inv, TypeOK
<1>2. \A d \in Submitter :
          /\ d # c => pc'[d] = pc[d] /\ answer'[d] = answer[d]
          /\ pc'[c] = (IF holding.result = "aborted" THEN "leave" ELSE "check")
          /\ answer'[c] = "OK" => answer[c] = "OK"
  BY <1>1, Zenon DEF AfterReceive
<1>3. TypeOK'
  <2>1. /\ pc' \in [Submitter ->
                        {"new", "start", "wait", "check", "leave", "done"}]
        /\ answer' \in [Submitter -> {"none", "OK", "ErrWrongLeader"}]
    BY <1>1, Zenon DEF AfterReceive
  <2>2. holding' \in [cmd : Submitter \cup {Other}, result : {"done", "aborted"}]
    BY Zenon DEF NoMessage
  <2> QED  BY <2>1, <2>2, Zenon DEF Inv, TypeOK, Free
<1>4. (leading' => term' >= 1) /\ Copied' /\ Executes' /\ Replaces'
  BY Frame, Zenon DEF Inv
<1>5. Origin(log)' /\ Origin(accepted.log)'
  <2>1. \A d \in Submitter :
            pc[d] \notin {"new", "start"} => pc'[d] \notin {"new", "start"}
    BY <1>1, <1>2, Zenon
  <2>2. Origin(log)'
    BY <2>1, Zenon DEF Inv, Origin
  <2>3. Origin(accepted.log)'
    BY <2>1, Zenon DEF Inv, Origin
  <2> QED  BY <2>2, <2>3, Zenon
<1>6. Answers'
  <2>1. holding.result = "done" => WasExecuted(c)
    BY Zenon DEF Inv, Answers
  <2>2. ASSUME NEW d \in Submitter, pc'[d] = "check" \/ answer'[d] = "OK"
        PROVE  WasExecuted(d)
    BY <1>1, <1>2, <2>1, <2>2, Zenon DEF Inv, Answers
  <2> QED  BY <2>2, Zenon DEF Answers, WasExecuted
<1>7. Remembered'
  <2>1. \A d \in Submitter : pc'[d] = "wait" => pc[d] = "wait" /\ d # c
    BY <1>1, <1>2, Zenon
  <2> QED  BY <2>1, Zenon DEF Inv, Remembered, Due
<1> QED  BY <1>3, <1>4, <1>5, <1>6, <1>7, Zenon DEF Inv

LEMMA GetStateKeeps ==
    ASSUME Inv, NEW c \in Submitter, GetState(c)
    PROVE  Inv'
<1> USE DEF GetState, raftVars, lockVars, applyVars, readerVars
<1>1. TypeOK'
  BY DEF Inv, TypeOK, Free
<1>2. Answers'
  <2>1. \A d \in Submitter : pc'[d] = "check" \/ answer'[d] = "OK" =>
            pc[d] = "check" \/ answer[d] = "OK"
    BY Zenon DEF Inv, TypeOK
  <2> QED  BY <2>1, Zenon DEF Inv, Answers, WasExecuted
<1> QED  BY <1>1, <1>2, SubmitFrame, Zenon DEF Inv

LEMMA LeaveKeeps ==
    ASSUME Inv, NEW c \in Submitter, Leave(c)
    PROVE  Inv'
<1> USE DEF Leave, raftVars, lockVars, applyVars, readerVars
<1>1. TypeOK'
  BY DEF Inv, TypeOK, Free
<1>2. Answers'
  <2>1. \A d \in Submitter : pc'[d] = "check" => pc[d] = "check"
    BY Zenon DEF Inv, TypeOK
  <2> QED  BY <2>1, Zenon DEF Inv, Answers, WasExecuted
<1> QED  BY <1>1, <1>2, SubmitFrame, Zenon DEF Inv

-----------------------------------------------------------------------------
\* applier and the reader.
LEMMA ApplierTopKeeps ==
    ASSUME Inv, ApplierTop
    PROVE  Inv'
<1> USE DEF ApplierTop, raftVars, lockVars, readerVars, submitVars
<1>1. TypeOK'
  BY Zenon DEF Inv, TypeOK, Free
<1>2. Copied' /\ Executes'
  BY Zenon DEF Inv, Copied, Executes, Marks
<1> QED  BY <1>1, <1>2, Frame, Zenon DEF Inv

LEMMA ApplierCopyKeeps ==
    ASSUME Inv, ApplierCopy
    PROVE  Inv'
<1> USE DEF ApplierCopy, raftVars, lockVars, readerVars, submitVars
<1>1. /\ log \in Seq(Entry) /\ commitIndex \in 0 .. Len(log)
      /\ lastApplied \in 0 .. commitIndex
  BY Zenon DEF Inv, TypeOK
<1>2. /\ batch' \in Seq(Submitter \cup {Other})
      /\ Len(batch') = commitIndex - lastApplied
      /\ \A k \in 1 .. Len(batch') : batch'[k] = log[lastApplied + k].cmd
  <2>1. /\ lastApplied \in Nat /\ commitIndex \in Nat
        /\ lastApplied <= commitIndex /\ commitIndex <= Len(log)
    BY <1>1
  <2>2. /\ Unapplied \in Seq(Submitter \cup {Other})
        /\ Len(Unapplied) = commitIndex - lastApplied
        /\ \A k \in 1 .. (commitIndex - lastApplied) :
              Unapplied[k] = log[lastApplied + k].cmd
    BY ONLY <1>1, <2>1, CommandsBehind, Zenon DEF Unapplied
  <2> QED  BY <2>2, Zenon
<1>3. TypeOK'
  BY <1>2, Zenon DEF Inv, TypeOK, Free
<1>4. Copied'
  BY <1>1, <1>2 DEF Copied
<1>5. Executes'
  BY Zenon DEF Inv, Executes, Marks
<1> QED  BY <1>3, <1>4, <1>5, Frame, Zenon DEF Inv

(* The command that is executed is the one that follows what was, and it is  *)
(* committed, so that a call under way keeps it.                             *)
LEMMA ApplierSendKeeps ==
    ASSUME Inv, ApplierSend
    PROVE  Inv'
<1> USE DEF ApplierSend, raftVars, lockVars, submitVars
<1> DEFINE n == Len(executed) + 1
<1>1. /\ log \in Seq(Entry) /\ commitIndex \in 0 .. Len(log)
      /\ lastApplied \in 0 .. commitIndex
      /\ batch \in Seq(Submitter \cup {Other})
      /\ executed \in Seq(Submitter \cup {Other})
  BY Zenon DEF Inv, TypeOK
<1>2. /\ Len(batch) >= 1 /\ lastApplied + Len(batch) <= commitIndex
      /\ batch[1] = log[lastApplied + 1].cmd
  BY <1>1 DEF Inv, Copied
<1>3. Len(executed) = lastApplied
  BY <1>1 DEF Inv, Executes, Marks
<1>4. /\ Head(batch) \in Submitter \cup {Other}
      /\ Head(batch) = log[n].cmd
      /\ n \in 1 .. commitIndex
  BY <1>1, <1>2, <1>3, Rest
<1>5. /\ executed' \in Seq(Submitter \cup {Other})
      /\ Len(executed') = n
      /\ \A k \in 1 .. Len(executed) : executed'[k] = executed[k]
      /\ executed'[n] = Head(batch)
  BY <1>1, <1>4
<1> HIDE DEF n
<1>6. TypeOK'
  <2>1. holding' \in [cmd : Submitter \cup {Other}, result : {"done", "aborted"}]
    BY <1>4, Zenon
  <2> QED  BY <1>5, <2>1, Zenon DEF Inv, TypeOK, Free
<1>7. Copied'
  BY Zenon DEF Inv, Copied
<1>8. Executes'
  <2>1. Len(executed') = lastApplied' + Marks' /\ Len(executed') <= commitIndex'
    BY <1>1, <1>3, <1>4, <1>5 DEF n, Marks
  <2>2. ASSUME NEW k \in 1 .. n PROVE executed'[k] = log[k].cmd
    <3>1. CASE k = n
      BY <1>4, <1>5, <3>1, Zenon
    <3>2. CASE k \in 1 .. Len(executed)
      BY <1>5, <3>2, Zenon DEF Inv, Executes
    <3> QED  BY <1>1, <3>1, <3>2 DEF n
  <2> QED  BY <1>5, <2>1, <2>2, Zenon DEF Executes
<1>9. Answers'
  <2>1. \A c : WasExecuted(c) => WasExecuted(c)'
    BY <1>1, <1>5 DEF WasExecuted, n
  <2>2. WasExecuted(holding.cmd)'
    <3>1. n \in 1 .. Len(executed') /\ executed'[n] = holding'.cmd
      BY <1>4, <1>5
    <3> QED  BY <3>1, Zenon DEF WasExecuted
  <2> QED  BY <2>1, <2>2, Zenon DEF Inv, Answers
<1>10. Remembered'
  <2> SUFFICES ASSUME NEW c \in Submitter, pc[c] = "wait", holding'.cmd # c
               PROVE  /\ Due(c, log)'
                      /\ lock = "AppendEntries" => Due(c, accepted.log)'
    BY Zenon DEF Remembered, Due
  <2>1. log[n].cmd # c
    BY <1>4, Zenon
  <2>2. Due(c, log)'
    <3>1. Due(c, log)
      BY Zenon DEF Inv, Remembered
    <3>2. ASSUME NEW k \in n .. Len(log), log[k].cmd = c
          PROVE  k \in (n + 1) .. Len(log)
      BY <1>1, <1>4, <2>1, <3>2
    <3> QED  BY <1>5, <3>1, <3>2, Zenon DEF Due, n
  <2>3. ASSUME lock = "AppendEntries" PROVE Due(c, accepted.log)'
    <3>1. Due(c, accepted.log)
      BY <2>3, Zenon DEF Inv, Remembered
    <3>2. accepted.log[n] = log[n] /\ accepted.log \in Seq(Entry)
      BY <1>4, <2>3, Zenon DEF Inv, TypeOK, Replaces
    <3>3. ASSUME NEW k \in n .. Len(accepted.log), accepted.log[k].cmd = c
          PROVE  k \in (n + 1) .. Len(accepted.log)
      BY <1>1, <1>4, <2>1, <3>2, <3>3
    <3> QED  BY <1>5, <3>1, <3>3, Zenon DEF Due, n
  <2> QED  BY <2>2, <2>3, Zenon
<1> QED  BY <1>6, <1>7, <1>8, <1>9, <1>10, Frame, Zenon DEF Inv

LEMMA ApplierMarkKeeps ==
    ASSUME Inv, ApplierMark
    PROVE  Inv'
<1> USE DEF ApplierMark, raftVars, lockVars, readerVars, submitVars
<1>1. /\ log \in Seq(Entry) /\ commitIndex \in 0 .. Len(log)
      /\ lastApplied \in 0 .. commitIndex
      /\ batch \in Seq(Submitter \cup {Other})
  BY Zenon DEF Inv, TypeOK
<1>2. /\ Len(batch) >= 1 /\ lastApplied + Len(batch) <= commitIndex
      /\ \A k \in 1 .. Len(batch) : batch[k] = log[lastApplied + k].cmd
  BY Zenon DEF Inv, Copied
<1>3. /\ batch' \in Seq(Submitter \cup {Other})
      /\ Len(batch') = Len(batch) - 1
      /\ \A k \in 1 .. Len(batch') : batch'[k] = batch[k + 1]
  BY <1>1, <1>2, Rest, Zenon
<1>4. TypeOK'
  <2>1. lastApplied' \in 0 .. commitIndex'
    BY <1>1, <1>2
  <2> QED  BY <1>3, <2>1, Zenon DEF Inv, TypeOK, Free
<1>5. Copied'
  <2> SUFFICES ASSUME Len(batch) # 1
               PROVE  /\ Len(batch') >= 1
                      /\ lastApplied' + Len(batch') <= commitIndex
                      /\ \A k \in 1 .. Len(batch') :
                            batch'[k] = log[lastApplied' + k].cmd
    BY Zenon DEF Copied
  <2>1. /\ Len(batch') >= 1
        /\ lastApplied' + Len(batch') <= commitIndex
    BY <1>1, <1>2, <1>3
  <2>2. ASSUME NEW k \in 1 .. Len(batch')
        PROVE  batch'[k] = log[lastApplied' + k].cmd
    <3>1. k + 1 \in 1 .. Len(batch) /\ lastApplied + (k + 1) = lastApplied' + k
      BY <1>1, <1>3
    <3> QED  BY <1>2, <1>3, <3>1, Zenon
  <2> QED  BY <2>1, <2>2, Zenon
<1>6. Executes'
  BY <1>1 DEF Inv, Executes, Marks
<1> QED  BY <1>4, <1>5, <1>6, Frame, Zenon DEF Inv

LEMMA AbortSendKeeps ==
    ASSUME Inv, AbortSend
    PROVE  Inv'
<1> USE DEF AbortSend, raftVars, applyVars, submitVars
<1>1. aborts \in Seq(Submitter \cup {Other}) /\ Len(aborts) >= 1
  BY DEF Inv, TypeOK
<1>2. /\ Head(aborts) \in Submitter \cup {Other} /\ Head(aborts) = aborts[1]
      /\ aborts' \in Seq(Submitter \cup {Other})
      /\ Len(aborts') = Len(aborts) - 1
      /\ \A k \in 1 .. Len(aborts') : aborts'[k] = aborts[k + 1]
  BY <1>1, Rest, Zenon
<1>3. TypeOK'
  <2>1. holding' \in [cmd : Submitter \cup {Other}, result : {"done", "aborted"}]
    BY <1>2, Zenon
  <2> QED  BY <1>2, <2>1, Zenon DEF Inv, TypeOK, Free
<1>4. Answers'
  BY Zenon DEF Inv, Answers, WasExecuted
<1>5. Remembered'
  <2> SUFFICES ASSUME NEW c \in Submitter, pc[c] = "wait", holding'.cmd # c
               PROVE  /\ Due(c, log)'
                      /\ lock = "AppendEntries" => Due(c, accepted.log)'
    BY Zenon DEF Remembered, Due
  <2>1. ASSUME NEW k \in 1 .. Len(aborts), aborts[k] = c
        PROVE  \E j \in 1 .. Len(aborts') : aborts'[j] = c
    <3>1. k # 1
      BY <1>2, <2>1, Zenon
    <3>2. k - 1 \in 1 .. Len(aborts') /\ aborts'[k - 1] = aborts[k]
      BY <1>1, <1>2, <3>1
    <3> QED  BY <2>1, <3>2, Zenon
  <2>2. Due(c, log)'
    BY <2>1, Zenon DEF Inv, Remembered, Due
  <2>3. lock = "AppendEntries" => Due(c, accepted.log)'
    BY <2>1, Zenon DEF Inv, Remembered, Due
  <2> QED  BY <2>2, <2>3, Zenon
<1> QED  BY <1>3, <1>4, <1>5, Frame, Zenon DEF Inv

LEMMA LookUpKeeps ==
    ASSUME Inv, LookUp
    PROVE  Inv'
<1> USE DEF LookUp, raftVars, lockVars, applyVars, submitVars
<1>1. TypeOK'
  <2>1. /\ holding' \in [cmd : Submitter \cup {Other},
                         result : {"done", "aborted"}]
        /\ reader' \in {"receive", "lookup", "deliver"}
    BY DEF Inv, TypeOK, NoMessage
  <2> QED  BY <2>1, Zenon DEF Inv, TypeOK, Free
<1>2. Answers'
  BY Zenon DEF Inv, Answers, WasExecuted
<1>3. Remembered'
  <2>1. \A c \in Submitter : pc[c] = "wait" => c \in opChs
    BY Zenon DEF opChs
  <2>2. CASE reader' = "deliver" /\ holding' = holding
    BY <2>2, Zenon DEF Inv, Remembered, Due
  <2>3. CASE holding.cmd \notin opChs
    BY <2>1, <2>3, Zenon DEF Inv, Remembered, Due
  <2> QED  BY <2>2, <2>3, Zenon
<1> QED  BY <1>1, <1>2, <1>3, Frame, Zenon DEF Inv

-----------------------------------------------------------------------------
\* Elections, commits, and the calls of another leader.
LEMMA BecomeLeaderKeeps ==
    ASSUME Inv, BecomeLeader
    PROVE  Inv'
<1> USE DEF BecomeLeader, lockVars, applyVars, readerVars, submitVars
<1>1. TypeOK'
  <2>1. term' \in 0 .. MaxTerm /\ leading' \in BOOLEAN
    BY RSMAssumption DEF Inv, TypeOK
  <2> QED  BY <2>1, Zenon DEF Inv, TypeOK, Free
<1>2. leading' => term' >= 1
  BY DEF Inv, TypeOK
<1> QED  BY <1>1, <1>2, Frame, Zenon DEF Inv

LEMMA StepDownKeeps ==
    ASSUME Inv, NEW t \in 1 .. MaxTerm, StepDown(t)
    PROVE  Inv'
<1> USE DEF StepDown, lockVars, applyVars, readerVars, submitVars
<1>1. TypeOK'
  <2>1. term' \in 0 .. MaxTerm
    BY RSMAssumption
  <2>2. leading' \in BOOLEAN
    BY Zenon
  <2> QED  BY <2>1, <2>2, Zenon DEF Inv, TypeOK, Free
<1> QED  BY <1>1, Frame, Zenon DEF Inv

LEMMA AdvanceCommitKeeps ==
    ASSUME Inv, NEW n \in 1 .. Len(log), AdvanceCommit(n)
    PROVE  Inv'
<1> USE DEF AdvanceCommit, lockVars, applyVars, readerVars, submitVars
<1>1. TypeOK'
  BY DEF Inv, TypeOK, Free
<1>2. /\ commitIndex \in Nat /\ lastApplied \in Nat /\ commitIndex' \in Nat
      /\ commitIndex <= commitIndex' /\ batch \in Seq(Submitter \cup {Other})
      /\ executed \in Seq(Submitter \cup {Other})
  BY DEF Inv, TypeOK
<1>3. Copied' /\ Executes'
  <2>1. \A m \in Int : m <= commitIndex => m <= commitIndex'
    BY <1>2
  <2>2. Copied'
    BY <1>2, <2>1 DEF Inv, Copied
  <2>3. Executes'
    BY <1>2, <2>1 DEF Inv, Executes, Marks
  <2> QED  BY <2>2, <2>3, Zenon
<1>4. Replaces'
  BY Zenon DEF Replaces, Free
<1> QED  BY <1>1, <1>3, <1>4, Frame, Zenon DEF Inv

(* What the call leaves behind agrees with the log as far as same, which is  *)
(* not less than what is committed; what lies behind prev is reported.       *)
LEMMA AppendEntriesKeeps ==
    ASSUME Inv, AppendEntriesCall
    PROVE  Inv'
<1>0. PICK t \in 1 .. MaxTerm, prev \in 0 .. Len(log) :
          \E same \in commitIndex .. Len(log),
             more \in {<< >>, <<[cmd |-> Other, term |-> t]>>} :
              /\ prev <= same
              /\ \E commit \in commitIndex .. MaxIndex :
                    AppendEntries(t, prev, same, more, commit)
  BY Zenon DEF AppendEntriesCall
<1>1. PICK same \in commitIndex .. Len(log),
           more \in {<< >>, <<[cmd |-> Other, term |-> t]>>},
           commit \in commitIndex .. MaxIndex :
          prev <= same /\ AppendEntries(t, prev, same, more, commit)
  BY <1>0, Zenon
<1> DEFINE kept == SubSeq(log, 1, same) \o more
<1>2. /\ Free /\ calls < MaxCalls
      /\ commit <= Len(kept) /\ Len(kept) <= MaxIndex
      /\ term' = t /\ leading' = FALSE
      /\ lock' = "AppendEntries" /\ aborts' = CutOff(prev)
      /\ accepted' = [log |-> kept, commitIndex |-> commit]
      /\ calls' = calls + 1
      /\ UNCHANGED <<log, commitIndex, killer, applyVars, readerVars,
                     submitVars>>
  BY <1>1, Zenon DEF AppendEntries
<1>3. /\ log \in Seq(Entry) /\ Len(log) <= MaxIndex
      /\ commitIndex \in 0 .. Len(log)
      /\ aborts = << >> /\ calls \in 0 .. MaxCalls
  BY <1>2, Zenon DEF Inv, TypeOK
<1>4. /\ more \in Seq(Entry)
      /\ \A k \in 1 .. Len(more) : more[k].cmd = Other
  <2>1. [cmd |-> Other, term |-> t] \in Entry
    BY Zenon DEF Entry
  <2>2. CASE more = << >>
    BY <2>2
  <2>3. CASE more = <<[cmd |-> Other, term |-> t]>>
    <3>1. more \in Seq(Entry) /\ Len(more) = 1 /\ more[1].cmd = Other
      BY <2>1, <2>3
    <3> QED  BY <3>1
  <2> QED  BY <2>2, <2>3, Zenon
<1>5. /\ kept \in Seq(Entry)
      /\ Len(kept) = same + Len(more)
      /\ \A k \in 1 .. same : kept[k] = log[k]
      /\ \A k \in (same + 1) .. Len(kept) : kept[k].cmd = Other
  <2>1. same \in Nat /\ same <= Len(log)
    BY <1>3
  <2>2. /\ SubSeq(log, 1, same) \in Seq(Entry)
        /\ Len(SubSeq(log, 1, same)) = same
        /\ \A k \in 1 .. same : SubSeq(log, 1, same)[k] = log[k]
    BY <1>3, <2>1
  <2>3. /\ kept \in Seq(Entry)
        /\ Len(kept) = same + Len(more)
        /\ \A k \in 1 .. same : kept[k] = SubSeq(log, 1, same)[k]
        /\ \A k \in 1 .. Len(more) : kept[same + k] = more[k]
    BY <1>4, <2>1, <2>2
  <2>4. ASSUME NEW k \in (same + 1) .. Len(kept) PROVE kept[k].cmd = Other
    <3>1. k - same \in 1 .. Len(more) /\ same + (k - same) = k
      BY <1>4, <2>1, <2>3
    <3> QED  BY <1>4, <2>3, <3>1
  <2> QED  BY <2>2, <2>3, <2>4, Zenon
<1>6. /\ aborts' \in Seq(Submitter \cup {Other})
      /\ Len(aborts') = Len(log) - prev
      /\ \A k \in 1 .. (Len(log) - prev) : aborts'[k] = log[prev + k].cmd
  <2>1. prev \in Nat /\ Len(log) \in Nat /\ prev <= Len(log)
    BY <1>3
  <2>2. /\ CutOff(prev) \in Seq(Submitter \cup {Other})
        /\ Len(CutOff(prev)) = Len(log) - prev
        /\ \A k \in 1 .. (Len(log) - prev) :
              CutOff(prev)[k] = log[prev + k].cmd
    BY ONLY <1>3, <2>1, Len(log) <= Len(log), CommandsBehind, Zenon DEF CutOff
  <2> QED  BY <1>2, <2>2, Zenon
<1> HIDE DEF kept
<1>7. accepted'.log = kept /\ accepted'.commitIndex = commit
  BY <1>2, Zenon
<1> USE DEF applyVars, readerVars, submitVars
<1>8. TypeOK'
  <2>1. term' \in 0 .. MaxTerm /\ calls' \in 0 .. MaxCalls
    BY <1>2, <1>3, RSMAssumption
  <2>2. leading' \in BOOLEAN
    BY <1>2, Zenon
  <2>3. accepted'.log \in Seq(Entry) /\ accepted'.commitIndex \in 0 .. MaxIndex
    BY <1>3, <1>5, <1>7, RSMAssumption
  <2> QED  BY <1>2, <1>6, <2>1, <2>2, <2>3, Zenon DEF Inv, TypeOK, Free
<1>9. Replaces'
  BY <1>2, <1>3, <1>5, <1>7, RSMAssumption DEF Replaces
<1>10. Origin(accepted.log)'
  <2>1. Origin(kept)
    <3> SUFFICES ASSUME NEW k \in 1 .. Len(kept), kept[k].cmd \in Submitter
                 PROVE  /\ pc[kept[k].cmd] \notin {"new", "start"}
                        /\ kept[k].term = termBeforeOp[kept[k].cmd]
      BY Zenon DEF Origin
    <3>1. k \in 1 .. same /\ k \in 1 .. Len(log)
      <4>1. /\ same \in Nat /\ Len(log) \in Nat /\ same <= Len(log)
            /\ Len(kept) \in Nat
        BY <1>3, <1>5
      <4>2. k \notin (same + 1) .. Len(kept)
        BY <1>5, RSMAssumption, Zenon
      <4>3. k \in 1 .. Len(kept)
        OBVIOUS
      <4> QED  BY ONLY <4>1, <4>2, <4>3
    <3> QED  BY <1>5, <3>1, Zenon DEF Inv, Origin
  <2> QED  BY <1>2, <1>7, <2>1, Zenon DEF Origin
<1>11. Remembered'
  <2> SUFFICES ASSUME NEW c \in Submitter, pc[c] = "wait"
               PROVE  Due(c, log)' /\ Due(c, accepted.log)'
    BY <1>2, Zenon DEF Remembered
  <2>1. Due(c, log)
    BY Zenon DEF Inv, Remembered
  <2>2. CASE reader # "receive" /\ holding.cmd = c
    BY <1>2, <2>2, Zenon DEF Due
  <2>3. ASSUME NEW k \in (Len(executed) + 1) .. Len(log), log[k].cmd = c
        PROVE  Due(c, log)' /\ Due(c, accepted.log)'
    <3>1. Len(executed) \in Nat /\ Len(log) \in Nat /\ k \in Nat
      <4>1. executed \in Seq(Submitter \cup {Other})
        BY Zenon DEF Inv, TypeOK
      <4> QED  BY <1>3, <4>1
    <3>2. Due(c, log)'
      BY <1>2, <2>3, Zenon DEF Due
    <3>3. CASE k <= prev
      <4>1. same \in Nat /\ Len(more) \in Nat /\ prev <= same
        BY <1>1, <1>3, <1>4
      <4>2. k \in 1 .. same /\ k \in (Len(executed) + 1) .. Len(kept)
        BY <1>5, <3>1, <3>3, <4>1
      <4>3. kept[k].cmd = c
        BY <1>5, <2>3, <4>2, Zenon
      <4> QED  BY <1>2, <1>7, <3>2, <4>2, <4>3, Zenon DEF Due
    <3>4. CASE k > prev
      <4>1. /\ k - prev \in 1 .. (Len(log) - prev)
            /\ prev + (k - prev) = k
        BY <3>1, <3>4
      <4>2. k - prev \in 1 .. Len(aborts') /\ aborts'[k - prev] = c
        BY <1>6, <2>3, <4>1, Zenon
      <4> QED  BY <3>2, <4>2, Zenon DEF Due
    <3> QED  BY <3>1, <3>3, <3>4
  <2>4. 1 .. Len(aborts) = {}
    <3>1. aborts = << >>
      BY <1>3, Zenon
    <3> QED  BY ONLY <3>1
  <2> QED  BY <2>1, <2>2, <2>3, <2>4, Zenon DEF Due
<1> QED  BY <1>2, <1>8, <1>9, <1>10, <1>11, Frame, Zenon DEF Inv

LEMMA AppendEntriesEndsKeeps ==
    ASSUME Inv, AppendEntriesEnds
    PROVE  Inv'
<1> USE DEF AppendEntriesEnds, applyVars, readerVars, submitVars
<1>1. /\ log \in Seq(Entry) /\ commitIndex \in 0 .. Len(log)
      /\ lastApplied \in 0 .. commitIndex
      /\ accepted.log \in Seq(Entry) /\ accepted.commitIndex \in 0 .. MaxIndex
      /\ batch \in Seq(Submitter \cup {Other})
      /\ executed \in Seq(Submitter \cup {Other})
  BY Zenon DEF Inv, TypeOK
<1>2. /\ Len(log') <= MaxIndex
      /\ commitIndex <= commitIndex' /\ commitIndex' <= Len(log')
      /\ \A k \in 1 .. commitIndex : log'[k] = log[k]
  BY Zenon DEF Inv, Replaces
<1>3. accepted'.log = << >> /\ accepted'.commitIndex = 0
  BY Zenon DEF NoCall
<1>4. TypeOK'
  <2>0. log' \in Seq(Entry)
    BY <1>1, Zenon
  <2>1. commitIndex' \in 0 .. Len(log') /\ lastApplied' \in 0 .. commitIndex'
    <3>1. Len(log') \in Nat /\ lastApplied' = lastApplied /\ commitIndex' \in Nat
      BY <1>1, <2>0
    <3> QED  BY <1>1, <1>2, <3>1
  <2>2. accepted'.log \in Seq(Entry) /\ accepted'.commitIndex \in 0 .. MaxIndex
    BY <1>3, RSMAssumption
  <2> QED  BY <1>2, <2>0, <2>1, <2>2 DEF Inv, TypeOK, Free
<1>5. Copied'
  <2> SUFFICES ASSUME applier \in {"send", "mark"}
               PROVE  /\ Len(batch) >= 1
                      /\ lastApplied + Len(batch) <= commitIndex'
                      /\ \A k \in 1 .. Len(batch) :
                            batch[k] = log'[lastApplied + k].cmd
    BY Zenon DEF Copied
  <2>1. /\ Len(batch) >= 1 /\ lastApplied + Len(batch) <= commitIndex
        /\ \A k \in 1 .. Len(batch) : batch[k] = log[lastApplied + k].cmd
    BY Zenon DEF Inv, Copied
  <2>2. \A k \in 1 .. Len(batch) : lastApplied + k \in 1 .. commitIndex
    BY <1>1, <2>1
  <2>3. lastApplied + Len(batch) <= commitIndex'
    BY <1>1, <1>2, <2>1
  <2> QED  BY <1>2, <2>1, <2>2, <2>3, Zenon
<1>6. Executes'
  <2>1. /\ Len(executed) = lastApplied + Marks /\ Len(executed) <= commitIndex
        /\ \A k \in 1 .. Len(executed) : executed[k] = log[k].cmd
    BY Zenon DEF Inv, Executes
  <2>2. \A k \in 1 .. Len(executed) : k \in 1 .. commitIndex
    BY <1>1, <2>1
  <2>3. Len(executed) <= commitIndex'
    BY <1>1, <1>2, <2>1
  <2> QED  BY <1>2, <2>1, <2>2, <2>3, Zenon DEF Executes, Marks
<1>7. Replaces' /\ Origin(accepted.log)'
  BY <1>3 DEF Replaces, Origin
<1>8. Origin(log)'
  BY Zenon DEF Inv, Origin
<1>9. Remembered'
  BY Zenon DEF Inv, Remembered, Due
<1> QED  BY <1>4, <1>5, <1>6, <1>7, <1>8, <1>9, Frame, Zenon DEF Inv

-----------------------------------------------------------------------------
\* Kill.
LEMMA KillCalledKeeps ==
    ASSUME Inv, KillCalled
    PROVE  Inv'
<1> USE DEF KillCalled, raftVars, applyVars, readerVars, submitVars
<1>1. TypeOK'
  BY DEF Inv, TypeOK, Free
<1> QED  BY <1>1, Frame, Zenon DEF Inv

LEMMA KillLocksKeeps ==
    ASSUME Inv, KillLocks
    PROVE  Inv'
<1> USE DEF KillLocks, raftVars, applyVars, readerVars, submitVars
<1>1. /\ log \in Seq(Entry) /\ commitIndex \in 0 .. Len(log)
      /\ lastApplied \in 0 .. commitIndex /\ aborts = << >>
  BY Zenon DEF Inv, TypeOK
<1>2. aborts' \in Seq(Submitter \cup {Other})
  <2>1. lastApplied \in Nat /\ Len(log) \in Nat /\ lastApplied <= Len(log)
    BY <1>1
  <2>2. CutOff(lastApplied) \in Seq(Submitter \cup {Other})
    BY ONLY <1>1, <2>1, Len(log) <= Len(log), CommandsBehind, Zenon DEF CutOff
  <2> QED  BY <2>2, Zenon
<1>3. TypeOK'
  BY <1>2, Zenon DEF Inv, TypeOK, Free
<1>4. Replaces'
  BY Zenon DEF Replaces
<1>5. Remembered'
  <2>1. ASSUME NEW c \in Submitter, pc[c] = "wait" PROVE Due(c, log)'
    <3>1. Due(c, log)
      BY <2>1, Zenon DEF Inv, Remembered
    <3> QED  BY <1>1, <3>1 DEF Due
  <2> QED  BY <2>1, Zenon DEF Remembered
<1> QED  BY <1>3, <1>4, <1>5, Frame, Zenon DEF Inv

LEMMA KillEndsKeeps ==
    ASSUME Inv, KillEnds
    PROVE  Inv'
<1> USE DEF KillEnds, raftVars, applyVars, readerVars, submitVars
<1>1. TypeOK'
  BY Zenon DEF Inv, TypeOK, Free
<1>2. Replaces'
  BY Zenon DEF Replaces
<1>3. Remembered'
  BY Zenon DEF Inv, Remembered, Due
<1> QED  BY <1>1, <1>2, <1>3, Frame, Zenon DEF Inv

-----------------------------------------------------------------------------
LEMMA InitInv == Init => Inv
<1> SUFFICES ASSUME Init PROVE Inv
  BY Zenon
<1> USE DEF Init
<1>1. TypeOK
  <2>1. /\ term \in 0 .. MaxTerm /\ calls \in 0 .. MaxCalls
        /\ log \in Seq(Entry) /\ Len(log) <= MaxIndex
        /\ commitIndex \in 0 .. Len(log) /\ lastApplied \in 0 .. commitIndex
        /\ accepted.log \in Seq(Entry) /\ accepted.commitIndex \in 0 .. MaxIndex
    BY RSMAssumption DEF NoCall
  <2>2. /\ leading \in BOOLEAN
        /\ holding \in [cmd : Submitter \cup {Other}, result : {"done", "aborted"}]
    BY Zenon DEF NoMessage
  <2>3. /\ pc \in [Submitter -> {"new", "start", "wait", "check", "leave", "done"}]
        /\ termBeforeOp \in [Submitter -> 0 .. MaxTerm]
        /\ answer \in [Submitter -> {"none", "OK", "ErrWrongLeader"}]
    BY RSMAssumption
  <2>4. /\ lock \in {"free", "AppendEntries", "Kill"}
        /\ aborts \in Seq(Submitter \cup {Other})
        /\ killer \in {"idle", "called", "aborting", "done"}
        /\ applier \in {"top", "copy", "send", "mark", "stopped"}
        /\ batch \in Seq(Submitter \cup {Other})
        /\ reader \in {"receive", "lookup", "deliver"}
        /\ executed \in Seq(Submitter \cup {Other})
    OBVIOUS
  <2> QED  BY <2>1, <2>2, <2>3, <2>4, Zenon DEF TypeOK
<1>2. Copied /\ Executes /\ Replaces
  BY DEF Copied, Executes, Marks, Replaces
<1>3. Origin(log) /\ Origin(accepted.log)
  BY DEF Origin, NoCall
<1>4. Answers /\ Remembered
  BY Zenon DEF Answers, Remembered
<1> QED  BY <1>1, <1>2, <1>3, <1>4, Zenon DEF Inv

LEMMA NextInv == Inv /\ [Next]_vars => Inv'
<1> SUFFICES ASSUME Inv, [Next]_vars PROVE Inv'
  BY Zenon
<1>1. ASSUME NEW c \in Submitter, Submit(c) \/ Deliver(c) PROVE Inv'
  BY <1>1, RegisterKeeps, StartLeadingKeeps, StartFollowingKeeps,
     DeliverKeeps, GetStateKeeps, LeaveKeeps, Zenon DEF Submit
<1>2. CASE Applier \/ ApplierSend
  BY <1>2, ApplierTopKeeps, ApplierCopyKeeps, ApplierMarkKeeps,
     ApplierSendKeeps, Zenon DEF Applier
<1>3. CASE AbortSend \/ LookUp
  BY <1>3, AbortSendKeeps, LookUpKeeps, Zenon
<1>4. CASE Holder \/ KillCalled
  BY <1>4, AppendEntriesEndsKeeps, KillLocksKeeps, KillEndsKeeps,
     KillCalledKeeps, Zenon DEF Holder
<1>5. CASE BecomeLeader
  BY <1>5, BecomeLeaderKeeps, Zenon
<1>6. ASSUME NEW t \in 1 .. MaxTerm, StepDown(t) PROVE Inv'
  BY <1>6, StepDownKeeps, Zenon
<1>7. ASSUME NEW n \in 1 .. Len(log), AdvanceCommit(n) PROVE Inv'
  BY <1>7, AdvanceCommitKeeps, Zenon
<1>8. CASE AppendEntriesCall
  BY <1>8, AppendEntriesKeeps, Zenon
<1>9. CASE UNCHANGED vars
  <2> USE <1>9 DEF vars, raftVars, lockVars, applyVars, readerVars, submitVars
  <2>1. TypeOK'
    BY DEF Inv, TypeOK, Free
  <2> QED  BY <2>1, Frame, Zenon DEF Inv
<1> QED  BY <1>1, <1>2, <1>3, <1>4, <1>5, <1>6, <1>7, <1>8, <1>9, Zenon
            DEF Next

LEMMA InvHolds == Spec => []Inv
BY InitInv, NextInv, PTL DEF Spec

LEMMA InvExecutes == Inv => ExecutesLog
<1> SUFFICES ASSUME Inv PROVE ExecutesLog
  BY Zenon
<1>1. /\ log \in Seq(Entry) /\ commitIndex \in 0 .. Len(log)
      /\ executed \in Seq(Submitter \cup {Other})
  BY Zenon DEF Inv, TypeOK
<1>2. /\ Len(executed) = lastApplied + (IF applier = "mark" THEN 1 ELSE 0)
      /\ Len(executed) <= commitIndex
      /\ \A k \in 1 .. Len(executed) : executed[k] = log[k].cmd
  BY Zenon DEF Inv, Executes, Marks
<1> DEFINE n == Len(executed)
<1>3. n \in Nat /\ 0 <= n /\ n <= Len(log)
  BY <1>1, <1>2
<1>4. /\ SubSeq(Commands(log), 1, n) \in Seq(Submitter \cup {Other})
      /\ Len(SubSeq(Commands(log), 1, n)) = n
      /\ \A k \in 1 .. n : SubSeq(Commands(log), 1, n)[k] = log[k].cmd
  <2> HIDE DEF n
  <2>1. /\ SubSeq(Commands(log), 0 + 1, n) \in Seq(Submitter \cup {Other})
        /\ Len(SubSeq(Commands(log), 0 + 1, n)) = n - 0
        /\ \A k \in 1 .. (n - 0) :
              SubSeq(Commands(log), 0 + 1, n)[k] = log[0 + k].cmd
    BY ONLY <1>1, <1>3, 0 \in Nat, CommandsBehind, Zenon
  <2>2. 0 + 1 = 1 /\ n - 0 = n /\ \A k \in 1 .. n : 0 + k = k
    BY <1>3
  <2> QED  BY <2>1, <2>2, Zenon
<1>5. executed = SubSeq(Commands(log), 1, n)
  <2> HIDE DEF Commands
  <2> QED  BY <1>1, <1>2, <1>4
<1> QED  BY <1>2, <1>5, Zenon DEF ExecutesLog

LEMMA InvOk == Inv => OkIsExecuted
<1> SUFFICES ASSUME Inv, NEW c \in Submitter, answer[c] = "OK"
             PROVE  \E k \in 1 .. Len(executed) :
                        /\ executed[k] = c
                        /\ log[k] = [cmd |-> c, term |-> termBeforeOp[c]]
  BY Zenon DEF OkIsExecuted
<1>1. PICK k \in 1 .. Len(executed) : executed[k] = c
  BY Zenon DEF Inv, Answers, WasExecuted
<1>2. k \in 1 .. Len(log) /\ log[k] \in Entry
  BY DEF Inv, TypeOK, Executes
<1>3. log[k].cmd = c
  BY <1>1, Zenon DEF Inv, Executes
<1>4. log[k].term = termBeforeOp[c]
  BY <1>2, <1>3, Zenon DEF Inv, Origin
<1> QED  BY <1>1, <1>2, <1>3, <1>4, Zenon DEF Entry

(* The variables of the RSM, of applier and of Submit keep their types, and  *)
(* AppendEntries and Kill release rf.mu only when every Aborted message is   *)
(* sent.                                                                     *)
THEOREM ReplicaTypes == Spec => []TypeOK
<1>1. Inv => TypeOK
  BY Zenon DEF Inv
<1> QED  BY <1>1, InvHolds, PTL

(* DoOp is called with the commands of the committed log, in its order and   *)
(* each once, whatever AppendEntries cuts off and rebuilds between the       *)
(* moments at which applier copies, sends and marks.                         *)
THEOREM CommandsRunOnce == Spec => []ExecutesLog
BY InvHolds, InvExecutes, PTL

(* Submit returns OK only for a command that DoOp has executed, and that the *)
(* log holds, committed, with the term that Start returned.                  *)
THEOREM OkMeansExecuted == Spec => []OkIsExecuted
BY InvHolds, InvOk, PTL

(* A Submit that waits is never forgotten, although AppendEntries and Kill   *)
(* report what they cut off while applier sends without the lock.            *)
THEOREM WaitersAreRemembered == Spec => []NobodyForgotten
<1>1. Inv => NobodyForgotten
  BY Zenon DEF Inv, Remembered, Due, NobodyForgotten
<1> QED  BY <1>1, InvHolds, PTL

=============================================================================
