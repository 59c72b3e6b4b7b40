-------------------------------- MODULE Clerk --------------------------------
(*****************************************************************************)
(* Clerk.Put of kvraft1/client.go, with the conditional Put of               *)
(* kvraft1/server.go on one key. Every clerk makes one Put. It tries the     *)
(* servers in its order until one answers OK or ErrVersion.                  *)
(*                                                                           *)
(* A call that the clerk has given up may still be performed later: its      *)
(* request was slow, its reply was lost, or the server answered              *)
(* ErrWrongLeader and its entry was committed by the next leader. The value  *)
(* of the key is left out: only versions decide what is performed.           *)
(*****************************************************************************)
EXTENDS Integers, FiniteSets, SequencesExt

CONSTANTS
    Server,         \* the servers of the group
    Client,         \* the clerks
    MaxCalls        \* bound: calls made by one Put

ASSUME ClerkAssumption ==
    /\ IsFiniteSet(Server) /\ Server # {}
    /\ MaxCalls \in Nat

VARIABLES
    version,        \* kv.versions of the key; 0 while the key does not exist
    calls,          \* <<clerk, k>>: the k-th call of its Put may be performed
    answers,        \* <<clerk, k, err>>: what performing that call returned
    performed,      \* history: how often the Put of a clerk changed the key
    ckServers,      \* per clerk, ck.servers
    pc,             \* per clerk, how far its Put is
    args,           \* args.Version
    order,          \* the copy of ck.servers that the inner loop runs over
    idx,            \* the position of the inner loop
    firstAttempt,   \* firstAttempt
    sent,           \* the number of calls made so far
    err             \* what Put has returned, or "none"

serviceVars == <<version, calls, answers, performed>>
putVars     == <<pc, args, order, idx, firstAttempt, sent, err>>
vars        == <<serviceVars, ckServers, putVars>>

\* MakeClerk: the servers in some order, each of them once.
Orders == {o \in [1 .. Cardinality(Server) -> Server] : IsInjective(o)}

Init ==
    /\ version = 0
    /\ calls = {}
    /\ answers = {}
    /\ performed = [c \in Client |-> 0]
    /\ ckServers \in [Client -> Orders]
    /\ pc = [c \in Client |-> "new"]
    /\ args = [c \in Client |-> 0]
    /\ order = ckServers
    /\ idx = [c \in Client |-> 1]
    /\ firstAttempt = [c \in Client |-> TRUE]
    /\ sent = [c \in Client |-> 0]
    /\ err = [c \in Client |-> "none"]

-----------------------------------------------------------------------------
\* Put is called, with a version that the key has or had.
Put(c, v) ==
    /\ pc[c] = "new"
    /\ pc' = [pc EXCEPT ![c] = "call"]
    /\ args' = [args EXCEPT ![c] = v]
    /\ order' = [order EXCEPT ![c] = ckServers[c]]
    /\ UNCHANGED <<serviceVars, ckServers, idx, firstAttempt, sent, err>>

Call(c) ==
    /\ pc[c] = "call"
    /\ sent[c] < MaxCalls
    /\ pc' = [pc EXCEPT ![c] = "wait"]
    /\ sent' = [sent EXCEPT ![c] = @ + 1]
    /\ calls' = calls \cup {<<c, sent[c] + 1>>}
    /\ UNCHANGED <<version, answers, performed, ckServers, args, order, idx,
                   firstAttempt, err>>

\* Mutant: the server takes any version that the key has or had.
VersionReached(expected) == expected <= version

\* A new key has no version, and takes 0.
VersionFits(expected) == expected = version

\* Mutant: the same call is performed again and again.
DoOpAgain(c, k) ==
    LET fits == VersionFits(args[c])
    IN  /\ <<c, k>> \in calls
        /\ version' = IF fits THEN version + 1 ELSE version
        /\ performed' = [performed EXCEPT ![c] = IF fits THEN @ + 1 ELSE @]
        /\ answers' = answers
               \cup {<<c, k, IF fits THEN "OK" ELSE "ErrVersion">>}
        /\ UNCHANGED <<calls, ckServers, putVars>>

\* DoOp performs the k-th call of the Put of clerk c.
DoOp(c, k) ==
    LET fits == VersionFits(args[c])
    IN  /\ <<c, k>> \in calls
        /\ calls' = calls \ {<<c, k>>}
        /\ version' = IF fits THEN version + 1 ELSE version
        /\ performed' = [performed EXCEPT ![c] = IF fits THEN @ + 1 ELSE @]
        /\ answers' = answers
               \cup {<<c, k, IF fits THEN "OK" ELSE "ErrVersion">>}
        /\ UNCHANGED <<ckServers, putVars>>

\* Mutant: the server that answered is added to the order, and not moved.
FrontTwice(o, k) == <<o[k]>> \o o

moveServerToFront(o, k) == <<o[k]>> \o RemoveAt(o, k)

moveServerToBack(o, k) == Append(RemoveAt(o, k), o[k])

Return(c, e) ==
    /\ pc' = [pc EXCEPT ![c] = "done"]
    /\ err' = [err EXCEPT ![c] = e]
    /\ UNCHANGED <<serviceVars, args, order, idx, firstAttempt, sent>>

\* The answer of the call arrives in time.
Answered(c, e) ==
    /\ pc[c] = "wait"
    /\ <<c, sent[c], e>> \in answers
    /\ ckServers' = [ckServers EXCEPT
                         ![c] = moveServerToFront(order[c], idx[c])]
    /\ Return(c, IF e = "ErrVersion" /\ ~ firstAttempt[c] THEN "ErrMaybe"
                 ELSE e)

(* The call fails, or the server answers ErrWrongLeader. The next server is  *)
(* tried; after the last one the outer loop copies the order again, and the  *)
(* first attempt is over.                                                    *)
TryNext(c) ==
    LET last == idx[c] = Len(order[c])
    IN  /\ pc[c] = "wait"
        /\ pc' = [pc EXCEPT ![c] = "call"]
        /\ idx' = [idx EXCEPT ![c] = IF last THEN 1 ELSE @ + 1]
        /\ order' = [order EXCEPT ![c] = IF last THEN ckServers[c] ELSE @]
        /\ firstAttempt' = [firstAttempt EXCEPT ![c] = @ /\ ~ last]
        /\ UNCHANGED <<serviceVars, ckServers, args, sent, err>>

\* No answer for ten seconds.
Timeout(c) ==
    /\ pc[c] = "wait"
    /\ ckServers' = [ckServers EXCEPT ![c] = moveServerToBack(order[c], idx[c])]
    /\ Return(c, "ErrMaybe")

-----------------------------------------------------------------------------
Next ==
    \E c \in Client :
        \/ \E k \in 1 .. sent[c] : DoOp(c, k)
        \/ \E v \in 0 .. version : Put(c, v)
        \/ Call(c)
        \/ \E e \in {"OK", "ErrVersion"} : Answered(c, e)
        \/ TryNext(c)
        \/ Timeout(c)

Spec == Init /\ [][Next]_vars

-----------------------------------------------------------------------------
\* Every variable has its type; the order of a clerk lists every server once.
TypeOK ==
    /\ version \in Nat
    /\ \A k \in calls : k[1] \in Client /\ k[2] \in 1 .. sent[k[1]]
    /\ \A a \in answers : a[1] \in Client /\ a[2] \in 1 .. sent[a[1]]
    /\ performed \in [Client -> Nat]
    /\ ckServers \in [Client -> Orders]
    /\ pc \in [Client -> {"new", "call", "wait", "done"}]
    /\ args \in [Client -> 0 .. version]
    /\ order \in [Client -> Orders]
    /\ idx \in [Client -> 1 .. Cardinality(Server)]
    /\ firstAttempt \in [Client -> BOOLEAN]
    /\ sent \in [Client -> 0 .. MaxCalls]
    /\ err \in [Client -> {"none", "OK", "ErrVersion", "ErrMaybe"}]

(* A Put changes the key at most once, however often it was sent and         *)
(* whenever its calls are performed.                                         *)
AtMostOnce == \A c \in Client : performed[c] <= 1

(* After OK the key was changed, once and by this Put. A Put that made a     *)
(* single call and returns ErrVersion has changed nothing, and never will.   *)
AnswersHonest ==
    \A c \in Client :
        /\ err[c] = "OK" => performed[c] = 1
        /\ err[c] = "ErrVersion" /\ sent[c] = 1 => performed[c] = 0

(* The comment of Put: after an ErrVersion on a resend "Put must return      *)
(* ErrMaybe to the application, since its earlier RPC might have been        *)
(* processed by the server successfully". So ErrVersion means that nothing   *)
(* was changed.                                                              *)
ErrVersionHonest ==
    \A c \in Client : err[c] = "ErrVersion" => performed[c] = 0

=============================================================================
