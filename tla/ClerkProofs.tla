----------------------------- MODULE ClerkProofs -----------------------------
(*****************************************************************************)
(* A Put changes the key at most once, and its answers are honest, for any   *)
(* number of clerks and servers and any number of calls.                     *)
(*****************************************************************************)
EXTENDS Clerk, FiniteSetTheorems, SequenceTheorems, TLAPS

\* What the argument needs to know of the types.
Shapes ==
    /\ version \in Nat
    /\ performed \in [Client -> Nat]
    /\ args \in [Client -> Nat]
    /\ sent \in [Client -> Nat]
    /\ pc \in [Client -> {"new", "call", "wait", "done"}]
    /\ err \in [Client -> {"none", "OK", "ErrVersion", "ErrMaybe"}]

\* A Put that has not begun has made no calls and changed nothing.
Fresh ==
    \A c \in Client :
        pc[c] = "new" => performed[c] = 0 /\ sent[c] = 0 /\ err[c] = "none"

(* A Put that has changed the key has left its version behind: whatever call *)
(* is performed next, it does not fit again.                                 *)
Spent ==
    \A c \in Client : /\ performed[c] <= 1
                      /\ performed[c] = 1 => version > args[c]

\* Before its first call is performed, a Put has changed nothing.
Pending ==
    \A c \in Client : sent[c] = 0 \/ (sent[c] = 1 /\ <<c, 1>> \in calls)
                          => performed[c] = 0

\* Nothing was changed, and the only call made can change nothing any more.
Missed(c) == performed[c] = 0 /\ <<c, 1>> \notin calls

(* OK is the answer of a call that changed the key. As long as there was     *)
(* only one call, and its answer was ErrVersion, no call is left that could. *)
Told ==
    \A c \in Client : \A k \in Nat :
        /\ <<c, k, "OK">> \in answers => performed[c] = 1 /\ k \in 1 .. sent[c]
        /\ <<c, k, "ErrVersion">> \in answers =>
              k \in 1 .. sent[c] /\ (sent[c] = 1 => Missed(c))

\* Put returns what it was told, and makes no call after that.
Honest ==
    \A c \in Client :
        /\ err[c] = "OK" => performed[c] = 1
        /\ err[c] = "ErrVersion" /\ sent[c] = 1 => Missed(c)
        /\ err[c] # "none" => pc[c] = "done"

Inv == Shapes /\ Fresh /\ Spent /\ Pending /\ Told /\ Honest

\* At the start no Put has begun.
LEMMA InitInv == ASSUME Init PROVE Inv
<1>1. /\ version = 0 /\ calls = {} /\ answers = {}
      /\ performed = [c \in Client |-> 0] /\ pc = [c \in Client |-> "new"]
      /\ args = [c \in Client |-> 0] /\ sent = [c \in Client |-> 0]
      /\ err = [c \in Client |-> "none"]
    BY Zenon DEF Init
<1>2. Shapes
    BY <1>1, Zenon DEF Shapes
<1>3. Fresh
    BY <1>1, Zenon DEF Fresh
<1>4. Spent
    BY <1>1 DEF Spent
<1>5. Told
    BY <1>1, Zenon DEF Told
<1>6. Honest
    BY <1>1, Zenon DEF Honest
<1>7. Pending
    BY <1>1, Zenon DEF Pending
<1> QED BY <1>2, <1>3, <1>4, <1>5, <1>6, <1>7, Zenon DEF Inv

\* Put starts with no call made.
LEMMA PutInv ==
    ASSUME Inv, NEW c \in Client, NEW v \in 0 .. version, Put(c, v) PROVE Inv'
<1>1. /\ pc[c] = "new"
      /\ pc' = [pc EXCEPT ![c] = "call"] /\ args' = [args EXCEPT ![c] = v]
      /\ version' = version /\ calls' = calls /\ answers' = answers
      /\ performed' = performed /\ sent' = sent /\ err' = err
    BY Zenon DEF Put, serviceVars
<1>2. performed[c] = 0 /\ err[c] = "none" /\ v \in Nat
    BY <1>1 DEF Inv, Fresh, Shapes
<1>3. Shapes'
    BY <1>1, <1>2, Zenon DEF Inv, Shapes
<1>4. Fresh'
    BY <1>1, Zenon DEF Inv, Shapes, Fresh
<1>5. Told'
    BY <1>1, Zenon DEF Inv, Told, Missed
<1>6. Spent'
    BY <1>1, <1>2 DEF Inv, Shapes, Spent
<1>7. Honest'
    BY <1>1, <1>2, Zenon DEF Inv, Shapes, Honest, Missed
<1>8. Pending'
    BY <1>1, Zenon DEF Inv, Pending
<1> QED BY <1>3, <1>4, <1>5, <1>6, <1>7, <1>8, Zenon DEF Inv

\* A new call is the first one, or it ends the time when there was only one.
LEMMA CallInv == ASSUME Inv, NEW c \in Client, Call(c) PROVE Inv'
<1>1. /\ pc[c] = "call"
      /\ pc' = [pc EXCEPT ![c] = "wait"]
      /\ sent' = [sent EXCEPT ![c] = sent[c] + 1]
      /\ calls' = calls \cup {<<c, sent[c] + 1>>}
      /\ version' = version /\ answers' = answers /\ performed' = performed
      /\ args' = args /\ err' = err
    BY Zenon DEF Call
<1>2. /\ sent[c] \in Nat /\ err[c] = "none"
      /\ sent'[c] = sent[c] + 1
      /\ \A d \in Client \ {c} : /\ sent'[d] = sent[d] /\ pc'[d] = pc[d]
                                 /\ Missed(d) => Missed(d)'
    BY <1>1, Zenon DEF Inv, Shapes, Honest, Missed
<1>3. Shapes'
    BY <1>1, <1>2 DEF Inv, Shapes
<1>4. Fresh'
    BY <1>1, Zenon DEF Inv, Shapes, Fresh
<1>5. Spent'
    BY <1>1, Zenon DEF Inv, Spent
<1>6. Told'
    <2> SUFFICES ASSUME NEW d \in Client, NEW k \in Nat
                 PROVE  /\ <<d, k, "OK">> \in answers =>
                              performed[d] = 1 /\ k \in 1 .. sent'[d]
                        /\ <<d, k, "ErrVersion">> \in answers =>
                              k \in 1 .. sent'[d] /\ (sent'[d] = 1 => Missed(d)')
        BY <1>1, Zenon DEF Told
    <2>1. CASE d = c
        BY <2>1, <1>2 DEF Inv, Told
    <2>2. CASE d # c
        BY <2>2, <1>2, Zenon DEF Inv, Told
    <2> QED BY <2>1, <2>2, Zenon
<1>7. Honest'
    <2> SUFFICES ASSUME NEW d \in Client
                 PROVE  /\ err[d] = "OK" => performed[d] = 1
                        /\ err[d] = "ErrVersion" /\ sent'[d] = 1 => Missed(d)'
                        /\ err[d] # "none" => pc'[d] = "done"
        BY <1>1, Zenon DEF Honest
    <2>1. CASE d = c
        BY <2>1, <1>2, Zenon
    <2>2. CASE d # c
        BY <2>2, <1>2, Zenon DEF Inv, Honest
    <2> QED BY <2>1, <2>2, Zenon
<1>8. Pending'
    <2> SUFFICES ASSUME NEW d \in Client,
                        sent'[d] = 0 \/ (sent'[d] = 1 /\ <<d, 1>> \in calls')
                 PROVE  performed[d] = 0
        BY <1>1, Zenon DEF Pending
    <2>1. CASE d = c
        BY <2>1, <1>2 DEF Inv, Pending
    <2>2. CASE d # c
        BY <2>2, <1>1, <1>2, Zenon DEF Inv, Pending
    <2> QED BY <2>1, <2>2, Zenon
<1> QED BY <1>3, <1>4, <1>5, <1>6, <1>7, <1>8, Zenon DEF Inv

\* A call that fits changes the key, and then no call of that Put fits again.
LEMMA DoOpInv ==
    ASSUME Inv, NEW c \in Client, NEW k \in 1 .. sent[c], DoOp(c, k) PROVE Inv'
<1> DEFINE fits == args[c] = version
           answer == IF fits THEN "OK" ELSE "ErrVersion"
<1>1. /\ <<c, k>> \in calls /\ calls' = calls \ {<<c, k>>}
      /\ version' = (IF fits THEN version + 1 ELSE version)
      /\ performed' = [performed EXCEPT ![c] = IF fits THEN performed[c] + 1
                                               ELSE performed[c]]
      /\ answers' = answers \cup {<<c, k, answer>>}
      /\ pc' = pc /\ args' = args /\ sent' = sent /\ err' = err
    BY Zenon DEF DoOp, VersionFits, putVars
<1>2. /\ version \in Nat /\ performed[c] \in Nat /\ args[c] \in Nat
      /\ sent[c] \in Nat /\ k \in Nat /\ k >= 1 /\ k <= sent[c]
    BY DEF Inv, Shapes
<1>3. /\ fits => performed[c] = 0 /\ performed'[c] = 1
      /\ ~ fits => performed'[c] = performed[c]
      /\ \A d \in Client \ {c} : performed'[d] = performed[d]
    BY <1>1, <1>2 DEF Inv, Shapes, Spent
<1>4. /\ version' \in Nat /\ version' >= version
      /\ fits => version' > args[c]
    BY <1>1, <1>2
<1>5. \A d \in Client \ {c} : Missed(d) => Missed(d)'
    BY <1>1, <1>3, Zenon DEF Missed
<1>6. sent[c] = 1 => /\ k = 1 /\ ~ Missed(c)
                     /\ ~ fits /\ performed[c] = 0 => Missed(c)'
    BY <1>1, <1>2, <1>3 DEF Missed
<1>7. Shapes'
    BY <1>1, <1>2, <1>4 DEF Inv, Shapes
<1>8. Fresh'
    <2> SUFFICES ASSUME NEW d \in Client, pc[d] = "new"
                 PROVE  performed'[d] = 0 /\ sent[d] = 0 /\ err[d] = "none"
        BY <1>1, Zenon DEF Fresh
    <2> QED BY <1>2, <1>3 DEF Inv, Fresh
<1>9. Spent'
    <2> SUFFICES ASSUME NEW d \in Client
                 PROVE  /\ performed'[d] <= 1
                        /\ performed'[d] = 1 => version' > args[d]
        BY <1>1, Zenon DEF Spent
    <2>1. /\ performed[d] <= 1 /\ args[d] \in Nat /\ performed[d] \in Nat
          /\ performed[d] = 1 => version > args[d]
        BY Zenon DEF Inv, Shapes, Spent
    <2>2. CASE d = c /\ fits
        BY <2>2, <1>3, <1>4
    <2>3. CASE d # c \/ ~ fits
        BY <2>1, <2>3, <1>2, <1>3, <1>4
    <2> QED BY <2>2, <2>3, Zenon
<1>10. Told'
    <2> SUFFICES ASSUME NEW d \in Client, NEW n \in Nat
                 PROVE  /\ <<d, n, "OK">> \in answers' =>
                              performed'[d] = 1 /\ n \in 1 .. sent[d]
                        /\ <<d, n, "ErrVersion">> \in answers' =>
                              n \in 1 .. sent[d] /\ (sent[d] = 1 => Missed(d)')
        BY <1>1, Zenon DEF Told
    <2>1. /\ <<d, n, "OK">> \in answers => performed[d] = 1 /\ n \in 1 .. sent[d]
          /\ <<d, n, "ErrVersion">> \in answers =>
                n \in 1 .. sent[d] /\ (sent[d] = 1 => Missed(d))
        BY Zenon DEF Inv, Told
    <2>2. CASE d # c
        BY <2>1, <2>2, <1>1, <1>3, <1>5, Zenon
    <2>3. CASE d = c
        <3>1. /\ <<c, n, "OK">> \in answers' =>
                    <<c, n, "OK">> \in answers \/ (n = k /\ fits)
              /\ <<c, n, "ErrVersion">> \in answers' =>
                    <<c, n, "ErrVersion">> \in answers \/ (n = k /\ ~ fits)
            BY <1>1, Zenon
        <3>2. performed[c] = 1 => performed'[c] = 1
            BY <1>3, Zenon
        <3>3. sent[c] = 1 /\ ~ fits => Missed(c)'
            BY <1>1, <1>6, Zenon DEF Inv, Pending
        <3> QED BY <2>1, <2>3, <3>1, <3>2, <3>3, <1>2, <1>3, <1>6, Zenon
    <2> QED BY <2>2, <2>3, Zenon
<1>11. Honest'
    <2> SUFFICES ASSUME NEW d \in Client
                 PROVE  /\ err[d] = "OK" => performed'[d] = 1
                        /\ err[d] = "ErrVersion" /\ sent[d] = 1 => Missed(d)'
                        /\ err[d] # "none" => pc[d] = "done"
        BY <1>1, Zenon DEF Honest
    <2>1. /\ err[d] = "OK" => performed[d] = 1
          /\ err[d] = "ErrVersion" /\ sent[d] = 1 => Missed(d)
          /\ err[d] # "none" => pc[d] = "done"
        BY Zenon DEF Inv, Honest
    <2> HIDE DEF fits
    <2>2. CASE d = c
        BY <2>1, <2>2, <1>3, <1>6, Zenon
    <2>3. CASE d # c
        BY <2>1, <2>3, <1>3, <1>5, Zenon
    <2> QED BY <2>2, <2>3, Zenon
<1>12. Pending'
    <2> SUFFICES ASSUME NEW d \in Client,
                        sent[d] = 0 \/ (sent[d] = 1 /\ <<d, 1>> \in calls')
                 PROVE  performed'[d] = 0
        BY <1>1, Zenon DEF Pending
    <2>1. d # c
        BY <1>1, <1>2
    <2> QED BY <2>1, <1>1, <1>3, Zenon DEF Inv, Pending
<1> QED BY <1>7, <1>8, <1>9, <1>10, <1>11, <1>12, Zenon DEF Inv

(* The steps of the clerk itself touch neither the service nor the number of *)
(* calls, and return at most what the service answered.                      *)
LEMMA ClerkStepInv ==
    ASSUME Inv, NEW c \in Client, NEW p \in {"call", "done"}, NEW e,
           pc[c] = "wait", pc' = [pc EXCEPT ![c] = p],
           err' = [err EXCEPT ![c] = e],
           e \in {"OK", "ErrVersion"} => <<c, sent[c], e>> \in answers,
           e \in {"none", "OK", "ErrVersion", "ErrMaybe"},
           p = "call" => e = "none",
           UNCHANGED <<version, calls, answers, performed, args, sent>>
    PROVE  Inv'
<1>1. /\ version' = version /\ calls' = calls /\ answers' = answers
      /\ performed' = performed /\ args' = args /\ sent' = sent
    BY Zenon
<1>2. Shapes'
    BY <1>1, Zenon DEF Inv, Shapes
<1>3. Fresh'
    BY <1>1, Zenon DEF Inv, Shapes, Fresh
<1>4. Spent' /\ Pending'
    BY <1>1, Zenon DEF Inv, Spent, Pending
<1>5. Told'
    BY <1>1, Zenon DEF Inv, Told, Missed
<1>6. /\ e = "OK" => performed[c] = 1
      /\ e = "ErrVersion" /\ sent[c] = 1 => Missed(c)
    BY Zenon DEF Inv, Shapes, Told
<1>7. Honest'
    <2> SUFFICES ASSUME NEW d \in Client
                 PROVE  /\ err'[d] = "OK" => performed[d] = 1
                        /\ err'[d] = "ErrVersion" /\ sent[d] = 1 => Missed(d)
                        /\ err'[d] # "none" => pc'[d] = "done"
        BY <1>1, Zenon DEF Honest, Missed
    <2>1. CASE d = c
        BY <2>1, <1>6, Zenon DEF Inv, Shapes
    <2>2. CASE d # c
        BY <2>2, Zenon DEF Inv, Shapes, Honest
    <2> QED BY <2>1, <2>2, Zenon
<1> QED BY <1>2, <1>3, <1>4, <1>5, <1>7, Zenon DEF Inv

\* Every step of the system keeps the invariant.
LEMMA NextInv == ASSUME Inv, [Next]_vars PROVE Inv'
<1>1. CASE UNCHANGED vars
    BY <1>1, Zenon
       DEF vars, serviceVars, putVars, Inv, Shapes, Fresh, Spent, Pending,
                Told, Honest, Missed
<1>2. ASSUME NEW c \in Client, NEW k \in 1 .. sent[c], DoOp(c, k) PROVE Inv'
    BY <1>2, DoOpInv, Zenon
<1>3. ASSUME NEW c \in Client, NEW v \in 0 .. version, Put(c, v) PROVE Inv'
    BY <1>3, PutInv, Zenon
<1>4. ASSUME NEW c \in Client, Call(c) PROVE Inv'
    BY <1>4, CallInv, Zenon
<1>5. ASSUME NEW c \in Client, NEW e \in {"OK", "ErrVersion"}, Answered(c, e)
      PROVE  Inv'
    <2> DEFINE told == IF e = "ErrVersion" /\ ~ firstAttempt[c] THEN "ErrMaybe"
                       ELSE e
    <2>1. /\ pc[c] = "wait" /\ pc' = [pc EXCEPT ![c] = "done"]
          /\ err' = [err EXCEPT ![c] = told]
          /\ UNCHANGED <<version, calls, answers, performed, args, sent>>
          /\ <<c, sent[c], e>> \in answers
        BY <1>5, Zenon DEF Answered, Return, serviceVars
    <2>2. /\ told \in {"none", "OK", "ErrVersion", "ErrMaybe"}
          /\ told \in {"OK", "ErrVersion"} => <<c, sent[c], told>> \in answers
        BY <2>1, Zenon
    <2> HIDE DEF told
    <2> QED BY <2>1, <2>2, ClerkStepInv, Zenon
<1>6. ASSUME NEW c \in Client, TryNext(c) PROVE Inv'
    <2>1. /\ pc[c] = "wait" /\ pc' = [pc EXCEPT ![c] = "call"] /\ err' = err
          /\ UNCHANGED <<version, calls, answers, performed, args, sent>>
        BY <1>6, Zenon DEF TryNext, serviceVars
    <2>2. err[c] = "none" /\ err' = [err EXCEPT ![c] = "none"]
        BY <2>1, Zenon DEF Inv, Shapes, Honest
    <2> QED BY <2>1, <2>2, ClerkStepInv, Zenon
<1>7. ASSUME NEW c \in Client, Timeout(c) PROVE Inv'
    <2>1. /\ pc[c] = "wait" /\ pc' = [pc EXCEPT ![c] = "done"]
          /\ err' = [err EXCEPT ![c] = "ErrMaybe"]
          /\ UNCHANGED <<version, calls, answers, performed, args, sent>>
        BY <1>7, Zenon DEF Timeout, Return, serviceVars
    <2> QED BY <2>1, ClerkStepInv, Zenon
<1> QED BY <1>1, <1>2, <1>3, <1>4, <1>5, <1>6, <1>7, Zenon DEF Next

(* A Put changes the key at most once, however often Clerk.Put resends it    *)
(* and whenever the servers perform its calls.                               *)
THEOREM PutAtMostOnce == Spec => []AtMostOnce
<1>1. Init => Inv
    BY InitInv, Zenon
<1>2. Inv /\ [Next]_vars => Inv'
    BY NextInv, Zenon
<1>3. Inv => AtMostOnce
    BY Zenon DEF Inv, Spent, AtMostOnce
<1> QED BY <1>1, <1>2, <1>3, PTL DEF Spec

(* The answer OK of Clerk.Put means that the Put was performed, and          *)
(* ErrVersion after a single call that it was not and never will be.         *)
THEOREM PutAnswersHonest == Spec => []AnswersHonest
<1>1. Init => Inv
    BY InitInv, Zenon
<1>2. Inv /\ [Next]_vars => Inv'
    BY NextInv, Zenon
<1>3. Inv => AnswersHonest
    BY Zenon DEF Inv, Honest, Missed, AnswersHonest
<1> QED BY <1>1, <1>2, <1>3, PTL DEF Spec

-----------------------------------------------------------------------------
(*****************************************************************************)
(* The order in which a clerk tries the servers stays a permutation of them. *)
(*****************************************************************************)

\* There is a server, and as many positions in an order as servers.
LEMMA SomeServers == Cardinality(Server) \in Nat /\ Cardinality(Server) >= 1
<1>1. IsFiniteSet(Server) /\ Server # {}
  BY ClerkAssumption, Zenon
<1>2. Cardinality(Server) \in Nat
  BY <1>1, FS_CardinalityType, Zenon
<1>3. Cardinality(Server) # 0
  BY <1>1, FS_EmptySet, Zenon
<1> QED  BY <1>2, <1>3

LEMMA OrderIsSequence ==
    ASSUME NEW o \in Orders
    PROVE  /\ o \in Seq(Server) /\ Len(o) = Cardinality(Server)
           /\ \A a, b \in 1 .. Cardinality(Server) : o[a] = o[b] => a = b
<1>1. o \in [1 .. Cardinality(Server) -> Server] /\ IsInjective(o)
  BY Zenon DEF Orders
<1>2. Cardinality(Server) \in Nat
  BY SomeServers, Zenon
<1>3. o \in Seq(Server) /\ Len(o) = Cardinality(Server)
  BY <1>1, <1>2
<1> QED  BY <1>1, <1>3, Zenon DEF IsInjective

LEMMA SequenceIsOrder ==
    ASSUME NEW o \in Seq(Server), Len(o) = Cardinality(Server),
           \A a, b \in 1 .. Len(o) : o[a] = o[b] => a = b
    PROVE  o \in Orders
BY SomeServers DEF Orders, IsInjective

\* What RemoveAt leaves: the elements before k, then those behind it.
LEMMA Removed ==
    ASSUME NEW o \in Seq(Server), NEW k \in 1 .. Len(o)
    PROVE  /\ RemoveAt(o, k) \in Seq(Server)
           /\ Len(RemoveAt(o, k)) = Len(o) - 1
           /\ \A m \in 1 .. (Len(o) - 1) :
                 RemoveAt(o, k)[m] = o[IF m < k THEN m ELSE m + 1]
<1> DEFINE before == SubSeq(o, 1, k - 1)
           behind == SubSeq(o, k + 1, Len(o))
<1>1. /\ before \in Seq(Server) /\ Len(before) = k - 1
      /\ \A m \in 1 .. (k - 1) : before[m] = o[m]
  OBVIOUS
<1>2. /\ behind \in Seq(Server) /\ Len(behind) = Len(o) - k
      /\ \A m \in 1 .. (Len(o) - k) : behind[m] = o[k + m]
  OBVIOUS
<1>3. RemoveAt(o, k) = before \o behind
  BY Zenon DEF RemoveAt
<1> HIDE DEF before, behind
<1>4. /\ before \o behind \in Seq(Server)
      /\ Len(before \o behind) = Len(o) - 1
      /\ \A m \in 1 .. (Len(o) - 1) :
            (before \o behind)[m] = IF m <= k - 1 THEN before[m]
                                    ELSE behind[m - (k - 1)]
  <2>1. /\ before \o behind \in Seq(Server)
        /\ Len(before \o behind) = Len(before) + Len(behind)
        /\ \A m \in 1 .. (Len(before) + Len(behind)) :
              (before \o behind)[m] = IF m <= Len(before) THEN before[m]
                                      ELSE behind[m - Len(before)]
    BY <1>1, <1>2, ConcatProperties, Zenon
  <2>2. Len(before) + Len(behind) = Len(o) - 1
    BY <1>1, <1>2
  <2> QED  BY <1>1, <2>1, <2>2, Zenon
<1>5. ASSUME NEW m \in 1 .. (Len(o) - 1)
      PROVE  (before \o behind)[m] = o[IF m < k THEN m ELSE m + 1]
  <2>1. CASE m < k
    <3>1. m <= k - 1 /\ m \in 1 .. (k - 1)
      BY <2>1
    <3> QED  BY <1>1, <1>4, <2>1, <3>1, Zenon
  <2>2. CASE ~ (m < k)
    <3>1. /\ ~ (m <= k - 1) /\ m - (k - 1) \in 1 .. (Len(o) - k)
          /\ k + (m - (k - 1)) = m + 1
      BY <2>2
    <3> QED  BY <1>2, <1>4, <2>2, <3>1, Zenon
  <2> QED  BY <2>1, <2>2, Zenon
<1> QED  BY <1>3, <1>4, <1>5, Zenon

LEMMA MovedToFront ==
    ASSUME NEW o \in Orders, NEW k \in 1 .. Cardinality(Server)
    PROVE  moveServerToFront(o, k) \in Orders
<1> DEFINE n == Cardinality(Server)
           r == RemoveAt(o, k)
           f == <<o[k]>> \o r
<1>1. /\ o \in Seq(Server) /\ Len(o) = n /\ n \in Nat
      /\ \A a, b \in 1 .. n : o[a] = o[b] => a = b
  BY OrderIsSequence, SomeServers, Zenon
<1>2. /\ r \in Seq(Server) /\ Len(r) = n - 1
      /\ \A m \in 1 .. (n - 1) : r[m] = o[IF m < k THEN m ELSE m + 1]
  BY <1>1, Removed
<1> HIDE DEF n, r
<1>3. o[k] \in Server
  BY <1>1 DEF n
<1>4. /\ f \in Seq(Server) /\ Len(f) = n
      /\ f[1] = o[k] /\ \A m \in 2 .. n : f[m] = r[m - 1]
  BY <1>1, <1>2, <1>3
<1> DEFINE at(m) == IF m = 1 THEN k ELSE IF m - 1 < k THEN m - 1 ELSE m
<1>5. ASSUME NEW m \in 1 .. n PROVE f[m] = o[at(m)] /\ at(m) \in 1 .. n
  <2>1. CASE m = 1
    BY <1>4, <2>1, Zenon DEF n
  <2>2. CASE m # 1
    <3>1. m \in 2 .. n /\ m - 1 \in 1 .. (n - 1) /\ (m - 1) + 1 = m
      BY <1>1, <2>2
    <3> QED  BY <1>2, <1>4, <2>2, <3>1
  <2> QED  BY <2>1, <2>2, Zenon
<1>6. \A a, b \in 1 .. n : at(a) = at(b) => a = b
  BY <1>1 DEF n
<1> HIDE DEF f, at
<1>7. \A a, b \in 1 .. n : f[a] = f[b] => a = b
  BY <1>1, <1>5, <1>6
<1>8. f \in Orders
  BY <1>4, <1>7, SequenceIsOrder, Zenon DEF n
<1> QED  BY <1>8, Zenon DEF moveServerToFront, f, r

LEMMA MovedToBack ==
    ASSUME NEW o \in Orders, NEW k \in 1 .. Cardinality(Server)
    PROVE  moveServerToBack(o, k) \in Orders
<1> DEFINE n == Cardinality(Server)
           r == RemoveAt(o, k)
           f == Append(r, o[k])
<1>1. /\ o \in Seq(Server) /\ Len(o) = n /\ n \in Nat
      /\ \A a, b \in 1 .. n : o[a] = o[b] => a = b
  BY OrderIsSequence, SomeServers, Zenon
<1>2. /\ r \in Seq(Server) /\ Len(r) = n - 1
      /\ \A m \in 1 .. (n - 1) : r[m] = o[IF m < k THEN m ELSE m + 1]
  BY <1>1, Removed
<1> HIDE DEF n, r
<1>3. o[k] \in Server
  BY <1>1 DEF n
<1>4. /\ f \in Seq(Server) /\ Len(f) = n
      /\ f[n] = o[k] /\ \A m \in 1 .. (n - 1) : f[m] = r[m]
  BY <1>1, <1>2, <1>3
<1> DEFINE at(m) == IF m = n THEN k ELSE IF m < k THEN m ELSE m + 1
<1>5. ASSUME NEW m \in 1 .. n PROVE f[m] = o[at(m)] /\ at(m) \in 1 .. n
  <2>1. CASE m = n
    BY <1>4, <2>1, Zenon DEF n
  <2>2. CASE m # n
    <3>1. m \in 1 .. (n - 1)
      BY <1>1, <2>2
    <3> QED  BY <1>1, <1>2, <1>4, <2>2, <3>1
  <2> QED  BY <2>1, <2>2, Zenon
<1>6. \A a, b \in 1 .. n : at(a) = at(b) => a = b
  BY <1>1 DEF n
<1> HIDE DEF f, at
<1>7. \A a, b \in 1 .. n : f[a] = f[b] => a = b
  BY <1>1, <1>5, <1>6
<1>8. f \in Orders
  BY <1>4, <1>7, SequenceIsOrder, Zenon DEF n
<1> QED  BY <1>8, Zenon DEF moveServerToBack, f, r

-----------------------------------------------------------------------------
LEMMA InitTypes == Init => TypeOK
<1> SUFFICES ASSUME Init PROVE TypeOK
  BY Zenon
<1> USE DEF Init
<1>1. 1 \in 1 .. Cardinality(Server) /\ 0 \in 0 .. MaxCalls
  BY SomeServers, ClerkAssumption
<1> QED  BY <1>1 DEF TypeOK

\* What is known of the calls and the answers stays true when calls are made.
LEMMA CallsKnown ==
    ASSUME TypeOK, sent' \in [Client -> 0 .. MaxCalls],
           \A c \in Client : sent[c] <= sent'[c]
    PROVE  /\ \A k \in calls : k[1] \in Client /\ k[2] \in 1 .. sent'[k[1]]
           /\ \A a \in answers : a[1] \in Client /\ a[2] \in 1 .. sent'[a[1]]
<1>1. ASSUME NEW c \in Client, NEW k \in 1 .. sent[c] PROVE k \in 1 .. sent'[c]
  BY ClerkAssumption DEF TypeOK
<1> QED  BY <1>1, Zenon DEF TypeOK

LEMMA NextTypes == TypeOK /\ [Next]_vars => TypeOK'
<1> SUFFICES ASSUME TypeOK, [Next]_vars PROVE TypeOK'
  BY Zenon
<1> USE DEF serviceVars, putVars
<1>1. ASSUME NEW c \in Client, NEW k \in 1 .. sent[c], DoOp(c, k)
      PROVE  TypeOK'
  <2> USE <1>1 DEF DoOp, VersionFits
  <2>1. /\ version' \in Nat /\ version <= version' /\ version \in Nat
        /\ performed' \in [Client -> Nat]
    BY DEF TypeOK
  <2>2. args' \in [Client -> 0 .. version']
    BY <2>1 DEF TypeOK
  <2>3. /\ \A j \in calls' : j[1] \in Client /\ j[2] \in 1 .. sent'[j[1]]
        /\ \A a \in answers' : a[1] \in Client /\ a[2] \in 1 .. sent'[a[1]]
    BY DEF TypeOK
  <2> QED  BY <2>1, <2>2, <2>3, Zenon DEF TypeOK
<1>2. ASSUME NEW c \in Client, NEW v \in 0 .. version, Put(c, v)
      PROVE  TypeOK'
  <2> USE <1>2 DEF Put
  <2>1. /\ pc' \in [Client -> {"new", "call", "wait", "done"}]
        /\ args' \in [Client -> 0 .. version']
        /\ order' \in [Client -> Orders]
    BY Zenon DEF TypeOK
  <2> QED  BY <2>1, Zenon DEF TypeOK
<1>3. ASSUME NEW c \in Client, Call(c)
      PROVE  TypeOK'
  <2> USE <1>3 DEF Call
  <2>1. sent[c] + 1 \in 0 .. MaxCalls /\ sent[c] + 1 \in 1 .. (sent[c] + 1)
    BY ClerkAssumption DEF TypeOK
  <2>2. /\ sent' \in [Client -> 0 .. MaxCalls] /\ sent'[c] = sent[c] + 1
        /\ \A d \in Client : sent[d] <= sent'[d]
    BY <2>1, ClerkAssumption DEF TypeOK
  <2>3. pc' \in [Client -> {"new", "call", "wait", "done"}]
    BY Zenon DEF TypeOK
  <2>4. /\ \A k \in calls : k[1] \in Client /\ k[2] \in 1 .. sent'[k[1]]
        /\ \A a \in answers : a[1] \in Client /\ a[2] \in 1 .. sent'[a[1]]
    BY <2>2, CallsKnown, Zenon
  <2>5. \A k \in calls' : k[1] \in Client /\ k[2] \in 1 .. sent'[k[1]]
    BY <2>1, <2>2, <2>4
  <2> QED  BY <2>2, <2>3, <2>4, <2>5, Zenon DEF TypeOK
<1>4. ASSUME NEW c \in Client, NEW e \in {"OK", "ErrVersion"}, Answered(c, e)
      PROVE  TypeOK'
  <2> USE <1>4 DEF Answered, Return
  <2>1. moveServerToFront(order[c], idx[c]) \in Orders
    BY MovedToFront, Zenon DEF TypeOK
  <2>2. ckServers' \in [Client -> Orders]
    BY <2>1, Zenon DEF TypeOK
  <2>3. /\ pc' \in [Client -> {"new", "call", "wait", "done"}]
        /\ err' \in [Client -> {"none", "OK", "ErrVersion", "ErrMaybe"}]
    BY Zenon DEF TypeOK
  <2> QED  BY <2>2, <2>3, Zenon DEF TypeOK
<1>5. ASSUME NEW c \in Client, TryNext(c)
      PROVE  TypeOK'
  <2> USE <1>5 DEF TryNext
  <2>1. /\ idx[c] \in 1 .. Cardinality(Server)
        /\ order[c] \in Orders
    BY Zenon DEF TypeOK
  <2>2. Len(order[c]) = Cardinality(Server)
    BY <2>1, OrderIsSequence, Zenon
  <2>3. idx' \in [Client -> 1 .. Cardinality(Server)]
    <3>1. (IF idx[c] = Len(order[c]) THEN 1 ELSE idx[c] + 1)
              \in 1 .. Cardinality(Server)
      BY <2>1, <2>2, SomeServers
    <3> QED  BY <3>1, Zenon DEF TypeOK
  <2>4. /\ order' \in [Client -> Orders]
        /\ pc' \in [Client -> {"new", "call", "wait", "done"}]
    BY Zenon DEF TypeOK
  <2>5. firstAttempt' \in [Client -> BOOLEAN]
    BY Zenon DEF TypeOK
  <2> QED  BY <2>3, <2>4, <2>5, Zenon DEF TypeOK
<1>6. ASSUME NEW c \in Client, Timeout(c)
      PROVE  TypeOK'
  <2> USE <1>6 DEF Timeout, Return
  <2>1. moveServerToBack(order[c], idx[c]) \in Orders
    BY MovedToBack, Zenon DEF TypeOK
  <2>2. ckServers' \in [Client -> Orders]
    BY <2>1, Zenon DEF TypeOK
  <2>3. /\ pc' \in [Client -> {"new", "call", "wait", "done"}]
        /\ err' \in [Client -> {"none", "OK", "ErrVersion", "ErrMaybe"}]
    BY Zenon DEF TypeOK
  <2> QED  BY <2>2, <2>3, Zenon DEF TypeOK
<1>7. CASE UNCHANGED vars
  BY <1>7, Zenon DEF vars, TypeOK
<1> QED  BY <1>1, <1>2, <1>3, <1>4, <1>5, <1>6, <1>7, Zenon DEF Next

(* Whatever moveServerToFront and moveServerToBack have done, ck.servers     *)
(* lists every server once, and the inner loop stays within it.              *)
THEOREM OrdersArePermutations == Spec => []TypeOK
BY InitTypes, NextTypes, PTL DEF Spec

=============================================================================
