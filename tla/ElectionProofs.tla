--------------------------- MODULE ElectionProofs ---------------------------
(*****************************************************************************)
(* Election elects at most one leader per term, for every set of peers and   *)
(* quorums that meet.                                                        *)
(*****************************************************************************)
EXTENDS Election, TLAPS

Roles == {"Follower", "Candidate", "Leader"}

Typed ==
    /\ term \in [Server -> Nat]
    /\ vote \in [Server -> Server \cup {None}]
    /\ role \in [Server -> Roles]
    /\ ballots \subseteq Server \X Server \X Nat
    /\ leads \subseteq Server \X Nat

\* A candidate has voted for itself.
OwnVote == \A i \in Server : role[i] = "Candidate" => vote[i] = i

\* No peer votes ahead of its term.
BallotsPast ==
    \A v, c \in Server : \A t \in Nat : <<v, c, t>> \in ballots => t <= term[v]

Open(t) == \A l \in Server : <<l, t>> \notin leads

(* While a term has no leader, its ballots are what one expects: one per     *)
(* peer, and the peer remembers it as long as it is in the term.             *)
OneBallot ==
    \A v, c \in Server : \A t \in Nat :
        Open(t) /\ <<v, c, t>> \in ballots =>
            /\ \A d \in Server : <<v, d, t>> \in ballots => d = c
            /\ term[v] = t => vote[v] = c

(* Peer v backs l in term t for good: it is l itself or gave its ballot to   *)
(* l, gave none to another, and cannot any more: either it has left the term *)
(* or it still remembers its vote and is no candidate that could forget it.  *)
Loyal(v, l, t) ==
    /\ v = l \/ <<v, l, t>> \in ballots
    /\ t <= term[v]
    /\ \A d \in Server : <<v, d, t>> \in ballots => d = l
    /\ term[v] = t => vote[v] = l /\ role[v] # "Candidate"

\* Quorums are sets of peers, and any two of them share one.
QuorumsMeet ==
    /\ Quorum \subseteq SUBSET Server
    /\ \A Q, R \in Quorum : Q \cap R # {}

\* Behind every leader of the past or present is a quorum of loyal peers.
Backed ==
    \A l \in Server : \A t \in Nat : <<l, t>> \in leads =>
        \E Q \in Quorum : l \in Q /\ \A v \in Q : Loyal(v, l, t)

Inv == Typed /\ OwnVote /\ BallotsPast /\ OneBallot /\ Backed

-----------------------------------------------------------------------------
\* A peer with a quorum behind it is the only leader its term can have.
LEMMA BackedUnique ==
    ASSUME QuorumsMeet, NEW l \in Server, NEW k \in Server, NEW t \in Nat,
           NEW Q \in Quorum, NEW R \in Quorum,
           \A v \in Q : v = l \/ <<v, l, t>> \in ballots,
           \A v \in R : Loyal(v, k, t),
           l \in R => l = k
    PROVE  l = k
<1>1. PICK v : v \in Q /\ v \in R
    BY DEF QuorumsMeet
<1>2. CASE v = l
    BY <1>1, <1>2
<1>3. CASE <<v, l, t>> \in ballots
    BY <1>1, <1>3 DEF Loyal
<1> QED BY <1>1, <1>2, <1>3

\* Inv leaves at most one leader per term.
LEMMA InvOneLeader ==
    ASSUME QuorumsMeet, Inv PROVE OneLeader
<1> SUFFICES ASSUME NEW l \in Server, NEW k \in Server, NEW t \in Nat,
                    <<l, t>> \in leads, <<k, t>> \in leads
             PROVE  l = k
    BY DEF OneLeader
<1>1. PICK Q \in Quorum : l \in Q /\ \A v \in Q : Loyal(v, l, t)
    BY DEF Inv, Backed
<1>2. PICK R \in Quorum : k \in R /\ \A v \in R : Loyal(v, k, t)
    BY DEF Inv, Backed
<1>3. PICK v \in Server : v \in Q /\ v \in R
    BY <1>1, <1>2 DEF QuorumsMeet
<1>4. Loyal(v, l, t) /\ Loyal(v, k, t)
    BY <1>1, <1>2, <1>3
<1> QED BY <1>3, <1>4 DEF Loyal

\* At the start nobody has voted or led.
LEMMA InitInv == ASSUME Init PROVE Inv
<1>1. Typed
    BY DEF Init, Typed, Roles
<1>2. OwnVote /\ BallotsPast /\ OneBallot /\ Backed
    BY DEF Init, OwnVote, BallotsPast, OneBallot, Backed
<1> QED BY <1>1, <1>2 DEF Inv

-----------------------------------------------------------------------------
(* A step that adds no leader keeps Backed, provided it keeps every loyal    *)
(* peer loyal.                                                               *)
LEMMA KeepBacked ==
    ASSUME QuorumsMeet, Backed, leads' = leads,
           ASSUME NEW v \in Server, NEW l \in Server, NEW t \in Nat,
                  <<l, t>> \in leads, Loyal(v, l, t)
           PROVE  Loyal(v, l, t)'
    PROVE  Backed'
<1> SUFFICES ASSUME NEW l \in Server, NEW t \in Nat, <<l, t>> \in leads
             PROVE  \E Q \in Quorum : l \in Q /\ \A v \in Q : Loyal(v, l, t)'
    BY DEF Backed
<1>1. PICK Q \in Quorum : l \in Q /\ \A v \in Q : Loyal(v, l, t)
    BY DEF Backed
<1>2. \A v \in Q : Loyal(v, l, t)'
    BY <1>1 DEF QuorumsMeet
<1> QED BY <1>1, <1>2

\* startElection takes the peer to a term in which it has no ballot.
LEMMA StandInv ==
    ASSUME QuorumsMeet, None \notin Server, Inv, NEW i \in Server, Stand(i) PROVE Inv'
<1> USE DEF Inv
<1>1. Typed'
    BY DEF Typed, Roles, Stand
<1>2. OwnVote'
    BY DEF Typed, OwnVote, Stand
<1>3. BallotsPast'
    BY DEF Typed, BallotsPast, Stand
<1>4. OneBallot'
    BY DEF Typed, BallotsPast, OneBallot, Open, Stand
<1>5. Backed'
    <2>1. ASSUME NEW v \in Server, NEW l \in Server, NEW t \in Nat,
                 <<l, t>> \in leads, Loyal(v, l, t)
          PROVE  Loyal(v, l, t)'
        BY <2>1 DEF Typed, Loyal, Stand
    <2>2. leads' = leads
        BY DEF Stand
    <2> QED BY <2>1, <2>2, KeepBacked
<1> QED BY <1>1, <1>2, <1>3, <1>4, <1>5

\* A vote goes to one candidate per term, unless the term has its leader.
LEMMA GrantInv ==
    ASSUME QuorumsMeet, None \notin Server, Inv, NEW i \in Server, NEW c \in Server,
           NEW t \in Nat, t >= term[i], Grant(i, c, t)
    PROVE  Inv'
<1> USE DEF Inv
<1>1. Typed'
    BY DEF Typed, Roles, Grant
<1>2. OwnVote'
    BY DEF Typed, OwnVote, Grant
<1>3. BallotsPast'
    BY DEF Typed, BallotsPast, Grant
<1>4. OneBallot'
    <2> SUFFICES ASSUME NEW v \in Server, NEW d \in Server, NEW s \in Nat,
                        Open(s), <<v, d, s>> \in ballots'
                 PROVE  /\ \A e \in Server : <<v, e, s>> \in ballots' => e = d
                        /\ term'[v] = s => vote'[v] = d
        BY DEF OneBallot, Open, Grant
    <2>1. CASE v = i /\ s = t
        <3>1. ASSUME NEW e \in Server, <<i, e, t>> \in ballots PROVE e = c
            <4>1. t = term[i]
                BY <3>1 DEF Typed, BallotsPast
            <4>2. vote[i] = e
                BY <2>1, <3>1, <4>1 DEF OneBallot
            <4> QED BY <4>1, <4>2 DEF Grant
        <3> QED BY <2>1, <3>1 DEF Typed, Grant
    <2>2. CASE ~ (v = i /\ s = t)
        <3>1. \A e \in Server : <<v, e, s>> \in ballots' => <<v, e, s>> \in ballots
            BY <2>2 DEF Grant
        <3>2. /\ \A e \in Server : <<v, e, s>> \in ballots => e = d
              /\ term[v] = s => vote[v] = d
            BY <3>1 DEF OneBallot
        <3>3. term'[v] = s => term[v] = s /\ vote'[v] = vote[v]
            BY <2>2 DEF Typed, Grant
        <3> QED BY <3>1, <3>2, <3>3
    <2> QED BY <2>1, <2>2
<1>5. Backed'
    <2>1. ASSUME NEW v \in Server, NEW l \in Server, NEW s \in Nat,
                 <<l, s>> \in leads, Loyal(v, l, s)
          PROVE  Loyal(v, l, s)'
        <3>1. CASE v = i
            <4>1. t = s => c = l
                BY <2>1, <3>1 DEF Typed, Loyal, Grant
            <4> QED BY <2>1, <3>1, <4>1 DEF Typed, Loyal, Grant
        <3>2. CASE v # i
            BY <2>1, <3>2 DEF Typed, Loyal, Grant
        <3> QED BY <3>1, <3>2
    <2>2. leads' = leads
        BY DEF Grant
    <2> QED BY <2>1, <2>2, KeepBacked
<1> QED BY <1>1, <1>2, <1>3, <1>4, <1>5

\* becomeFollower in a newer term.
LEMMA ObserveInv ==
    ASSUME QuorumsMeet, None \notin Server, Inv, NEW i \in Server, NEW t \in Nat, Observe(i, t)
    PROVE  Inv'
<1> USE DEF Inv
<1>1. Typed'
    BY DEF Typed, Roles, Observe
<1>2. OwnVote'
    BY DEF Typed, OwnVote, Observe
<1>3. BallotsPast'
    BY DEF Typed, BallotsPast, Observe
<1>4. OneBallot'
    BY DEF Typed, BallotsPast, OneBallot, Open, Observe
<1>5. Backed'
    <2>1. ASSUME NEW v \in Server, NEW l \in Server, NEW s \in Nat,
                 <<l, s>> \in leads, Loyal(v, l, s)
          PROVE  Loyal(v, l, s)'
        BY <2>1 DEF Typed, Loyal, Observe
    <2>2. leads' = leads
        BY DEF Observe
    <2> QED BY <2>1, <2>2, KeepBacked
<1> QED BY <1>1, <1>2, <1>3, <1>4, <1>5

(* becomeFollower of a candidate in its own term. The term has a leader, and *)
(* a candidate is not among the loyal peers behind it.                       *)
LEMMA YieldInv ==
    ASSUME QuorumsMeet, None \notin Server, Inv, NEW i \in Server, Yield(i) PROVE Inv'
<1> USE DEF Inv
<1>1. Typed'
    BY DEF Typed, Roles, Yield
<1>2. OwnVote'
    BY DEF Typed, OwnVote, Yield
<1>3. BallotsPast'
    BY DEF Typed, BallotsPast, Yield
<1>4. OneBallot'
    BY DEF Typed, OneBallot, Open, Yield
<1>5. Backed'
    <2>1. ASSUME NEW v \in Server, NEW l \in Server, NEW s \in Nat,
                 <<l, s>> \in leads, Loyal(v, l, s)
          PROVE  Loyal(v, l, s)'
        BY <2>1 DEF Typed, Loyal, Yield
    <2>2. leads' = leads
        BY DEF Yield
    <2> QED BY <2>1, <2>2, KeepBacked
<1> QED BY <1>1, <1>2, <1>3, <1>4, <1>5

(* becomeLeader. The supporters are a quorum, so the term has no leader yet  *)
(* (it would share a loyal peer with them, and would have to be the          *)
(* candidate itself); so every supporter has one ballot only and is loyal.   *)
LEMMA WinInv ==
    ASSUME QuorumsMeet, None \notin Server, Inv, NEW i \in Server, Win(i)
    PROVE  Inv'
<1> USE DEF Inv
<1>0. PICK t \in Nat : t = term[i]
    BY DEF Typed
<1> DEFINE Q == Supporters(i, t)
<1>1. Typed'
    BY DEF Typed, Roles, Win
<1>2. OwnVote'
    BY DEF Typed, OwnVote, Win
<1>3. BallotsPast'
    BY DEF BallotsPast, Win
<1>4. OneBallot'
    BY DEF OneBallot, Open, Win
<1>5. /\ Q \in Quorum /\ Q \subseteq Server /\ i \in Q
      /\ \A v \in Q : v = i \/ <<v, i, t>> \in ballots
    BY <1>0 DEF Typed, Supporters, Win
<1> HIDE DEF Q
<1>6. Open(t)
    <2> SUFFICES ASSUME NEW k \in Server, <<k, t>> \in leads PROVE FALSE
        BY DEF Open
    <2>1. PICK R \in Quorum : k \in R /\ \A v \in R : Loyal(v, k, t)
        BY <1>5 DEF Backed
    <2>2. i \in R => FALSE
        BY <1>0, <2>1 DEF Loyal, Win
    <2>3. i = k
        BY <1>5, <2>1, <2>2, BackedUnique
    <2> QED BY <2>1, <2>2, <2>3
<1>7. ASSUME NEW v \in Q PROVE Loyal(v, i, t)'
    <2>1. v \in Server /\ (v = i \/ <<v, i, t>> \in ballots)
        BY <1>5
    <2>2. t <= term[v]
        BY <1>0, <2>1 DEF Typed, BallotsPast
    <2>3. vote[i] = i /\ role[i] = "Candidate"
        BY DEF OwnVote, Win
    <2>4. \A d \in Server : <<v, d, t>> \in ballots => d = i
        BY <1>0, <1>6, <2>1, <2>3 DEF OneBallot
    <2>5. term[v] = t => vote[v] = i /\ (v = i \/ role[v] # "Candidate")
        BY <1>0, <1>6, <2>1, <2>3 DEF OneBallot, OwnVote
    <2>6. UNCHANGED <<term, vote, ballots>> /\ role' = [role EXCEPT ![i] = "Leader"]
        BY DEF Win
    <2> QED BY <2>1, <2>2, <2>4, <2>5, <2>6 DEF Typed, Loyal
<1>8. Backed'
    <2> SUFFICES ASSUME NEW l \in Server, NEW s \in Nat, <<l, s>> \in leads'
                 PROVE  \E R \in Quorum : l \in R /\ \A v \in R : Loyal(v, l, s)'
        BY DEF Backed
    <2>1. CASE <<l, s>> \in leads
        <3>1. PICK R \in Quorum : l \in R /\ \A v \in R : Loyal(v, l, s)
            BY <2>1 DEF Backed
        <3>2. ASSUME NEW v \in R PROVE Loyal(v, l, s)'
            <4>1. Loyal(v, l, s) /\ v \in Server
                BY <3>1 DEF QuorumsMeet
            <4>2. /\ UNCHANGED <<term, vote, ballots>>
                  /\ role' = [role EXCEPT ![i] = "Leader"]
                BY DEF Win
            <4> QED BY <4>1, <4>2 DEF Typed, Loyal
        <3> QED BY <3>1, <3>2
    <2>2. CASE <<l, s>> \notin leads
        <3>1. l = i /\ s = t
            BY <1>0, <2>2 DEF Win
        <3> QED BY <1>5, <1>7, <3>1
    <2> QED BY <2>1, <2>2
<1> QED BY <1>1, <1>2, <1>3, <1>4, <1>8

\* A crash only makes peers followers.
LEMMA CrashInv ==
    ASSUME QuorumsMeet, Inv, NEW i \in Server, Crash(i) PROVE Inv'
<1> USE DEF Inv
<1>1. Typed'
    BY DEF Typed, Roles, Crash
<1>2. OwnVote' /\ BallotsPast' /\ OneBallot'
    BY DEF Typed, OwnVote, BallotsPast, OneBallot, Open, Crash
<1>3. Backed'
    <2>1. ASSUME NEW v \in Server, NEW l \in Server, NEW s \in Nat,
                 <<l, s>> \in leads, Loyal(v, l, s)
          PROVE  Loyal(v, l, s)'
        BY <2>1 DEF Typed, Loyal, Crash
    <2>2. leads' = leads
        BY DEF Crash
    <2> QED BY <2>1, <2>2, KeepBacked
<1> QED BY <1>1, <1>2, <1>3

\* Every step of an election keeps the invariant.
LEMMA NextInv ==
    ASSUME QuorumsMeet, None \notin Server, Inv, [Next]_vars PROVE Inv'
<1>1. CASE UNCHANGED vars
    <2>1. UNCHANGED <<term, vote, role, ballots, leads>>
        BY <1>1 DEF vars
    <2>2. Backed'
        <3>1. ASSUME NEW v \in Server, NEW l \in Server, NEW t \in Nat,
                     <<l, t>> \in leads, Loyal(v, l, t)
              PROVE  Loyal(v, l, t)'
            BY <2>1, <3>1 DEF Loyal
        <3> QED BY <2>1, <3>1, KeepBacked DEF Inv
    <2>3. Typed' /\ OwnVote' /\ BallotsPast' /\ OneBallot'
        BY <2>1 DEF Inv, Typed, OwnVote, BallotsPast, OneBallot, Open
    <2> QED BY <2>2, <2>3 DEF Inv
<1>2. ASSUME NEW i \in Server, Stand(i) \/ Yield(i) \/ Win(i) \/ Crash(i)
      PROVE  Inv'
    BY <1>2, StandInv, YieldInv, WinInv, CrashInv
<1>3. ASSUME NEW i \in Server, NEW j \in Server, NEW t \in term[i] .. term[j],
             Grant(i, j, t) \/ Observe(i, t)
      PROVE  Inv'
    <2>1. t \in Nat /\ t >= term[i]
        BY <1>3 DEF Inv, Typed
    <2> QED BY <1>3, <2>1, GrantInv, ObserveInv
<1> QED BY <1>1, <1>2, <1>3 DEF Next

(* At most one peer ever leads a term. A peer that yields may vote twice in  *)
(* a term, so "one ballot per peer and term" is no invariant; the loyal      *)
(* quorum behind each leader is.                                             *)
THEOREM OneLeaderAlways ==
    ASSUME QuorumsMeet, None \notin Server
    PROVE  Spec => []OneLeader
<1>1. Init => Inv
    BY InitInv
<1>2. Inv /\ [Next]_vars => Inv'
    BY NextInv
<1>3. Inv => OneLeader
    BY InvOneLeader
<1> QED BY <1>1, <1>2, <1>3, PTL DEF Spec

\* No step breaks a promise; the candidate that yields had named itself.
LEMMA NextPromise ==
    ASSUME None \notin Server, Inv, [Next]_vars PROVE Promise
<1>1. term \in [Server -> Nat] /\ vote \in [Server -> Server \cup {None}]
    BY DEF Inv, Typed
<1>2. CASE UNCHANGED vars
    BY <1>1, <1>2 DEF vars, Promise
<1>3. ASSUME NEW i \in Server, Stand(i) \/ Win(i) \/ Crash(i) PROVE Promise
    BY <1>1, <1>3 DEF Promise, Stand, Win, Crash
<1>4. ASSUME NEW i \in Server, Yield(i) PROVE Promise
    <2>1. vote[i] = i
        BY <1>4 DEF Inv, OwnVote, Yield
    <2> QED BY <1>1, <1>4, <2>1 DEF Promise, Yield
<1>5. ASSUME NEW i \in Server, NEW j \in Server, NEW t \in term[i] .. term[j],
             Grant(i, j, t) \/ Observe(i, t)
      PROVE  Promise
    <2>1. t \in Nat /\ t >= term[i]
        BY <1>1, <1>5
    <2> QED BY <1>1, <1>5, <2>1 DEF Promise, Grant, Observe
<1> QED BY <1>2, <1>3, <1>4, <1>5 DEF Next

\* Peers keep their terms and the votes they gave to others.
THEOREM PromiseAlways ==
    ASSUME QuorumsMeet, None \notin Server
    PROVE  Spec => [][Promise]_vars
<1>1. Init => Inv
    BY InitInv
<1>2. Inv /\ [Next]_vars => Inv'
    BY NextInv
<1>3. Inv /\ [Next]_vars => [Promise]_vars
    BY NextPromise
<1> QED BY <1>1, <1>2, <1>3, PTL DEF Spec

=============================================================================
