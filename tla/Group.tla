-------------------------------- MODULE Group --------------------------------
(*****************************************************************************)
(* The testbed that runs a group of servers: tester1/group.go, srv.go,       *)
(* persister.go and clnts.go, on the network of module Network, with the     *)
(* rfsrv of raft/server.go as the service of a server.                       *)
(*                                                                           *)
(* A server is a position 1..N of the group; every start makes a new         *)
(* instance of it, with fresh ends and a fresh persister. An instance that   *)
(* was shut down keeps running: its handlers and its calls go on. The tester *)
(* is one thread, whose operation is a sequence of steps between which calls *)
(* and handlers interleave. The persisted state of an instance is the set of *)
(* updates it holds, an update being named by the call that asked for it.    *)
(*****************************************************************************)
EXTENDS Integers, SequencesExt

CONSTANTS
    N,              \* servers of the group
    Client,         \* the Clnts
    Request,        \* the calls
    None,
    MaxInstances,   \* instances of a server
    MaxOps          \* operations of the tester

ASSUME GroupAssumption ==
    /\ N \in Nat \ {0}
    /\ MaxInstances \in Nat \ {0}

VARIABLES
    enabled, servers, reliable, call,           \* the network
    srvs,           \* sg.srvs: per server, the number of its instance
    connected,      \* sg.connected: the servers that are on the net
    svcs,           \* the servers whose instance has services (srv.svcs)
    disk,           \* per instance, the persister its services write to
    saved,          \* per server, the copy of it that a shutdown leaves
    live,           \* the servers whose srv.saved its services write to
    clnt,           \* per client, its ends and the servers it is allowed
    clerks,         \* clnts.clerks: the clients that are not deleted
    todo,           \* the steps left of the tester's operation
    ops,            \* operations begun
    asked,          \* history: the links the tester has asked for
    reconnected     \* history: instances connected again after their shutdown

Server == 1..N
Instance == Server \X (1..MaxInstances)

INSTANCE Network WITH Name <- Server, Owner <- Instance \cup Client

networkVars == <<enabled, servers, reliable, call>>
groupVars == <<srvs, connected, svcs, disk, saved, live>>
clientVars == <<clnt, clerks>>
history == <<asked, reconnected>>
vars == <<networkVars, groupVars, clientVars, todo, ops, history>>

own(i) == <<i, srvs[i]>>

MakeClientTo(to) == [ends |-> {}, srvs |-> to]

\* StartServers has run; the clients are restricted to server 1 or not at all.
Init ==
    /\ NetworkInit
    /\ srvs = [i \in Server |-> 1]
    /\ enabled = {<<<<i, 1>>, j>> : i \in Server, j \in Server}
    /\ servers = [i \in Server |-> <<i, 1>>]
    /\ connected = Server
    /\ svcs = Server
    /\ disk = [x \in Instance |-> {}]
    /\ saved = [i \in Server |-> {}]
    /\ live = Server
    /\ clnt \in [Client -> {MakeClientTo(Server), MakeClientTo({1})}]
    /\ clerks = Client
    /\ todo = << >>
    /\ ops = 0
    /\ asked = Server \X Server
    /\ reconnected = {}

-----------------------------------------------------------------------------
(*****************************************************************************)
(* The steps of the tester.                                                  *)
(*****************************************************************************)

\* Mutant: the ends to the servers before those of the list are enabled.
srvConnectOffByOne(i, to) == {own(i)} \X {j - 1 : j \in to}

\* The ends of the instance of i that connect enables, or disconnect disables,
srvConnect(i, to) == {own(i)} \X to

srvDisconnect(i, from) == {own(i)} \X from

\* ... and the ends of other instances to i.
incoming(i, from) == {<<own(j), i>> : j \in from}

\* sg.connect(i, to) enables, both ways, the ends between i and those of to
\* that are connected; i itself counts as connected.
connect(i, to) ==
    LET up == to \cap (connected \cup {i})
    IN  /\ connected' = connected \cup {i}
        /\ Enable(srvConnect(i, up) \cup incoming(i, up))
        /\ reconnected' = IF i \in svcs THEN reconnected
                                        ELSE reconnected \cup {own(i)}
        /\ UNCHANGED <<servers, srvs, svcs, disk, saved, live>>

\* Mutant: only the outgoing ends are disabled.
disconnectOut(i, from) ==
    /\ connected' = connected \ {i}
    /\ Disable(srvDisconnect(i, from))
    /\ UNCHANGED <<servers, srvs, svcs, disk, saved, live, reconnected>>

disconnect(i, from) ==
    /\ connected' = connected \ {i}
    /\ Disable(srvDisconnect(i, from) \cup incoming(i, from))
    /\ UNCHANGED <<servers, srvs, svcs, disk, saved, live, reconnected>>

\* The rest of ShutdownServer: the server leaves the network,
deleteServer(i) ==
    /\ DeleteServer(i)
    /\ UNCHANGED <<enabled, groupVars, reconnected>>

\* Persister: Copy and ReadRaftState take the state as it is, Save sets it.
Copy(x) == disk[x]

ReadRaftState(x) == disk[x]

Save(x, state) == disk' = [disk EXCEPT ![x] = state]

\* ... its persister is replaced by a copy,
supersede(i) ==
    /\ saved' = [saved EXCEPT ![i] = Copy(own(i))]
    /\ live' = live \ {i}
    /\ UNCHANGED <<enabled, servers, srvs, connected, svcs, disk, reconnected>>

\* ... and rfsrv.Kill writes back, into the persister of the instance, what
\* it has read from it one step before.
killSave(i, state) ==
    /\ Save(own(i), state)
    /\ svcs' = svcs \ {i}
    /\ UNCHANGED <<enabled, servers, srvs, connected, saved, live,
                   reconnected>>

\* StartServer: an instance with fresh ends and a copy of what is saved,
startServer(i) ==
    LET new == <<i, srvs[i] + 1>>
    IN  /\ srvs' = [srvs EXCEPT ![i] = @ + 1]
        /\ Save(new, saved[i])
        /\ live' = live \cup {i}
        /\ svcs' = svcs \cup {i}
        /\ UNCHANGED <<enabled, servers, connected, saved, reconnected>>

\* ... which then joins the network.
addServer(i) ==
    /\ AddServer(i, own(i))
    /\ UNCHANGED <<enabled, groupVars, reconnected>>

Step(do, i, set) == [do |-> do, i |-> i, set |-> set]

TesterStep ==
    LET step == Head(todo)
        i    == step.i
    IN  /\ todo # << >>
        /\ todo' = IF step.do = "killRead"
                   THEN <<Step("killSave", i, ReadRaftState(own(i)))>>
                        \o Tail(todo)
                   ELSE Tail(todo)
        /\ \/ step.do = "connect" /\ connect(i, step.set)
           \/ step.do = "disconnect" /\ disconnect(i, step.set)
           \/ step.do = "delete" /\ deleteServer(i)
           \/ step.do = "supersede" /\ supersede(i)
           \/ /\ step.do = "killRead"
              /\ UNCHANGED <<enabled, servers, groupVars, reconnected>>
           \/ step.do = "killSave" /\ killSave(i, step.set)
           \/ step.do = "start" /\ startServer(i)
           \/ step.do = "add" /\ addServer(i)
        /\ UNCHANGED <<reliable, call, clientVars, ops, asked>>

-----------------------------------------------------------------------------
(*****************************************************************************)
(* The operations of the tester, as sequences of steps.                      *)
(*****************************************************************************)

ForAll(Steps(_)) == FlattenSeq([i \in Server |-> Steps(i)])

ConnectOneSteps(i) == <<Step("connect", i, Server)>>

\* Mutant: the persister is superseded before the server leaves the network.
ShutdownCopyFirst(i) ==
    <<Step("disconnect", i, Server), Step("supersede", i, {}),
      Step("delete", i, {}), Step("killRead", i, {})>>

\* Mutant: the server is not disconnected.
ShutdownConnected(i) ==
    <<Step("delete", i, {}), Step("supersede", i, {}),
      Step("killRead", i, {})>>

ShutdownSteps(i) ==
    <<Step("disconnect", i, Server), Step("delete", i, {}),
      Step("supersede", i, {}), Step("killRead", i, {})>>

StartSteps(i) == <<Step("start", i, {}), Step("add", i, {})>>

\* Partition: each server of a side leaves the other side and joins its own.
SideSteps(p, q) ==
    ForAll(LAMBDA i : IF i \in p
                      THEN <<Step("disconnect", i, q), Step("connect", i, p)>>
                      ELSE << >>)

\* An operation begins when the one before has returned.
Begin ==
    /\ todo = << >> /\ ops < MaxOps
    /\ ops' = ops + 1
    /\ UNCHANGED <<networkVars, groupVars, clientVars, reconnected>>

MayStart(i) == i \notin svcs /\ srvs[i] < MaxInstances

Touching(i) == ({i} \X Server) \cup (Server \X {i})

DisconnectAll(i) ==
    /\ Begin
    /\ todo' = <<Step("disconnect", i, Server)>>
    /\ asked' = asked \ Touching(i)

ConnectOne(i) ==
    LET up == connected \cup {i}
    IN  /\ Begin
        /\ todo' = ConnectOneSteps(i)
        /\ asked' = asked \cup ({i} \X up) \cup (up \X {i})

ConnectAll ==
    /\ Begin
    /\ todo' = ForAll(ConnectOneSteps)
    /\ asked' = Server \X Server

ShutdownServer(i) ==
    /\ i \in svcs
    /\ Begin
    /\ todo' = ShutdownSteps(i)
    /\ asked' = asked \ Touching(i)

Shutdown ==
    /\ svcs = Server
    /\ Begin
    /\ todo' = ForAll(ShutdownSteps)
    /\ asked' = {}

StartServer(i) ==
    /\ MayStart(i)
    /\ Begin
    /\ todo' = StartSteps(i)
    /\ asked' = asked \ ({i} \X Server)

StartServers ==
    /\ \A i \in Server : MayStart(i)
    /\ Begin
    /\ todo' = ForAll(StartSteps) \o ForAll(ConnectOneSteps)
    /\ asked' = Server \X Server

\* restart of raft/test.go connects everybody, also those that are down.
restart(i) ==
    /\ MayStart(i)
    /\ Begin
    /\ todo' = StartSteps(i) \o ForAll(ConnectOneSteps)
    /\ asked' = Server \X Server

Partition(p1) ==
    LET p2 == Server \ p1
    IN  /\ Begin
        /\ todo' = SideSteps(p1, p2) \o SideSteps(p2, p1)
        /\ asked' = (p1 \X p1) \cup (p2 \X p2)

SetReliable(yes) ==
    /\ todo = << >> /\ ops < MaxOps
    /\ reliable # yes
    /\ ops' = ops + 1
    /\ Reliable(yes)
    /\ UNCHANGED <<enabled, servers, call, groupVars, clientVars, todo,
                   history>>

Tester ==
    \/ TesterStep \/ ConnectAll \/ Shutdown \/ StartServers
    \/ \E i \in Server : \/ DisconnectAll(i) \/ ConnectOne(i)
                         \/ ShutdownServer(i) \/ StartServer(i) \/ restart(i)
    \/ \E p1 \in SUBSET Server : Partition(p1)
    \/ \E yes \in BOOLEAN : SetReliable(yes)

-----------------------------------------------------------------------------
(*****************************************************************************)
(* Clients, calls and handlers.                                              *)
(*****************************************************************************)

allowedL(c, j) == j \in clnt[c].srvs

\* Mutant: a new end is enabled whatever the client is allowed.
AllowAll(c, j) == {<<c, j>>}

\* The end of a client to a server, if it is to be enabled.
Allowed(c, j) == IF allowedL(c, j) THEN {<<c, j>>} ELSE {}

\* The end to a server is made by the first call that needs it.
makeEnd(c, j) ==
    IF j \in clnt[c].ends
    THEN UNCHANGED <<enabled, clnt>>
    ELSE /\ clnt' = [clnt EXCEPT ![c].ends = @ \cup {j}]
         /\ Enable(Allowed(c, j))

ClntCall(r, c, j) ==
    /\ c \in clerks
    /\ makeEnd(c, j)
    /\ Call(r, <<c, j>>)
    /\ UNCHANGED <<servers, reliable, groupVars, clerks, todo, ops, history>>

ClntConnectAll(c) ==
    /\ c \in clerks /\ ops < MaxOps
    /\ ops' = ops + 1
    /\ Enable({c} \X clnt[c].ends)
    /\ clnt' = [clnt EXCEPT ![c].srvs = Server]
    /\ UNCHANGED <<servers, reliable, call, groupVars, clerks, todo, history>>

\* Clnt.remove
remove(c) == DeleteEnd({c} \X clnt[c].ends)

DeleteClient(c) ==
    /\ c \in clerks /\ ops < MaxOps
    /\ ops' = ops + 1
    /\ remove(c)
    /\ clerks' = clerks \ {c}
    /\ UNCHANGED <<servers, reliable, call, groupVars, clnt, todo, history>>

\* An instance, also one that was shut down, calls a peer.
PeerCall(r, x, j) ==
    /\ x[2] <= srvs[x[1]] /\ x[1] # j
    /\ Call(r, <<x, j>>)
    /\ UNCHANGED <<enabled, servers, reliable, groupVars, clientVars, todo,
                   ops, history>>

ProcessReq(r) ==
    /\ processReq(r)
    /\ UNCHANGED <<groupVars, clientVars, todo, ops, history>>

\* The handler of an instance persists the update, then returns.
Handler(r) ==
    LET x == call[r].server
    IN  /\ HandlerReturns(r)
        /\ Save(x, disk[x] \cup {r})
        /\ UNCHANGED <<enabled, servers, reliable, srvs, connected, svcs,
                       saved, live, clientVars, todo, ops, history>>

Next ==
    \/ Tester
    \/ \E c \in Client : ClntConnectAll(c) \/ DeleteClient(c)
    \/ \E r \in Request :
          \/ ProcessReq(r) \/ Handler(r)
          \/ \E j \in Server : \/ \E c \in Client : ClntCall(r, c, j)
                               \/ \E x \in Instance : PeerCall(r, x, j)

\* Goroutines that can run do run, and the tester completes its operations.
Fairness ==
    /\ WF_vars(TesterStep)
    /\ \A r \in Request : WF_vars(ProcessReq(r)) /\ WF_vars(Handler(r))

Spec == Init /\ [][Next]_vars /\ Fairness

-----------------------------------------------------------------------------
\* The network, the group, its clients and the histories have their types.
TypeOK ==
    /\ NetworkTypeOK
    /\ servers \in [Server -> Instance \cup {None}]
    /\ srvs \in [Server -> 1..MaxInstances]
    /\ connected \cup svcs \cup live \subseteq Server
    /\ disk \in [Instance -> SUBSET Request]
    /\ saved \in [Server -> SUBSET Request]
    /\ clnt \in [Client -> [ends : SUBSET Server, srvs : SUBSET Server]]
    /\ asked \subseteq Server \X Server
    /\ reconnected \subseteq Instance

\* What the next instance of a server starts from, were it shut down now.
Kept(i) == IF i \in live THEN disk[own(i)] ELSE saved[i]

(*****************************************************************************)
(* A call that returned true has left its update where the next instance of  *)
(* the server finds it, however the handler, the shutdown, the copies of the *)
(* persister and the write of rfsrv.Kill interleave. This is what the        *)
(* comments in processReq and in ShutdownServer are careful about.           *)
(*****************************************************************************)
PositiveReplyKept ==
    \A r \in Request :
        call[r].pc = "true" => r \in Kept(connections(call[r].end))

(*****************************************************************************)
(* Between operations the enabled ends of the current instances are the      *)
(* links the operations asked for, in both directions, although connect and  *)
(* disconnect go server by server and consult the flags of sg.connected.     *)
(*****************************************************************************)
LinksAsAsked ==
    todo = << >> =>
        \A i, j \in Server : <<own(i), j>> \in enabled <=> <<i, j>> \in asked

(*****************************************************************************)
(* An instance that was shut down reaches nobody ("Shutdown a server by      *)
(* isolating it"), except one that a later connect of its server, while it   *)
(* was down, has given its ends back.                                        *)
(*****************************************************************************)
IsolatedUnlessReconnected ==
    \A x \in Instance \ reconnected :
        (x # own(x[1]) \/ x[1] \notin svcs)
            => enabled \cap ({x} \X Server) = {}

(*****************************************************************************)
(* A client reaches exactly the servers it is allowed, among those it has an *)
(* end to: the lazily made ends and the ones enabled or disabled together    *)
(* agree with clnt.srvs.                                                     *)
(*****************************************************************************)
ClientsAsAllowed ==
    \A c \in clerks, j \in Server :
        j \in clnt[c].ends => (<<c, j>> \in enabled <=> allowedL(c, j))

\* A call needs no further step of the network.
Settled(r) ==
    \/ call[r].pc = "new"
    \/ Returned(r)
    \/ call[r].handler = "hangs" /\ ~ isServerDead(r)

(*****************************************************************************)
(* A call that was made returns, or else waits for a handler that does not   *)
(* return, on a server that is still there: labrpc.go says Call() returns    *)
(* unless the handler does not, and processReq polls isServerDead so that    *)
(* even such a call ends once its server is deleted or its end disabled.     *)
(*****************************************************************************)
CallReturns == \A r \in Request : []<>Settled(r)

=============================================================================
