------------------------------- MODULE Network -------------------------------
(*****************************************************************************)
(* The simulated network of labrpc/labrpc.go. Every ClientEnd belongs to one *)
(* owner and leads to one server name. A call passes through processReq,     *)
(* which runs the handler in a goroutine of its own and looks again whether  *)
(* the server is still there before it lets a reply through.                 *)
(*                                                                           *)
(* Every delay is a step that may come late: the short delay of an           *)
(* unreliable network, the long delay of LongReordering before a reply and   *)
(* the one of LongDelays before a failure need no state of their own.        *)
(*****************************************************************************)
EXTENDS Naturals

CONSTANTS
    Name,           \* the names of the servers
    Owner,          \* who holds ends: instances of servers, and clients
    None,           \* no server
    Request         \* the calls, one each

VARIABLES
    enabled,        \* rn.enabled: the ends that are enabled
    servers,        \* rn.servers: per name, the instance that is registered
    reliable,       \* rn.reliable
    call            \* per call, how far ClientEnd.Call and processReq are

\* MakeEnd and Connect: the end of an owner that leads to a server.
End == Owner \X Name

connections(e) == e[2]

NewCall(e) == [pc |-> "new", end |-> e, server |-> None, lossy |-> FALSE,
               handler |-> "none"]

\* The unreliable network, which does all that the reliable one does.
NetworkInit ==
    /\ reliable = FALSE
    /\ call = [r \in Request |-> NewCall(<< >>)]

Moves(r, from, to) ==
    /\ call[r].pc = from
    /\ call' = [call EXCEPT ![r].pc = to]

Returned(r) == call[r].pc \in {"true", "false"}

-----------------------------------------------------------------------------
\* ClientEnd.Call hands the request to the goroutine of the network.
Call(r, e) ==
    /\ call[r].pc = "new"
    /\ call' = [call EXCEPT ![r] = [NewCall(e) EXCEPT !.pc = "sent"]]

\* processReq reads once where the end leads and whether messages get lost.
readEndnameInfo(r) ==
    LET e == call[r].end
        s == servers[connections(e)]
    IN  /\ call[r].pc = "sent"
        /\ call' = [call EXCEPT
               ![r].pc = IF e \in enabled /\ s # None THEN "up" ELSE "down",
               ![r].server = s,
               ![r].lossy = ~ reliable]

\* The end is disabled or the server is gone: a failure, some time later.
NoServer(r) == Moves(r, "down", "false")

DropRequest(r) == call[r].lossy /\ Moves(r, "up", "false")

\* Server.dispatch starts the handler, which may turn out never to return.
dispatch(r) ==
    /\ call[r].pc = "up"
    /\ \E h \in {"runs", "hangs"} :
           call' = [call EXCEPT ![r].pc = "wait", ![r].handler = h]

\* The handler of the instance returns, whether or not anyone still waits.
HandlerReturns(r) ==
    /\ call[r].handler = "runs"
    /\ call' = [call EXCEPT ![r].handler = "returned"]

isServerDead(r) ==
    \/ call[r].end \notin enabled
    \/ servers[connections(call[r].end)] # call[r].server

\* The loop ends with the reply of the handler,
TakeReply(r) == call[r].handler = "returned" /\ Moves(r, "wait", "replied")

\* Mutant: the loop waits for the handler only.
NeverGivesUp(r) == FALSE /\ Moves(r, "wait", "false")

\* ... or, every 100 ms, because the server is dead.
GivesUp(r) == Moves(r, "wait", "false") /\ isServerDead(r)

\* The second look at the server, before the reply is let through.
LastCheck(r) ==
    Moves(r, "replied", IF isServerDead(r) THEN "false" ELSE "passed")

DropReply(r) == call[r].lossy /\ Moves(r, "passed", "false")

Reply(r) == Moves(r, "passed", "true")

processReq(r) ==
    /\ \/ readEndnameInfo(r) \/ NoServer(r) \/ DropRequest(r) \/ dispatch(r)
       \/ TakeReply(r) \/ GivesUp(r) \/ LastCheck(r) \/ DropReply(r)
       \/ Reply(r)
    /\ UNCHANGED <<enabled, servers, reliable>>

-----------------------------------------------------------------------------
\* What the tester does to the network.
Reliable(yes) == reliable' = yes

Enable(ends) == enabled' = enabled \cup ends

Disable(ends) == enabled' = enabled \ ends

\* An end without an entry in rn.enabled counts as disabled.
DeleteEnd(ends) == enabled' = enabled \ ends

AddServer(name, instance) == servers' = [servers EXCEPT ![name] = instance]

DeleteServer(name) == servers' = [servers EXCEPT ![name] = None]

NetworkTypeOK ==
    /\ enabled \subseteq End
    /\ reliable \in BOOLEAN
    /\ \A r \in Request :
           /\ call[r].pc \in {"new", "sent", "up", "down", "wait", "replied",
                              "passed", "true", "false"}
           /\ call[r].handler \in {"none", "runs", "hangs", "returned"}
           /\ call[r].pc # "new" => call[r].end \in End

=============================================================================
