------------------------------- MODULE Server -------------------------------
(***************************************************************************)
(* The server with the requests on its connections: RequestPipeline, which *)
(* knows what becomes of a request, and ServerLifecycle, which knows what  *)
(* becomes of a connection and of the server, step by step together.  A    *)
(* connection carries its requests one after the other (HTTP/1.1), and     *)
(* what the handler of one does is what its connection's task does.        *)
(***************************************************************************)
EXTENDS RequestPipeline

CONSTANTS
    Conn,           \* as in ServerLifecycle
    Installable

VARIABLES
    phase, conn, session, handed, tasks, queue, outstayed, installed, sent,
    on              \* the connection that each request comes on

Life == INSTANCE ServerLifecycle

ASSUME InstallableType == Installable \subseteq SUBSET Life!Signals

lifeVars == <<phase, conn, session, handed, tasks, queue, outstayed, installed, sent>>
serverVars == <<vars, lifeVars, on>>

ServerInit == Init /\ Life!Init /\ on \in [Request -> Conn]

\* The request that a connection is busy with.
InFlight(c) == {r \in Request: on[r] = c /\ stage[r] \notin {"absent", "closed"}}

-----------------------------------------------------------------------------
(***************************************************************************)
(* Steps that are no request's.                                            *)
(***************************************************************************)

Main ==
    /\ Life!Server \/ Life!Signal \/ \E s \in Life!Signals: Life!SendSignal(s)
    /\ UNCHANGED vars

Wait(c) ==
    /\ Life!Accept(c) \/ Life!CloseIdle(c) \/ Life!Join(c)
    /\ UNCHANGED vars

-----------------------------------------------------------------------------
(***************************************************************************)
(* Steps of a request r on its connection c.                               *)
(***************************************************************************)

Read(c, r) == Life!Receive(c) /\ Arrive(r)

\* The handler goes on, and the body flows.
Work(r) ==
    /\ \/ AdmitHead(r) \/ BeginCollect(r) \/ AdmitBody(r) \/ Connect(r) \/ SendBuffered(r)
       \/ \E f \in Frame: CollectFrame(r, f) \/ StreamFrame(r, f)
    /\ UNCHANGED lifeVars

\* The exchange with the daemon fails.
Fails(r) == ForwardFail(r) \/ \E f \in Frame: StreamOverrun(r, f)

\* There is a response, of the layer's, the handler's or the daemon's.
AnswerIt(c, r) ==
    /\ Life!Respond(c)
    /\ \/ DenyHead(r) \/ DenyDeclared(r) \/ CollectError(r) \/ DenyBody(r)
       \/ \E f \in Frame: CollectOverrun(r, f)
       \/ ConnectFail(r) \/ RefuseSwitch(r) \/ Respond(r)
       \/ stage[r] = "forwarding" /\ Fails(r)

\* A response that is being relayed breaks off, and its connection with it.
BreakOff(c, r) == Life!Drop(c) /\ stage[r] = "relaying" /\ Fails(r)

Switch(c, r) == Life!Spawn(c) /\ SwitchProtocols(r)

Store(c, r) == Life!Push(c) /\ Splice(r)

Deadline(c, r) == Life!Expire(c) /\ Expire(r)

-----------------------------------------------------------------------------
(***************************************************************************)
(* Steps of a connection that may or may not be busy.                      *)
(***************************************************************************)

\* An error has been written, or the daemon's response has come to its end.
EndResponse(c) ==
    /\ Life!FinishResponse(c)
    /\ \/ InFlight(c) = {} /\ UNCHANGED vars
       \/ \E r \in InFlight(c): Finish(r)

Leave(c) ==
    /\ Life!Drop(c)
    /\ \/ InFlight(c) = {} /\ UNCHANGED vars
       \/ \E r \in InFlight(c): Disconnect(r)

\* The client has its 101; without a copying task there is nobody to take over.
HandOver(c) ==
    /\ Life!HandOver(c)
    /\ \/ session[c] # "ended" /\ UNCHANGED vars
       \/ session[c] = "ended" /\ \E r \in InFlight(c): Finish(r)

\* The copying task ends, and what it copied for, unless the connection's task
\* is not there yet, or nothing came of the request.
EndSession(c) ==
    /\ Life!ClientHalfFails(c) \/ Life!SessionEnds(c)
    /\ \/ (conn[c] # "closed" \/ InFlight(c) = {}) /\ UNCHANGED vars
       \/ conn[c] = "closed" /\ \E r \in InFlight(c): Finish(r)

-----------------------------------------------------------------------------
OfRequest(r) ==
    LET c == on[r]
    IN  \/ Read(c, r) \/ Work(r) \/ AnswerIt(c, r) \/ BreakOff(c, r)
        \/ Switch(c, r) \/ Store(c, r) \/ Deadline(c, r)

OfConnection(c) == Wait(c) \/ EndResponse(c) \/ Leave(c) \/ HandOver(c) \/ EndSession(c)

Over == (Life!Stopped \/ Life!Waiting) /\ UNCHANGED vars

ServerNext ==
    /\ \/ Main
       \/ \E r \in Request: OfRequest(r)
       \/ \E c \in Conn: OfConnection(c)
       \/ Over
    /\ UNCHANGED on

ServerSpec == ServerInit /\ [][ServerNext]_serverVars

-----------------------------------------------------------------------------
(***************************************************************************)
(* Properties.                                                             *)
(***************************************************************************)

\* A tunnel to the daemon that the policy does not look into exists only on a
\* connection whose request the policy let through, was sent to the daemon, and had
\* an Upgrade field (switch_protocols): not for an earlier or a later request of
\* that connection's, nor for one that was refused.
SessionsAuthorised ==
    \A c \in Conn: session[c] # "none" =>
       \E r \in Request: /\ on[r] = c /\ r \in admitted \cap contacted
                         /\ asked[r].upgrade /\ Rule(r) \notin HeadErrors

\* Nobody is forgotten when the server ends: once it drains, every request is over
\* but for those that were answered with a 101, and each of these is in the list
\* that is drained, or has had its window (serve: drain_upgrades after axum's
\* graceful shutdown).
NoneForgotten ==
    phase \in {"draining", "exited"} =>
       \A r \in Request:
          \/ stage[r] \in {"absent", "closed"}
          \/ /\ stage[r] = "spliced" /\ answer[r] = "Switching"
             /\ on[r] \in Life!Range(queue) \cup outstayed

\* A server that drains has done its work: no request is decided, counted, logged
\* or sent on any more, so that what /metrics and the log last said is final.
NothingWhileDraining ==
    [][(phase \in {"draining", "exited"}) =>
          UNCHANGED <<admitted, contacted, upstream, allowed, denied, audited>>]_serverVars
=============================================================================
