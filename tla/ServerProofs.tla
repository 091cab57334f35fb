----------------------------- MODULE ServerProofs -----------------------------
(***************************************************************************)
(* Theorems of Server, for any requests and connections: it behaves as     *)
(* RequestPipeline and as ServerLifecycle say, so that what was proved of  *)
(* each holds of both together, and what the two have to do with each      *)
(* other, which neither of them can state.                                 *)
(***************************************************************************)
EXTENDS Server, RequestPipelineProofs

Lives == INSTANCE ServerLifecycleProofs

\* The connection of a request is given from the start.
OnType == on \in [Request -> Conn]

-----------------------------------------------------------------------------
(***************************************************************************)
(* Every step is one of the pipeline and one of the server.                *)
(***************************************************************************)

\* To the requests, a step of the whole is a step of the pipeline, or none.
LEMMA StepOfPipeline == [ServerNext]_serverVars => [Next]_vars
<1> SUFFICES ASSUME [ServerNext]_serverVars PROVE [Next]_vars
    OBVIOUS
<1>1. ASSUME NEW r \in Request,
             \/ Arrive(r) \/ Layer(r) \/ Handler(r) \/ Expire(r) \/ Disconnect(r)
      PROVE  Next
  BY <1>1 DEF Next
<1>2. ASSUME NEW r \in Request, OfRequest(r) PROVE [Next]_vars
  <2>1. CASE Work(r) \/ AnswerIt(on[r], r) \/ BreakOff(on[r], r) \/ Store(on[r], r)
             \/ Switch(on[r], r)
    <3>1. Layer(r) \/ Handler(r)
      BY <2>1 DEF Work, AnswerIt, BreakOff, Fails, Store, Switch, Layer, Handler
    <3> QED
      BY <1>1, <3>1
  <2>2. CASE Read(on[r], r) \/ Deadline(on[r], r)
    BY <1>1, <2>2 DEF Read, Deadline
  <2> QED
    BY <1>2, <2>1, <2>2 DEF OfRequest
<1>3. ASSUME NEW c \in Conn, OfConnection(c) PROVE [Next]_vars
  <2>1. \/ UNCHANGED vars
        \/ \E r \in InFlight(c): Finish(r) \/ Disconnect(r)
    BY <1>3 DEF OfConnection, Wait, EndResponse, Leave, HandOver, EndSession
  <2>2. ASSUME NEW r \in InFlight(c), Finish(r) \/ Disconnect(r) PROVE Next
    BY <1>1, <2>2 DEF InFlight, Handler
  <2> QED
    BY <2>1, <2>2
<1>4. CASE Main \/ Over \/ UNCHANGED serverVars
  BY <1>4 DEF Main, Over, serverVars
<1> QED
  BY <1>2, <1>3, <1>4 DEF ServerNext

\* To the connections, it is a step of the server, or none.
LEMMA StepOfServer == OnType /\ [ServerNext]_serverVars => [Life!Next]_(Life!vars)
<1> SUFFICES ASSUME OnType, [ServerNext]_serverVars
             PROVE  Life!Next \/ UNCHANGED Life!vars
    OBVIOUS
<1>1. ASSUME UNCHANGED lifeVars PROVE UNCHANGED Life!vars
  BY <1>1 DEF lifeVars, Life!vars, Life!signals
<1>2. ASSUME NEW c \in Conn, Life!Connection(c) \/ Life!Session(c) PROVE Life!Next
  BY <1>2 DEF Life!Next
<1>3. ASSUME NEW r \in Request, OfRequest(r) PROVE Life!Next \/ UNCHANGED Life!vars
  <2>1. CASE Work(r)
    BY <1>1, <2>1 DEF Work
  <2>2. CASE ~Work(r)
    <3>1. on[r] \in Conn
      BY DEF OnType
    <3>2. Life!Connection(on[r])
      BY <1>3, <2>2 DEF OfRequest, Read, AnswerIt, BreakOff, Switch, Store, Deadline,
             Life!Connection
    <3> QED
      BY <1>2, <3>1, <3>2
  <2> QED
    BY <2>1, <2>2
<1>4. ASSUME NEW c \in Conn, OfConnection(c) PROVE Life!Next
  <2>1. Life!Connection(c) \/ Life!Session(c)
    BY <1>4 DEF OfConnection, Wait, EndResponse, Leave, HandOver, EndSession,
           Life!Connection, Life!Session
  <2> QED
    BY <1>2, <2>1
<1>5. CASE Main \/ Over
  BY <1>5 DEF Main, Over, Life!Next
<1>6. CASE UNCHANGED serverVars
  BY <1>1, <1>6 DEF serverVars
<1> QED
  BY <1>3, <1>4, <1>5, <1>6 DEF ServerNext

\* The connections of the requests do not change.
LEMMA OnKept == OnType /\ [ServerNext]_serverVars => OnType'
BY DEF OnType, ServerNext, serverVars

\* The requests of a server are those of RequestPipeline.
THEOREM ServesRequests == ServerSpec => Spec
<1>1. ServerInit => Init
  BY DEF ServerInit
<1> QED
  BY <1>1, StepOfPipeline, PTL DEF ServerSpec, Spec

\* Its connections and its end are those of ServerLifecycle.
THEOREM LivesAsServer == ServerSpec => Life!Spec
<1>1. ServerInit => Life!Init /\ OnType
  BY DEF ServerInit, OnType
<1> QED
  BY <1>1, StepOfServer, OnKept, PTL DEF ServerSpec, Life!Spec

\* So what an operator reads off /metrics and the log agrees with what happened,
\* whatever connections the requests come on and however the server ends.
THEOREM ServerCountersAgree == ServerSpec => []CountersAgree
BY ServesRequests, CountersAgreeAlways, PTL

\* A client can trust the status it gets.
THEOREM ServerAnswersJustified == ServerSpec => []AnswerJustified
BY ServesRequests, AnswersJustified, PTL

\* And every request is dealt with as the reference monitor asks.
THEOREM ServerMediates == ServerSpec => Implements
BY ServesRequests, Implementation, PTL

\* An answer is final.
THEOREM ServerAnswersFinal == ServerSpec => NothingAfterTheAnswer
BY ServesRequests, AnswersFinal, PTL

-----------------------------------------------------------------------------
(***************************************************************************)
(* The stage of a request and the state of its connection.                 *)
(***************************************************************************)

Handled == {"arrived", "collecting", "connecting", "forwarding"}

\* What the connection of a request is doing at each stage.
Linked(r) ==
    LET c == on[r]
    IN  /\ stage[r] \in Handled => conn[c] = "handling"
        /\ stage[r] = "switching" => conn[c] = "locking"
        /\ stage[r] = "relaying" => conn[c] = "streaming"
        /\ stage[r] = "spliced" =>
              \/ conn[c] = "switching"
              \/ c \in handed /\ session[c] \in {"joining", "copying", "severed"}

Busy(r) == stage[r] \notin {"absent", "closed"}

\* A connection is busy with one request at a time.
OneAtATime == \A r, q \in Request: Busy(r) /\ Busy(q) /\ on[r] = on[q] => r = q

\* What of ServerLifecycle's invariant the links rest on.
LifeFacts ==
    /\ conn \in [Conn -> Life!ConnStates]
    /\ session \in [Conn -> Life!SessionStates]
    /\ \A c \in Conn: c \in handed => conn[c] = "closed"
    /\ \A c \in Conn: conn[c] = "switching" => session[c] # "none"
    /\ phase \in {"draining", "exited"} => \A c \in Conn: conn[c] \in {"new", "closed"}

Links == \A r \in Request: Linked(r)

\* To a request, all but its own connection's steps are no steps: the variables it
\* is linked by.
LEMMA Elsewhere ==
    ASSUME OnType, NEW q \in Request, Linked(q), UNCHANGED on, stage'[q] = stage[q],
           conn'[on[q]] = conn[on[q]], session'[on[q]] = session[on[q]],
           on[q] \in handed => on[q] \in handed'
    PROVE  Linked(q)'
BY DEF Linked

\* An idle request's stage links it to nothing.
LEMMA Unlinked == ASSUME NEW q \in Request, stage'[q] \in {"absent", "closed"}
                  PROVE  Linked(q)'
BY DEF Linked, Handled

\* The server's own steps, and those that let a connection wait.
LEMMA MainLinks ==
    ASSUME OnType, TypeOK, LifeFacts, Links, UNCHANGED on,
           Main \/ \E c \in Conn: Wait(c)
    PROVE  Links'
<1> SUFFICES ASSUME NEW q \in Request PROVE Linked(q)'
    BY DEF Links
<1>1. Linked(q) /\ on[q] \in Conn /\ stage' = stage
  BY DEF Links, OnType, Main, Wait, vars
<1>2. CASE Main
  <2>1. conn' = conn /\ handed' = handed
    BY <1>2 DEF Main, Life!Server, Life!Signal, Life!SendSignal, Life!Start,
           Life!StartFail, Life!BeginDrain, Life!DrainJoined, Life!DrainTimeout, Life!Exit
  <2>2. \/ session' = session
        \/ session' = [c \in Conn |-> IF Life!Live(c) THEN "severed" ELSE session[c]]
    BY <1>2 DEF Main, Life!Server, Life!Signal, Life!SendSignal, Life!Start,
           Life!StartFail, Life!BeginDrain, Life!DrainJoined, Life!DrainTimeout, Life!Exit
  <2> QED
    BY <1>1, <2>1, <2>2 DEF Linked, Life!Live
<1>3. ASSUME NEW c \in Conn, Wait(c) PROVE Linked(q)'
  <2>1. CASE Life!Accept(c)
    BY <1>1, <2>1 DEF Life!Accept, Life!Move, LifeFacts, Linked, Handled
  <2>2. CASE Life!CloseIdle(c)
    BY <1>1, <2>2 DEF Life!CloseIdle, Life!Move, LifeFacts, Linked, Handled
  <2>3. CASE Life!Join(c)
    BY <1>1, <2>3 DEF Life!Join, LifeFacts, Linked, Handled
  <2> QED
    BY <1>3, <2>1, <2>2, <2>3 DEF Wait
<1> QED
  BY <1>2, <1>3

\* What a step of a request leaves alone: the other requests, and the other
\* connections.
LEMMA RequestLocal ==
    ASSUME OnType, TypeOK, LifeFacts, NEW r \in Request, OfRequest(r)
    PROVE  /\ Busy(r) \/ (conn[on[r]] = "idle" /\ Life!Receive(on[r]))
           /\ \A q \in Request \ {r}: stage'[q] = stage[q]
           /\ \A c \in Conn \ {on[r]}: conn'[c] = conn[c] /\ session'[c] = session[c]
           /\ handed' = handed
<1>1. on[r] \in Conn
  BY DEF OnType
<1> USE <1>1 DEF TypeOK, LifeFacts, Busy
<1>2. CASE Read(on[r], r)
  BY <1>2 DEF Read, Arrive, Life!Receive, Life!Move
<1>3. CASE Work(r)
  BY <1>3 DEF Work, AdmitHead, BeginCollect, AdmitBody, Connect, SendBuffered, CollectFrame,
         StreamFrame, Admit, Sending, lifeVars
<1>4. CASE AnswerIt(on[r], r)
  BY <1>4 DEF AnswerIt, Fails, Life!Respond, Life!Move, DenyHead, DenyDeclared,
         CollectError, DenyBody, CollectOverrun, ConnectFail, RefuseSwitch, Respond,
         ForwardFail, StreamOverrun, Reject, Close
<1>5. CASE BreakOff(on[r], r)
  BY <1>5 DEF BreakOff, Fails, Life!Drop, Life!Move, ForwardFail, StreamOverrun, Close
<1>6. CASE Switch(on[r], r)
  BY <1>6 DEF Switch, Life!Spawn, Life!Move, SwitchProtocols
<1>7. CASE Store(on[r], r)
  BY <1>7 DEF Store, Life!Push, Life!Move, Splice
<1>8. CASE Deadline(on[r], r)
  BY <1>8 DEF Deadline, Life!Expire, Life!Move, Expire, Pending, Close
<1> QED
  BY <1>2, <1>3, <1>4, <1>5, <1>6, <1>7, <1>8 DEF OfRequest

\* The steps of a request keep it linked to its connection, and leave no other
\* request linked to that.
LEMMA RequestLinks ==
    ASSUME OnType, TypeOK, LifeFacts, Links, OneAtATime, UNCHANGED on,
           NEW r \in Request, OfRequest(r)
    PROVE  Links'
<1> SUFFICES ASSUME NEW q \in Request PROVE Linked(q)'
    BY DEF Links
<1>1. Linked(q) /\ Linked(r) /\ on[q] \in Conn /\ on[r] \in Conn
  BY DEF Links, OnType
<1>2. CASE q # r /\ on[q] # on[r]
  BY <1>1, <1>2, RequestLocal, Elsewhere
<1>3. CASE q # r /\ on[q] = on[r]
  <2>1. stage[q] \in {"absent", "closed"}
    <3>1. CASE Busy(r)
      BY <1>3, <3>1 DEF Busy, OneAtATime
    <3>2. CASE conn[on[r]] = "idle"
      BY <1>1, <1>3, <3>2 DEF Linked, Handled, LifeFacts, TypeOK, Stages
    <3> QED
      BY <3>1, <3>2, RequestLocal
  <2> QED
    BY <1>3, <2>1, RequestLocal, Unlinked
<1>4. CASE q = r
  <2> USE <1>1, <1>4 DEF TypeOK, LifeFacts, Linked, Handled
  <2>1. CASE Read(on[r], r)
    BY <2>1 DEF Read, Arrive, Life!Receive, Life!Move
  <2>2. CASE Work(r)
    BY <2>2 DEF Work, AdmitHead, BeginCollect, AdmitBody, Connect, SendBuffered, CollectFrame,
           StreamFrame, Admit, lifeVars
  <2>3. CASE AnswerIt(on[r], r)
    BY <2>3 DEF AnswerIt, Fails, Life!Respond, Life!Move, DenyHead, DenyDeclared,
           CollectError, DenyBody, CollectOverrun, ConnectFail, RefuseSwitch, Respond,
           ForwardFail, StreamOverrun, Reject, Close
  <2>4. CASE BreakOff(on[r], r)
    BY <2>4 DEF BreakOff, Fails, Life!Drop, Life!Move, ForwardFail, StreamOverrun, Close
  <2>5. CASE Switch(on[r], r)
    BY <2>5 DEF Switch, Life!Spawn, Life!Move, SwitchProtocols
  <2>6. CASE Store(on[r], r)
    BY <2>6 DEF Store, Life!Push, Life!Move, Splice
  <2>7. CASE Deadline(on[r], r)
    BY <2>7 DEF Deadline, Life!Expire, Life!Move, Expire, Close
  <2> QED
    BY <2>1, <2>2, <2>3, <2>4, <2>5, <2>6, <2>7 DEF OfRequest
<1> QED
  BY <1>2, <1>3, <1>4

\* What a step of a connection leaves alone, and what it leads to for the request
\* that the connection is busy with, if any: that is over, unless the connection
\* has just been handed to a copying task that lives, or a copying task ended that
\* it does not depend on.
LEMMA ConnectionLocal ==
    ASSUME OnType, TypeOK, LifeFacts, OneAtATime, NEW c \in Conn,
           EndResponse(c) \/ Leave(c) \/ HandOver(c) \/ EndSession(c)
    PROVE  /\ \A q \in Request: on[q] # c => stage'[q] = stage[q]
           /\ \A q \in Request: stage'[q] \in {stage[q], "closed"}
           /\ \A d \in Conn \ {c}: conn'[d] = conn[d] /\ session'[d] = session[d]
           /\ handed \subseteq handed'
           /\ \/ \A q \in Request: on[q] = c => stage'[q] \in {"absent", "closed"}
              \/ Life!HandOver(c) /\ session[c] # "ended" /\ UNCHANGED vars
              \/ EndSession(c) /\ conn[c] # "closed" /\ UNCHANGED vars
<1> USE DEF TypeOK, LifeFacts
<1>1. \/ UNCHANGED vars
      \/ \E r \in InFlight(c): stage' = [stage EXCEPT ![r] = "closed"]
  BY DEF EndResponse, Leave, HandOver, EndSession, Finish, Disconnect, Close
<1>2. /\ \A d \in Conn \ {c}: conn'[d] = conn[d] /\ session'[d] = session[d]
      /\ handed \subseteq handed'
  BY DEF EndResponse, Leave, HandOver, EndSession, Life!FinishResponse, Life!Drop,
     Life!HandOver, Life!ClientHalfFails, Life!SessionEnds, Life!Move
<1>3. \/ InFlight(c) = {} /\ UNCHANGED vars
      \/ \E r \in InFlight(c): stage' = [stage EXCEPT ![r] = "closed"]
      \/ Life!HandOver(c) /\ session[c] # "ended" /\ UNCHANGED vars
      \/ EndSession(c) /\ conn[c] # "closed" /\ UNCHANGED vars
  BY DEF EndResponse, Leave, HandOver, EndSession, Finish, Disconnect, Close
<1>4. ASSUME NEW r \in InFlight(c), stage' = [stage EXCEPT ![r] = "closed"]
      PROVE  /\ \A q \in Request: on[q] # c => stage'[q] = stage[q]
             /\ \A q \in Request: on[q] = c => stage'[q] \in {"absent", "closed"}
  BY <1>4 DEF InFlight, OneAtATime, Busy, Stages
<1>5. ASSUME InFlight(c) = {}, UNCHANGED vars
      PROVE  \A q \in Request: on[q] = c => stage'[q] \in {"absent", "closed"}
  BY <1>5 DEF InFlight, vars
<1>6. \A q \in Request: stage'[q] \in {stage[q], "closed"}
  BY <1>1 DEF vars
<1>7. \A q \in Request: on[q] # c => stage'[q] = stage[q]
  BY <1>1, <1>4 DEF vars
<1> QED
  BY <1>2, <1>3, <1>4, <1>5, <1>6, <1>7

\* They keep the links.
LEMMA ConnectionLinks ==
    ASSUME OnType, TypeOK, LifeFacts, Links, OneAtATime, UNCHANGED on, NEW c \in Conn,
           EndResponse(c) \/ Leave(c) \/ HandOver(c) \/ EndSession(c)
    PROVE  Links'
<1> SUFFICES ASSUME NEW q \in Request PROVE Linked(q)'
    BY DEF Links
<1>1. Linked(q) /\ on[q] \in Conn
  BY DEF Links, OnType
<1>2. CASE on[q] # c
  BY <1>1, <1>2, ConnectionLocal, Elsewhere
<1>3. CASE on[q] = c /\ stage'[q] \in {"absent", "closed"}
  BY <1>3, Unlinked
<1>4. CASE on[q] = c /\ Life!HandOver(c) /\ session[c] # "ended" /\ UNCHANGED vars
  <2>1. conn[c] = "switching" /\ session[c] \in {"joining", "copying", "severed"}
    BY <1>4 DEF Life!HandOver, LifeFacts, Life!SessionStates
  <2> QED
    BY <1>1, <1>4, <2>1 DEF Life!HandOver, Linked, Handled, vars
<1>5. CASE on[q] = c /\ EndSession(c) /\ conn[c] # "closed" /\ UNCHANGED vars
  <2>1. UNCHANGED <<conn, handed>> /\ c \notin handed /\ stage' = stage
    BY <1>5 DEF EndSession, Life!ClientHalfFails, Life!SessionEnds, LifeFacts, vars
  <2> QED
    BY <1>1, <1>5, <2>1 DEF Linked
<1> QED
  BY <1>2, <1>3, <1>4, <1>5, ConnectionLocal

\* Nor does any step make a second request busy on a connection.
LEMMA OneKept ==
    ASSUME OnType, TypeOK, LifeFacts, Links, OneAtATime, [ServerNext]_serverVars
    PROVE  OneAtATime'
<1> SUFFICES ASSUME NEW r \in Request, NEW q \in Request, (Busy(r) /\ Busy(q))',
                    on[r] = on[q]
             PROVE  r = q
    BY DEF OneAtATime, ServerNext, serverVars
<1>1. ASSUME \A p \in Request: Busy(p)' => Busy(p) PROVE r = q
  BY <1>1 DEF OneAtATime
<1>2. CASE UNCHANGED serverVars \/ Main \/ Over \/ \E c \in Conn: Wait(c)
  BY <1>1, <1>2 DEF serverVars, vars, Main, Over, Wait, Busy
<1>3. ASSUME NEW c \in Conn, EndResponse(c) \/ Leave(c) \/ HandOver(c) \/ EndSession(c)
      PROVE  r = q
  BY <1>1, <1>3, ConnectionLocal DEF Busy
<1>4. ASSUME NEW p \in Request, OfRequest(p) PROVE r = q
  <2>1. CASE Busy(p)
    BY <1>1, <1>4, <2>1, RequestLocal DEF Busy
  <2>2. CASE conn[on[p]] = "idle"
    <3>1. \A s \in Request \ {p}: Busy(s)' => Busy(s) /\ on[s] # on[p]
      <4> SUFFICES ASSUME NEW s \in Request \ {p}, Busy(s)'
                   PROVE  Busy(s) /\ on[s] # on[p]
          OBVIOUS
      <4>1. Busy(s) /\ stage[s] \in Stages /\ Linked(s)
        BY <1>4, RequestLocal DEF Busy, TypeOK, Links
      <4>2. on[s] \in Conn
        BY DEF OnType
      <4> QED
        BY <2>2, <4>1, <4>2 DEF Busy, Stages, Linked, Handled, LifeFacts
    <3> QED
      BY <3>1 DEF OneAtATime
  <2> QED
    BY <1>4, <2>1, <2>2, RequestLocal
<1> QED
  BY <1>2, <1>3, <1>4 DEF ServerNext, OfConnection

-----------------------------------------------------------------------------
(***************************************************************************)
(* The invariant, and what rests on it.                                    *)
(***************************************************************************)

\* ServerLifecycle's own invariant says what the links need of it.
LEMMA LifeSays == Lives!IInv => LifeFacts
BY DEF Lives!IInv, Lives!TypeOK, Lives!Kept, Lives!ConnStates, Lives!SessionStates,
   Lives!Tracked, LifeFacts, Life!ConnStates, Life!SessionStates

\* The server that the proofs of ServerLifecycle speak of is the one of Server.
LEMMA SameServer ==
    /\ Life!Init => Lives!Init
    /\ [Life!Next]_(Life!vars) => [Lives!Next]_(Lives!vars)
<1>1. Life!Init => Lives!Init
  BY DEF Life!Init, Lives!Init, Life!signals, Lives!signals
<1>2. Life!Server => Lives!Server
  BY DEF Life!Server, Lives!Server, Life!Start, Lives!Start, Life!StartFail,
     Lives!StartFail, Life!BeginDrain, Lives!BeginDrain, Life!DrainJoined,
     Lives!DrainJoined, Life!DrainTimeout, Lives!DrainTimeout, Life!Exit,
     Lives!Exit, Life!Live, Lives!Live, Life!signals, Lives!signals
<1>3. \A c \in Conn: Life!Connection(c) => Lives!Connection(c)
  BY DEF Life!Connection, Lives!Connection, Life!Accept, Lives!Accept, Life!Receive,
     Lives!Receive, Life!CloseIdle, Lives!CloseIdle, Life!Respond, Lives!Respond,
     Life!FinishResponse, Lives!FinishResponse, Life!Spawn, Lives!Spawn, Life!Push,
     Lives!Push, Life!HandOver, Lives!HandOver, Life!Expire, Lives!Expire,
     Life!Drop, Lives!Drop, Life!Running, Lives!Running, Life!Move, Lives!Move,
     Life!signals, Lives!signals
<1>4. \A c \in Conn: Life!Session(c) => Lives!Session(c)
  BY DEF Life!Session, Lives!Session, Life!Join, Lives!Join, Life!ClientHalfFails,
     Lives!ClientHalfFails, Life!SessionEnds, Lives!SessionEnds, Life!Live,
     Lives!Live, Life!Orphaned, Lives!Orphaned, Life!Running, Lives!Running,
     Life!signals, Lives!signals
<1>5. /\ Life!Signal => Lives!Signal
      /\ Life!Signals = Lives!Signals
      /\ \A s \in Life!Signals: Life!SendSignal(s) => Lives!SendSignal(s)
  BY DEF Life!Signal, Lives!Signal, Life!SendSignal, Lives!SendSignal, Life!Heard,
     Lives!Heard, Life!Signals, Lives!Signals, Life!signals, Lives!signals
<1>6. /\ Life!Stopped => Lives!Stopped
      /\ Life!Waiting => Lives!Waiting
      /\ Life!vars = Lives!vars /\ Life!vars' = Lives!vars'
  BY DEF Life!Stopped, Lives!Stopped, Life!Waiting, Lives!Waiting, Life!vars,
     Lives!vars, Life!signals, Lives!signals
<1> QED
  BY <1>1, <1>2, <1>3, <1>4, <1>5, <1>6 DEF Life!Next, Lives!Next

\* The server has the invariant of ServerLifecycle.
LEMMA LifeInvariant == ServerSpec => []Lives!IInv
<1>1. Life!Init => Lives!IInv
  BY SameServer, Lives!InitIInv, TimeoutType, InstallableType DEF Life!Signals, Lives!Signals
<1>2. Lives!IInv /\ [Life!Next]_(Life!vars) => Lives!IInv'
  BY SameServer, Lives!NextIInv, TimeoutType, InstallableType DEF Life!Signals, Lives!Signals
<1> QED
  BY <1>1, <1>2, LivesAsServer, PTL DEF Life!Spec

\* So with the requests that lead to them no session is cut off by the end of the
\* process without its drain window.
THEOREM ServerSeversOutstayed == ServerSpec => []Life!SeveredOutstayed
<1>1. Lives!IInv => Life!SeveredOutstayed
  BY DEF Lives!IInv, Lives!Kept, Lives!Live, Life!SeveredOutstayed, Life!Live
<1> QED
  BY <1>1, LifeInvariant, PTL

\* The requests and their connections keep in step.
LEMMA LinksInvariant == ServerSpec => [](OnType /\ Links /\ OneAtATime)
<1> DEFINE Known == OnType /\ Links /\ OneAtATime
<1>1. ServerInit => Known
  BY DEF ServerInit, Init, OnType, Links, Linked, Handled, OneAtATime, Busy
<1>2. TypeOK /\ Lives!IInv /\ Known /\ [ServerNext]_serverVars => Known'
  <2> SUFFICES ASSUME TypeOK, LifeFacts, Known, [ServerNext]_serverVars PROVE Known'
      BY LifeSays
  <2>1. OnType' /\ OneAtATime' /\ UNCHANGED on
    BY OnKept, OneKept DEF ServerNext, serverVars
  <2>2. Links'
    <3>1. CASE UNCHANGED serverVars \/ Over
      <4>1. UNCHANGED <<stage, conn, session, handed, on>>
        BY <2>1, <3>1 DEF serverVars, vars, lifeVars, Over, Life!Stopped, Life!Waiting,
               Life!vars
      <4> QED
        BY <4>1 DEF Links, Linked
    <3>2. CASE Main \/ \E c \in Conn: Wait(c)
      BY <2>1, <3>2, MainLinks
    <3>3. ASSUME NEW r \in Request, OfRequest(r) PROVE Links'
      BY <2>1, <3>3, RequestLinks
    <3>4. ASSUME NEW c \in Conn, EndResponse(c) \/ Leave(c) \/ HandOver(c) \/ EndSession(c)
          PROVE  Links'
      BY <2>1, <3>4, ConnectionLinks
    <3> QED
      BY <3>1, <3>2, <3>3, <3>4 DEF ServerNext, OfConnection
  <2> QED
    BY <2>1, <2>2
<1>3. ServerSpec => []TypeOK
  BY ServesRequests, TypeCorrect, PTL
<1> QED
  BY <1>1, <1>2, <1>3, LifeInvariant, PTL DEF ServerSpec

\* Nobody is forgotten when the server ends: a request that is not over when the
\* drain begins has its session in the list (serve, drain_upgrades).
THEOREM NobodyForgotten == ServerSpec => []NoneForgotten
<1>1. IInv /\ Lives!IInv /\ OnType /\ Links => NoneForgotten
  <2> SUFFICES ASSUME IInv, Lives!IInv, OnType, Links,
                      phase \in {"draining", "exited"}, NEW r \in Request,
                      stage[r] \notin {"absent", "closed"}
               PROVE  /\ stage[r] = "spliced" /\ answer[r] = "Switching"
                      /\ on[r] \in Life!Range(queue) \cup outstayed
      BY DEF NoneForgotten
  <2>1. on[r] \in Conn /\ conn[on[r]] \in {"new", "closed"}
    BY LifeSays DEF OnType, LifeFacts
  <2>2. /\ stage[r] = "spliced"
        /\ on[r] \in handed /\ session[on[r]] \in {"joining", "copying", "severed"}
    BY <2>1 DEF Links, Linked, Handled, IInv, TypeOK, Stages
  <2>3. answer[r] = "Switching"
    BY <2>2 DEF IInv, Staged
  <2>4. tasks = <<>> /\ on[r] \in Lives!Tracked
    BY <2>1, <2>2 DEF Lives!IInv, Lives!Lists, Lives!Kept, Lives!Tracked
  <2>5. on[r] \in Life!Range(queue) \cup outstayed
    BY <2>4 DEF Lives!Tracked, Lives!Range, Life!Range
  <2> QED
    BY <2>2, <2>3, <2>5
<1>2. ServerSpec => []IInv
  BY ServesRequests, InitIInv, NextIInv, PTL DEF Spec
<1> QED
  BY <1>1, <1>2, LifeInvariant, LinksInvariant, PTL

\* A request's head is fixed, and what was let through or sent on stays so.
LEMMA NextKeeps ==
    ASSUME [Next]_vars
    PROVE  /\ asked' = asked
           /\ admitted \subseteq admitted' /\ contacted \subseteq contacted'
<1>1. ASSUME NEW r \in Request, Layer(r)
      PROVE  asked' = asked /\ admitted \subseteq admitted' /\ contacted \subseteq contacted'
  BY <1>1 DEF Layer, DenyHead, DenyDeclared, AdmitHead, BeginCollect, CollectError, AdmitBody,
         DenyBody, CollectFrame, CollectOverrun, Reject, Admit
<1>2. ASSUME NEW r \in Request, Handler(r)
      PROVE  asked' = asked /\ admitted \subseteq admitted' /\ contacted \subseteq contacted'
  BY <1>2 DEF Handler, Connect, ConnectFail, SendBuffered, ForwardFail, Respond,
         SwitchProtocols, RefuseSwitch, Splice, Finish, StreamFrame, StreamOverrun
<1> QED
  BY <1>1, <1>2 DEF Next, vars, Arrive, Expire, Disconnect, Done

\* Only the handler of a request that switches protocols spawns a copying task.
LEMMA NewSession ==
    ASSUME OnType, LifeFacts, [ServerNext]_serverVars,
           NEW c \in Conn, session[c] = "none", session'[c] # "none"
    PROVE  \E r \in Request: Switch(on[r], r) /\ on[r] = c
<1> USE DEF LifeFacts
<1>1. ~(UNCHANGED serverVars \/ Over)
  BY DEF serverVars, lifeVars, Over, Life!Stopped, Life!Waiting, Life!vars
<1>2. ~Main
  BY DEF Main, Life!Server, Life!Signal, Life!SendSignal, Life!Start, Life!StartFail,
     Life!BeginDrain, Life!DrainJoined, Life!DrainTimeout, Life!Exit, Life!Live
<1>3. ASSUME NEW d \in Conn, OfConnection(d) PROVE FALSE
  BY <1>3 DEF OfConnection, Wait, EndResponse, Leave, HandOver, EndSession, Life!Accept,
     Life!CloseIdle, Life!Join, Life!FinishResponse, Life!Drop, Life!HandOver,
     Life!ClientHalfFails, Life!SessionEnds, Life!Live, Life!Move
<1>4. PICK r \in Request: OfRequest(r)
  BY <1>1, <1>2, <1>3 DEF ServerNext
<1>5. on[r] \in Conn
  BY DEF OnType
<1>6. Switch(on[r], r)
  BY <1>4 DEF OfRequest, Read, Work, AnswerIt, BreakOff, Store, Deadline, Life!Receive,
     Life!Respond, Life!Drop, Life!Push, Life!Expire, lifeVars
<1>7. on[r] = c
  BY <1>5, <1>6 DEF Switch, Life!Spawn
<1> QED
  BY <1>6, <1>7

\* A tunnel exists only where the policy let through a request that asked for one
\* (switch_protocols).
THEOREM SessionsAlwaysAuthorised == ServerSpec => []SessionsAuthorised
<1>1. ServerInit => SessionsAuthorised
  BY DEF ServerInit, Life!Init, SessionsAuthorised
<1>2. IInv /\ Lives!IInv /\ OnType /\ SessionsAuthorised /\ [ServerNext]_serverVars
         => SessionsAuthorised'
  <2> SUFFICES ASSUME IInv, LifeFacts, OnType, SessionsAuthorised, [ServerNext]_serverVars,
                      NEW c \in Conn, session'[c] # "none"
               PROVE  (\E r \in Request:
                          /\ on[r] = c /\ r \in admitted \cap contacted
                          /\ asked[r].upgrade /\ Rule(r) \notin HeadErrors)'
      BY LifeSays DEF SessionsAuthorised
  <2>1. /\ UNCHANGED <<on, asked>>
        /\ admitted \subseteq admitted' /\ contacted \subseteq contacted'
    <3>1. [Next]_vars /\ UNCHANGED on
      BY StepOfPipeline DEF ServerNext, serverVars
    <3> QED
      BY <3>1, NextKeeps
  <2>2. CASE session[c] # "none"
    BY <2>1, <2>2 DEF SessionsAuthorised, Rule
  <2>3. CASE session[c] = "none"
    <3>1. PICK r \in Request: Switch(on[r], r) /\ on[r] = c
      BY <2>3, NewSession
    <3>2. r \in admitted /\ r \in contacted /\ asked[r].upgrade /\ Rule(r) \notin HeadErrors
      BY <3>1 DEF Switch, SwitchProtocols, IInv, Staged, Vetted
    <3> QED
      BY <2>1, <3>1, <3>2 DEF Rule
  <2> QED
    BY <2>2, <2>3
<1>3. ServerSpec => []IInv
  BY ServesRequests, InitIInv, NextIInv, PTL DEF Spec
<1> QED
  BY <1>1, <1>2, <1>3, LifeInvariant, LinksInvariant, PTL DEF ServerSpec

\* A server that drains decides nothing more, and sends nothing on.
THEOREM NothingMoreWhileDraining == ServerSpec => NothingWhileDraining
<1>1. Lives!IInv /\ OnType /\ TypeOK /\ Links /\ [ServerNext]_serverVars
        => [(phase \in {"draining", "exited"}) =>
               UNCHANGED <<admitted, contacted, upstream, allowed, denied, audited>>]_serverVars
  <2> SUFFICES ASSUME LifeFacts, OnType, TypeOK, Links, ServerNext,
                      phase \in {"draining", "exited"}
               PROVE  UNCHANGED <<admitted, contacted, upstream, allowed, denied, audited>>
      BY LifeSays DEF serverVars, vars
  <2>1. \A c \in Conn: conn[c] \in {"new", "closed"}
    BY DEF LifeFacts
  <2>2. \A r \in Request: on[r] \in Conn /\ stage[r] \in {"absent", "spliced", "closed"}
    BY <2>1 DEF Links, Linked, Handled, OnType, TypeOK, Stages
  <2>3. ASSUME NEW r \in Request, OfRequest(r) PROVE FALSE
    <3> DEFINE c == on[r]
    <3>1. ~(Read(c, r) \/ AnswerIt(c, r) \/ BreakOff(c, r) \/ Switch(c, r) \/ Store(c, r)
             \/ Deadline(c, r))
      BY <2>1, <2>2 DEF Read, AnswerIt, BreakOff, Switch, Store, Deadline, Life!Receive,
             Life!Respond, Life!Drop, Life!Spawn, Life!Push, Life!Expire
    <3>2. ~Work(r)
      BY <2>2 DEF Work, AdmitHead, BeginCollect, AdmitBody, Connect, SendBuffered,
             CollectFrame, StreamFrame, Sending
    <3> QED
      BY <2>3, <3>1, <3>2 DEF OfRequest
  <2>4. ASSUME NEW c \in Conn, OfConnection(c)
        PROVE  UNCHANGED <<admitted, contacted, upstream, allowed, denied, audited>>
    BY <2>4 DEF OfConnection, Wait, EndResponse, Leave, HandOver, EndSession, Finish,
       Disconnect, vars
  <2>5. CASE Main \/ Over
    BY <2>5 DEF Main, Over, vars
  <2> QED
    BY <2>3, <2>4, <2>5 DEF ServerNext
<1>2. ServerSpec => []TypeOK
  BY ServesRequests, TypeCorrect, PTL
<1> QED
  BY <1>1, <1>2, LifeInvariant, LinksInvariant, PTL DEF ServerSpec, NothingWhileDraining
=============================================================================
