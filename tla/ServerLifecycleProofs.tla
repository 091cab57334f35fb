------------------------ MODULE ServerLifecycleProofs ------------------------
(***************************************************************************)
(* Theorems of ServerLifecycle, for any set of connections: the drain at   *)
(* shutdown knows every live session, so that none is cut off without its  *)
(* window.                                                                 *)
(***************************************************************************)
EXTENDS ServerLifecycle, TLAPS

\* What holds of a single connection and its session.
Kept(c) ==
    /\ phase = "starting" => conn[c] = "new"
    /\ conn[c] = "new" => session[c] = "none" /\ c \notin handed
    /\ conn[c] \in {"locking", "switching"} => c \notin handed
    /\ c \in handed => conn[c] = "closed"
    /\ conn[c] = "locking" => session[c] # "none" /\ c \notin Tracked
    /\ session[c] = "none" => c \notin Tracked /\ c \notin handed
    /\ conn[c] = "switching" \/ c \in handed =>
          c \in Tracked \/ session[c] \in {"ended", "severed"}
    /\ session[c] = "severed" => phase = "exited" /\ (c \in handed => c \in outstayed)
    /\ phase = "exited" => ~Live(c)
    /\ phase \in {"draining", "exited"} => conn[c] \in {"new", "closed"}

\* What holds of the two lists of handles.
Lists ==
    /\ IsInjective(tasks) /\ IsInjective(queue)
    /\ phase \in {"draining", "exited"} => tasks = <<>>
    /\ phase # "draining" => queue = <<>>
    /\ phase \notin {"draining", "exited"} => outstayed = {}

IInv == TypeOK /\ Lists /\ ShutdownWasAsked /\ \A c \in Conn: Kept(c)

-----------------------------------------------------------------------------

\* A handle pushed is one handle more, and an old one is not pushed again.
LEMMA AppendHandle ==
    ASSUME NEW S, NEW s \in Seq(S), NEW e \in S
    PROVE  /\ Append(s, e) \in Seq(S)
           /\ Range(Append(s, e)) = Range(s) \cup {e}
           /\ IsInjective(s) /\ e \notin Range(s) => IsInjective(Append(s, e))
<1>1. /\ Append(s, e) \in Seq(S)
      /\ Len(Append(s, e)) = Len(s) + 1
      /\ \A i \in 1..Len(s): Append(s, e)[i] = s[i]
      /\ Append(s, e)[Len(s) + 1] = e
      /\ DOMAIN s = 1..Len(s) /\ DOMAIN Append(s, e) = 1..Len(s) + 1
      /\ Len(s) \in Nat
  OBVIOUS
<1>2. Range(Append(s, e)) = Range(s) \cup {e}
  BY <1>1 DEF Range
<1>3. IsInjective(s) /\ e \notin Range(s) => IsInjective(Append(s, e))
  BY <1>1 DEF Range, IsInjective
<1> QED
  BY <1>1, <1>2, <1>3

\* Taking the first handle off leaves the others, once each.
LEMMA TailHandles ==
    ASSUME NEW S, NEW s \in Seq(S), s # <<>>
    PROVE  /\ Head(s) \in S /\ Tail(s) \in Seq(S)
           /\ Range(s) = Range(Tail(s)) \cup {Head(s)}
           /\ IsInjective(s) => IsInjective(Tail(s))
<1>1. /\ Head(s) = s[1] /\ Head(s) \in S
      /\ Tail(s) \in Seq(S)
      /\ Len(Tail(s)) = Len(s) - 1 /\ Len(s) \in Nat /\ Len(s) >= 1
      /\ DOMAIN s = 1..Len(s) /\ DOMAIN Tail(s) = 1..(Len(s) - 1)
      /\ \A i \in 1..(Len(s) - 1): Tail(s)[i] = s[i + 1]
  OBVIOUS
<1>2. Range(s) = Range(Tail(s)) \cup {Head(s)}
  <2>1. ASSUME NEW i \in 1..Len(s) PROVE s[i] \in Range(Tail(s)) \cup {Head(s)}
    <3>1. CASE i = 1
      BY <1>1, <3>1
    <3>2. CASE i # 1
      <4>1. i - 1 \in 1..(Len(s) - 1) /\ Tail(s)[i - 1] = s[i]
        BY <1>1, <3>2
      <4> QED
        BY <1>1, <4>1 DEF Range
    <3> QED
      BY <3>1, <3>2
  <2>2. ASSUME NEW i \in 1..(Len(s) - 1) PROVE Tail(s)[i] \in Range(s)
    BY <1>1 DEF Range
  <2>3. Range(s) \subseteq Range(Tail(s)) \cup {Head(s)}
    BY <1>1, <2>1 DEF Range
  <2>4. Range(Tail(s)) \subseteq Range(s)
    BY <1>1, <2>2 DEF Range
  <2>5. Head(s) \in Range(s)
    BY <1>1 DEF Range
  <2> QED
    BY <2>3, <2>4, <2>5
<1>3. IsInjective(s) => IsInjective(Tail(s))
  BY <1>1 DEF IsInjective
<1> QED
  BY <1>1, <1>2, <1>3

\* The empty list.
LEMMA NoHandles ==
    ASSUME NEW S
    PROVE  <<>> \in Seq(S) /\ Range(<<>>) = {} /\ IsInjective(<<>>)
BY DEF Range, IsInjective

-----------------------------------------------------------------------------

\* The initial state satisfies the invariant.
LEMMA InitIInv == Init => IInv
<1> SUFFICES ASSUME Init PROVE IInv
    OBVIOUS
<1>1. TypeOK
  BY NoHandles, InstallableType DEF Init, TypeOK, Phases, ConnStates, SessionStates
<1>2. Lists /\ ShutdownWasAsked
  BY NoHandles DEF Init, Lists, ShutdownWasAsked
<1>3. Tracked = {}
  BY NoHandles DEF Init, Tracked
<1>4. ASSUME NEW c \in Conn PROVE Kept(c)
  BY <1>3 DEF Init, Kept, Live
<1> QED
  BY <1>1, <1>2, <1>4 DEF IInv

\* Steps of a connection or of its session that leave the lists alone.
LEMMA OrdinaryStep ==
    ASSUME IInv, NEW d \in Conn, UNCHANGED <<phase, tasks, queue, outstayed, signals>>,
           \/ Accept(d) \/ Receive(d) \/ CloseIdle(d) \/ Respond(d) \/ FinishResponse(d)
           \/ Spawn(d) \/ HandOver(d) \/ Expire(d) \/ Drop(d)
           \/ Join(d) \/ ClientHalfFails(d) \/ SessionEnds(d)
    PROVE  IInv'
<1> USE DEF IInv
<1>1. TypeOK'
  BY DEF signals, TypeOK, ConnStates, SessionStates, Move, Accept, Receive, CloseIdle, Respond,
     FinishResponse, Spawn, HandOver, Expire, Drop, Join, ClientHalfFails, SessionEnds
<1>2. Lists' /\ ShutdownWasAsked'
  BY DEF Lists, ShutdownWasAsked, Heard, signals
<1>3. Tracked' = Tracked
  BY DEF Tracked
<1>4. ASSUME NEW c \in Conn PROVE Kept(c)'
  <2> USE <1>3 DEF TypeOK, Kept, Live, Move, Running
  <2>1. CASE Accept(d) \/ Receive(d) \/ CloseIdle(d) \/ Respond(d) \/ FinishResponse(d)
    BY <2>1 DEF Accept, Receive, CloseIdle, Respond, FinishResponse
  <2>2. CASE Spawn(d)
    BY <2>2 DEF Spawn
  <2>3. CASE HandOver(d)
    BY <2>3 DEF HandOver
  <2>4. CASE Expire(d) \/ Drop(d)
    BY <2>4 DEF Expire, Drop
  <2>5. CASE Join(d) \/ ClientHalfFails(d) \/ SessionEnds(d)
    BY <2>5 DEF Join, ClientHalfFails, SessionEnds
  <2> QED
    BY <2>1, <2>2, <2>3, <2>4, <2>5
<1> QED
  BY <1>1, <1>2, <1>4

\* A handler pushes its handle.
LEMMA PushStep == ASSUME IInv, NEW d \in Conn, Push(d) PROVE IInv'
<1> USE DEF IInv
<1>1. /\ tasks' \in Seq(Conn) /\ Range(tasks') = Range(tasks) \cup {d}
      /\ IsInjective(tasks')
  <2>1. d \notin Range(tasks) /\ IsInjective(tasks)
    BY DEF Kept, Push, Tracked, Lists
  <2> QED
    BY <2>1, AppendHandle DEF Push, TypeOK
<1>2. TypeOK'
  BY <1>1 DEF TypeOK, Push, Move, ConnStates, signals
<1>3. Lists' /\ ShutdownWasAsked'
  BY <1>1 DEF Lists, Push, Kept, ShutdownWasAsked, Heard, signals
<1>4. Tracked' = Tracked \cup {d}
  BY <1>1 DEF Tracked, Push
<1>5. ASSUME NEW c \in Conn PROVE Kept(c)'
  BY <1>4 DEF TypeOK, Kept, Live, Push, Move
<1> QED
  BY <1>2, <1>3, <1>5

\* serve's own steps, up to the drain.
LEMMA ServeStep == ASSUME IInv, Start \/ StartFail \/ Signal \/ BeginDrain PROVE IInv'
<1> USE DEF IInv, signals
<1>1. TypeOK'
  BY NoHandles DEF TypeOK, Phases, Start, StartFail, Signal, BeginDrain
<1>2. Lists' /\ ShutdownWasAsked'
  BY NoHandles DEF Lists, ShutdownWasAsked, Heard, Start, StartFail, Signal, BeginDrain
<1>3. Tracked' = Tracked
  BY NoHandles DEF Tracked, Lists, Start, StartFail, Signal, BeginDrain
<1>4. ASSUME NEW c \in Conn PROVE Kept(c)'
  BY <1>3 DEF Kept, Live, Start, StartFail, Signal, BeginDrain
<1> QED
  BY <1>1, <1>2, <1>4

\* A handle is awaited: its session has ended, or outstayed its window.
LEMMA DrainStep == ASSUME IInv, DrainJoined \/ DrainTimeout PROVE IInv'
<1> USE DEF IInv, signals
<1>1. /\ Head(queue) \in Conn /\ Tail(queue) \in Seq(Conn)
      /\ Range(queue) = Range(Tail(queue)) \cup {Head(queue)}
      /\ IsInjective(Tail(queue))
  BY TailHandles DEF TypeOK, Lists, DrainJoined, DrainTimeout
<1>2. TypeOK'
  BY <1>1 DEF TypeOK, DrainJoined, DrainTimeout
<1>3. Lists' /\ ShutdownWasAsked'
  BY <1>1 DEF Lists, ShutdownWasAsked, Heard, DrainJoined, DrainTimeout
<1>4. CASE DrainJoined
  <2>1. Tracked' \subseteq Tracked /\ Tracked \subseteq Tracked' \cup {Head(queue)}
    BY <1>1, <1>4 DEF DrainJoined, Tracked
  <2>2. ASSUME NEW c \in Conn PROVE Kept(c)'
    BY <1>4, <2>1 DEF Kept, Live, DrainJoined
  <2> QED
    BY <1>2, <1>3, <2>2
<1>5. CASE DrainTimeout
  <2>1. Tracked' = Tracked
    BY <1>1, <1>5 DEF DrainTimeout, Tracked
  <2>2. ASSUME NEW c \in Conn PROVE Kept(c)'
    BY <1>5, <2>1 DEF Kept, Live, DrainTimeout
  <2> QED
    BY <1>2, <1>3, <2>2
<1> QED
  BY <1>4, <1>5

\* The process ends: what still runs is severed, and only what outstayed runs.
LEMMA ExitStep == ASSUME IInv, Exit PROVE IInv'
<1> USE DEF IInv, signals
<1>1. TypeOK'
  BY DEF TypeOK, Phases, SessionStates, Exit
<1>2. Lists' /\ ShutdownWasAsked'
  BY DEF Lists, ShutdownWasAsked, Heard, Exit
<1>3. Tracked' = Tracked /\ Tracked = outstayed
  BY NoHandles DEF Tracked, Lists, Exit
<1>4. ASSUME NEW c \in Conn PROVE Kept(c)'
  BY <1>3 DEF TypeOK, Kept, Live, Exit
<1> QED
  BY <1>1, <1>2, <1>4

\* A signal is sent: only more can be heard.
LEMMA SendStep == ASSUME IInv, NEW s \in Signals, SendSignal(s) PROVE IInv'
BY DEF IInv, TypeOK, Lists, ShutdownWasAsked, Heard, Kept, Tracked, Live, SendSignal

\* Every step keeps the invariant.
LEMMA NextIInv == IInv /\ [Next]_vars => IInv'
<1> SUFFICES ASSUME IInv, [Next]_vars PROVE IInv'
    OBVIOUS
<1>1. CASE UNCHANGED vars
  BY <1>1 DEF vars, signals, IInv, TypeOK, Lists, ShutdownWasAsked, Heard, Kept, Tracked, Live
<1>2. CASE Server \/ Signal
  BY <1>2, ServeStep, DrainStep, ExitStep DEF Server
<1>3. ASSUME NEW c \in Conn, Connection(c) \/ Session(c) PROVE IInv'
  <2>1. CASE Push(c)
    BY <2>1, PushStep
  <2>2. CASE ~Push(c)
    BY <1>3, <2>2, OrdinaryStep DEF Connection, Session, Accept, Receive, CloseIdle,
       Respond, FinishResponse, Spawn, HandOver, Expire, Drop, Join, ClientHalfFails,
       SessionEnds
  <2> QED
    BY <2>1, <2>2
<1> QED
  BY <1>1, <1>2, <1>3, SendStep DEF Next, Stopped, Waiting

-----------------------------------------------------------------------------

\* ServerLifecycle is type correct.
THEOREM TypeCorrect == Spec => []TypeOK
<1>1. IInv => TypeOK
  BY DEF IInv
<1> QED
  BY <1>1, InitIInv, NextIInv, PTL DEF Spec

\* The drain knows every session that has, or is about to get, its client.
THEOREM SessionsAlwaysTracked == Spec => []SessionsTracked
<1>1. IInv => SessionsTracked
  BY DEF IInv, Kept, Live, SessionsTracked
<1> QED
  BY <1>1, InitIInv, NextIInv, PTL DEF Spec

\* The end of the process severs only sessions that outstayed their window.
THEOREM OnlyOutstayedSevered == Spec => []SeveredOutstayed
<1>1. IInv => SeveredOutstayed
  BY DEF IInv, Kept, SeveredOutstayed
<1> QED
  BY <1>1, InitIInv, NextIInv, PTL DEF Spec

\* The drain starts from a complete list, in which each session is once.
THEOREM DrainAlwaysComplete == Spec => []DrainComplete
<1>1. IInv => DrainComplete
  BY DEF IInv, Kept, Lists, DrainComplete
<1> QED
  BY <1>1, InitIInv, NextIInv, PTL DEF Spec

\* Nobody but a signal that has a handler stops a server that serves.
THEOREM ShutdownAlwaysAsked == Spec => []ShutdownWasAsked
<1>1. IInv => ShutdownWasAsked
  BY DEF IInv
<1> QED
  BY <1>1, InitIInv, NextIInv, PTL DEF Spec

-----------------------------------------------------------------------------

\* The steps of serve, seen by those who hold sessions.
LEMMA ServerKeeps ==
    ASSUME IInv, Server \/ Signal
    PROVE  [Promise!Next]_Promise!vars
<1> USE DEF IInv, TypeOK, ServerPhase, Promise!vars
<1>1. CASE Start \/ BeginDrain \/ DrainJoined
  <2>1. ServerPhase' = ServerPhase /\ Status' = Status
    BY <1>1 DEF Status, Start, BeginDrain, DrainJoined
  <2> QED
    BY <2>1
<1>2. CASE StartFail
  <2>1. Status' = Status
    BY <1>2 DEF Status, StartFail
  <2>2. \A c \in Conn: Status[c] = "none"
    BY <1>2 DEF Status, StartFail, Kept
  <2>3. ServerPhase = "running" /\ ServerPhase' = "stopped"
    BY <1>2 DEF StartFail
  <2> QED
    BY <2>1, <2>2, <2>3 DEF Promise!Next, Promise!Abandon
<1>3. CASE Signal
  <2>1. Status' = Status /\ ServerPhase = "running" /\ ServerPhase' = "stopping"
    BY <1>3 DEF Status, Signal
  <2> QED
    BY <2>1 DEF Promise!Next, Promise!Ask
<1>4. CASE DrainTimeout
  <2> DEFINE d == Head(queue)
  <2>1. d \in Conn /\ Live(d)
    BY <1>4, TailHandles DEF DrainTimeout
  <2>2. ServerPhase = "stopping" /\ ServerPhase' = ServerPhase
    BY <1>4 DEF DrainTimeout
  <2>3. outstayed' = outstayed \cup {d} /\ UNCHANGED <<handed, session>>
    BY <1>4 DEF DrainTimeout
  <2> HIDE DEF d
  <2>4. CASE d \in handed /\ d \notin outstayed
    <3>1. Status' = [Status EXCEPT ![d] = "overdue"] /\ Status[d] = "open"
      BY <2>1, <2>3, <2>4 DEF Status, Live
    <3> QED
      BY <2>1, <2>2, <3>1 DEF Promise!Next, Promise!Outstay, Promise!Become
  <2>5. CASE d \notin handed \/ d \in outstayed
    <3>1. Status' = Status
      BY <2>1, <2>3, <2>5 DEF Status, Live
    <3> QED
      BY <2>2, <3>1
  <2> QED
    BY <2>4, <2>5
<1>5. CASE Exit
  <2>1. Tracked = outstayed
    BY <1>5, NoHandles DEF Tracked, Lists, Exit
  <2>2. ASSUME NEW c \in Conn PROVE Status[c] # "open"
    BY <1>5, <2>1 DEF Status, Kept, Live, Exit, SessionStates
  <2>3. ASSUME NEW c \in Conn
        PROVE  Status'[c] = IF Status[c] = "overdue" THEN "cut" ELSE Status[c]
    BY <1>5, <2>1 DEF Status, Kept, Live, Exit, SessionStates
  <2>4. Status' = [c \in Conn |-> IF Status[c] = "overdue" THEN "cut" ELSE Status[c]]
    BY <2>3 DEF Status
  <2>5. ServerPhase = "stopping" /\ ServerPhase' = "stopped"
    BY <1>5 DEF Exit
  <2> QED
    BY <2>2, <2>4, <2>5 DEF Promise!Next, Promise!Stop
<1> QED
  BY <1>1, <1>2, <1>3, <1>4, <1>5 DEF Server

\* The steps of a connection and of its session.
LEMMA SessionKeeps ==
    ASSUME IInv, NEW c \in Conn, Connection(c) \/ Session(c)
    PROVE  [Promise!Next]_Promise!vars
<1> USE DEF IInv, TypeOK, Promise!vars
<1>1. ServerPhase' = ServerPhase /\ ServerPhase # "stopped"
  BY DEF ServerPhase, Running, Connection, Session, Accept, Receive, CloseIdle, Respond,
     FinishResponse, Spawn, Push, HandOver, Expire, Drop, Join, ClientHalfFails, SessionEnds
<1>2. CASE \/ Accept(c) \/ Receive(c) \/ CloseIdle(c) \/ Respond(c) \/ FinishResponse(c)
           \/ Push(c) \/ Expire(c) \/ Drop(c)
  <2>1. Status' = Status
    BY <1>2 DEF Status, Accept, Receive, CloseIdle, Respond, FinishResponse, Push, Expire, Drop
  <2> QED
    BY <1>1, <2>1
<1>3. CASE Spawn(c)
  <2>1. Status' = Status
    BY <1>3 DEF Status, Spawn, Kept
  <2> QED
    BY <1>1, <2>1
<1>4. CASE HandOver(c)
  <2>1. /\ handed' = handed \cup {c} /\ UNCHANGED <<session, outstayed>>
        /\ session[c] # "none" /\ session[c] # "severed" /\ c \notin handed
    BY <1>4 DEF HandOver, Kept, Running
  <2>2. Status[c] = "none" /\ Status' = [Status EXCEPT ![c] = Status'[c]]
    BY <2>1 DEF Status
  <2>3. CASE session[c] = "ended"
    <3>1. Status'[c] = "ended"
      BY <2>1, <2>3 DEF Status
    <3> QED
      BY <1>1, <2>2, <3>1 DEF Promise!Next, Promise!End, Promise!Become
  <2>4. CASE session[c] # "ended"
    <3>1. c \notin outstayed
      BY <1>4 DEF HandOver, Kept, Lists
    <3>2. Status'[c] = "open"
      BY <2>1, <2>4, <3>1 DEF Status
    <3> QED
      BY <1>1, <2>2, <3>2 DEF Promise!Next, Promise!Open, Promise!Become
  <2> QED
    BY <2>3, <2>4
<1>5. CASE Join(c)
  <2>1. Status' = Status
    BY <1>5 DEF Status, Join
  <2> QED
    BY <1>1, <2>1
<1>6. CASE ClientHalfFails(c) \/ SessionEnds(c)
  <2>1. session' = [session EXCEPT ![c] = "ended"] /\ Live(c) /\ UNCHANGED <<handed, outstayed>>
    BY <1>6 DEF ClientHalfFails, SessionEnds, Live
  <2>2. CASE c \in handed
    <3>1. Status[c] \in {"open", "overdue"} /\ Status' = [Status EXCEPT ![c] = "ended"]
      BY <2>1, <2>2 DEF Status, Live
    <3> QED
      BY <1>1, <3>1 DEF Promise!Next, Promise!End, Promise!Become
  <2>3. CASE c \notin handed
    <3>1. Status' = Status
      BY <2>1, <2>3 DEF Status
    <3> QED
      BY <1>1, <3>1
  <2> QED
    BY <2>2, <2>3
<1> QED
  BY <1>2, <1>3, <1>4, <1>5, <1>6 DEF Connection, Session

\* The server keeps its promise to those who hold sessions: every step of the
\* lifecycle is a step of GracefulShutdown or leaves what it speaks of alone.
THEOREM Implementation == Spec => KeepsPromise
<1>1. Init => Promise!Init
  BY DEF Init, Promise!Init, ServerPhase, Status
<1>2. IInv /\ [Next]_vars => [Promise!Next]_Promise!vars
  <2> SUFFICES ASSUME IInv, [Next]_vars PROVE [Promise!Next]_Promise!vars
      OBVIOUS
  <2>1. CASE UNCHANGED vars \/ \E s \in Signals: SendSignal(s)
    BY <2>1 DEF vars, SendSignal, Promise!vars, ServerPhase, Status
  <2>2. CASE Server \/ Signal
    BY <2>2, ServerKeeps
  <2>3. CASE \E c \in Conn: Connection(c) \/ Session(c)
    BY <2>3, SessionKeeps
  <2> QED
    BY <2>1, <2>2, <2>3 DEF Next, Stopped, Waiting
<1> QED
  BY <1>1, <1>2, InitIInv, NextIInv, PTL DEF Spec, KeepsPromise, Promise!Spec
=============================================================================
