--------------------------- MODULE ServerLifecycle ---------------------------
(***************************************************************************)
(* The server from start to exit (serve and main), with the part of the    *)
(* handler that its end depends on: a 101 from the daemon leaves behind a  *)
(* task that copies between client and daemon (switch_protocols), which    *)
(* outlives its connection's task and is drained at shutdown.              *)
(*                                                                         *)
(* What hyper and axum do is modelled from how serve relies on them: a     *)
(* connection's task serves one request at a time, ends when a 101 has     *)
(* been written, handing its half of the connection to whoever waits for   *)
(* the upgrade, and after the shutdown signal ends with its current        *)
(* response; axum::serve returns when every connection's task has ended.   *)
(* What is said and forwarded on a connection is in RequestPipeline.       *)
(***************************************************************************)
EXTENDS Naturals, Sequences, Functions

CONSTANTS
    Conn,           \* the client connections of a behaviour
    TimeoutEnabled, \* --timeout-secs is not 0
    Installable     \* the sets of signals that may turn out to have a handler

Signals == {"SIGINT", "SIGTERM"}

ASSUME TimeoutType == TimeoutEnabled \in BOOLEAN
ASSUME InstallableType == Installable \subseteq SUBSET Signals

VARIABLES
    phase,      \* how far serve has come
    conn,       \* what the task of each client connection is doing
    session,    \* the copying task spawned on behalf of each connection
    handed,     \* the connections whose client half went to that task
    tasks,      \* upgrade_tasks: the handles of the copying tasks
    queue,      \* the handles drain_upgrades has taken and not awaited yet
    outstayed,  \* the sessions that outlasted their drain window
    installed,  \* the signals whose handler can be installed
    sent        \* the signals the process has been sent while it serves

signals == <<installed, sent>>
vars == <<phase, conn, session, handed, tasks, queue, outstayed, signals>>

Phases == {"starting", "serving", "closing", "draining", "exited", "failed"}

\* new: not accepted.  handling: the handler runs.  locking: it has spawned the
\* copying task and awaits the lock on upgrade_tasks.  switching: it has
\* returned the 101, which is being written.  streaming: another response is.
ConnStates == {"new", "idle", "handling", "locking", "switching", "streaming", "closed"}

\* joining: try_join! awaits the two upgraded halves.  severed: the runtime was
\* dropped under it.
SessionStates == {"none", "joining", "copying", "ended", "severed"}

Live(c) == session[c] \in {"joining", "copying"}

Init ==
    /\ phase = "starting"
    /\ conn = [c \in Conn |-> "new"]
    /\ session = [c \in Conn |-> "none"]
    /\ handed = {}
    /\ tasks = <<>>
    /\ queue = <<>>
    /\ outstayed = {}
    /\ installed \in Installable
    /\ sent = {}

-----------------------------------------------------------------------------
(***************************************************************************)
(* serve: start, signal, drain, exit.                                      *)
(***************************************************************************)

Start ==
    /\ phase = "starting"
    /\ phase' = "serving"
    /\ UNCHANGED <<conn, session, handed, tasks, queue, outstayed, signals>>

\* The policy does not load or the address cannot be bound: exit code 1.
StartFail ==
    /\ phase = "starting"
    /\ phase' = "failed"
    /\ UNCHANGED <<conn, session, handed, tasks, queue, outstayed, signals>>

\* Somebody signals.  A signal without a handler is lost: the process is the
\* first of its container, to which the kernel's default action does not apply.
SendSignal(s) ==
    /\ phase = "serving"
    /\ s \notin sent
    /\ sent' = sent \cup {s}
    /\ UNCHANGED <<phase, conn, session, handed, tasks, queue, outstayed, installed>>

Heard == sent \cap installed

\* Mutant: a branch whose handler cannot be installed resolves.
SignalUninstalled ==
    /\ phase = "serving"
    /\ Heard # {} \/ installed # Signals
    /\ phase' = "closing"
    /\ UNCHANGED <<conn, session, handed, tasks, queue, outstayed, signals>>

\* Either branch of shutdown_signal resolves, and the listener is closed.  A
\* branch whose handler could not be installed never does.
Signal ==
    /\ phase = "serving"
    /\ Heard # {}
    /\ phase' = "closing"
    /\ UNCHANGED <<conn, session, handed, tasks, queue, outstayed, signals>>

\* Mutant: the handles are taken as soon as the signal is seen.
BeginDrainAtOnce ==
    /\ phase = "closing"
    /\ phase' = "draining"
    /\ queue' = tasks
    /\ tasks' = <<>>
    /\ UNCHANGED <<conn, session, handed, outstayed, signals>>

\* axum::serve has returned, which it never does with an error (serve would pass one
\* on, without a drain); the handles are taken out of the mutex.
BeginDrain ==
    /\ phase = "closing"
    /\ \A c \in Conn: conn[c] \in {"new", "closed"}
    /\ phase' = "draining"
    /\ queue' = tasks
    /\ tasks' = <<>>
    /\ UNCHANGED <<conn, session, handed, outstayed, signals>>

DrainJoined ==
    /\ phase = "draining"
    /\ queue # <<>>
    /\ session[Head(queue)] = "ended"
    /\ queue' = Tail(queue)
    /\ UNCHANGED <<phase, conn, session, handed, tasks, outstayed, signals>>

\* Mutant: a timeout ends the whole drain.
DrainTimeoutAll ==
    /\ phase = "draining"
    /\ queue # <<>>
    /\ Live(Head(queue))
    /\ queue' = <<>>
    /\ outstayed' = outstayed \cup {Head(queue)}
    /\ UNCHANGED <<phase, conn, session, handed, tasks, signals>>

\* Mutant: a session that outlasts its window is awaited again.
DrainTimeoutAgain ==
    /\ phase = "draining"
    /\ queue # <<>>
    /\ Live(Head(queue))
    /\ queue' = Append(Tail(queue), Head(queue))
    /\ outstayed' = outstayed \cup {Head(queue)}
    /\ UNCHANGED <<phase, conn, session, handed, tasks, signals>>

\* DRAIN_TIMEOUT passes.  Dropping the handle detaches the task, so that it
\* runs on until the runtime is dropped.
DrainTimeout ==
    /\ phase = "draining"
    /\ queue # <<>>
    /\ Live(Head(queue))
    /\ queue' = Tail(queue)
    /\ outstayed' = outstayed \cup {Head(queue)}
    /\ UNCHANGED <<phase, conn, session, handed, tasks, signals>>

\* serve returns, main ends, and dropping the runtime cancels what still runs.
Exit ==
    /\ phase = "draining"
    /\ queue = <<>>
    /\ phase' = "exited"
    /\ session' = [c \in Conn |-> IF Live(c) THEN "severed" ELSE session[c]]
    /\ UNCHANGED <<conn, handed, tasks, queue, outstayed, signals>>

-----------------------------------------------------------------------------
(***************************************************************************)
(* A connection's task, and the handler within it.                         *)
(***************************************************************************)

Running == phase \in {"serving", "closing", "draining"}

Move(c, s) == conn' = [conn EXCEPT ![c] = s]

Accept(c) ==
    /\ phase = "serving"
    /\ conn[c] = "new"
    /\ Move(c, "idle")
    /\ UNCHANGED <<phase, session, handed, tasks, queue, outstayed, signals>>

\* A request's head is read.
Receive(c) ==
    /\ phase = "serving"
    /\ conn[c] = "idle"
    /\ Move(c, "handling")
    /\ UNCHANGED <<phase, session, handed, tasks, queue, outstayed, signals>>

\* After the signal an idle connection is closed.
CloseIdle(c) ==
    /\ phase = "closing"
    /\ conn[c] = "idle"
    /\ Move(c, "closed")
    /\ UNCHANGED <<phase, session, handed, tasks, queue, outstayed, signals>>

\* The handler answers with anything but a 101.
Respond(c) ==
    /\ Running
    /\ conn[c] = "handling"
    /\ Move(c, "streaming")
    /\ UNCHANGED <<phase, session, handed, tasks, queue, outstayed, signals>>

\* The response has been written: the connection is kept alive while serving.
FinishResponse(c) ==
    /\ Running
    /\ conn[c] = "streaming"
    /\ Move(c, IF phase = "serving" THEN "idle" ELSE "closed")
    /\ UNCHANGED <<phase, session, handed, tasks, queue, outstayed, signals>>

\* The daemon answers 101: the copying task is spawned.  (A bound of the model:
\* once for each connection, though one whose 101 was cut short by the deadline
\* could try again.)
Spawn(c) ==
    /\ Running
    /\ conn[c] = "handling"
    /\ session[c] = "none"
    /\ Move(c, "locking")
    /\ session' = [session EXCEPT ![c] = "joining"]
    /\ UNCHANGED <<phase, handed, tasks, queue, outstayed, signals>>

\* Mutant: the handle is dropped, not pushed.
PushNothing(c) ==
    /\ Running
    /\ conn[c] = "locking"
    /\ Move(c, "switching")
    /\ UNCHANGED <<phase, session, handed, tasks, queue, outstayed, signals>>

\* The lock is had: the handle is pushed and the 101 returned.
Push(c) ==
    /\ Running
    /\ conn[c] = "locking"
    /\ Move(c, "switching")
    /\ tasks' = Append(tasks, c)
    /\ UNCHANGED <<phase, session, handed, queue, outstayed, signals>>

\* The 101 is written, and the connection's task ends by handing its half over.
HandOver(c) ==
    /\ Running
    /\ conn[c] = "switching"
    /\ Move(c, "closed")
    /\ handed' = handed \cup {c}
    /\ UNCHANGED <<phase, session, tasks, queue, outstayed, signals>>

\* The deadline passes: the handler's future is dropped and 504 answered.
Expire(c) ==
    /\ Running
    /\ TimeoutEnabled
    /\ conn[c] \in {"handling", "locking"}
    /\ Move(c, "streaming")
    /\ UNCHANGED <<phase, session, handed, tasks, queue, outstayed, signals>>

\* The client goes away, or cannot be written to.
Drop(c) ==
    /\ Running
    /\ conn[c] \notin {"new", "closed"}
    /\ Move(c, "closed")
    /\ UNCHANGED <<phase, session, handed, tasks, queue, outstayed, signals>>

-----------------------------------------------------------------------------
(***************************************************************************)
(* The copying task.                                                       *)
(***************************************************************************)

\* No 101 will be written, so the task cannot get the client half.
Orphaned(c) == c \notin handed /\ conn[c] \notin {"locking", "switching"}

\* Both halves have been upgraded.
Join(c) ==
    /\ Running
    /\ session[c] = "joining"
    /\ c \in handed
    /\ session' = [session EXCEPT ![c] = "copying"]
    /\ UNCHANGED <<phase, conn, handed, tasks, queue, outstayed, signals>>

\* Mutant: a task that fails is put down as its connection is.
ClientHalfFailsClosed(c) ==
    /\ Running
    /\ session[c] = "joining"
    /\ Orphaned(c)
    /\ session' = [session EXCEPT ![c] = "closed"]
    /\ UNCHANGED <<phase, conn, handed, tasks, queue, outstayed, signals>>

\* The client half is given up: try_join! fails, at the latest some time after the
\* connection has ended.
ClientHalfFails(c) ==
    /\ Running
    /\ session[c] = "joining"
    /\ Orphaned(c)
    /\ session' = [session EXCEPT ![c] = "ended"]
    /\ UNCHANGED <<phase, conn, handed, tasks, queue, outstayed, signals>>

\* The daemon's half fails to upgrade, or the copy comes to an end.
SessionEnds(c) ==
    /\ Running
    /\ Live(c)
    /\ session' = [session EXCEPT ![c] = "ended"]
    /\ UNCHANGED <<phase, conn, handed, tasks, queue, outstayed, signals>>

-----------------------------------------------------------------------------
Server == Start \/ StartFail \/ BeginDrain \/ DrainJoined \/ DrainTimeout \/ Exit

Connection(c) ==
    \/ Accept(c) \/ Receive(c) \/ CloseIdle(c) \/ Respond(c) \/ FinishResponse(c)
    \/ Spawn(c) \/ Push(c) \/ HandOver(c) \/ Expire(c) \/ Drop(c)

Session(c) == Join(c) \/ ClientHalfFails(c) \/ SessionEnds(c)

Stopped == phase \in {"exited", "failed"} /\ UNCHANGED vars

\* The listener waits for connections beyond those of the behaviour.
Waiting ==
    /\ phase = "serving"
    /\ \A c \in Conn: conn[c] = "closed"
    /\ UNCHANGED vars

Next ==
    \/ Server
    \/ Signal
    \/ \E s \in Signals: SendSignal(s)
    \/ \E c \in Conn: Connection(c) \/ Session(c)
    \/ Stopped \/ Waiting

Spec == Init /\ [][Next]_vars

\* The runtime runs what can run, the drain timer fires, and a written response
\* reaches its client or fails to.  Neither the daemon's answer, nor the end of
\* a response is to be counted on, nor anything of a copying task: when hyper
\* gives up a client half is its own affair.
Scheduling ==
    /\ WF_vars(Server)
    /\ WF_vars(Signal)
    /\ \A c \in Conn:
          /\ WF_vars(CloseIdle(c))
          /\ WF_vars(Push(c))
          /\ WF_vars(HandOver(c))
          /\ WF_vars(Expire(c))

\* The daemon answers, and its responses end.
Responsive ==
    \A c \in Conn: WF_vars(Respond(c) \/ Spawn(c)) /\ WF_vars(FinishResponse(c))

FairSpec == Spec /\ Scheduling
ResponsiveSpec == FairSpec /\ Responsive

-----------------------------------------------------------------------------
(***************************************************************************)
(* Properties.                                                             *)
(***************************************************************************)

\* The variables have their types.
TypeOK ==
    /\ phase \in Phases
    /\ conn \in [Conn -> ConnStates]
    /\ session \in [Conn -> SessionStates]
    /\ handed \subseteq Conn
    /\ tasks \in Seq(Conn)
    /\ queue \in Seq(Conn)
    /\ outstayed \subseteq Conn
    /\ installed \subseteq Signals
    /\ sent \subseteq Signals

\* The sessions that drain_upgrades has awaited, awaits or will await.
Tracked == Range(tasks) \cup Range(queue) \cup outstayed

\* A session that has its client, or is about to, is never lost sight of:
\* whatever the interleaving of handlers, signal and drain, the drain knows it.
SessionsTracked ==
    \A c \in Conn: Live(c) /\ (conn[c] = "switching" \/ c \in handed) => c \in Tracked

\* No session is cut off by the end of the process without having had its drain
\* window, and none is left running (CHANGELOG, 0.3.1: sessions get a bounded
\* window to finish instead of being severed).
SeveredOutstayed ==
    phase = "exited" =>
       \A c \in Conn:
          /\ ~Live(c)
          /\ session[c] = "severed" /\ c \in handed => c \in outstayed

\* The drain starts from a complete list: once the handles have been taken no
\* handler is left that could push another, and none has pushed twice.
DrainComplete ==
    /\ phase \in {"draining", "exited"} =>
          tasks = <<>> /\ \A c \in Conn: conn[c] \in {"new", "closed"}
    /\ IsInjective(tasks)
    /\ IsInjective(queue)

\* Nothing but a signal with a handler of its own stops a server that serves: a
\* handler that cannot be installed "cannot present itself as a shutdown request"
\* (shutdown_signal), whatever becomes of the other.
ShutdownWasAsked == phase \in {"closing", "draining", "exited"} => Heard # {}

\* proxy.rs, on drain_upgrades: sessions that outstay a bounded drain are
\* aborted "so `docker stop` still terminates".  One handler that is installed
\* is enough for its signal to end the process, however long the spliced
\* sessions would go on.
StopTerminates == phase = "serving" /\ Heard # {} ~> phase = "exited"

\* What a client with a session sees of the server's end.
ServerPhase ==
    CASE phase \in {"starting", "serving"} -> "running"
      [] phase \in {"closing", "draining"} -> "stopping"
      [] phase \in {"exited", "failed"}    -> "stopped"
Status ==
    [c \in Conn |->
       IF c \notin handed THEN "none"
       ELSE IF session[c] = "severed" THEN "cut"
       ELSE IF session[c] = "ended" THEN "ended"
       ELSE IF c \in outstayed THEN "overdue" ELSE "open"]

Promise == INSTANCE GracefulShutdown WITH
    Holder <- Conn, server <- ServerPhase, status <- Status

\* Every step of the server is a step of GracefulShutdown, or no step.
KeepsPromise == Promise!Spec
=============================================================================
