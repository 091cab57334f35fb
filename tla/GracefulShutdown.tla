--------------------------- MODULE GracefulShutdown ---------------------------
(***************************************************************************)
(* What the end of the server promises to those who hold an upgraded       *)
(* session (an exec, an attach), without a word on connections, handles,   *)
(* mutexes or timers: a session is ended by its own parties or, once the   *)
(* server has been asked to stop and the session has been given a window,  *)
(* cut when the server stops; it is never cut before, and nothing is left  *)
(* open behind a server that has stopped.                                  *)
(*                                                                         *)
(* This is what drain_upgrades is documented to be for; ServerLifecycle    *)
(* implements it.                                                          *)
(***************************************************************************)
CONSTANT Holder     \* those who may hold a session, one each

VARIABLES
    server,     \* running, stopping or stopped
    status      \* none, open, overdue (it had its window), ended or cut

vars == <<server, status>>

Init ==
    /\ server = "running"
    /\ status = [c \in Holder |-> "none"]

Become(c, s) == status' = [status EXCEPT ![c] = s]

\* A session may still be opened while the server is stopping.
Open(c) ==
    /\ server # "stopped"
    /\ status[c] = "none"
    /\ Become(c, "open")
    /\ UNCHANGED server

\* It comes to its end, or failed before it was open.
End(c) ==
    /\ server # "stopped"
    /\ status[c] \in {"none", "open", "overdue"}
    /\ Become(c, "ended")
    /\ UNCHANGED server

Ask ==
    /\ server = "running"
    /\ server' = "stopping"
    /\ UNCHANGED status

\* The window of an open session is over.
Outstay(c) ==
    /\ server = "stopping"
    /\ status[c] = "open"
    /\ Become(c, "overdue")
    /\ UNCHANGED server

Stop ==
    /\ server = "stopping"
    /\ \A c \in Holder: status[c] # "open"
    /\ server' = "stopped"
    /\ status' = [c \in Holder |-> IF status[c] = "overdue" THEN "cut" ELSE status[c]]

\* A server that does not start has no sessions.
Abandon ==
    /\ server = "running"
    /\ \A c \in Holder: status[c] = "none"
    /\ server' = "stopped"
    /\ UNCHANGED status

Next ==
    \/ Ask \/ Stop \/ Abandon
    \/ \E c \in Holder: Open(c) \/ End(c) \/ Outstay(c)

Spec == Init /\ [][Next]_vars
=============================================================================
