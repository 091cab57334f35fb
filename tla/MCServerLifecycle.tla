-------------------------- MODULE MCServerLifecycle --------------------------
(***************************************************************************)
(* Three client connections, enough for a list of handles in which some    *)
(* sessions end within their window and others do not.                     *)
(***************************************************************************)
EXTENDS ServerLifecycle

CONSTANTS c1, c2, c3

\* No handler, or that of SIGTERM alone: SIGINT is sent in vain.
MCInstallable == {{}, {"SIGTERM"}}
=============================================================================
