------------------------------ MODULE MCServer ------------------------------
(***************************************************************************)
(* Two requests, which come on one connection or on two, with bodies that  *)
(* end within or over a limit of one byte, and one signal that is heard.   *)
(***************************************************************************)
EXTENDS Server, TLC

CONSTANTS r1, r2, c1, c2, noLength, plain, create, blocked, ok, bad

MCHeadRule == plain :> "None" @@ create :> "ContainerCreate" @@ blocked :> "Forbidden"
MCFrame == {<<ok>>, <<bad>>}
MCSafeBody == {<<ok>>}
MCInstallable == {{"SIGTERM"}}
MCSymmetry == Permutations(Request) \cup Permutations(Conn)
=============================================================================
