-------------------------- MODULE MCRequestPipeline --------------------------
(***************************************************************************)
(* Small instances of RequestPipeline: a head of every kind, bodies that   *)
(* inspection accepts and rejects (a body is unsafe as soon as it holds a  *)
(* bad byte), frames of one and two bytes that can end under, at and over  *)
(* the limit, and declared lengths of all three sorts.                     *)
(***************************************************************************)
EXTENDS RequestPipeline, TLC

CONSTANTS r1, noLength, plain, create, blocked, malformed, ok, bad

MCHeads == {plain, create, blocked, malformed}
MCHeadRule ==
    plain :> "None" @@ create :> "ContainerCreate"
      @@ blocked :> "Forbidden" @@ malformed :> "BadRequest"
MCByte == {ok, bad}

\* With a limit of three bytes.
MCFrame == {<<ok>>, <<bad>>, <<ok, ok>>, <<ok, bad>>}
MCSafeBody == {<<>>, <<ok>>, <<ok, ok>>, <<ok, ok, ok>>}
MCLength == {0, 3, 4}
=============================================================================
