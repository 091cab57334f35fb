----------------------------- MODULE RequestPath -----------------------------
(***************************************************************************)
(* The normal form of a request path (normalize_path, security.rs), as the *)
(* loops that compute it: percent-decoding, then the resolution of dot     *)
(* segments, then the version prefix.                                      *)
(*                                                                         *)
(* A raw path is a sequence of pieces that begins with "/": a piece is a   *)
(* separator, a dot, a digit, the letter "v", a run of other letters such  *)
(* as "info", or an escape.  "%" and "%zz" stand for escapes that are not  *)
(* two digits, "%ff" for one of a byte that no text contains.  A segment   *)
(* is a sequence of pieces, and a path, once resolved, one of segments, as *)
(* in PolicyDecision: << <<>> >> is "/", and <<>> the empty string.        *)
(***************************************************************************)
EXTENDS Integers, Sequences, FiniteSets

CONSTANT Piece    \* what paths are written with

ASSUME PieceAssumption == {"/", "\\", ".", "info"} \subseteq Piece

VARIABLES
    raw,        \* the path of the request
    at,         \* the next piece of the loop
    text,       \* what has been decoded
    segment,    \* the segment that is being read of it
    path,       \* the segments that stand
    step        \* the loop, "normal" once done, or the error it ended with

pathVars == <<raw, at, text, segment, path, step>>

Separators == {"/", "\\"}
Digits     == {"0", "1", "2", "3", "4", "5", "6", "7", "8", "9"}
Malformed  == {"%", "%zz"}
NotText    == {"%ff"}

\* What a piece decodes to; the escape of a letter is one with its run.
Meaning(piece) ==
    CASE piece = "%2f" -> "/"
      [] piece = "%5c" -> "\\"
      [] piece = "%2e" -> "."
      [] piece = "%69nfo" -> "info"
      [] OTHER -> piece

\* Dot segments: the current one, and the one above.
Here == {<<>>, <<".">>}
Up   == <<".", ".">>

PathInit(given) ==
    /\ raw = given
    /\ at = 1
    /\ text = <<>>
    /\ segment = <<>>
    /\ path = <<>>
    /\ step = "decode"

Refuse(error) == step' = error /\ UNCHANGED <<raw, at, text, segment, path>>

\* Mutant: every piece is as long as an escape.
DecodeAsEscape(piece) ==
    /\ text' = Append(text, piece)
    /\ at' = at + 3
    /\ UNCHANGED <<raw, segment, path, step>>

DecodeAs(piece) ==
    /\ text' = Append(text, piece)
    /\ at' = at + 1
    /\ UNCHANGED <<raw, segment, path, step>>

IsEncodedSeparator(piece) == piece # Meaning(piece) /\ Meaning(piece) \in Separators

\* percent_decode: the first piece that is refused decides.
DecodePiece ==
    /\ step = "decode" /\ at <= Len(raw)
    /\ \/ raw[at] \in Malformed /\ Refuse("BadRequest")
       \/ IsEncodedSeparator(raw[at]) /\ Refuse("Forbidden")
       \/ /\ raw[at] \notin Malformed
          /\ ~IsEncodedSeparator(raw[at])
          /\ DecodeAs(Meaning(raw[at]))

FinishDecoding ==
    /\ step = "decode" /\ at > Len(raw)
    /\ \/ /\ \E i \in 1..Len(text): text[i] \in NotText
          /\ Refuse("BadRequest")
       \/ /\ \A i \in 1..Len(text): text[i] \notin NotText
          /\ step' = "resolve"
          /\ at' = 1
          /\ UNCHANGED <<raw, text, segment, path>>

\* Mutant: ".." takes everything back.
ResolvedToRoot(segments, next) ==
    IF next = Up THEN <<>> ELSE IF next \in Here THEN segments ELSE Append(segments, next)

\* Mutant: empty segments are kept.
ResolvedWithEmpty(segments, next) ==
    IF next = <<".">> THEN segments ELSE Append(segments, next)

\* One segment of remove_dot_segments; ".." at the root stays there.
Resolved(segments, next) ==
    IF next \in Here THEN segments
    ELSE IF next # Up THEN Append(segments, next)
    ELSE IF segments = <<>> THEN <<>>
    ELSE SubSeq(segments, 1, Len(segments) - 1)

\* "v" and numbers with single dots between them.
IsVersion(seg) ==
    /\ Len(seg) > 1 /\ seg[1] = "v"
    /\ \A i \in 2..Len(seg):
          \/ seg[i] \in Digits
          \/ seg[i] = "." /\ i < Len(seg) /\ {seg[i - 1], seg[i + 1]} \subseteq Digits

\* What is written of the segments, less an API version.
StripVersion(segments) ==
    IF segments = <<>> THEN << <<>> >>
    ELSE IF IsVersion(segments[1]) THEN Tail(segments)
    ELSE segments

ResolvePiece ==
    /\ step = "resolve" /\ at <= Len(text)
    /\ at' = at + 1
    /\ IF text[at] = "/"
       THEN path' = Resolved(path, segment) /\ segment' = <<>>
       ELSE segment' = Append(segment, text[at]) /\ UNCHANGED path
    /\ UNCHANGED <<raw, text, step>>

FinishResolving ==
    /\ step = "resolve" /\ at > Len(text)
    /\ path' = StripVersion(Resolved(path, segment))
    /\ step' = "normal"
    /\ UNCHANGED <<raw, at, text, segment>>

PathNext == DecodePiece \/ FinishDecoding \/ ResolvePiece \/ FinishResolving

-----------------------------------------------------------------------------
(***************************************************************************)
(* What a path r means, without decoding it first: its segments are those  *)
(* of the separators it is written with, and a name stands unless at some  *)
(* point there are more ways up than names behind it.                      *)
(***************************************************************************)
Slashes(r) == {k \in 1..Len(r): r[k] = "/"}

SegmentAfter(r, k) ==
    LET end == CHOOSE l \in (k + 1)..(Len(r) + 1):
                  /\ l <= Len(r) => r[l] = "/"
                  /\ \A m \in (k + 1)..(l - 1): r[m] # "/"
    IN  [i \in 1..(end - k - 1) |-> Meaning(r[k + i])]

Names(r) == {k \in Slashes(r): SegmentAfter(r, k) \notin Here \cup {Up}}
Ups(r)   == {k \in Slashes(r): SegmentAfter(r, k) = Up}

\* How many of S come after k and not after l.
Count(S, k, l) == Cardinality({m \in S: k < m /\ m <= l})

Standing(r) ==
    LET names == Names(r)
        ups   == Ups(r)
    IN  {k \in names: \A l \in Slashes(r): Count(ups, k, l) <= Count(names, k, l)}

Nth(S, i) == CHOOSE k \in S: Count(S, 0, k) = i

Reading(r) ==
    LET standing == Standing(r)
    IN  StripVersion([i \in 1..Cardinality(standing) |-> SegmentAfter(r, Nth(standing, i))])

(***************************************************************************)
(* Properties.                                                             *)
(***************************************************************************)

\* Decoding neither adds a separator nor takes one away (RFC 3986, as quoted on
\* percent_decode): what is decoded has one exactly where the raw path has.
BoundariesKept ==
    \A k \in 1..Len(text): \A sep \in Separators: text[k] = sep <=> raw[k] = sep

\* The path that the policy sees has no segment that is empty, leads elsewhere
\* or hides a separator, for "/" and for a bare version alone it has none.
NormalForm ==
    step = "normal" =>
       \/ path \in {<<>>, << <<>> >>}
       \/ \A i \in 1..Len(path): /\ path[i] \notin Here \cup {Up}
                                 /\ \A k \in 1..Len(path[i]): path[i][k] # "/"

\* Decoding first and resolving on a stack gives what the raw path means read
\* segment by segment, so that whoever reads it that way sees the same endpoint.
DecidedAsRead == step = "normal" => path = Reading(raw)
=============================================================================
