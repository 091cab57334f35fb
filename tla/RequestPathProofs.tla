--------------------------- MODULE RequestPathProofs ---------------------------
(***************************************************************************)
(* What the loops of RequestPath keep, for paths of any length: decoding   *)
(* moves no boundary, the result is a normal form (PathInv), and it is     *)
(* what the path reads as (ReadInv).  The lemmas are about single steps;   *)
(* ExchangeProofs puts them under a specification.                         *)
(***************************************************************************)
EXTENDS RequestPath, FiniteSetTheorems, TLAPS

-----------------------------------------------------------------------------
(***************************************************************************)
(* Boundaries and the normal form.                                         *)
(***************************************************************************)

\* A segment of a normal form.
Proper(seg) ==
    /\ seg \notin Here \cup {Up}
    /\ \A k \in 1..Len(seg): seg[k] # "/"

\* Whether two pieces are the same separator, or neither is one.
SameBoundary(x, y) == \A sep \in Separators: x = sep <=> y = sep

Steps == {"decode", "resolve", "normal", "Forbidden", "BadRequest"}

PathInv ==
    /\ raw \in Seq(Piece) /\ text \in Seq(Piece)
    /\ segment \in Seq(Piece) /\ path \in Seq(Seq(Piece))
    /\ step \in Steps
    /\ at \in 1..(Len(raw) + 1)
    /\ step = "decode" => Len(text) = at - 1
    /\ step = "resolve" => at <= Len(text) + 1
    /\ Len(text) <= Len(raw)
    /\ \A k \in 1..Len(text): SameBoundary(text[k], raw[k])
    /\ \A k \in 1..Len(segment): segment[k] # "/"
    /\ step # "normal" => \A i \in 1..Len(path): Proper(path[i])
    /\ NormalForm

\* What is not refused decodes to a separator exactly if it is that one.
LEMMA MeaningKeepsBoundary ==
    ASSUME NEW piece \in Piece, ~IsEncodedSeparator(piece)
    PROVE  Meaning(piece) \in Piece /\ SameBoundary(Meaning(piece), piece)
<1>1. Meaning(piece) \in Piece
  <2>1. Meaning(piece) \in {"/", "\\", ".", "info", piece}
    BY DEF Meaning
  <2> QED
    BY <2>1, PieceAssumption
<1>2. ASSUME NEW sep \in Separators, Meaning(piece) = sep PROVE piece = sep
  BY <1>2 DEF IsEncodedSeparator, Separators
<1>3. ASSUME NEW sep \in Separators, piece = sep PROVE Meaning(piece) = sep
  BY <1>3 DEF Separators, Meaning
<1> QED
  BY <1>1, <1>2, <1>3 DEF SameBoundary

LEMMA Appended ==
    ASSUME NEW S, NEW s \in Seq(S), NEW e \in S
    PROVE  /\ Append(s, e) \in Seq(S) /\ Len(Append(s, e)) = Len(s) + 1
           /\ Append(s, e)[Len(s) + 1] = e
           /\ \A k \in 1..Len(s): Append(s, e)[k] = s[k]
OBVIOUS

\* A sequence all of whose elements have a property keeps it at its end.
LEMMA AppendText ==
    ASSUME NEW s \in Seq(Piece), NEW t \in Seq(Piece), NEW e \in Piece,
           Len(s) < Len(t), \A k \in 1..Len(s): SameBoundary(s[k], t[k]),
           SameBoundary(e, t[Len(s) + 1])
    PROVE  /\ Append(s, e) \in Seq(Piece) /\ Len(Append(s, e)) = Len(s) + 1
           /\ \A k \in 1..Len(Append(s, e)): SameBoundary(Append(s, e)[k], t[k])
<1> DEFINE u == Append(s, e)
<1>1. /\ u \in Seq(Piece) /\ Len(u) = Len(s) + 1 /\ u[Len(s) + 1] = e
      /\ \A k \in 1..Len(s): u[k] = s[k]
  BY Appended
<1>2. ASSUME NEW k \in 1..Len(u) PROVE k = Len(s) + 1 \/ k \in 1..Len(s)
  BY <1>1
<1>3. ASSUME NEW k \in 1..Len(u) PROVE SameBoundary(u[k], t[k])
  BY <1>1, <1>2
<1> QED
  BY <1>1, <1>3

LEMMA AppendSegment ==
    ASSUME NEW s \in Seq(Piece), NEW e \in Piece, e # "/",
           \A k \in 1..Len(s): s[k] # "/"
    PROVE  /\ Append(s, e) \in Seq(Piece)
           /\ \A k \in 1..Len(Append(s, e)): Append(s, e)[k] # "/"
<1> DEFINE t == Append(s, e)
<1>1. /\ t \in Seq(Piece) /\ Len(t) = Len(s) + 1 /\ t[Len(s) + 1] = e
      /\ \A k \in 1..Len(s): t[k] = s[k]
  BY Appended
<1>2. ASSUME NEW k \in 1..Len(t) PROVE t[k] = e \/ (k \in 1..Len(s) /\ t[k] = s[k])
  BY <1>1
<1>3. ASSUME NEW k \in 1..Len(t) PROVE t[k] # "/"
  BY <1>2
<1> QED
  BY <1>1, <1>3

\* The stack holds proper segments only.
LEMMA ResolvedProper ==
    ASSUME NEW p \in Seq(Seq(Piece)), NEW seg \in Seq(Piece),
           \A i \in 1..Len(p): Proper(p[i]), \A k \in 1..Len(seg): seg[k] # "/"
    PROVE  /\ Resolved(p, seg) \in Seq(Seq(Piece))
           /\ \A i \in 1..Len(Resolved(p, seg)): Proper(Resolved(p, seg)[i])
<1>1. CASE seg \in Here
  BY <1>1 DEF Resolved
<1>2. CASE seg \notin Here /\ seg = Up
  <2>1. Resolved(p, seg) = IF p = <<>> THEN <<>> ELSE SubSeq(p, 1, Len(p) - 1)
    BY <1>2 DEF Resolved
  <2>2. CASE p = <<>>
    BY <2>1, <2>2
  <2>3. CASE p # <<>>
    <3>1. Len(p) - 1 \in 0..Len(p)
      BY <2>3
    <3> DEFINE q == SubSeq(p, 1, Len(p) - 1)
    <3>2. q \in Seq(Seq(Piece)) /\ \A i \in 1..Len(q): i \in 1..Len(p) /\ q[i] = p[i]
      BY <3>1
    <3> QED
      BY <2>1, <2>3, <3>2
  <2> QED
    BY <2>2, <2>3
<1>3. CASE seg \notin Here \cup {Up}
  <2>1. Resolved(p, seg) = Append(p, seg)
    BY <1>3 DEF Resolved
  <2>2. Proper(seg)
    BY <1>3 DEF Proper
  <2> QED
    BY <2>1, <2>2
<1> QED
  BY <1>1, <1>2, <1>3

\* The prefix that is stripped leaves what comes after it.
LEMMA StrippedNormal ==
    ASSUME NEW p \in Seq(Seq(Piece)), \A i \in 1..Len(p): Proper(p[i])
    PROVE  /\ StripVersion(p) \in Seq(Seq(Piece))
           /\ \/ StripVersion(p) \in {<<>>, << <<>> >>}
              \/ \A i \in 1..Len(StripVersion(p)): Proper(StripVersion(p)[i])
<1>1. CASE p = <<>>
  <2>1. StripVersion(p) = << <<>> >>
    BY <1>1 DEF StripVersion
  <2> QED
    BY <2>1
<1>2. CASE p # <<>> /\ IsVersion(p[1])
  <2>1. StripVersion(p) = Tail(p)
    BY <1>2 DEF StripVersion
  <2>2. Tail(p) \in Seq(Seq(Piece)) /\ \A i \in 1..Len(Tail(p)): Tail(p)[i] = p[i + 1]
    BY <1>2
  <2>3. \A i \in 1..Len(Tail(p)): i + 1 \in 1..Len(p)
    BY <1>2
  <2> QED
    BY <2>1, <2>2, <2>3
<1>3. CASE p # <<>> /\ ~IsVersion(p[1])
  <2>1. StripVersion(p) = p
    BY <1>3 DEF StripVersion
  <2> QED
    BY <2>1
<1> QED
  BY <1>1, <1>2, <1>3

LEMMA PathStep == ASSUME PathInv, PathNext PROVE PathInv'
<1>1. CASE DecodePiece
  <2>1. step = "decode" /\ at <= Len(raw) /\ raw[at] \in Piece
    BY <1>1 DEF DecodePiece, PathInv
  <2>2. ASSUME NEW error \in {"BadRequest", "Forbidden"}, Refuse(error) PROVE PathInv'
    BY <2>1, <2>2 DEF Refuse, PathInv, Steps, NormalForm
  <2>3. ASSUME ~IsEncodedSeparator(raw[at]), DecodeAs(Meaning(raw[at])) PROVE PathInv'
    <3>1. /\ UNCHANGED <<raw, segment, path, step>>
          /\ at' = at + 1 /\ text' = Append(text, Meaning(raw[at]))
      BY <2>3 DEF DecodeAs
    <3>2. Meaning(raw[at]) \in Piece /\ SameBoundary(Meaning(raw[at]), raw[at])
      BY <2>1, <2>3, MeaningKeepsBoundary
    <3>3. Len(text) + 1 = at /\ Len(text) < Len(raw)
      BY <2>1 DEF PathInv
    <3>4. /\ text' \in Seq(Piece) /\ Len(text') = Len(text) + 1
          /\ \A k \in 1..Len(text'): SameBoundary(text'[k], raw[k])
      BY <3>1, <3>2, <3>3, AppendText DEF PathInv
    <3> QED
      BY <2>1, <3>1, <3>3, <3>4 DEF PathInv, NormalForm
  <2> QED
    BY <1>1, <2>2, <2>3 DEF DecodePiece
<1>2. CASE FinishDecoding
  <2>1. CASE Refuse("BadRequest")
    BY <1>2, <2>1 DEF FinishDecoding, Refuse, PathInv, Steps, NormalForm
  <2>2. CASE step' = "resolve" /\ at' = 1 /\ UNCHANGED <<raw, text, segment, path>>
    BY <1>2, <2>2 DEF FinishDecoding, PathInv, Steps, NormalForm
  <2> QED
    BY <1>2, <2>1, <2>2 DEF FinishDecoding
<1>3. CASE ResolvePiece
  <2>1. /\ step = "resolve" /\ at' = at + 1 /\ UNCHANGED <<raw, text, step>>
        /\ at <= Len(text) /\ text[at] \in Piece
    BY <1>3 DEF ResolvePiece, PathInv
  <2>2. CASE text[at] = "/"
    <3>1. path' = Resolved(path, segment) /\ segment' = <<>>
      BY <1>3, <2>2 DEF ResolvePiece
    <3>2. path' \in Seq(Seq(Piece)) /\ \A i \in 1..Len(path'): Proper(path'[i])
      BY <2>1, <3>1, ResolvedProper DEF PathInv
    <3> QED
      BY <2>1, <3>1, <3>2 DEF PathInv, NormalForm
  <2>3. CASE text[at] # "/"
    <3>1. segment' = Append(segment, text[at]) /\ path' = path
      BY <1>3, <2>3 DEF ResolvePiece
    <3>2. segment' \in Seq(Piece) /\ \A k \in 1..Len(segment'): segment'[k] # "/"
      BY <2>1, <2>3, <3>1, AppendSegment DEF PathInv
    <3> QED
      BY <2>1, <3>1, <3>2 DEF PathInv, NormalForm
  <2> QED
    BY <2>2, <2>3
<1>4. CASE FinishResolving
  <2> DEFINE standing == Resolved(path, segment)
  <2>1. /\ step = "resolve" /\ step' = "normal" /\ path' = StripVersion(standing)
        /\ UNCHANGED <<raw, at, text, segment>>
    BY <1>4 DEF FinishResolving
  <2>2. standing \in Seq(Seq(Piece)) /\ \A i \in 1..Len(standing): Proper(standing[i])
    BY <2>1, ResolvedProper DEF PathInv
  <2> HIDE DEF standing
  <2>3. /\ path' \in Seq(Seq(Piece))
        /\ path' \in {<<>>, << <<>> >>} \/ \A i \in 1..Len(path'): Proper(path'[i])
    BY <2>1, <2>2, StrippedNormal
  <2>4. NormalForm'
    BY <2>3 DEF NormalForm, Proper
  <2> QED
    BY <2>1, <2>3, <2>4 DEF PathInv, Steps
<1> QED
  BY <1>1, <1>2, <1>3, <1>4 DEF PathNext

-----------------------------------------------------------------------------
(***************************************************************************)
(* The reading.                                                            *)
(***************************************************************************)

LEMMA Separated ==
    ASSUME NEW r \in Seq(Piece)
    PROVE  /\ Len(r) \in Nat
           /\ Slashes(r) \subseteq 1..Len(r)
           /\ Names(r) \subseteq Slashes(r) /\ Ups(r) \subseteq Slashes(r)
           /\ Names(r) \cap Ups(r) = {}
BY DEF Slashes, Names, Ups

\* A segment ends at the next separator, or with the path.
LEMMA SegmentEnds ==
    ASSUME NEW r \in Seq(Piece), NEW k \in Nat, NEW e \in (k + 1)..(Len(r) + 1),
           e <= Len(r) => r[e] = "/", \A m \in (k + 1)..(e - 1): r[m] # "/"
    PROVE  SegmentAfter(r, k) = [i \in 1..(e - k - 1) |-> Meaning(r[k + i])]
<1> DEFINE Ends(l) == /\ l <= Len(r) => r[l] = "/"
                      /\ \A m \in (k + 1)..(l - 1): r[m] # "/"
           end == CHOOSE l \in (k + 1)..(Len(r) + 1): Ends(l)
<1>1. end \in (k + 1)..(Len(r) + 1) /\ Ends(end)
  OBVIOUS
<1>2. Len(r) \in Nat
  OBVIOUS
<1> HIDE DEF end
<1>3. ~(end < e) /\ ~(e < end)
  <2>1. CASE end < e
    <3>1. end \in (k + 1)..(e - 1) /\ end <= Len(r)
      BY <1>1, <1>2, <2>1
    <3> QED
      BY <1>1, <3>1
  <2>2. CASE e < end
    <3>1. e \in (k + 1)..(end - 1) /\ e <= Len(r)
      BY <1>1, <1>2, <2>2
    <3> QED
      BY <1>1, <3>1
  <2> QED
    BY <2>1, <2>2
<1>4. end = e
  BY <1>1, <1>2, <1>3
<1> QED
  BY <1>4 DEF SegmentAfter, end

\* A count goes on where it was, one up at an element.
LEMMA CountSteps ==
    ASSUME NEW n \in Nat, NEW S \in SUBSET (1..n), NEW k \in Nat, NEW l \in Nat
    PROVE  /\ Count(S, k, l) \in Nat
           /\ l <= k => Count(S, k, l) = 0
           /\ k < l /\ l \in S => Count(S, k, l) = Count(S, k, l - 1) + 1
           /\ l \notin S => Count(S, k, l) = Count(S, k, l - 1)
<1> DEFINE After(b) == {m \in S: k < m /\ m <= b}
<1>1. IsFiniteSet(1..n)
  BY FS_Interval
<1>2. ASSUME NEW b \in Int PROVE IsFiniteSet(After(b)) /\ Cardinality(After(b)) \in Nat
  <2>1. After(b) \in SUBSET (1..n)
    OBVIOUS
  <2>2. IsFiniteSet(After(b))
    BY <1>1, <2>1, FS_Subset
  <2> QED
    BY <2>2, FS_CardinalityType
<1>0. \A m \in S: m \in Int
  OBVIOUS
<1>3. ASSUME l <= k PROVE After(l) = {}
  <2>1. \A m \in S: ~(k < m /\ m <= l)
    BY <1>0, <1>3
  <2> QED
    BY <2>1
<1>4. k < l /\ l \in S => After(l) = After(l - 1) \cup {l} /\ l \notin After(l - 1)
  <2>1. \A m \in S: m <= l <=> (m <= l - 1 \/ m = l)
    BY <1>0
  <2>2. ~(l <= l - 1)
    OBVIOUS
  <2> QED
    BY <2>1, <2>2
<1>5. l \notin S => After(l) = After(l - 1)
  <2>1. \A m \in S: m <= l <=> (m <= l - 1 \/ m = l)
    BY <1>0
  <2> QED
    BY <2>1
<1>6. l - 1 \in Int
  OBVIOUS
<1>7. \A b: Count(S, k, b) = Cardinality(After(b))
  BY DEF Count
<1> HIDE DEF After
<1>8. IsFiniteSet(After(l - 1))
  BY <1>2, <1>6
<1>9. ASSUME k < l, l \in S PROVE Cardinality(After(l)) = Cardinality(After(l - 1)) + 1
  <2>1. After(l) = After(l - 1) \cup {l} /\ l \notin After(l - 1)
    BY <1>4, <1>9
  <2> QED
    BY <1>8, <2>1, FS_AddElement
<1>10. Cardinality(After(l)) \in Nat
  BY <1>2
<1>11. l <= k => Cardinality(After(l)) = 0
  BY <1>3, FS_EmptySet
<1>12. l \notin S => Cardinality(After(l)) = Cardinality(After(l - 1))
  BY <1>5
<1> QED
  BY <1>7, <1>9, <1>10, <1>11, <1>12

\* Whether a name still stands after the separators up to l.
Kept(r, k, l) ==
    \A t \in Slashes(r): t <= l => Count(Ups(r), k, t) <= Count(Names(r), k, t)

Excess(r, k, l) == Count(Names(r), k, l) - Count(Ups(r), k, l)

\* That places holds, in order, the separators of what stands after l, each with
\* as many names more than ways up behind it as there are above it.
Holds(r, p, l, places) ==
    /\ places \in [1..Len(p) -> Names(r)]
    /\ \A i \in 1..Len(p): /\ places[i] <= l
                           /\ p[i] = SegmentAfter(r, places[i])
                           /\ Excess(r, places[i], l) = Len(p) - i
    /\ \A i, j \in 1..Len(p): i < j => places[i] < places[j]
    /\ \A k \in Names(r): k <= l /\ Kept(r, k, l) <=> \E i \in 1..Len(p): places[i] = k

Stack(r, p, l) == \E places: Holds(r, p, l, places)

LEMMA ExcessSteps ==
    ASSUME NEW r \in Seq(Piece), NEW k \in Nat, NEW l \in Nat, k < l
    PROVE  /\ Excess(r, k, l) \in Int
           /\ l \in Names(r) => Excess(r, k, l) = Excess(r, k, l - 1) + 1
           /\ l \in Ups(r) => Excess(r, k, l) = Excess(r, k, l - 1) - 1
           /\ l \notin Names(r) \cup Ups(r) => Excess(r, k, l) = Excess(r, k, l - 1)
<1>1. /\ Len(r) \in Nat /\ Names(r) \in SUBSET (1..Len(r)) /\ Ups(r) \in SUBSET (1..Len(r))
      /\ Names(r) \cap Ups(r) = {}
  BY Separated
<1> DEFINE names == Names(r)
           ups == Ups(r)
           n == Len(r)
<1>0. n \in Nat /\ names \in SUBSET (1..n) /\ ups \in SUBSET (1..n)
  BY <1>1
<1> HIDE DEF names, ups, n
<1>2. /\ Count(names, k, l) \in Nat
      /\ l \in names => Count(names, k, l) = Count(names, k, l - 1) + 1
      /\ l \notin names => Count(names, k, l) = Count(names, k, l - 1)
  BY <1>0, CountSteps
<1>3. /\ Count(ups, k, l) \in Nat
      /\ l \in ups => Count(ups, k, l) = Count(ups, k, l - 1) + 1
      /\ l \notin ups => Count(ups, k, l) = Count(ups, k, l - 1)
  BY <1>0, CountSteps
<1>4. Count(names, k, l - 1) \in Nat /\ Count(ups, k, l - 1) \in Nat
  <2> DEFINE b == l - 1
  <2>1. b \in Nat
    OBVIOUS
  <2> HIDE DEF b
  <2>2. Count(names, k, b) \in Nat /\ Count(ups, k, b) \in Nat
    BY <1>0, <2>1, CountSteps
  <2> QED
    BY <2>2 DEF b
<1>5. names \cap ups = {}
  BY <1>1 DEF names, ups
<1>6. \A b: Excess(r, k, b) = Count(names, k, b) - Count(ups, k, b)
  BY DEF Excess, names, ups
<1>7. /\ Excess(r, k, l) \in Int
      /\ l \in names => Excess(r, k, l) = Excess(r, k, l - 1) + 1
      /\ l \in ups => Excess(r, k, l) = Excess(r, k, l - 1) - 1
      /\ l \notin names \cup ups => Excess(r, k, l) = Excess(r, k, l - 1)
  BY <1>2, <1>3, <1>4, <1>5, <1>6
<1> QED
  BY <1>7 DEF names, ups

\* A name that stands goes on to as long as there is an excess behind it.
LEMMA KeptSteps ==
    ASSUME NEW r \in Seq(Piece), NEW k \in Nat, NEW l \in Slashes(r), k < l
    PROVE  Kept(r, k, l) <=> Kept(r, k, l - 1) /\ Excess(r, k, l) >= 0
<1>1. l \in Nat /\ \A t \in Slashes(r): t \in Int
  BY Separated
<1>2. \A t \in Slashes(r): t <= l <=> (t <= l - 1 \/ t = l)
  BY <1>1
<1>3. Kept(r, k, l) <=> Kept(r, k, l - 1) /\ Count(Ups(r), k, l) <= Count(Names(r), k, l)
  BY <1>1, <1>2 DEF Kept
<1>4. Count(Ups(r), k, l) \in Nat /\ Count(Names(r), k, l) \in Nat
  <2>1. Len(r) \in Nat /\ Names(r) \in SUBSET (1..Len(r)) /\ Ups(r) \in SUBSET (1..Len(r))
    BY Separated
  <2> QED
    BY <1>1, <2>1, CountSteps
<1> QED
  BY <1>3, <1>4 DEF Excess

\* The last name to be read stands.
LEMMA KeptAtFirst ==
    ASSUME NEW r \in Seq(Piece), NEW k \in Nat
    PROVE  Kept(r, k, k) /\ Excess(r, k, k) = 0
<1>1. Len(r) \in Nat /\ Names(r) \in SUBSET (1..Len(r)) /\ Ups(r) \in SUBSET (1..Len(r))
  BY Separated
<1>2. ASSUME NEW t \in Nat, t <= k PROVE Count(Names(r), k, t) = 0 /\ Count(Ups(r), k, t) = 0
  BY <1>1, <1>2, CountSteps
<1>3. \A t \in Slashes(r): t \in Nat
  BY Separated
<1> QED
  BY <1>2, <1>3 DEF Kept, Excess

LEMMA LastRemoved ==
    ASSUME NEW S, NEW s \in Seq(S), Len(s) >= 1
    PROVE  /\ Len(SubSeq(s, 1, Len(s) - 1)) = Len(s) - 1
           /\ \A i \in 1..(Len(s) - 1): SubSeq(s, 1, Len(s) - 1)[i] = s[i]
<1> DEFINE m == Len(s) - 1
<1>1. m \in Nat /\ m <= Len(s)
  OBVIOUS
<1> HIDE DEF m
<1>2. \A i \in 1..m: i \in 1..Len(s)
  BY <1>1
<1>3. Len(SubSeq(s, 1, m)) = m
  BY <1>1, <1>2
<1>4. \A i \in 1..m: SubSeq(s, 1, m)[i] = s[i]
  BY <1>1, <1>2
<1> QED
  BY <1>3, <1>4 DEF m

\* Resolving the segment after one more separator keeps the stack.
LEMMA StackStep ==
    ASSUME NEW r \in Seq(Piece), NEW k \in Slashes(r), NEW p \in Seq(Seq(Piece)),
           SegmentAfter(r, k) \in Seq(Piece), Stack(r, p, k - 1)
    PROVE  Stack(r, Resolved(p, SegmentAfter(r, k)), k)
<1> DEFINE seg == SegmentAfter(r, k)
           n == Len(p)
<1>1. PICK places: Holds(r, p, k - 1, places)
  BY DEF Stack
<1>2. /\ n \in Nat /\ k \in Nat /\ \A m \in Names(r): m \in Nat
      /\ Names(r) \subseteq Slashes(r) /\ Ups(r) \subseteq Slashes(r)
  BY Separated
<1>3. /\ k \in Names(r) <=> seg \notin Here \cup {Up}
      /\ k \in Ups(r) <=> seg = Up
      /\ Up \notin Here
  BY DEF Names, Ups, Up, Here
<1> HIDE DEF seg, n
<1>4. ASSUME NEW i \in 1..n
      PROVE  /\ places[i] \in Names(r) /\ places[i] \in Nat /\ places[i] < k
             /\ p[i] = SegmentAfter(r, places[i])
             /\ Excess(r, places[i], k - 1) = n - i
  <2>1. places \in [1..n -> Names(r)] /\ \A j \in 1..n: places[j] <= k - 1
    BY <1>1 DEF Holds, n
  <2>2. places[i] \in Names(r) /\ places[i] <= k - 1
    BY <2>1
  <2>3. places[i] \in Nat /\ places[i] < k
    BY <1>2, <2>2
  <2>4. p[i] = SegmentAfter(r, places[i]) /\ Excess(r, places[i], k - 1) = n - i
    BY <1>1 DEF Holds, n
  <2> QED
    BY <2>2, <2>3, <2>4
<1>5. ASSUME NEW m \in Names(r), m < k
      PROVE  Kept(r, m, k) <=> Excess(r, m, k) >= 0 /\ \E i \in 1..n: places[i] = m
  <2>1. Kept(r, m, k - 1) <=> \E i \in 1..n: places[i] = m
    BY <1>1, <1>2, <1>5 DEF Holds, n
  <2> QED
    BY <1>2, <1>5, <2>1, KeptSteps
<1>6. \A i, j \in 1..n: i < j => places[i] < places[j]
  BY <1>1 DEF Holds, n
<1>7. CASE seg \in Here
  <2>1. Resolved(p, seg) = p /\ k \notin Names(r) \cup Ups(r)
    BY <1>3, <1>7 DEF Resolved
  <2>2. \A i \in 1..n: Excess(r, places[i], k) = n - i
    BY <1>2, <1>4, <2>1, ExcessSteps
  <2>3. ASSUME NEW m \in Names(r)
        PROVE  m <= k /\ Kept(r, m, k) <=> \E i \in 1..n: places[i] = m
    <3>1. m # k
      BY <2>1
    <3>2. (\E i \in 1..n: places[i] = m) => m < k /\ Excess(r, m, k) >= 0
      BY <1>2, <1>4, <2>2
    <3> QED
      BY <1>2, <1>5, <3>1, <3>2
  <2>4. Holds(r, p, k, places)
    BY <1>1, <1>2, <1>4, <1>6, <2>2, <2>3 DEF Holds, n
  <2> QED
    BY <2>1, <2>4 DEF Stack, seg
<1>8. CASE seg \notin Here \cup {Up}
  <2> DEFINE q == Append(p, seg)
             next == [i \in 1..(n + 1) |-> IF i <= n THEN places[i] ELSE k]
  <2>1. Resolved(p, seg) = q /\ k \in Names(r)
    BY <1>3, <1>8 DEF Resolved
  <2>2. /\ Len(q) = n + 1 /\ q[n + 1] = seg
        /\ \A i \in 1..n: q[i] = p[i]
    BY Appended DEF n, seg
  <2>3. next[n + 1] = k /\ \A i \in 1..n: next[i] = places[i]
    BY <1>2
  <2> HIDE DEF q, next
  <2>4. \A i \in 1..(n + 1): i \in 1..n \/ i = n + 1
    BY <1>2
  <2>5. ASSUME NEW i \in 1..n PROVE Excess(r, places[i], k) = n + 1 - i
    <3>1. places[i] \in Nat /\ places[i] < k /\ Excess(r, places[i], k - 1) = n - i
      BY <1>4
    <3>2. Excess(r, places[i], k) = Excess(r, places[i], k - 1) + 1
      BY <1>2, <2>1, <3>1, ExcessSteps
    <3> QED
      BY <1>2, <3>1, <3>2
  <2>6. Kept(r, k, k) /\ Excess(r, k, k) = 0
    BY <1>2, KeptAtFirst
  <2>7. next \in [1..(n + 1) -> Names(r)]
    BY <1>4, <2>1 DEF next
  <2>8. ASSUME NEW i \in 1..(n + 1)
        PROVE  next[i] <= k /\ q[i] = SegmentAfter(r, next[i]) /\ Excess(r, next[i], k) = n + 1 - i
    <3>1. CASE i \in 1..n
      <4>1. next[i] = places[i] /\ q[i] = p[i]
        BY <2>2, <2>3, <3>1
      <4>2. places[i] <= k
        BY <1>2, <1>4, <3>1
      <4> QED
        BY <1>4, <2>5, <3>1, <4>1, <4>2
    <3>2. CASE i = n + 1
      BY <1>2, <2>2, <2>3, <2>6, <3>2 DEF seg
    <3> QED
      BY <2>4, <3>1, <3>2
  <2>9. ASSUME NEW i \in 1..(n + 1), NEW j \in 1..(n + 1), i < j PROVE next[i] < next[j]
    <3>1. i \in 1..n
      BY <1>2, <2>9
    <3>2. CASE j \in 1..n
      BY <1>6, <2>3, <2>9, <3>1, <3>2
    <3>3. CASE j = n + 1
      BY <1>4, <2>3, <3>1, <3>3
    <3> QED
      BY <2>4, <3>2, <3>3
  <2>10. ASSUME NEW m \in Names(r)
         PROVE  m <= k /\ Kept(r, m, k) <=> \E i \in 1..(n + 1): next[i] = m
    <3>1. (\E i \in 1..(n + 1): next[i] = m) <=> m = k \/ \E i \in 1..n: places[i] = m
      BY <1>2, <2>3, <2>4
    <3>2. (\E i \in 1..n: places[i] = m) => m < k /\ Excess(r, m, k) >= 0
      BY <1>2, <1>4, <2>5
    <3>3. m <= k <=> m < k \/ m = k
      BY <1>2
    <3> QED
      BY <1>5, <2>6, <3>1, <3>2, <3>3
  <2>11. Holds(r, q, k, next)
    <3>1. Len(q) = n + 1
      BY <2>2
    <3>2. /\ next \in [1..Len(q) -> Names(r)]
          /\ \A i \in 1..Len(q): /\ next[i] <= k
                                 /\ q[i] = SegmentAfter(r, next[i])
                                 /\ Excess(r, next[i], k) = Len(q) - i
      BY <1>2, <2>7, <2>8, <3>1
    <3>3. /\ \A i, j \in 1..Len(q): i < j => next[i] < next[j]
          /\ \A m \in Names(r): m <= k /\ Kept(r, m, k) <=> \E i \in 1..Len(q): next[i] = m
      BY <2>9, <2>10, <3>1
    <3> QED
      BY <3>2, <3>3 DEF Holds
  <2> QED
    BY <2>1, <2>11 DEF Stack, seg
<1>9. CASE seg = Up /\ p = <<>>
  <2>1. Resolved(p, seg) = <<>> /\ k \notin Names(r) /\ n = 0
    BY <1>3, <1>9 DEF Resolved, n
  <2>2. ASSUME NEW m \in Names(r) PROVE ~(m <= k /\ Kept(r, m, k))
    <3>1. m # k
      BY <2>1
    <3> QED
      BY <1>2, <1>5, <2>1, <3>1
  <2>3. Holds(r, <<>>, k, places)
    <3>1. places \in [1..Len(<<>>) -> Names(r)]
      BY <1>1, <1>9 DEF Holds
    <3> QED
      BY <2>2, <3>1 DEF Holds
  <2> QED
    BY <2>1, <2>3 DEF Stack, seg
<1>10. CASE seg = Up /\ p # <<>>
  <2> DEFINE q == SubSeq(p, 1, n - 1)
             next == [i \in 1..(n - 1) |-> places[i]]
  <2>1. Resolved(p, seg) = q /\ k \in Ups(r) /\ k \notin Names(r)
    BY <1>3, <1>10 DEF Resolved, n
  <2>2. n >= 1
    BY <1>10 DEF n
  <2>3. Len(q) = n - 1 /\ \A i \in 1..(n - 1): q[i] = p[i]
    BY <1>2, <2>2, LastRemoved DEF n
  <2> HIDE DEF q
  <2>4. \A i \in 1..(n - 1): i \in 1..n /\ next[i] = places[i]
    BY <1>2, <2>2
  <2>5. ASSUME NEW i \in 1..n PROVE Excess(r, places[i], k) = n - 1 - i
    BY <1>2, <1>4, <2>1, ExcessSteps
  <2>6. next \in [1..(n - 1) -> Names(r)]
    BY <1>4, <2>4
  <2> HIDE DEF next
  <2>7. ASSUME NEW i \in 1..(n - 1)
        PROVE  next[i] <= k /\ q[i] = SegmentAfter(r, next[i]) /\ Excess(r, next[i], k) = n - 1 - i
    <3>1. i \in 1..n /\ next[i] = places[i] /\ q[i] = p[i]
      BY <2>3, <2>4
    <3>2. places[i] <= k
      BY <1>2, <1>4, <3>1
    <3> QED
      BY <1>4, <2>5, <3>1, <3>2
  <2>8. ASSUME NEW m \in Names(r)
        PROVE  m <= k /\ Kept(r, m, k) <=> \E i \in 1..(n - 1): next[i] = m
    <3>1. m # k
      BY <2>1
    <3>2. ASSUME NEW i \in 1..n, places[i] = m
          PROVE  m < k /\ (Excess(r, m, k) >= 0 <=> i \in 1..(n - 1))
      BY <1>2, <1>4, <2>2, <2>5, <3>2
    <3>3. m <= k <=> m < k
      BY <1>2, <3>1
    <3> QED
      BY <1>5, <2>4, <3>2, <3>3
  <2>9. Holds(r, q, k, next)
    BY <1>6, <2>3, <2>4, <2>6, <2>7, <2>8 DEF Holds
  <2> QED
    BY <2>1, <2>9 DEF Stack, seg
<1> QED
  BY <1>7, <1>8, <1>9, <1>10 DEF seg

\* Nothing happens to the stack between separators.
LEMMA StackSkip ==
    ASSUME NEW r \in Seq(Piece), NEW p \in Seq(Seq(Piece)), NEW l \in Nat, NEW b \in Nat,
           l <= b, \A t \in Slashes(r): ~(l < t /\ t <= b), Stack(r, p, l)
    PROVE  Stack(r, p, b)
<1>1. PICK places: Holds(r, p, l, places)
  BY DEF Stack
<1>2. \A t \in Slashes(r): t \in Nat /\ (t <= b <=> t <= l)
  BY Separated
<1>3. Names(r) \subseteq Slashes(r) /\ Ups(r) \subseteq Slashes(r)
  BY Separated
<1>4. ASSUME NEW k
      PROVE  Count(Names(r), k, b) = Count(Names(r), k, l) /\ Count(Ups(r), k, b) = Count(Ups(r), k, l)
  BY <1>2, <1>3 DEF Count
<1>5. \A k: Excess(r, k, b) = Excess(r, k, l) /\ (Kept(r, k, b) <=> Kept(r, k, l))
  BY <1>2, <1>4 DEF Excess, Kept
<1>6. ASSUME NEW i \in 1..Len(p) PROVE places[i] <= b
  <2>1. places[i] \in Names(r) /\ places[i] <= l
    BY <1>1 DEF Holds
  <2> QED
    BY <1>2, <1>3, <2>1
<1>7. Holds(r, p, b, places)
  BY <1>1, <1>2, <1>3, <1>5, <1>6 DEF Holds
<1> QED
  BY <1>7 DEF Stack

Firsts(f, j) == {f[i]: i \in 1..j}

\* The first so many values of an increasing function are as many.
LEMMA Ranked ==
    ASSUME NEW n \in Nat, NEW f \in [1..n -> Nat],
           \A i, j \in 1..n: i < j => f[i] < f[j], NEW j \in 0..n
    PROVE  Cardinality(Firsts(f, j)) = j
<1> DEFINE g == [i \in 1..j |-> f[i]]
           S == {f[i]: i \in 1..j}
<1>1. \A i \in 1..j: i \in 1..n
  OBVIOUS
<1>2. g \in [1..j -> S] /\ \A m \in S: \E i \in 1..j: g[i] = m
  OBVIOUS
<1>3. ASSUME NEW a \in 1..j, NEW b \in 1..j, g[a] = g[b] PROVE a = b
  <2>1. f[a] = f[b] /\ f[a] \in Nat /\ f[b] \in Nat
    BY <1>1, <1>3
  <2>2. ~(a < b) /\ ~(b < a)
    BY <1>1, <2>1
  <2> QED
    BY <2>2
<1> HIDE DEF g, S
<1>4. g \in Bijection(1..j, S)
  BY <1>2, <1>3 DEF Bijection, Injection, Surjection, IsInjective
<1>5. IsFiniteSet(1..j) /\ Cardinality(1..j) = j
  BY FS_Interval
<1> QED
  BY <1>4, <1>5, FS_Bijection DEF ExistsBijection, S, Firsts

\* At the end of the path the stack is the reading.
LEMMA StackRead ==
    ASSUME NEW r \in Seq(Piece), NEW p \in Seq(Seq(Piece)), Stack(r, p, Len(r))
    PROVE  StripVersion(p) = Reading(r)
<1> DEFINE n == Len(p)
           standing == Standing(r)
<1>1. PICK places: Holds(r, p, Len(r), places)
  BY DEF Stack
<1>2. /\ n \in Nat /\ places \in [1..n -> Nat]
      /\ \A i, j \in 1..n: i < j => places[i] < places[j]
      /\ \A i \in 1..n: places[i] > 0 /\ p[i] = SegmentAfter(r, places[i])
  <2>1. Names(r) \subseteq 1..Len(r) /\ Len(r) \in Nat
    BY Separated
  <2>2. places \in [1..n -> Names(r)]
    BY <1>1 DEF Holds
  <2>3. \A i \in 1..n: places[i] \in 1..Len(r)
    BY <2>1, <2>2
  <2>4. places \in [1..n -> Nat] /\ \A i \in 1..n: places[i] > 0
    BY <2>1, <2>2, <2>3
  <2> QED
    BY <1>1, <2>4 DEF Holds
<1>3. standing = Firsts(places, n)
  <2>1. \A t \in Slashes(r): t <= Len(r)
    BY Separated
  <2>2. standing = {m \in Names(r): m <= Len(r) /\ Kept(r, m, Len(r))}
    BY <2>1, Separated DEF Standing, Kept
  <2>3. \A m \in Names(r): m <= Len(r) /\ Kept(r, m, Len(r)) <=> \E i \in 1..n: places[i] = m
    BY <1>1 DEF Holds
  <2>4. \A i \in 1..n: places[i] \in Names(r)
    BY <1>1 DEF Holds
  <2> QED
    BY <2>2, <2>3, <2>4 DEF Firsts
<1> HIDE DEF n, standing
<1>4. Cardinality(standing) = n
  <2>1. n \in 0..n
    BY <1>2
  <2>2. Cardinality(Firsts(places, n)) = n
    BY <1>2, <2>1, Ranked
  <2> QED
    BY <1>3, <2>2
<1>5. ASSUME NEW j \in 1..n PROVE Count(standing, 0, places[j]) = j
  <2>1. \A i \in 1..n: places[i] <= places[j] <=> i \in 1..j
    BY <1>2
  <2>2. {m \in standing: 0 < m /\ m <= places[j]} = Firsts(places, j)
    BY <1>2, <1>3, <2>1 DEF Firsts
  <2>3. j \in 0..n
    BY <1>2
  <2>4. /\ n \in Nat /\ places \in [1..n -> Nat]
        /\ \A h, i \in 1..n: h < i => places[h] < places[i]
    BY <1>2
  <2>5. Cardinality(Firsts(places, j)) = j
    BY <2>3, <2>4, Ranked
  <2> QED
    BY <2>2, <2>5 DEF Count
<1>6. ASSUME NEW j \in 1..n PROVE Nth(standing, j) = places[j]
  <2>1. places[j] \in standing
    BY <1>3 DEF Firsts
  <2>2. ASSUME NEW m \in standing, Count(standing, 0, m) = j PROVE m = places[j]
    <3>1. PICK i \in 1..n: m = places[i]
      BY <1>3 DEF Firsts
    <3>2. i = j
      BY <1>5, <2>2, <3>1
    <3> QED
      BY <3>1, <3>2
  <2> QED
    BY <1>5, <2>1, <2>2 DEF Nth
<1>7. p = [i \in 1..n |-> SegmentAfter(r, Nth(standing, i))]
  <2>1. p = [i \in 1..n |-> p[i]]
    BY DEF n
  <2>2. \A i \in 1..n: p[i] = SegmentAfter(r, Nth(standing, i))
    BY <1>2, <1>6
  <2> QED
    BY <2>1, <2>2
<1> QED
  BY <1>4, <1>7 DEF Reading, standing

-----------------------------------------------------------------------------
(***************************************************************************)
(* The loops against the reading.                                          *)
(***************************************************************************)

\* The separator after which the segment is that is being read.
Current == at - 1 - Len(segment)

\* Nothing has been resolved yet.
AtStart == at = 1 /\ segment = <<>> /\ path = <<>>

\* The segment is what has been read after the current separator; the stack, what
\* stands of those before.
Underway ==
    /\ Current \in Slashes(raw)
    /\ \A k \in (Current + 1)..(at - 1): raw[k] # "/"
    /\ \A i \in 1..Len(segment): segment[i] = Meaning(raw[Current + i])
    /\ Stack(raw, path, Current - 1)

ReadInv ==
    /\ raw # <<>> /\ raw[1] = "/"
    /\ \A k \in 1..Len(text): text[k] = Meaning(raw[k])
    /\ step \in {"resolve", "normal"} => Len(text) = Len(raw)
    /\ step = "decode" => segment = <<>> /\ path = <<>>
    /\ step = "resolve" => AtStart \/ Underway
    /\ DecidedAsRead

\* The stack of an empty beginning.
LEMMA StackStarts ==
    ASSUME NEW r \in Seq(Piece) PROVE Stack(r, <<>>, 0)
<1>1. [i \in {} |-> 0] \in [1..Len(<<>>) -> Names(r)]
  OBVIOUS
<1>2. \A k \in Names(r): ~(k <= 0)
  BY Separated
<1> QED
  BY <1>1, <1>2 DEF Stack, Holds

\* A segment that has been read whole goes onto the stack.
LEMMA SegmentDone ==
    ASSUME PathInv, ReadInv, step = "resolve", Underway,
           at <= Len(raw) => raw[at] = "/"
    PROVE  Stack(raw, Resolved(path, segment), at - 1)
<1> DEFINE k == Current
<1>1. /\ raw \in Seq(Piece) /\ segment \in Seq(Piece) /\ path \in Seq(Seq(Piece))
      /\ at \in 1..(Len(raw) + 1) /\ Len(raw) \in Nat /\ Len(segment) \in Nat
  BY DEF PathInv
<1>2. k \in Slashes(raw) /\ k \in Nat /\ k \in 1..Len(raw) /\ k = at - 1 - Len(segment)
  BY Separated, <1>1 DEF Underway, Current
<1>3. at \in (k + 1)..(Len(raw) + 1)
  BY <1>1, <1>2
<1>4. SegmentAfter(raw, k) = [i \in 1..(at - k - 1) |-> Meaning(raw[k + i])]
  <2>1. \A m \in (k + 1)..(at - 1): raw[m] # "/"
    BY DEF Underway
  <2>2. at <= Len(raw) => raw[at] = "/"
    OBVIOUS
  <2>3. raw \in Seq(Piece) /\ k \in Nat
    BY <1>1, <1>2
  <2> HIDE DEF k
  <2> QED
    BY <1>3, <2>1, <2>2, <2>3, SegmentEnds
<1>5. SegmentAfter(raw, k) = segment
  <2>1. at - k - 1 = Len(segment)
    BY <1>1, <1>2
  <2>2. segment = [i \in 1..Len(segment) |-> segment[i]]
    BY <1>1
  <2>3. \A i \in 1..Len(segment): segment[i] = Meaning(raw[k + i])
    BY DEF Underway
  <2> QED
    BY <1>4, <2>1, <2>2, <2>3
<1>6. Stack(raw, Resolved(path, segment), k)
  BY <1>1, <1>2, <1>5, StackStep DEF Underway
<1>7. Resolved(path, segment) \in Seq(Seq(Piece))
  <2>1. /\ \A i \in 1..Len(path): Proper(path[i])
        /\ \A i \in 1..Len(segment): segment[i] # "/"
    BY DEF PathInv
  <2> QED
    BY <1>1, <2>1, ResolvedProper
<1>8. \A t \in Slashes(raw): ~(k < t /\ t <= at - 1)
  <2>1. \A t \in Slashes(raw): t \in Nat /\ raw[t] = "/"
    BY Separated DEF Slashes
  <2>2. \A t \in (k + 1)..(at - 1): raw[t] # "/"
    BY DEF Underway
  <2>3. ASSUME NEW t \in Slashes(raw), k < t, t <= at - 1 PROVE t \in (k + 1)..(at - 1)
    BY <1>1, <1>2, <2>1, <2>3
  <2> QED
    BY <2>1, <2>2, <2>3
<1>9. at - 1 \in Nat /\ k <= at - 1
  BY <1>1, <1>2
<1> HIDE DEF k
<1> QED
  BY <1>1, <1>2, <1>6, <1>7, <1>8, <1>9, StackSkip

\* A separator, at the beginning or after a segment.
LEMMA SeparatorRead ==
    ASSUME PathInv, ReadInv, ResolvePiece, text[at] = "/" PROVE ReadInv'
<1>1. /\ step = "resolve" /\ at <= Len(text) /\ at' = at + 1
      /\ path' = Resolved(path, segment) /\ segment' = <<>>
      /\ UNCHANGED <<raw, text, step>>
  BY DEF ResolvePiece
<1>2. /\ raw \in Seq(Piece) /\ at \in 1..Len(raw) /\ Len(raw) \in Nat /\ raw[at] = "/"
  <2>1. Len(text) = Len(raw) /\ Len(raw) \in Nat
    BY <1>1 DEF PathInv, ReadInv
  <2>2. at \in 1..Len(text) /\ SameBoundary(text[at], raw[at])
    BY <1>1, <2>1 DEF PathInv
  <2> QED
    BY <2>1, <2>2 DEF PathInv, SameBoundary, Separators
<1>3. Current' = at
  BY <1>1, <1>2 DEF Current
<1>4. Stack(raw, path', at - 1)
  <2>1. CASE AtStart
    <3>1. path' = <<>> /\ at - 1 = 0
      BY <1>1, <2>1 DEF AtStart, Resolved, Here
    <3> QED
      BY <1>2, <3>1, StackStarts
  <2>2. CASE Underway
    BY <1>1, <1>2, <2>2, SegmentDone
  <2> QED
    BY <1>1, <2>1, <2>2 DEF ReadInv
<1>5. Underway'
  <2>1. at \in Slashes(raw)
    BY <1>2 DEF Slashes
  <2>2. \A k \in (at + 1)..(at + 1 - 1): raw[k] # "/"
    BY <1>2
  <2>3. Stack(raw', path', Current' - 1)
    BY <1>1, <1>3, <1>4
  <2>4. \A i \in 1..Len(segment'): FALSE
    BY <1>1
  <2> QED
    BY <1>1, <1>3, <2>1, <2>2, <2>3, <2>4 DEF Underway
<1> QED
  BY <1>1, <1>5 DEF ReadInv, DecidedAsRead

\* Any other piece goes to the segment.
LEMMA PieceRead ==
    ASSUME PathInv, ReadInv, ResolvePiece, text[at] # "/" PROVE ReadInv'
<1>1. /\ step = "resolve" /\ at <= Len(text) /\ at' = at + 1
      /\ segment' = Append(segment, text[at])
      /\ UNCHANGED <<raw, text, step, path>>
  BY DEF ResolvePiece
<1>2. /\ Len(text) = Len(raw) /\ Len(raw) \in Nat /\ at \in 1..Len(raw)
      /\ text[at] \in Piece /\ segment \in Seq(Piece) /\ Len(segment) \in Nat
  BY <1>1 DEF PathInv, ReadInv
<1>3. raw[at] # "/" /\ text[at] = Meaning(raw[at])
  <2>1. SameBoundary(text[at], raw[at])
    BY <1>2 DEF PathInv
  <2> QED
    BY <1>2, <2>1 DEF ReadInv, SameBoundary, Separators
<1>4. Underway
  BY <1>1, <1>3 DEF ReadInv, AtStart
<1>5. Current \in Nat /\ at = Current + Len(segment) + 1
  <2>1. Current \in Slashes(raw)
    BY <1>4 DEF Underway
  <2>2. Current \in Nat
    BY <2>1 DEF Slashes
  <2> QED
    BY <1>2, <2>2 DEF Current
<1>6. /\ Len(segment') = Len(segment) + 1 /\ segment'[Len(segment) + 1] = text[at]
      /\ \A i \in 1..Len(segment): segment'[i] = segment[i]
  BY <1>1, <1>2, Appended
<1>7. Current' = Current
  BY <1>1, <1>2, <1>6 DEF Current
<1> DEFINE k == Current
<1>8. k \in Nat /\ at = k + Len(segment) + 1 /\ Current' = k
  BY <1>5, <1>7
<1>9. /\ \A t \in (k + 1)..(at - 1): raw[t] # "/"
      /\ \A i \in 1..Len(segment): segment[i] = Meaning(raw[k + i])
      /\ Stack(raw, path, k - 1) /\ k \in Slashes(raw)
  BY <1>4 DEF Underway
<1> HIDE DEF k
<1>10. \A t \in (k + 1)..(at' - 1): raw[t] # "/"
  <2>1. \A t \in (k + 1)..(at' - 1): t \in (k + 1)..(at - 1) \/ t = at
    BY <1>1, <1>2, <1>8
  <2> QED
    BY <1>3, <1>9, <2>1
<1>11. ASSUME NEW i \in 1..Len(segment') PROVE segment'[i] = Meaning(raw[k + i])
  <2>1. i \in 1..Len(segment) \/ i = Len(segment) + 1
    BY <1>2, <1>6
  <2>2. CASE i \in 1..Len(segment)
    BY <1>6, <1>9, <2>2
  <2>3. CASE i = Len(segment) + 1
    <3>1. k + i = at
      BY <1>2, <1>8, <2>3
    <3> QED
      BY <1>3, <1>6, <2>3, <3>1
  <2> QED
    BY <2>1, <2>2, <2>3
<1>12. Underway'
  BY <1>1, <1>8, <1>9, <1>10, <1>11 DEF Underway
<1> QED
  BY <1>1, <1>12 DEF ReadInv, DecidedAsRead

\* Every step of the loops keeps to the reading.
LEMMA ReadStep == ASSUME PathInv, ReadInv, PathNext PROVE ReadInv'
<1>1. CASE DecodePiece
  <2>1. step = "decode" /\ at \in 1..Len(raw) /\ Len(text) = at - 1 /\ text \in Seq(Piece)
    BY <1>1 DEF DecodePiece, PathInv
  <2>2. ASSUME NEW error \in {"BadRequest", "Forbidden"}, Refuse(error) PROVE ReadInv'
    BY <2>1, <2>2 DEF Refuse, ReadInv, DecidedAsRead
  <2>3. ASSUME ~IsEncodedSeparator(raw[at]), DecodeAs(Meaning(raw[at])) PROVE ReadInv'
    <3>1. /\ UNCHANGED <<raw, segment, path, step>>
          /\ text' = Append(text, Meaning(raw[at]))
      BY <2>3 DEF DecodeAs
    <3>2. Meaning(raw[at]) \in Piece
      BY <2>1, <2>3, MeaningKeepsBoundary DEF PathInv
    <3>3. /\ Len(text') = at /\ text'[at] = Meaning(raw[at])
          /\ \A k \in 1..(at - 1): text'[k] = text[k]
      BY <2>1, <3>1, <3>2, Appended
    <3>4. \A k \in 1..Len(text'): k = at \/ k \in 1..(at - 1)
      BY <2>1, <3>3
    <3>5. \A k \in 1..Len(text'): text'[k] = Meaning(raw[k])
      BY <2>1, <3>3, <3>4 DEF ReadInv
    <3> QED
      BY <2>1, <3>1, <3>5 DEF ReadInv, DecidedAsRead
  <2> QED
    BY <1>1, <2>2, <2>3 DEF DecodePiece
<1>2. CASE FinishDecoding
  <2>1. step = "decode" /\ Len(text) = Len(raw) /\ segment = <<>> /\ path = <<>>
    BY <1>2 DEF FinishDecoding, PathInv, ReadInv
  <2>2. CASE Refuse("BadRequest")
    BY <2>1, <2>2 DEF Refuse, ReadInv, DecidedAsRead
  <2>3. CASE step' = "resolve" /\ at' = 1 /\ UNCHANGED <<raw, text, segment, path>>
    BY <2>1, <2>3 DEF ReadInv, AtStart, DecidedAsRead
  <2> QED
    BY <1>2, <2>2, <2>3 DEF FinishDecoding
<1>3. CASE ResolvePiece
  BY <1>3, SeparatorRead, PieceRead
<1>4. CASE FinishResolving
  <2>1. /\ step = "resolve" /\ at > Len(text) /\ step' = "normal"
        /\ path' = StripVersion(Resolved(path, segment))
        /\ UNCHANGED <<raw, at, text, segment>>
    BY <1>4 DEF FinishResolving
  <2>2. /\ raw \in Seq(Piece) /\ Len(raw) \in Nat /\ Len(raw) > 0 /\ at = Len(raw) + 1
        /\ path \in Seq(Seq(Piece)) /\ segment \in Seq(Piece)
    BY <2>1 DEF PathInv, ReadInv
  <2>3. Underway
    BY <2>1, <2>2 DEF ReadInv, AtStart
  <2>4. Stack(raw, Resolved(path, segment), Len(raw))
    <3>1. Stack(raw, Resolved(path, segment), at - 1)
      BY <2>1, <2>2, <2>3, SegmentDone
    <3> QED
      BY <2>2, <3>1
  <2>5. Resolved(path, segment) \in Seq(Seq(Piece))
    BY <2>1, <2>2, ResolvedProper DEF PathInv
  <2>6. path' = Reading(raw)
    BY <2>1, <2>2, <2>4, <2>5, StackRead
  <2> QED
    BY <2>1, <2>6 DEF ReadInv, DecidedAsRead
<1> QED
  BY <1>1, <1>2, <1>3, <1>4 DEF PathNext
=============================================================================
