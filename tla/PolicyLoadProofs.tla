--------------------------- MODULE PolicyLoadProofs ---------------------------
(***************************************************************************)
(* Theorems of PolicyLoad and PolicyDecision, for any configuration and    *)
(* any request.  The loader has one way to each of its stages, so that the *)
(* invariant says what the filter is there: what it is when the loader is  *)
(* done follows by the lemma LoadedRules, and the rest is about verdicts.  *)
(***************************************************************************)
EXTENDS PolicyLoad, FiniteSetTheorems, TLAPS

WithDocument(i) ==
    IF i.file = "good" THEN Apply(Base(i), i.document) ELSE Base(i)

\* What has been reported of an origin, before and after it was applied.
Applied(o) ==
    IF o = "document" THEN stage \in {"environment", "ready"} ELSE stage = "ready"
Reported(o) ==
    [s \in Sections |-> IF Applied(o) THEN Unknown(RulesOf(o)[s]) ELSE Silence[s]]

IInv ==
    /\ input \in Inputs
    /\ stage \in {"document", "environment", "ready"} =>
          Readable(input) /\ ~Contradictory(input)
    /\ stage = "document" => filter = Base(input)
    /\ stage = "environment" => filter = WithDocument(input)
    /\ stage = "ready" => filter = Apply(WithDocument(input), input.modifiers)
    /\ warned = [o \in Origins |-> Reported(o)]

\* Nothing is reported of what is absent.
LEMMA SilenceUnknown == \A t \in Sections: Unknown(Silence[t]) = Silence[t]
BY DEF Unknown, Silence

\* The invariant holds from the start and is kept by every step.
LEMMA Inductive == (Init => IInv) /\ (IInv /\ [Next]_vars => IInv')
<1>1. Init => IInv
  BY DEF Init, IInv, Reported, Applied, Origins, Silence
<1>2. ASSUME IInv, Fail \/ ReadSources PROVE IInv'
  <2>1. \A o \in Origins: Reported(o)' = Reported(o)
    BY <1>2 DEF Fail, ReadSources, Reported, Applied, Origins, RulesOf, Silence
  <2> QED
    BY <1>2, <2>1 DEF IInv, Fail, ReadSources
<1>3. ASSUME IInv, ApplyDocument PROVE IInv'
  <2>1. warned' = [o \in Origins |-> Reported(o)']
    <3>1. Reported("environment")' = Reported("environment")
      BY <1>3 DEF ApplyDocument, Reported, Applied, RulesOf, Silence
    <3>2. CASE input.file = "good"
      <4>1. Reported("document")' = [t \in Sections |-> Unknown(input.document[t])]
        BY <1>3, <3>2 DEF ApplyDocument, Reported, Applied, RulesOf
      <4> QED
        BY <1>3, <3>1, <3>2, <4>1 DEF IInv, ApplyDocument, Report, Origins
    <3>3. CASE input.file # "good"
      <4>1. Reported("document")' = Reported("document")
        BY <1>3, <3>3, SilenceUnknown DEF ApplyDocument, Reported, Applied, RulesOf
      <4> QED
        BY <1>3, <3>1, <3>3, <4>1 DEF IInv, ApplyDocument, Origins
    <3> QED
      BY <3>2, <3>3
  <2> QED
    BY <1>3, <2>1 DEF IInv, ApplyDocument, WithDocument
<1>4. ASSUME IInv, ApplyEnvironment PROVE IInv'
  <2>1. /\ Reported("document")' = Reported("document")
        /\ Reported("environment")' = [t \in Sections |-> Unknown(input.modifiers[t])]
    BY <1>4 DEF ApplyEnvironment, Reported, Applied, RulesOf
  <2>2. warned' = [o \in Origins |-> Reported(o)']
    BY <1>4, <2>1 DEF IInv, ApplyEnvironment, Report, Origins
  <2> QED
    BY <1>4, <2>2 DEF IInv, ApplyEnvironment
<1>5. ASSUME IInv, UNCHANGED vars PROVE IInv'
  <2>1. \A o \in Origins: Reported(o)' = Reported(o)
    BY <1>5 DEF vars, Reported, Applied, RulesOf
  <2> QED
    BY <1>5, <2>1 DEF IInv, vars
<1> QED
  BY <1>1, <1>2, <1>3, <1>4, <1>5 DEF Next, Done

\* Pushing adds the rule unless it is inert, and no other.
LEMMA Pushed ==
    ASSUME NEW rules, NEW rule
    PROVE  Push(rules, rule) = rules \cup {r \in {rule}: ~Inert(r)}
BY DEF Push

\* The rules of the finished filter are those of the base and the written ones.
LEMMA LoadedRules ==
    ASSUME IInv, stage = "ready"
    PROVE  /\ filter.allow = Base(input).allow \cup Written("allow") \cup Written("include")
           /\ filter.deny = Base(input).deny \cup Written("deny")
           /\ filter.exclude = Base(input).exclude \cup Written("exclude")
<1> DEFINE New(rule) == {r \in {rule}: ~Inert(r)}
           d == input.document
           m == input.modifiers
           doc == WithDocument(input)
<1>1. filter = Apply(doc, m)
  BY DEF IInv
<1>2. /\ filter.allow = doc.allow \cup New(m["allow"]) \cup New(m["include"])
      /\ filter.deny = doc.deny \cup New(m["deny"])
      /\ filter.exclude = doc.exclude \cup New(m["exclude"])
  BY <1>1, Pushed DEF Apply
<1>3. CASE input.file = "good"
  <2>1. /\ doc.allow = Base(input).allow \cup New(d["allow"]) \cup New(d["include"])
        /\ doc.deny = Base(input).deny \cup New(d["deny"])
        /\ doc.exclude = Base(input).exclude \cup New(d["exclude"])
    BY <1>3, Pushed DEF Apply, WithDocument
  <2>2. \A s: Written(s) = New(d[s]) \cup New(m[s])
    BY <1>3 DEF Written
  <2> HIDE DEF doc, New
  <2> QED
    BY <1>2, <2>1, <2>2
<1>4. CASE input.file # "good"
  <2>1. doc = Base(input)
    BY <1>4 DEF WithDocument
  <2>2. \A s: Written(s) = New(m[s])
    BY <1>4 DEF Written
  <2> HIDE DEF doc, New
  <2> QED
    BY <1>2, <2>1, <2>2
<1> QED
  BY <1>3, <1>4

-----------------------------------------------------------------------------

\* A rule among others makes the list match whatever it matches.
LEMMA ListGrows ==
    ASSUME NEW R, NEW S, R \subseteq S, NEW m, NEW p, ListMatches(R, m, p)
    PROVE  ListMatches(S, m, p)
BY DEF ListMatches

\* The combining algorithm: an exclusion decides, a denial at least prevents,
\* and only an allowance allows.
LEMMA Verdicts ==
    ASSUME NEW f, NEW m, NEW p
    PROVE  /\ ListMatches(f.exclude, m, p) => Check(f, m, p) = "excluded"
           /\ ListMatches(f.deny, m, p) => ~Allows(f, m, p)
           /\ Allows(f, m, p) => ListMatches(f.allow, m, p)
BY DEF Check, Allows

\* The denial of the read-only profile matches every write, on any endpoint.
LEMMA DenialOfWrites ==
    ASSUME NEW m \in {"POST", "PUT", "DELETE", "PATCH"}, NEW p
    PROVE  RuleMatches(ReadOnlyDenial, m, p)
BY DEF RuleMatches, Inert, ReadOnlyDenial, WRITE_METHODS

\* The denial is in the filter, whatever was added to it.
LEMMA ReadOnlyLoaded ==
    ASSUME IInv, stage = "ready", input.profile = "read-only",
           NEW m \in {"POST", "PUT", "DELETE", "PATCH"}, NEW p
    PROVE  ~Allows(filter, m, p)
<1>1. Base(input) = ForProfile("read-only")
  BY DEF IInv, Contradictory, Base
<1>2. ReadOnlyDenial \in Base(input).deny
  BY <1>1 DEF ForProfile, DenyAll
<1>3. ListMatches(filter.deny, m, p)
  BY <1>2, LoadedRules, DenialOfWrites DEF ListMatches
<1> QED
  BY <1>3, Verdicts

\* No rule of an operator's reopens a write under the read-only profile.
THEOREM ReadOnlyHolds == Spec => []ReadOnlyNeverWrites
<1>1. IInv => ReadOnlyNeverWrites
  BY ReadOnlyLoaded DEF ReadOnlyNeverWrites
<1> QED
  BY <1>1, Inductive, PTL DEF Spec

\* An operator's exclusions and denials decide against every other source.
THEOREM ProhibitionsHold == Spec => []ProhibitionsDecisive
<1>1. IInv => ProhibitionsDecisive
  <2> SUFFICES ASSUME IInv, stage = "ready", NEW m \in Method, NEW p \in Path
               PROVE  /\ ListMatches(Written("exclude"), m, p) =>
                            Check(filter, m, p) = "excluded"
                      /\ ListMatches(Written("deny"), m, p) => ~Allows(filter, m, p)
      BY DEF ProhibitionsDecisive
  <2>1. Written("exclude") \subseteq filter.exclude /\ Written("deny") \subseteq filter.deny
    BY LoadedRules
  <2> QED
    BY <2>1, ListGrows, Verdicts
<1> QED
  BY <1>1, Inductive, PTL DEF Spec

\* Default deny: whatever is allowed was granted by a single source.
THEOREM DefaultDeny == Spec => []GrantsHaveASource
<1>1. IInv => GrantsHaveASource
  BY LoadedRules, Verdicts DEF GrantsHaveASource
<1> QED
  BY <1>1, Inductive, PTL DEF Spec

\* No server decides with a policy the operator did not write.
THEOREM LoaderFailsClosed == Spec => []FailsClosed
<1>1. IInv => FailsClosed
  <2> SUFFICES ASSUME IInv, stage = "ready"
               PROVE  /\ Readable(input)
                      /\ DOMAIN input.compat # {} =>
                            /\ input.profile = "default"
                            /\ filter.deny = Written("deny")
                            /\ filter.allow \ (Written("allow") \cup Written("include"))
                                  \subseteq {CompatRule(input.compat)}
      BY DEF FailsClosed
  <2>1. Readable(input) /\ ~Contradictory(input)
    BY DEF IInv
  <2>2. ASSUME DOMAIN input.compat # {}
        PROVE  /\ Base(input).deny = {}
               /\ Base(input).allow \subseteq {CompatRule(input.compat)}
    <3>1. /\ Base(input).deny = {}
          /\ Base(input).allow = Push({}, CompatRule(input.compat))
      BY <2>2 DEF Base, DenyAll
    <3> QED
      BY <3>1, Pushed
  <2> QED
    BY <2>1, <2>2, LoadedRules DEF Contradictory
<1> QED
  BY <1>1, Inductive, PTL DEF Spec

-----------------------------------------------------------------------------

\* The segments of short paths.
LEMMA Tuples ==
    /\ \A a: Len(<<a>>) = 1 /\ <<a>>[1] = a
    /\ \A a, b: Len(<<a, b>>) = 2 /\ <<a, b>>[1] = a /\ <<a, b>>[2] = b
    /\ \A a, b, c: Len(<<a, b, c>>) = 3 /\ <<a, b, c>>[1] = a /\ <<a, b, c>>[2] = b
                     /\ <<a, b, c>>[3] = c
    /\ \A a, b, c, d: Len(<<a, b, c, d>>) = 4 /\ <<a, b, c, d>>[1] = a
OBVIOUS

\* The segments of a pattern that count are placed in order, each for itself.
LEMMA Places ==
    ASSUME NEW p, Len(p) \in Nat, NEW i \in 1..Len(p), Counts(p[i])
    PROVE  /\ Place(p, Len(p)) \in Nat /\ Place(p, i) \in 1..Place(p, Len(p))
           /\ \A j \in 1..Len(p): Counts(p[j]) /\ Place(p, j) = Place(p, i) => j = i
<1> DEFINE upto(n) == {j \in 1..n: Counts(p[j])}
<1>1. ASSUME NEW n \in Nat PROVE IsFiniteSet(upto(n)) /\ Cardinality(upto(n)) \in Nat
  <2>1. IsFiniteSet(1..n)
    BY FS_Interval
  <2>2. IsFiniteSet(upto(n))
    BY <2>1, FS_Subset
  <2> QED
    BY <2>2, FS_CardinalityType
<1>2. ASSUME NEW m \in Nat, NEW n \in Nat, m <= n
      PROVE  /\ Cardinality(upto(m)) <= Cardinality(upto(n))
             /\ Cardinality(upto(m)) = Cardinality(upto(n)) => upto(m) = upto(n)
  <2>1. upto(m) \subseteq upto(n)
    BY <1>2
  <2> QED
    BY <1>1, <2>1, FS_Subset
<1>3. \A n: Place(p, n) = Cardinality(upto(n))
  BY DEF Place
<1>4. i \in Nat /\ i <= Len(p) /\ i \in upto(i)
  OBVIOUS
<1> HIDE DEF upto
<1>5. Place(p, i) # 0
  BY <1>1, <1>3, <1>4, FS_EmptySet
<1>6. Place(p, i) \in Nat /\ Place(p, Len(p)) \in Nat /\ Place(p, i) <= Place(p, Len(p))
  BY <1>1, <1>2, <1>3, <1>4
<1>7. ASSUME NEW m \in 1..Len(p), NEW n \in 1..Len(p), m < n, Counts(p[n])
      PROVE  Place(p, m) # Place(p, n)
  <2>1. n \in upto(n) /\ n \notin upto(m)
    BY <1>7 DEF upto
  <2>2. m \in Nat /\ n \in Nat /\ m <= n
    BY <1>7
  <2> QED
    BY <1>2, <1>3, <2>1, <2>2
<1>8. ASSUME NEW j \in 1..Len(p), Counts(p[j]), Place(p, j) = Place(p, i) PROVE j = i
  <2>1. ~(i < j) /\ ~(j < i)
    BY <1>7, <1>8
  <2> QED
    BY <2>1
<1> QED
  BY <1>5, <1>6, <1>8

\* In a pattern that is well spelled every segment is in its place.
LEMMA PlacesWellSpelled ==
    ASSUME NEW p, Len(p) \in Nat, WellSpelled(p)
    PROVE  Place(p, Len(p)) = Len(p) /\ \A i \in 1..Len(p): Place(p, i) = i
<1>1. ASSUME NEW i \in 0..Len(p) PROVE Place(p, i) = i
  <2>1. {j \in 1..i: Counts(p[j])} = 1..i
    BY <1>1 DEF WellSpelled
  <2>2. Cardinality(1..i) = i
    BY FS_Interval
  <2> QED
    BY <2>1, <2>2 DEF Place
<1> QED
  BY <1>1

\* Two segments of patterns that one segment of a path can fit.
Agree(x, y) == x = "*" \/ y = "*" \/ x = y

\* A pattern of names alone, as the tables have them.
Spelt(p) == Len(p) \in Nat /\ Len(p) > 0 /\ WellSpelled(p)

LEMMA SpeltExact == ASSUME NEW p, Spelt(p) PROVE ~IsPrefixPattern(p)
<1>1. Len(p) \in 1..Len(p)
  BY DEF Spelt
<1>2. Counts(p[Len(p)])
  BY <1>1 DEF Spelt, WellSpelled
<1> QED
  BY <1>2 DEF Counts, IsPrefixPattern

\* What a pattern of names matches is as long, and of the same names.
LEMMA SpeltMatches ==
    ASSUME NEW p, Spelt(p), NEW path, Matches(p, path)
    PROVE  Len(p) = Len(path) /\ \A i \in 1..Len(p): p[i] \in {"*", path[i]}
<1>1. p = path \/ FitsWildcards(p, path)
  BY SpeltExact DEF Matches
<1>2. Place(p, Len(p)) = Len(p) /\ \A i \in 1..Len(p): Place(p, i) = i /\ Counts(p[i])
  BY PlacesWellSpelled DEF Spelt, WellSpelled
<1> QED
  BY <1>1, <1>2 DEF FitsWildcards

\* Two such patterns that match one path are equally long, and nowhere name two
\* different segments.
LEMMA CommonPath ==
    ASSUME NEW p, NEW q, NEW path, Spelt(p), Spelt(q), Matches(p, path), Matches(q, path)
    PROVE  Len(p) = Len(q) /\ \A i \in 1..Len(p): Agree(p[i], q[i])
<1>1. Len(p) = Len(path) /\ \A i \in 1..Len(p): p[i] \in {"*", path[i]}
  BY SpeltMatches
<1>2. Len(q) = Len(path) /\ \A i \in 1..Len(q): q[i] \in {"*", path[i]}
  BY SpeltMatches
<1> QED
  BY <1>1, <1>2 DEF Agree

\* Short patterns of names.
LEMMA ShortSpelt ==
    /\ \A a: Counts(a) => Spelt(<<a>>)
    /\ \A a, b: Counts(a) /\ Counts(b) => Spelt(<<a, b>>)
    /\ \A a, b, c: Counts(a) /\ Counts(b) /\ Counts(c) => Spelt(<<a, b, c>>)
    /\ \A a, b, c, d: Counts(a) /\ Counts(b) /\ Counts(c) /\ Counts(d) => Spelt(<<a, b, c, d>>)
<1>1. ASSUME NEW a, Counts(a) PROVE Spelt(<<a>>)
  <2> DEFINE p == <<a>>
  <2>1. Len(p) = 1 /\ p[1] = a
    BY Tuples
  <2> HIDE DEF p
  <2>2. Spelt(p)
    BY <1>1, <2>1 DEF Spelt, WellSpelled
  <2> QED
    BY <2>2 DEF p
<1>2. ASSUME NEW a, NEW b, Counts(a), Counts(b) PROVE Spelt(<<a, b>>)
  <2> DEFINE p == <<a, b>>
  <2>1. Len(p) = 2 /\ p[1] = a /\ p[2] = b
    BY Tuples
  <2> HIDE DEF p
  <2>2. Spelt(p)
    BY <1>2, <2>1 DEF Spelt, WellSpelled
  <2> QED
    BY <2>2 DEF p
<1>3. ASSUME NEW a, NEW b, NEW c, Counts(a), Counts(b), Counts(c) PROVE Spelt(<<a, b, c>>)
  <2> DEFINE p == <<a, b, c>>
  <2>1. Len(p) = 3 /\ p[1] = a /\ p[2] = b /\ p[3] = c
    BY Tuples
  <2> HIDE DEF p
  <2>2. Spelt(p)
    BY <1>3, <2>1 DEF Spelt, WellSpelled
  <2> QED
    BY <2>2 DEF p
<1>4. ASSUME NEW a, NEW b, NEW c, NEW d, Counts(a), Counts(b), Counts(c), Counts(d)
      PROVE  Spelt(<<a, b, c, d>>)
  <2> DEFINE p == <<a, b, c, d>>
  <2>1. Len(p) = 4 /\ p[1] = a /\ p[2] = b /\ p[3] = c /\ p[4] = d
    BY Tuples
  <2> HIDE DEF p
  <2>2. Spelt(p)
    BY <1>4, <2>1 DEF Spelt, WellSpelled
  <2> QED
    BY <2>2 DEF p
<1> QED
  BY <1>1, <1>2, <1>3, <1>4

\* No write of the container-runtime profile is granted and denied.
LEMMA RuntimeDisjoint ==
    ASSUME NEW p \in RUNTIME_ENDPOINTS, NEW q \in MUTATING_ENDPOINTS \ GrantedToRuntime,
           NEW path, Matches(p, path)
    PROVE  ~Matches(q, path)
<1> DEFINE Denied == {"kill", "pause", "unpause", "rename", "update", "resize", "attach"}
           Lifted == {"start", "stop", "restart", "exec", "wait"}
           Op(name) == <<"containers", "*", name>>
<1>1. q = <<"commit">> \/ \E name \in Denied: q = Op(name)
  <2>1. CASE q \in {CreatePath, <<"containers", "*">>, <<"exec", "">>, <<"build">>, <<"commit">>}
    BY <2>1 DEF GrantedToRuntime
  <2>2. CASE q \in ContainerOps({"exec", "start", "stop", "restart", "kill", "pause", "unpause",
                                 "rename", "update", "resize", "attach", "wait"})
    <3>1. PICK name \in Denied \cup Lifted: q = Op(name)
      BY <2>2 DEF ContainerOps
    <3>2. q \notin ContainerOps({"start", "stop", "restart", "exec", "wait"})
      BY DEF GrantedToRuntime
    <3>3. name \notin Lifted
      BY <3>1, <3>2 DEF ContainerOps
    <3> QED
      BY <3>1, <3>3
  <2> QED
    BY <2>1, <2>2 DEF MUTATING_ENDPOINTS
<1>2. /\ Spelt(q)
      /\ \/ Len(q) = 1 /\ q[1] = "commit"
         \/ Len(q) = 3 /\ q[1] = "containers" /\ q[3] \in Denied
  <2>1. CASE q = <<"commit">>
    <3>1. Len(q) = 1 /\ q[1] = "commit"
      BY <2>1, Tuples
    <3> QED
      BY <2>1, <3>1, ShortSpelt DEF Counts, Rootless
  <2>2. CASE \E name \in Denied: q = Op(name)
    <3>1. PICK name \in Denied: q = Op(name)
      BY <2>2
    <3>2. Len(q) = 3 /\ q[1] = "containers" /\ q[3] = name
      BY <3>1, Tuples
    <3>3. Counts("containers") /\ Counts("*") /\ Counts(name)
      BY DEF Counts, Rootless
    <3> QED
      BY <3>1, <3>2, <3>3, ShortSpelt
  <2> QED
    BY <1>1, <2>1, <2>2
<1>3. ASSUME Spelt(p), Matches(q, path)
      PROVE  Len(q) = Len(p) /\ \A i \in 1..Len(p): Agree(p[i], q[i])
  BY <1>2, <1>3, CommonPath
<1>4. CASE p \in ContainerOps({"start", "stop", "restart", "exec", "wait", "archive"})
  <2>1. PICK name \in Lifted \cup {"archive"}: p = Op(name)
    BY <1>4 DEF ContainerOps
  <2>2. Len(p) = 3 /\ p[3] = name
    BY <2>1, Tuples
  <2>3. Spelt(p)
    BY <2>1, ShortSpelt DEF Counts, Rootless
  <2>4. Matches(q, path) => Len(q) = 3 /\ Agree(p[3], q[3])
    <3>1. 3 \in 1..3
      OBVIOUS
    <3> QED
      BY <1>3, <2>2, <2>3, <3>1
  <2>5. q[3] \in Denied => ~Agree(p[3], q[3])
    BY <2>2 DEF Agree
  <2> QED
    BY <1>2, <2>4, <2>5
<1>5. ASSUME NEW a, NEW b, p = <<a, b>>, Counts(a), Counts(b) PROVE ~Matches(q, path)
  <2>1. Len(p) = 2
    BY <1>5, Tuples
  <2>2. Spelt(p)
    BY <1>5, ShortSpelt
  <2>3. Matches(q, path) => Len(q) = 2
    BY <1>3, <2>1, <2>2
  <2> QED
    BY <1>2, <2>3
<1>6. CASE p = <<"build">>
  <2>1. Len(p) = 1 /\ p[1] = "build"
    BY <1>6, Tuples
  <2>2. Spelt(p)
    BY <1>6, ShortSpelt DEF Counts, Rootless
  <2>3. Matches(q, path) => Len(q) = 1 /\ Agree(p[1], q[1])
    <3>1. 1 \in 1..1
      OBVIOUS
    <3> QED
      BY <1>3, <2>1, <2>2, <3>1
  <2>4. q[1] = "commit" => ~Agree(p[1], q[1])
    BY <2>1 DEF Agree
  <2> QED
    BY <1>2, <2>3, <2>4
<1>7. ASSUME NEW a \in {"networks", "exec"}, NEW b, p = <<a, "*", b>>, Counts(b)
      PROVE  ~Matches(q, path)
  <2>1. Len(p) = 3 /\ p[1] = a /\ p[3] = b
    BY <1>7, Tuples
  <2>2. Spelt(p)
    BY <1>7, ShortSpelt DEF Counts, Rootless
  <2>3. Matches(q, path) => Len(q) = 3 /\ Agree(p[1], q[1])
    <3>1. 1 \in 1..3
      OBVIOUS
    <3> QED
      BY <1>3, <2>1, <2>2, <3>1
  <2>4. q[1] = "containers" => ~Agree(p[1], q[1])
    BY <2>1 DEF Agree
  <2> QED
    BY <1>2, <2>3, <2>4
<1>8. CASE p \in {CreatePath, <<"containers", "*">>, <<"images", "create">>, <<"images", "load">>}
  <2>1. /\ Counts("containers") /\ Counts("create") /\ Counts("*")
        /\ Counts("images") /\ Counts("load")
    BY DEF Counts, Rootless
  <2>2. p = <<"containers", "create">> => ~Matches(q, path)
    BY <1>5, <2>1
  <2>3. p = <<"containers", "*">> => ~Matches(q, path)
    BY <1>5, <2>1
  <2>4. p = <<"images", "create">> => ~Matches(q, path)
    BY <1>5, <2>1
  <2>5. p = <<"images", "load">> => ~Matches(q, path)
    BY <1>5, <2>1
  <2> QED
    BY <1>8, <2>2, <2>3, <2>4, <2>5 DEF CreatePath
<1>9. CASE p \in {<<"networks", "*", "connect">>, <<"exec", "*", "start">>,
                 <<"exec", "*", "json">>, <<"exec", "*", "resize">>}
  <2>1. PICK a \in {"networks", "exec"}, b \in {"connect", "start", "json", "resize"}:
           p = <<a, "*", b>>
    BY <1>9
  <2>2. Counts(b)
    BY DEF Counts, Rootless
  <2> QED
    BY <1>7, <2>1, <2>2
<1> QED
  BY <1>4, <1>6, <1>8, <1>9 DEF RUNTIME_ENDPOINTS

\* What a profile or the section variables grant, the same never prohibit.
LEMMA BaseConsistent ==
    ASSUME NEW i, i.profile \in Profiles, NEW m, NEW p, ListMatches(Base(i).allow, m, p)
    PROVE  ~ListMatches(Base(i).deny, m, p) /\ Base(i).exclude = {}
<1>1. CASE DOMAIN i.compat # {} \/ i.profile = "none"
  BY <1>1 DEF Base, ForProfile, DenyAll, ListMatches
<1>2. CASE DOMAIN i.compat = {} /\ i.profile = "default"
  <2>1. /\ Base(i).exclude = {} /\ Base(i).allow = {Reads}
        /\ Base(i).deny = {[methods |-> WRITE_METHODS, endpoints |-> MUTATING_ENDPOINTS]}
    BY <1>2 DEF Base, ForProfile, DenyAll
  <2>2. m \in READ_METHODS
    BY <2>1 DEF ListMatches, RuleMatches, Reads, READ_METHODS
  <2> QED
    BY <2>1, <2>2 DEF ListMatches, RuleMatches, READ_METHODS, WRITE_METHODS
<1>3. CASE DOMAIN i.compat = {} /\ i.profile = "read-only"
  <2>1. /\ Base(i).exclude = {} /\ Base(i).allow = {Reads}
        /\ Base(i).deny = {ReadOnlyDenial}
    BY <1>3 DEF Base, ForProfile, DenyAll
  <2>2. m \in READ_METHODS
    BY <2>1 DEF ListMatches, RuleMatches, Reads, READ_METHODS
  <2> QED
    BY <2>1, <2>2 DEF ListMatches, RuleMatches, ReadOnlyDenial, READ_METHODS, WRITE_METHODS
<1>4. CASE DOMAIN i.compat = {} /\ i.profile = "container-runtime"
  <2>1. /\ Base(i).exclude = {} /\ Base(i).deny = {RuntimeDenial}
        /\ Base(i).allow = {Reads,
              [methods |-> WRITE_METHODS, endpoints |-> RUNTIME_ENDPOINTS],
              [methods |-> {"GET"}, endpoints |-> {<<"exec", "*", "json">>}]}
    BY <1>4 DEF Base, ForProfile, DenyAll
  <2>2. PICK rule \in Base(i).allow: RuleMatches(rule, m, p)
    BY DEF ListMatches
  <2>3. CASE rule = [methods |-> WRITE_METHODS, endpoints |-> RUNTIME_ENDPOINTS]
    <3>1. PICK e \in RUNTIME_ENDPOINTS: Matches(e, p)
      BY <2>2, <2>3 DEF RuleMatches, RUNTIME_ENDPOINTS
    <3>2. \A q \in RuntimeDenial.endpoints: ~Matches(q, p)
      BY <3>1, RuntimeDisjoint DEF RuntimeDenial
    <3>3. <<"commit">> \in RuntimeDenial.endpoints
      BY DEF RuntimeDenial, MUTATING_ENDPOINTS, GrantedToRuntime, ContainerOps, CreatePath
    <3> QED
      BY <2>1, <3>2, <3>3 DEF ListMatches, RuleMatches
  <2>4. CASE rule # [methods |-> WRITE_METHODS, endpoints |-> RUNTIME_ENDPOINTS]
    <3>1. m \in READ_METHODS
      BY <2>1, <2>2, <2>4 DEF RuleMatches, Reads, READ_METHODS
    <3> QED
      BY <2>1, <3>1 DEF ListMatches, RuleMatches, RuntimeDenial, READ_METHODS, WRITE_METHODS
  <2> QED
    BY <2>3, <2>4
<1> QED
  BY <1>1, <1>2, <1>3, <1>4 DEF Profiles

\* No table has exclusions.
LEMMA NoBaseExclusion == ASSUME NEW i, i.profile \in Profiles PROVE Base(i).exclude = {}
BY DEF Base, ForProfile, DenyAll, Profiles

\* What is not allowed is prohibited by the operator, or not granted by the tables
\* and either denied by them or granted by nobody.
LEMMA DeniedForASource ==
    ASSUME IInv, stage = "ready", NEW m, NEW p, ~Allows(filter, m, p)
    PROVE  \/ ListMatches(Written("deny") \cup Written("exclude"), m, p)
           \/ /\ ~ListMatches(Base(input).allow, m, p)
              /\ \/ ~ListMatches(Written("allow") \cup Written("include"), m, p)
                 \/ ListMatches(Base(input).deny, m, p)
<1>1. input.profile \in Profiles
  BY InputAssumption DEF IInv
<1>2. /\ Base(input).exclude = {}
      /\ ListMatches(Base(input).allow, m, p) => ~ListMatches(Base(input).deny, m, p)
  BY <1>1, BaseConsistent, NoBaseExclusion
<1>3. \/ ListMatches(filter.exclude, m, p) \/ ListMatches(filter.deny, m, p)
      \/ ~ListMatches(filter.allow, m, p)
  BY DEF Allows, Check
<1> QED
  BY <1>2, <1>3, LoadedRules DEF ListMatches

\* Unless the operator prohibits something, what the tables grant is granted.
THEOREM GrantsHold == Spec => []GrantsNotShadowed
<1>1. IInv => GrantsNotShadowed
  <2> SUFFICES ASSUME IInv, stage = "ready", Written("deny") = {}, Written("exclude") = {},
                      NEW m \in Method, NEW p \in Path, ListMatches(Base(input).allow, m, p)
               PROVE  Allows(filter, m, p)
      BY DEF GrantsNotShadowed
  <2>1. input.profile \in Profiles
    BY InputAssumption DEF IInv
  <2>2. ~ListMatches(Base(input).deny, m, p) /\ Base(input).exclude = {}
    BY <2>1, BaseConsistent
  <2>3. filter.deny = Base(input).deny /\ filter.exclude = {}
    BY <2>2, LoadedRules
  <2>4. ListMatches(filter.allow, m, p)
    BY LoadedRules, ListGrows
  <2> QED
    BY <2>2, <2>3, <2>4 DEF Allows, Check, ListMatches
<1> QED
  BY <1>1, Inductive, PTL DEF Spec

-----------------------------------------------------------------------------

\* Every path of the API has a name or its one parameter, the second, behind each
\* of its slashes.
OfAPI(path) == Spelt(path) /\ \A i \in 1..Len(path): path[i] = "*" => i = 2

LEMMA PathsOfAPI == \A path \in PATHS: OfAPI(path)
<1>1. ASSUME NEW a, Counts(a), a # "*" PROVE OfAPI(<<a>>)
  <2>1. Len(<<a>>) = 1 /\ <<a>>[1] = a
    BY Tuples
  <2> QED
    BY <1>1, <2>1, ShortSpelt DEF OfAPI
<1>2. ASSUME NEW a, NEW b, Counts(a), Counts(b), a # "*" PROVE OfAPI(<<a, b>>)
  <2>1. Len(<<a, b>>) = 2 /\ <<a, b>>[1] = a
    BY Tuples
  <2> QED
    BY <1>2, <2>1, ShortSpelt DEF OfAPI
<1>3. ASSUME NEW a, NEW b, NEW c, Counts(a), Counts(b), Counts(c), a # "*", c # "*"
      PROVE  OfAPI(<<a, b, c>>)
  <2>1. Len(<<a, b, c>>) = 3 /\ <<a, b, c>>[1] = a /\ <<a, b, c>>[3] = c
    BY Tuples
  <2> QED
    BY <1>3, <2>1, ShortSpelt DEF OfAPI
<1>4. ASSUME NEW section, Counts(section), section # "*",
             NEW names, \A name \in names: Counts(name), NEW path \in Under(section, names)
      PROVE  OfAPI(path)
  BY <1>2, <1>4 DEF Under
<1>5. ASSUME NEW section, Counts(section), section # "*",
             NEW names, \A name \in names: Counts(name) /\ name # "*",
             NEW path \in Ops(section, names)
      PROVE  OfAPI(path)
  <2>1. Counts("*")
    BY DEF Counts, Rootless
  <2> QED
    BY <1>3, <1>5, <2>1 DEF Ops
<1>6. OfAPI(<<"containers", "*", "attach", "ws">>)
  <2> DEFINE deep == <<"containers", "*", "attach", "ws">>
  <2>1. Len(deep) = 4 /\ deep[1] = "containers" /\ deep[3] = "attach" /\ deep[4] = "ws"
    BY Tuples
  <2>2. Spelt(deep)
    BY ShortSpelt DEF Counts, Rootless
  <2> HIDE DEF deep
  <2>3. OfAPI(deep)
    BY <2>1, <2>2 DEF OfAPI
  <2> QED
    BY <2>3 DEF deep
<1>7. ASSUME NEW path \in PATHS PROVE OfAPI(path)
  BY <1>1, <1>4, <1>5, <1>6, <1>7 DEF PATHS, Counts, Rootless
<1> QED
  BY <1>7

\* A request for a path of the API has a name behind each of its slashes.
LEMMA Requested ==
    ASSUME NEW path \in PATHS, NEW value, Counts(value), NEW r, r = Instance(path, value)
    PROVE  /\ Len(r) = Len(path) /\ Len(path) \in Nat /\ Spelt(r) /\ r # <<"">>
           /\ \A i \in 1..Len(path): r[i] = IF path[i] = "*" THEN value ELSE path[i]
<1>1. Spelt(path)
  BY PathsOfAPI DEF OfAPI
<1>2. /\ Len(r) = Len(path)
      /\ \A i \in 1..Len(path): r[i] = IF path[i] = "*" THEN value ELSE path[i]
  BY <1>1 DEF Instance, Spelt
<1>3. Spelt(r)
  BY <1>1, <1>2 DEF Spelt, WellSpelled
<1>4. r[1] # ""
  <2>1. 1 \in 1..Len(r)
    BY <1>3 DEF Spelt
  <2>2. Counts(r[1])
    BY <1>3, <2>1 DEF Spelt, WellSpelled
  <2> QED
    BY <2>2 DEF Counts
<1> QED
  BY <1>1, <1>2, <1>3, <1>4, Tuples DEF Spelt

\* What takes effect without a trailing slash is known, however it is spelled.
LEMMA EffectIsKnown ==
    ASSUME NEW p \in Seq(STRING), ~IsPrefixPattern(p), TakesEffect(p)
    PROVE  KnownPath(p)
<1>1. PICK path \in PATHS, value \in NamedBy(p): Matches(p, Instance(path, value))
  BY DEF TakesEffect
<1> DEFINE r == Instance(path, value)
<1>2. Counts(value)
  BY DEF NamedBy, Counts, Rootless
<1>3. /\ Len(r) = Len(path) /\ Len(path) \in Nat /\ Spelt(r)
      /\ \A i \in 1..Len(path): r[i] = IF path[i] = "*" THEN value ELSE path[i]
  BY <1>2, Requested
<1> HIDE DEF r
<1>4. p = r \/ FitsWildcards(p, r)
  BY <1>1 DEF Matches, r
<1>5. CASE p = r
  <2>1. Place(p, Len(p)) = Len(p) /\ \A i \in 1..Len(p): Place(p, i) = i
    BY <1>3, <1>5, PlacesWellSpelled DEF Spelt
  <2>2. Covers(path, p)
    BY <1>3, <1>5, <2>1 DEF Covers
  <2> QED
    BY <2>2 DEF KnownPath
<1>6. CASE FitsWildcards(p, r)
  <2>1. Place(p, Len(p)) = Len(path)
    BY <1>3, <1>6 DEF FitsWildcards
  <2>2. ASSUME NEW i \in 1..Len(p), Counts(p[i])
        PROVE  p[i] = "*" \/ path[Place(p, i)] \in {"*", p[i]}
    <3>1. Place(p, i) \in 1..Len(path)
      BY <2>1, <2>2, Places
    <3>2. p[i] \in {"*", r[Place(p, i)]}
      BY <1>6, <2>2 DEF FitsWildcards
    <3> QED
      BY <1>3, <3>1, <3>2
  <2> QED
    BY <2>1, <2>2 DEF KnownPath, Covers
<1> QED
  BY <1>4, <1>5, <1>6

\* What is known without a trailing slash takes effect, if it is spelled as Docker
\* spells its paths or has a wildcard.
LEMMA KnownTakesEffect ==
    ASSUME NEW p \in Seq(STRING), ~IsPrefixPattern(p), KnownPath(p),
           WellSpelled(p) \/ HasWildcard(p)
    PROVE  TakesEffect(p)
<1>1. PICK path \in PATHS: Covers(path, p)
  BY DEF KnownPath
<1>2. PICK value \in NamedBy(p):
         \A i \in 1..Len(p): Counts(p[i]) /\ p[i] # "*" /\ Place(p, i) = 2 => value = p[i]
  <2>1. CASE \E i \in 1..Len(p): Counts(p[i]) /\ p[i] # "*" /\ Place(p, i) = 2
    <3>1. PICK i \in 1..Len(p): Counts(p[i]) /\ p[i] # "*" /\ Place(p, i) = 2
      BY <2>1
    <3>2. \A j \in 1..Len(p): Counts(p[j]) /\ Place(p, j) = 2 => j = i
      BY <3>1, Places
    <3>3. p[i] \in NamedBy(p)
      BY <3>1 DEF NamedBy
    <3> QED
      BY <3>2, <3>3
  <2>2. CASE ~\E i \in 1..Len(p): Counts(p[i]) /\ p[i] # "*" /\ Place(p, i) = 2
    BY <2>2 DEF NamedBy
  <2> QED
    BY <2>1, <2>2
<1> DEFINE r == Instance(path, value)
<1>3. Counts(value)
  BY DEF NamedBy, Counts, Rootless
<1>4. /\ Len(r) = Len(path) /\ Len(path) \in Nat /\ r # <<"">>
      /\ \A i \in 1..Len(path): r[i] = IF path[i] = "*" THEN value ELSE path[i]
  BY <1>3, Requested
<1>5. r = [i \in 1..Len(path) |-> r[i]]
  BY <1>4 DEF Instance
<1> HIDE DEF r
<1>6. Place(p, Len(p)) = Len(path)
  BY <1>1 DEF Covers
<1>7. ASSUME NEW i \in 1..Len(p), Counts(p[i]) PROVE p[i] \in {"*", r[Place(p, i)]}
  <2>1. Place(p, i) \in 1..Len(path)
    BY <1>6, <1>7, Places
  <2>2. p[i] = "*" \/ path[Place(p, i)] \in {"*", p[i]}
    BY <1>1, <1>7 DEF Covers
  <2>3. CASE p[i] # "*" /\ path[Place(p, i)] = "*"
    <3>1. Place(p, i) = 2
      BY <2>1, <2>3, PathsOfAPI DEF OfAPI
    <3>2. value = p[i]
      BY <1>2, <1>7, <2>3, <3>1
    <3> QED
      BY <1>4, <2>1, <2>3, <3>2
  <2>4. CASE p[i] # "*" /\ path[Place(p, i)] = p[i]
    BY <1>4, <2>1, <2>4
  <2> QED
    BY <2>2, <2>3, <2>4
<1>8. FitsWildcards(p, r)
  BY <1>4, <1>6, <1>7 DEF FitsWildcards
<1>9. CASE HasWildcard(p)
  <2>1. Matches(p, r)
    BY <1>4, <1>8, <1>9 DEF Matches
  <2> QED
    BY <2>1 DEF TakesEffect, r
<1>10. CASE ~HasWildcard(p) /\ WellSpelled(p)
  <2>1. Place(p, Len(p)) = Len(p) /\ \A i \in 1..Len(p): Place(p, i) = i /\ Counts(p[i])
    BY <1>10, PlacesWellSpelled DEF WellSpelled
  <2>2. \A i \in 1..Len(p): p[i] # "*"
    BY <1>10 DEF HasWildcard, Starred
  <2>3. Len(p) = Len(path) /\ \A i \in 1..Len(p): p[i] = r[i]
    BY <1>6, <1>7, <2>1, <2>2
  <2>4. p = [i \in 1..Len(p) |-> p[i]]
    OBVIOUS
  <2>5. p = r
    BY <1>5, <2>3, <2>4
  <2> QED
    BY <2>5 DEF Matches, TakesEffect, r
<1> QED
  BY <1>9, <1>10

\* The lint tells the truth of every pattern it reports that is no prefix, and
\* reports every dead one that is spelled as Docker spells its paths or has a
\* wildcard.
THEOREM LintAlwaysAgrees == Spec => []LintAgrees
<1>1. IInv => LintAgrees
  <2> SUFFICES ASSUME IInv, stage = "ready", NEW o \in Origins, NEW s \in Sections,
                      NEW p \in RulesOf(o)[s].endpoints, ~IsPrefixPattern(p)
               PROVE  /\ p \in warned[o][s].endpoints => ~TakesEffect(p)
                      /\ ~TakesEffect(p) /\ (WellSpelled(p) \/ HasWildcard(p)) =>
                            p \in warned[o][s].endpoints
      BY DEF LintAgrees
  <2>1. warned[o][s] = Unknown(RulesOf(o)[s])
    BY DEF IInv, Reported, Applied, Origins
  <2>2. p \in Seq(STRING)
    <3>1. RulesOf(o)[s].endpoints \subseteq Seq(STRING)
      BY InputAssumption, RuleAssumption DEF IInv, RulesOf, Silence, Origins
    <3> QED
      BY <3>1
  <2>3. p \in warned[o][s].endpoints <=> ~KnownPath(p)
    BY <2>1 DEF Unknown
  <2> QED
    BY <2>2, <2>3, EffectIsKnown, KnownTakesEffect
<1> QED
  BY <1>1, Inductive, PTL DEF Spec
=============================================================================
