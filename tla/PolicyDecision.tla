---------------------------- MODULE PolicyDecision ----------------------------
(***************************************************************************)
(* The policy decision point (security.rs): rules, the profiles that are   *)
(* built in, and the verdict on a method and a normalized path.            *)
(*                                                                         *)
(* A path is the sequence of what stands behind each of its slashes, and   *)
(* so is a pattern: <<"info">> is "/info", <<"exec", "">> is "/exec/" and  *)
(* <<"">> is "/".  Paths are normalized, so that "/" alone ends in a slash *)
(* and no path has another empty segment.  Patterns are as the operator    *)
(* spelled them: <<"info", "", "x">> is "/info//x", and "info" without a   *)
(* slash is <<Rootless, "info">>.  Lists of rules and of endpoints are     *)
(* searched for any match, so they are sets here.                          *)
(***************************************************************************)
EXTENDS Naturals, Sequences, FiniteSets

VARIABLE filter    \* the policy: its rules that allow, deny and exclude

-----------------------------------------------------------------------------
(***************************************************************************)
(* Patterns (matches_pattern).                                             *)
(***************************************************************************)

\* What begins a pattern that does not begin with a slash: no segment has one.
Rootless == "/"

\* The segments with a "*" in them: the wildcard, and one that only has the sign.
Starred == {"*", "a*"}

HasWildcard(pattern) == \E i \in 1..Len(pattern): pattern[i] \in Starred

IsPrefixPattern(pattern) == pattern # <<>> /\ pattern[Len(pattern)] = ""

\* split('/').filter(|s| !s.is_empty()): which segments count, and as which one.
Counts(segment) == segment \notin {"", Rootless}
Place(pattern, i) == Cardinality({j \in 1..i: Counts(pattern[j])})

\* path.starts_with: every segment before the slash, and at least one more.
StartsWith(path, pattern) ==
    /\ Len(path) >= Len(pattern)
    /\ \A i \in 1..(Len(pattern) - 1): path[i] = pattern[i]

\* Segment by segment, "*" standing for exactly one.
FitsWildcards(pattern, path) ==
    /\ Place(pattern, Len(pattern)) = Len(path)
    /\ \A i \in 1..Len(pattern):
          Counts(pattern[i]) => pattern[i] \in {"*", path[Place(pattern, i)]}

\* Exact, prefix or wildcard.  Only a pattern with a "*" is compared without its
\* empty segments, and nothing is left of the path "/" then.
Matches(pattern, path) ==
    \/ pattern = path
    \/ IsPrefixPattern(pattern) /\ StartsWith(path, pattern)
    \/ /\ ~IsPrefixPattern(pattern)
       /\ HasWildcard(pattern)
       /\ path # <<"">> /\ FitsWildcards(pattern, path)

-----------------------------------------------------------------------------
(***************************************************************************)
(* Rules (RuleSet, RuleList) and filters.                                  *)
(***************************************************************************)

\* A rule with both sides empty is inert; one empty side is a wildcard.
Inert(rule) == rule.methods = {} /\ rule.endpoints = {}

RuleMatches(rule, method, path) ==
    /\ ~Inert(rule)
    /\ rule.methods = {} \/ method \in rule.methods
    /\ rule.endpoints = {} \/ \E p \in rule.endpoints: Matches(p, path)

ListMatches(rules, method, path) == \E rule \in rules: RuleMatches(rule, method, path)

\* Mutant: a rule is merged into the one that is there already.
PushMerged(rules, rule) ==
    {[methods   |-> UNION {r.methods: r \in rules \cup {rule}},
      endpoints |-> UNION {r.endpoints: r \in rules \cup {rule}}]}

\* push_rule: each source's rule stays a condition of its own.
Push(rules, rule) == IF Inert(rule) THEN rules ELSE rules \cup {rule}

\* Mutant: allowances are looked at before denials.
CheckAllowFirst(f, method, path) ==
    CASE ListMatches(f.exclude, method, path) -> "excluded"
      [] ListMatches(f.allow, method, path) -> "allowed"
      [] OTHER -> "blocked"

\* deny-overrides: exclusions, then denials, then allowances, then default deny.
Check(f, method, path) ==
    IF ListMatches(f.exclude, method, path) THEN "excluded"
    ELSE IF ListMatches(f.deny, method, path) THEN "blocked"
    ELSE IF ListMatches(f.allow, method, path) THEN "allowed"
    ELSE "not allowed"

Allows(f, method, path) == Check(f, method, path) = "allowed"

CreatePath == <<"containers", "create">>

\* check_head on a path that normalizes: the denial, or what the body owes.
CheckHead(f, method, path) ==
    IF ~Allows(f, method, path) THEN "Forbidden"
    ELSE IF method = "POST" /\ path = CreatePath THEN "ContainerCreate"
    ELSE "None"

-----------------------------------------------------------------------------
(***************************************************************************)
(* The built-in profiles (for_profile, deny_all).                          *)
(***************************************************************************)

Profiles == {"default", "read-only", "container-runtime", "none"}

READ_METHODS  == {"GET", "HEAD"}
WRITE_METHODS == {"POST", "PUT", "DELETE"}

READABLE_ENDPOINTS ==
    {<<"containers", "json">>, <<"containers", "*", "json">>, <<"containers", "*", "logs">>,
     <<"images", "json">>, <<"images", "*", "json">>, <<"info">>, <<"version">>,
     <<"networks">>, <<"networks", "">>, <<"volumes">>, <<"volumes", "">>, <<"_ping">>}

\* Endpoints of a container that has been created, by the name of the operation.
ContainerOps(names) == {<<"containers", "*", name>>: name \in names}

MUTATING_ENDPOINTS ==
    ContainerOps({"exec", "start", "stop", "restart", "kill", "pause", "unpause",
                  "rename", "update", "resize", "attach", "wait"})
      \cup {CreatePath, <<"containers", "*">>, <<"exec", "">>, <<"build">>, <<"commit">>}

RUNTIME_ENDPOINTS ==
    ContainerOps({"start", "stop", "restart", "exec", "wait", "archive"})
      \cup {CreatePath, <<"containers", "*">>, <<"images", "create">>, <<"images", "load">>,
            <<"build">>, <<"networks", "*", "connect">>, <<"exec", "*", "start">>,
            <<"exec", "*", "json">>, <<"exec", "*", "resize">>}

\* What the container-runtime profile takes out of the write denial.
GrantedToRuntime ==
    ContainerOps({"start", "stop", "restart", "exec", "wait"})
      \cup {CreatePath, <<"containers", "*">>, <<"exec", "">>, <<"build">>}

DenyAll == [allow |-> {}, deny |-> {}, exclude |-> {}]

Reads == [methods |-> READ_METHODS, endpoints |-> READABLE_ENDPOINTS]

\* Mutant: only the write methods of the other profiles are refused outright.
ReadOnlyDenialOfWrites == [methods |-> WRITE_METHODS, endpoints |-> {}]

\* A denial of every write, on any endpoint.
ReadOnlyDenial == [methods |-> WRITE_METHODS \cup {"PATCH"}, endpoints |-> {}]

\* Mutant: the mutating endpoints are denied as a whole to the runtime profile.
RuntimeDenialOfAll == [methods |-> WRITE_METHODS, endpoints |-> MUTATING_ENDPOINTS]

RuntimeDenial ==
    [methods |-> WRITE_METHODS, endpoints |-> MUTATING_ENDPOINTS \ GrantedToRuntime]

ForProfile(profile) ==
    CASE profile = "none" -> DenyAll
      [] profile = "default" ->
           [DenyAll EXCEPT
              !.allow = {Reads},
              !.deny = {[methods |-> WRITE_METHODS, endpoints |-> MUTATING_ENDPOINTS]}]
      [] profile = "read-only" ->
           [DenyAll EXCEPT !.allow = {Reads}, !.deny = {ReadOnlyDenial}]
      [] profile = "container-runtime" ->
           [DenyAll EXCEPT
              !.allow = {Reads,
                         [methods |-> WRITE_METHODS, endpoints |-> RUNTIME_ENDPOINTS],
                         [methods |-> {"GET"}, endpoints |-> {<<"exec", "*", "json">>}]},
              !.deny = {RuntimeDenial}]
=============================================================================
