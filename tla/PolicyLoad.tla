------------------------------ MODULE PolicyLoad ------------------------------
(***************************************************************************)
(* The policy loader (policy.rs): how the profile, the allowlist file, the *)
(* section variables of other proxies and the DOCKER_PROXY_* variables     *)
(* become the filter the server decides with, or no filter at all.         *)
(*                                                                         *)
(* A source is what it parses to: a document and the modifiers are a rule  *)
(* for each section, inert where a section is absent; a section variable   *)
(* is TRUE when it is spelled affirmatively.  The loader warns of what an  *)
(* operator writes that no request can match (report_unknown).             *)
(***************************************************************************)
EXTENDS DockerApi

CONSTANTS
    Rule,      \* the rules that an operator may write
    Inputs     \* the configurations of a behaviour

Sections == {"allow", "include", "deny", "exclude"}

CompatSections ==
    [AUTH |-> "auth", BUILD |-> "build", COMMIT |-> "commit", CONFIGS |-> "configs",
     CONTAINERS |-> "containers", DISTRIBUTION |-> "distribution", EVENTS |-> "events",
     EXEC |-> "exec", GRPC |-> "grpc", IMAGES |-> "images", INFO |-> "info",
     NETWORKS |-> "networks", NODES |-> "nodes", PING |-> "_ping", PLUGINS |-> "plugins",
     SECRETS |-> "secrets", SERVICES |-> "services", SESSION |-> "session",
     SWARM |-> "swarm", SYSTEM |-> "system", TASKS |-> "tasks", VERSION |-> "version",
     VOLUMES |-> "volumes"]

CompatOperations ==
    [ALLOW_RESTARTS |-> ContainerOps({"stop", "restart", "kill"}),
     ALLOW_START    |-> ContainerOps({"start"}),
     ALLOW_STOP     |-> ContainerOps({"stop"}),
     ALLOW_PAUSE    |-> ContainerOps({"pause"}),
     ALLOW_UNPAUSE  |-> ContainerOps({"unpause"})]

CompatDefaultOn == {"EVENTS", "PING", "VERSION"}

CompatNames == DOMAIN CompatSections \cup DOMAIN CompatOperations \cup {"POST"}

ASSUME RuleAssumption == Rule \subseteq [methods: SUBSET STRING, endpoints: SUBSET Seq(STRING)]

\* profile: --profile, and whether it was named, which the loader is not told.
\* file: whether an allowlist is named, can be read, and is valid in a format
\* that this build knows.  compat: the section variables that are set.
ASSUME InputAssumption ==
    \A i \in Inputs:
       /\ i.profile \in Profiles
       /\ i.named \in BOOLEAN
       /\ i.file \in {"none", "good", "unreadable", "invalid"}
       /\ i.document \in [Sections -> Rule]
       /\ DOMAIN i.compat \subseteq CompatNames
       /\ \A name \in DOMAIN i.compat: i.compat[name] \in BOOLEAN
       /\ i.modifiers \in [Sections -> Rule]

VARIABLES
    input,    \* the configuration the loader finds
    stage,    \* how far it has come
    warned    \* what has been reported unknown, by origin and section

vars == <<input, stage, filter, warned>>

\* Nothing is reported of a section that is absent.
Origins == {"document", "environment"}
Silence == [s \in Sections |-> [methods |-> {}, endpoints |-> {}]]

Init ==
    /\ input \in Inputs
    /\ stage = "reading"
    /\ filter = DenyAll
    /\ warned = [o \in Origins |-> Silence]

-----------------------------------------------------------------------------
\* A variable that is not set has its default.
Granted(compat, name) ==
    IF name \in DOMAIN compat THEN compat[name] ELSE name \in CompatDefaultOn

\* Both forms of a section: the bare path, and everything under it.
SectionEndpoints(name) == {<<CompatSections[name]>>, <<CompatSections[name], "">>}

\* An empty set of methods is every method.
CompatRule(compat) ==
    [methods |-> IF Granted(compat, "POST") THEN {} ELSE READ_METHODS,
     endpoints |->
        UNION {SectionEndpoints(name):
                  name \in {n \in DOMAIN CompatSections: Granted(compat, n)}}
          \cup
        UNION {CompatOperations[name]:
                  name \in {n \in DOMAIN CompatOperations: Granted(compat, n)}}]

\* Mutant: the section variables are layered over the profile.
BaseLayered(i) ==
    IF DOMAIN i.compat = {} THEN ForProfile(i.profile)
    ELSE [ForProfile(i.profile) EXCEPT !.allow = Push(@, CompatRule(i.compat))]

\* The section variables describe a whole policy, and replace the profile's.
Base(i) ==
    IF DOMAIN i.compat = {} THEN ForProfile(i.profile)
    ELSE [DenyAll EXCEPT !.allow = Push(@, CompatRule(i.compat))]

\* apply_document and apply_environment: a rule of its own for each section.
Apply(f, rules) ==
    [allow   |-> Push(Push(f.allow, rules["allow"]), rules["include"]),
     deny    |-> Push(f.deny, rules["deny"]),
     exclude |-> Push(f.exclude, rules["exclude"])]

Readable(i) == i.file \in {"none", "good"}

\* A profile other than the default contradicts the section variables.
Contradictory(i) == DOMAIN i.compat # {} /\ i.profile # "default"

\* The file cannot be read or parsed, or the sources contradict each other:
\* the server does not start.
Fail ==
    /\ stage = "reading"
    /\ ~Readable(input) \/ Contradictory(input)
    /\ stage' = "failed"
    /\ UNCHANGED <<input, filter, warned>>

\* Mutant: what cannot be read is taken for an empty document.
ReadAnything ==
    /\ stage = "reading"
    /\ ~Contradictory(input)
    /\ filter' = Base(input)
    /\ stage' = "document"
    /\ UNCHANGED <<input, warned>>

ReadSources ==
    /\ stage = "reading"
    /\ Readable(input)
    /\ ~Contradictory(input)
    /\ filter' = Base(input)
    /\ stage' = "document"
    /\ UNCHANGED <<input, warned>>

\* The sections are reported as they are applied.
Report(origin, rules) ==
    warned' = [warned EXCEPT ![origin] = [s \in Sections |-> Unknown(rules[s])]]

ApplyDocument ==
    /\ stage = "document"
    /\ IF input.file = "good"
       THEN filter' = Apply(filter, input.document) /\ Report("document", input.document)
       ELSE UNCHANGED <<filter, warned>>
    /\ stage' = "environment"
    /\ UNCHANGED input

ApplyEnvironment ==
    /\ stage = "environment"
    /\ filter' = Apply(filter, input.modifiers)
    /\ Report("environment", input.modifiers)
    /\ stage' = "ready"
    /\ UNCHANGED input

Done == stage \in {"ready", "failed"} /\ UNCHANGED vars

Next == Fail \/ ReadSources \/ ApplyDocument \/ ApplyEnvironment \/ Done

Spec == Init /\ [][Next]_vars

-----------------------------------------------------------------------------
(***************************************************************************)
(* Properties.  Method and Path are the requests they are checked for.     *)
(***************************************************************************)
CONSTANTS Method, Path

\* The rules that reached the filter from an operator's section.
Written(section) ==
    {r \in {input.modifiers[section]} \cup
           (IF input.file = "good" THEN {input.document[section]} ELSE {}): ~Inert(r)}

\* Under read-only, no rule that an operator adds lets a write through
\* (for_profile: a later allow rule cannot reopen one).
ReadOnlyNeverWrites ==
    stage = "ready" /\ input.profile = "read-only" =>
       \A m \in {"POST", "PUT", "DELETE", "PATCH"}, p \in Path: ~Allows(filter, m, p)

\* An operator's exclusions and denials are decisive, whatever profile, section
\* variables or allowances they are combined with.
ProhibitionsDecisive ==
    stage = "ready" =>
       \A m \in Method, p \in Path:
          /\ ListMatches(Written("exclude"), m, p) => Check(filter, m, p) = "excluded"
          /\ ListMatches(Written("deny"), m, p) => ~Allows(filter, m, p)

\* Default deny: what is allowed was granted as a whole, method and endpoint, by
\* one source: the profile or section variables, or one section of the file or
\* of the environment.
GrantsHaveASource ==
    stage = "ready" =>
       \A m \in Method, p \in Path:
          Allows(filter, m, p) =>
             ListMatches(Base(input).allow \cup Written("allow") \cup Written("include"), m, p)

\* No profile prohibits what it grants, and no further allowance takes a grant
\* away: without a prohibition of the operator's, a grant in a table is a grant.
GrantsNotShadowed ==
    stage = "ready" /\ Written("deny") = {} /\ Written("exclude") = {} =>
       \A m \in Method, p \in Path:
          ListMatches(Base(input).allow, m, p) => Allows(filter, m, p)

\* The server never decides with a policy the operator did not write: a file
\* that cannot be used, or sources that contradict each other, give no filter,
\* and section variables leave nothing of a profile.
FailsClosed ==
    stage = "ready" =>
       /\ Readable(input)
       /\ DOMAIN input.compat # {} =>
             /\ input.profile = "default"
             /\ filter.deny = Written("deny")
             /\ filter.allow \ (Written("allow") \cup Written("include"))
                   \subseteq {CompatRule(input.compat)}

\* What the operator wrote, as opposed to what became of it.
RulesOf(origin) ==
    CASE origin = "environment" -> input.modifiers
      [] origin = "document" /\ input.file = "good" -> input.document
      [] OTHER -> Silence

\* A request for a path of the API, by the value of its parameter: there is no path
\* with two.
Instance(path, value) == [i \in 1..Len(path) |-> IF path[i] = "*" THEN value ELSE path[i]]

\* The values that could make a difference to a pattern: those it names, and another.
NamedBy(pattern) ==
    {"abc"} \cup {pattern[i]: i \in {j \in 1..Len(pattern): Counts(pattern[j])}}

\* Whether the matcher that decides would apply a pattern to any request that
\* the daemon serves.
TakesEffect(pattern) ==
    \E path \in PATHS, value \in NamedBy(pattern): Matches(pattern, Instance(path, value))

\* As Docker spells its paths: a slash, and a name behind each.
WellSpelled(pattern) == \A i \in 1..Len(pattern): Counts(pattern[i])

\* The lint and the matcher, which are written separately, hold against each
\* other in every section and origin, however an operator spells a pattern: what
\* is reported decides no request of the API, unless it is a prefix; and what
\* decides none is reported, if it is spelled as Docker spells its paths or has a
\* wildcard.  (The lint misses other spellings: DeadRulesReported.)
LintAgrees ==
    stage = "ready" =>
       \A o \in Origins, s \in Sections: \A p \in RulesOf(o)[s].endpoints:
          ~IsPrefixPattern(p) =>
             /\ p \in warned[o][s].endpoints => ~TakesEffect(p)
             /\ ~TakesEffect(p) /\ (WellSpelled(p) \/ HasWildcard(p)) =>
                   p \in warned[o][s].endpoints

(***************************************************************************)
(* What the documents say of the same behaviour, and the code does not do. *)
(***************************************************************************)

\* README.md: the section variables "grant one API section each", and EVENTS,
\* PING and VERSION "are granted unless set to 0"; all else is default deny.
SectionsGrantOnlyThemselves ==
    stage = "ready" /\ DOMAIN input.compat # {}
      /\ Written("allow") = {} /\ Written("include") = {} =>
       \A m \in Method, p \in Path:
          Allows(filter, m, p) => \E e \in CompatRule(input.compat).endpoints: Matches(e, p)

\* README.md: setting the section variables "alongside --profile is refused
\* rather than silently resolved".
NamedProfileRefused == input.named /\ DOMAIN input.compat # {} => stage # "ready"

\* docker_api.rs, on matches_known_path: "Whether a policy pattern could ever
\* match a real endpoint"; README.md: what matches no real endpoint "is logged".
DeadRulesReported ==
    stage = "ready" =>
       \A o \in Origins, s \in Sections: \A p \in RulesOf(o)[s].endpoints:
          ~TakesEffect(p) => p \in warned[o][s].endpoints
=============================================================================
