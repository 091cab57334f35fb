------------------------------ MODULE DockerApi ------------------------------
(***************************************************************************)
(* The lint of policy rules (docker_api.rs): the paths and methods of the  *)
(* Docker Engine API as of version 1.55, and what is known among patterns. *)
(* Paths are sequences of segments, as in PolicyDecision, "*" where Docker *)
(* names a parameter.                                                      *)
(***************************************************************************)
EXTENDS PolicyDecision

Under(section, names) == {<<section, name>>: name \in names}
Ops(section, names)   == {<<section, "*", name>>: name \in names}

PATHS ==
    {<<name>>: name \in {"_ping", "auth", "build", "commit", "configs", "events", "grpc",
                         "info", "networks", "nodes", "plugins", "secrets", "services",
                         "session", "swarm", "tasks", "version", "volumes"}}
      \cup Under("build", {"prune"}) \cup Under("system", {"df"}) \cup Under("nodes", {"*"})
      \cup Under("configs", {"*", "create"}) \cup Ops("configs", {"update"})
      \cup Under("containers", {"*", "create", "json", "prune"})
      \cup Ops("containers", {"archive", "attach", "changes", "exec", "export", "json", "kill",
                              "logs", "pause", "rename", "resize", "restart", "start", "stats",
                              "stop", "top", "unpause", "update", "wait"})
      \cup {<<"containers", "*", "attach", "ws">>}
      \cup Ops("distribution", {"json"}) \cup Ops("exec", {"json", "resize", "start"})
      \cup Under("images", {"*", "create", "get", "json", "load", "prune", "search"})
      \cup Ops("images", {"attestations", "get", "history", "json", "push", "tag"})
      \cup Under("networks", {"*", "create", "prune"})
      \cup Ops("networks", {"connect", "disconnect"}) \cup Ops("nodes", {"update"})
      \cup Under("plugins", {"*", "create", "privileges", "pull"})
      \cup Ops("plugins", {"disable", "enable", "json", "push", "set", "upgrade"})
      \cup Under("secrets", {"*", "create"}) \cup Ops("secrets", {"update"})
      \cup Under("services", {"*", "create"}) \cup Ops("services", {"logs", "update"})
      \cup Under("swarm", {"init", "join", "leave", "unlock", "unlockkey", "update"})
      \cup Under("tasks", {"*"}) \cup Ops("tasks", {"logs"})
      \cup Under("volumes", {"*", "create", "prune"})

METHODS == {"GET", "HEAD", "POST", "PUT", "DELETE"}

\* Mutant: a parameter of Docker's only stands for the wildcard of a pattern.
CoversLiterally(path, pattern) ==
    /\ Place(pattern, Len(pattern)) = Len(path)
    /\ \A i \in 1..Len(pattern):
          Counts(pattern[i]) => pattern[i] \in {"*", path[Place(pattern, i)]}

\* Segment by segment, a wildcard on either side matching anything.
Covers(path, pattern) ==
    /\ Place(pattern, Len(pattern)) = Len(path)
    /\ \A i \in 1..Len(pattern):
          Counts(pattern[i]) => pattern[i] = "*" \/ path[Place(pattern, i)] \in {"*", pattern[i]}

\* A prefix pattern is compared with the paths as they are spelled, any other
\* without its empty segments, "*" in it or not.
KnownPath(pattern) ==
    \E path \in PATHS:
       IF IsPrefixPattern(pattern)
       THEN StartsWith(path, pattern) \/ Append(path, "") = pattern
       ELSE Covers(path, pattern)

KnownMethod(method) == method \in METHODS

\* report_unknown: what a rule says that no request can match.
Unknown(rule) ==
    [methods   |-> {m \in rule.methods: ~KnownMethod(m)},
     endpoints |-> {p \in rule.endpoints: ~KnownPath(p)}]
=============================================================================
