------------------------------- MODULE MCProxy -------------------------------
(***************************************************************************)
(* Five configurations, of which two do not load.  Every path of up to     *)
(* three segments of each kind, and of four of the most that resolve;      *)
(* every shape of a body, for a creation; every way to name fields in      *)
(* Connection, for an upgrade.                                             *)
(***************************************************************************)
EXTENDS Proxy, TLC

MCPiece == STRING

Resolving == {<<>>, <<".">>, <<".", ".">>, <<"%2e", ".">>, <<"containers">>, <<"create">>,
              <<"v", "1">>, <<"%69nfo">>}
Deep      == Resolving \ {<<"%2e", ".">>, <<"%69nfo">>}
Others    == {<<"info">>, <<"v", "1", ".", "4">>, <<"v", ".", "1">>, <<"v", "1", "x">>,
              <<"containers", "%2f", "create">>, <<"%5c">>, <<"%zz">>, <<"info", "%">>, <<"%ff">>}

Below(paths, segments) == {p \o <<"/">> \o s: p \in paths, s \in segments}
Every  == Resolving \cup Others
Pairs  == Below(Below({<<>>}, Every), Every)
MCPaths == Below({<<>>}, Every) \cup Pairs \cup Below(Pairs, Every)
             \cup Below(Below(Below(Below({<<>>}, Deep), Deep), Deep), Deep)

NoFields == <<>>
Plain == [kind |-> "object", Image |-> "named", fields |-> NoFields, HostConfig |-> NoFields,
          Labels |-> {}]
Values == {"null", "false", "[]", "''", "host", "true"}
MCBodies ==
    {[Plain EXCEPT !.kind = k, !.Image = i]: k \in {"malformed", "other", "object"},
                                             i \in {"absent", "''", "named"}}
      \cup {[Plain EXCEPT !.fields = (key :> v)]: key \in GuardedKeys \cup {"NetworkMode", "Cmd"},
                                                  v \in Values}
      \cup {[Plain EXCEPT !.HostConfig = (key :> v)]:
               key \in GuardedKeys \cup {"NetworkMode", "Mounts"}, v \in Values}
      \cup {[Plain EXCEPT !.Labels = l]: l \in SUBSET (DagsterLabels \cup {"app"})}

Ask(m, p, f, o, b) ==
    [method |-> m, path |-> p, fields |-> f, options |-> o, body |-> b]

Info   == <<"/", "info">>
Create == <<"/", "v", "1", ".", "4", "/", "containers", "/", "create">>

Options(fields) == IF "connection" \in fields THEN SUBSET {"upgrade", "x-secret", "close"} ELSE {{}}

MCRequests ==
    {Ask("POST", p, {"host"}, {}, [Plain EXCEPT !.HostConfig = ("Privileged" :> "true")]):
        p \in MCPaths}
      \cup {Ask(m, p, {"host"}, {}, Plain): m \in {"GET", "PATCH"}, p \in Pairs}
      \cup {Ask("POST", Create, {"host"}, {}, b): b \in MCBodies}
      \cup UNION {{Ask("GET", Info, f, o, Plain): o \in Options(f)}:
                     f \in SUBSET {"host", "connection", "upgrade", "x-secret", "te"}}

MCReplies ==
    UNION {{[status |-> s, fields |-> f, options |-> o]: o \in Options(f), s \in {101, 200}}:
              f \in SUBSET {"connection", "upgrade", "x-secret", "content-type"}}

\* The rules of the operator's.
NoRule     == [methods |-> {}, endpoints |-> {}]
NotOne     == [methods |-> {}, endpoints |-> {<<"containers", "*">>}]
Reopened   == [methods |-> {"PATCH", "POST"}, endpoints |-> {CreatePath, <<"create">>}]
Mutes      == [methods |-> {"GET"}, endpoints |-> {<<"info">>, <<"create">>}]
MCRule     == {NoRule, NotOne, Reopened, Mutes}

NoRules == [s \in Sections |-> NoRule]
Config(profile, file, document, compat, modifiers) ==
    [profile |-> profile, named |-> profile # "default", file |-> file,
     document |-> document, compat |-> compat, modifiers |-> modifiers]

\* The container-runtime profile as it is; everything of containers but their own
\* entry; read-only, with writes allowed on top and reads taken away; and two that
\* do not load.
MCInputs ==
    {Config("container-runtime", "none", NoRules, <<>>, NoRules),
     Config("default", "good", [NoRules EXCEPT !["exclude"] = NotOne],
            [CONTAINERS |-> TRUE, POST |-> TRUE, INFO |-> FALSE], NoRules),
     Config("read-only", "good", [NoRules EXCEPT !["include"] = Reopened], <<>>,
            [NoRules EXCEPT !["allow"] = NotOne, !["deny"] = Mutes]),
     Config("read-only", "unreadable", NoRules, <<>>, NoRules),
     Config("read-only", "good", NoRules, [CONTAINERS |-> TRUE], NoRules)}
=============================================================================
