----------------------------- MODULE MCPolicyLoad -----------------------------
(***************************************************************************)
(* Configurations in which every source, alone and against each other      *)
(* source, writes rules of each shape (both sides, either side, neither),  *)
(* checked on a request for every pattern of the tables and then some.     *)
(***************************************************************************)
EXTENDS PolicyLoad

Nothing     == [methods |-> {}, endpoints |-> {}]
ReadImages  == [methods |-> {"GET"}, endpoints |-> {<<"images", "*", "json">>, <<"secrets">>}]
AnyDelete   == [methods |-> {"DELETE"}, endpoints |-> {}]
Containers  == [methods |-> {}, endpoints |-> {<<"containers", "">>}]
PatchCreate == [methods |-> {"POST", "PATCH"}, endpoints |-> {CreatePath, <<"secrets">>}]

\* Misspelt, and not: of a known length and not, at a parameter and elsewhere.
Misspelt ==
    [methods |-> {"get", "GET"},
     endpoints |-> {<<"container", "json">>, <<"containers", "abc", "json">>, <<"*", "json">>,
                    <<"*", "*", "jsn">>, <<"containers", "abc", "json", "abc">>}]
\* Without the first slash or with one too many, a wildcard in it or not, and with
\* a "*" that is none.
Unslashed ==
    [methods |-> {},
     endpoints |-> {<<Rootless, "info">>, <<Rootless, "containers", "json">>,
                    <<"containers", "", "json">>, <<Rootless, "containers", "*", "json">>,
                    <<"containers", "", "*", "jsn">>, <<Rootless, "containers", "a*", "", "json">>,
                    <<"containers", "a*", "json">>, <<"inf", "", "a*">>, <<Rootless, "info", "">>}]
UnderInfo == [methods |-> {}, endpoints |-> {<<"info", "">>}]

MCRule == {Nothing, ReadImages, AnyDelete, Containers, PatchCreate, Misspelt, Unslashed, UnderInfo}

NoRules == [s \in Sections |-> Nothing]

\* At most one section, and an allowance next to a prohibition.
MCSources ==
    {[NoRules EXCEPT ![s] = r]: s \in Sections, r \in MCRule}
      \cup {[NoRules EXCEPT !["include"] = r, ![s] = q]:
               r \in {Containers, PatchCreate}, q \in {AnyDelete, PatchCreate},
               s \in {"allow", "deny", "exclude"}}

NoCompat == <<>>
MCCompat ==
    {[CONTAINERS |-> TRUE], [CONTAINERS |-> TRUE, POST |-> TRUE, PING |-> FALSE],
     [ALLOW_RESTARTS |-> TRUE, POST |-> TRUE], [EVENTS |-> FALSE],
     [POST |-> FALSE]}

Input(profile, file, document, compat, modifiers) ==
    [profile |-> profile, named |-> profile # "default", file |-> file,
     document |-> document, compat |-> compat, modifiers |-> modifiers]

MCInputs ==
    {Input(p, "good", d, NoCompat, m):
        p \in {"default", "read-only", "container-runtime"}, d \in MCSources,
        m \in {NoRules} \cup {[NoRules EXCEPT ![s] = r]:
                                s \in {"allow", "deny"}, r \in {AnyDelete, PatchCreate}}}
      \cup {Input("none", f, NoRules, NoCompat, m):
               f \in {"none", "good", "unreadable", "invalid"}, m \in MCSources}
      \cup {Input(p, "good", d, c, NoRules):
               p \in {"default", "none"}, c \in MCCompat, d \in MCSources}

\* Everything the operator can turn off is off.
MCAllOff ==
    {Input("default", "none", NoRules, c, NoRules):
        c \in {[EVENTS |-> FALSE, PING |-> FALSE, VERSION |-> FALSE, POST |-> post]:
                  post \in BOOLEAN}}

\* The default profile, named.
MCNamed == {[i EXCEPT !.named = TRUE]: i \in MCAllOff}

\* An exclusion of everything under /info, or of paths without their first slash.
MCUnderInfo ==
    {Input("default", "good", [NoRules EXCEPT !["exclude"] = r], NoCompat, m):
        r \in {UnderInfo, Unslashed},
        m \in {NoRules, [NoRules EXCEPT !["allow"] = ReadImages]}}

MCMethod == {"GET", "HEAD", "POST", "PUT", "DELETE", "PATCH"}

\* A request for every pattern: an identifier for "*", one more segment for "/".
Filled(pattern) ==
    [i \in 1..Len(pattern) |-> IF pattern[i] \in {"*", ""} THEN "abc" ELSE pattern[i]]

MCPath ==
    {Filled(p): p \in READABLE_ENDPOINTS \cup MUTATING_ENDPOINTS \cup RUNTIME_ENDPOINTS}
      \cup {<<"">>, <<"secrets">>, <<"containers", "prune">>, <<"exec", "abc", "start", "abc">>,
            <<"events">>, <<"events", "abc">>}
=============================================================================
