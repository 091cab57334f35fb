-------------------------------- MODULE Proxy --------------------------------
(***************************************************************************)
(* The proxy from its configuration to an answer (serve): a policy is      *)
(* loaded before there is a listener, and what was loaded decides on every *)
(* request, once and for all.  It composes PolicyLoad and Exchange, which  *)
(* have the filter in common.                                              *)
(***************************************************************************)
EXTENDS PolicyLoad, Exchange

proxyVars == <<input, stage, warned, exchangeVars>>

ProxyInit == Init /\ Begin

\* Before the listener is bound, no request is read.
Load ==
    /\ Fail \/ ReadSources \/ ApplyDocument \/ ApplyEnvironment
    /\ UNCHANGED <<pathVars, messageVars>>

\* Mutant: the listener is bound while the policy is still being loaded.
ServeEarly ==
    /\ stage \in {"document", "environment", "ready"}
    /\ Handle
    /\ UNCHANGED <<input, stage, warned>>

Serve ==
    /\ stage = "ready"
    /\ Handle
    /\ UNCHANGED <<input, stage, warned>>

\* Without a policy the process has exited.
Exited == stage = "failed" /\ UNCHANGED proxyVars

ProxyNext == Load \/ Serve \/ Exited

ProxySpec == ProxyInit /\ [][ProxyNext]_proxyVars

-----------------------------------------------------------------------------
(***************************************************************************)
(* Properties.                                                             *)
(***************************************************************************)

\* What the daemon is asked, as it reads what is sent.
Endpoint == Spelled(Reading(raw))

\* What the operator's sources grant and prohibit of the request.
GrantedByBase  == ListMatches(Base(input).allow, request.method, Endpoint)
GrantedByRule  == ListMatches(Written("allow") \cup Written("include"), request.method, Endpoint)
ProhibitedRule == ListMatches(Written("deny") \cup Written("exclude"), request.method, Endpoint)

\* Whatever reaches the daemon is, as it was written and as it will be read,
\* granted by a source of the operator's and prohibited by none, and every source
\* could be used: nothing is lost between a source and the decision (load), nor
\* between the decision and the path that is forwarded (proxy_handler).
ServedAsConfigured ==
    sent # Nothing =>
       /\ Readable(input) /\ ~Contradictory(input)
       /\ GrantedByBase \/ GrantedByRule
       /\ ~ProhibitedRule

\* Under the read-only profile the daemon is never asked to write, whatever rules
\* are added and whatever form a path is given (for_profile: a later allow rule
\* cannot reopen one).
ReadOnlyReachesNoWrite ==
    sent # Nothing /\ input.profile = "read-only" =>
       request.method \notin {"POST", "PUT", "DELETE", "PATCH"}

\* The proxy refuses only for a reason that can be found in the request or in a
\* source.  A path is malformed if it says so; it is forbidden if it hides a
\* separator, if as it reads the operator prohibits it, or the profile does and
\* does not itself grant it, or nobody grants it; or it creates a container that
\* the inspection refuses (check_head, check_body).
RefusedForAReason ==
    answer # Nothing /\ reply = Nothing =>
       /\ answer.status = 400 => \E i \in 1..Len(raw): raw[i] \in Malformed \cup NotText
       /\ answer.status = 403 =>
             \/ \E i \in 1..Len(raw): IsEncodedSeparator(raw[i])
             \/ ProhibitedRule
             \/ /\ ~GrantedByBase
                /\ \/ ~GrantedByRule
                   \/ ListMatches(Base(input).deny, request.method, Endpoint)
             \/ /\ request.method = "POST" /\ Endpoint = CreatePath
                /\ ~Permitted(request.body)
=============================================================================
