---------------------------- MODULE Observability ----------------------------
(***************************************************************************)
(* /metrics, /healthz and the probe of --health-check (observability.rs):  *)
(* a scraper that loads two counters while requests are counted, and a     *)
(* probe, in a process of its own, against a proxy that stops, a daemon    *)
(* that comes and goes and handlers that may never finish.  The probe is   *)
(* configured with the address that the proxy is bound to.                 *)
(***************************************************************************)
EXTENDS Integers

CONSTANTS
    Binds,        \* the addresses of a behaviour
    MaxCount      \* bound of each counter

Addresses == {"any4", "any6", "loop4", "loop6", "interface"}

ASSUME ObservabilityAssumption == Binds \subseteq Addresses /\ MaxCount \in Nat

VARIABLES
    bind,                \* the address the proxy is bound to
    allowed, denied,     \* the counters
    scrape,              \* whether one is under way, and what it has loaded
    shown,               \* the last exposition
    floor,               \* the counters as that scrape, or the one under way, began
    serving,             \* whether the proxy accepts connections
    socket,              \* whether the daemon's socket does
    health,              \* what became of the probe's request to /healthz
    probe,               \* where the probe is
    reached,             \* whether the socket accepted at all while the probe ran
    trouble              \* whether anything went wrong while it ran

counterVars == <<allowed, denied, scrape, shown, floor>>
probeVars   == <<health, probe, reached, trouble>>
vars == <<bind, serving, socket, counterVars, probeVars>>

Probing == probe \in {"connecting", "waiting"}

Pair(a, d) == [allowed |-> a, denied |-> d]

Init ==
    /\ bind \in Binds
    /\ allowed = 0 /\ denied = 0
    /\ scrape = [loading |-> FALSE, allowed |-> 0]
    /\ shown = Pair(0, 0) /\ floor = Pair(0, 0)
    /\ serving = TRUE
    /\ socket \in BOOLEAN
    /\ health = "none" /\ probe = "idle"
    /\ reached = FALSE /\ trouble = FALSE

-----------------------------------------------------------------------------
(***************************************************************************)
(* The counters.                                                           *)
(***************************************************************************)
record_allowed ==
    /\ allowed < MaxCount
    /\ allowed' = allowed + 1
    /\ UNCHANGED <<bind, serving, socket, denied, scrape, shown, floor, probeVars>>

record_denied ==
    /\ denied < MaxCount
    /\ denied' = denied + 1
    /\ UNCHANGED <<bind, serving, socket, allowed, scrape, shown, floor, probeVars>>

\* render, with the counters moving between its loads.
LoadAllowed ==
    /\ serving /\ ~scrape.loading
    /\ scrape' = [loading |-> TRUE, allowed |-> allowed]
    /\ floor' = Pair(allowed, denied)
    /\ UNCHANGED <<bind, serving, socket, allowed, denied, shown, probeVars>>

\* Mutant: the same counter is rendered twice.
LoadAllowedAgain ==
    /\ scrape.loading
    /\ shown' = Pair(scrape.allowed, allowed)
    /\ scrape' = [scrape EXCEPT !.loading = FALSE]
    /\ UNCHANGED <<bind, serving, socket, allowed, denied, floor, probeVars>>

LoadDenied ==
    /\ scrape.loading
    /\ shown' = Pair(scrape.allowed, denied)
    /\ scrape' = [scrape EXCEPT !.loading = FALSE]
    /\ UNCHANGED <<bind, serving, socket, allowed, denied, floor, probeVars>>

-----------------------------------------------------------------------------
(***************************************************************************)
(* The probe, the handler of /healthz, and what they depend on.            *)
(***************************************************************************)

\* Mutant: always over loopback.
TargetLoopback(address) == IF address \in {"any6", "loop6"} THEN "loop6" ELSE "loop4"

\* A wildcard is probed over loopback, anything else where it is bound.
Target(address) ==
    CASE address = "any4" -> "loop4"
      [] address = "any6" -> "loop6"
      [] OTHER -> address

\* Where a socket that is bound accepts connections.
Accepts(address, target) ==
    \/ address = target
    \/ address = "any4" /\ target \in {"loop4", "interface"}
    \/ address = "any6" /\ target \in {"loop4", "loop6", "interface"}

Begin ==
    /\ ~Probing
    /\ probe' = "connecting"
    /\ health' = "none"
    /\ reached' = socket
    /\ trouble' = (~socket \/ ~serving)
    /\ UNCHANGED <<bind, serving, socket, counterVars>>

End(outcome) ==
    /\ probe' = outcome
    /\ UNCHANGED <<bind, serving, socket, counterVars, health, reached>>

Connect ==
    /\ probe = "connecting"
    /\ serving /\ Accepts(bind, Target(bind))
    /\ probe' = "waiting"
    /\ health' = "asked"
    /\ UNCHANGED <<bind, serving, socket, counterVars, reached, trouble>>

Refused ==
    /\ probe = "connecting"
    /\ ~serving \/ ~Accepts(bind, Target(bind))
    /\ End("failed") /\ UNCHANGED trouble

\* health: connecting is the whole check.
Health ==
    /\ serving /\ health = "asked"
    /\ health' = IF socket THEN "200" ELSE "503"
    /\ UNCHANGED <<bind, serving, socket, counterVars, probe, reached, trouble>>

\* The router's timeout is around /healthz too.
HealthExpires ==
    /\ serving /\ health = "asked"
    /\ health' = "504"
    /\ trouble' = TRUE
    /\ UNCHANGED <<bind, serving, socket, counterVars, probe, reached>>

\* Mutant: any answer will do.
ReadAny ==
    /\ probe = "waiting" /\ health \in {"200", "503", "504"}
    /\ End("passed") /\ UNCHANGED trouble

\* The answer is whole, and decides.
ReadAnswer ==
    /\ probe = "waiting" /\ health \in {"200", "503", "504"}
    /\ End(IF health = "200" THEN "passed" ELSE "failed") /\ UNCHANGED trouble

\* The proxy went before it answered: an error, or an empty response.
ReadBroken ==
    /\ probe = "waiting" /\ health = "asked" /\ ~serving
    /\ End("failed") /\ UNCHANGED trouble

\* PROBE_TIMEOUT is around the whole exchange.
ProbeTimeout == Probing /\ End("failed") /\ trouble' = TRUE

\* The daemon comes and goes.
SocketTurns ==
    /\ socket' = ~socket
    /\ reached' = (reached \/ (Probing /\ socket'))
    /\ trouble' = (trouble \/ (Probing /\ ~socket'))
    /\ UNCHANGED <<bind, serving, counterVars, health, probe>>

ProxyStops ==
    /\ serving
    /\ serving' = FALSE
    /\ trouble' = (trouble \/ Probing)
    /\ UNCHANGED <<bind, socket, counterVars, health, probe, reached>>

Probe == Begin \/ Connect \/ Refused \/ ReadAnswer \/ ReadBroken \/ ProbeTimeout

Next ==
    \/ record_allowed \/ record_denied \/ LoadAllowed \/ LoadDenied
    \/ Probe \/ Health \/ HealthExpires \/ SocketTurns \/ ProxyStops

Spec == Init /\ [][Next]_vars

-----------------------------------------------------------------------------
(***************************************************************************)
(* Properties.                                                             *)
(***************************************************************************)

\* The pair that a scrape shows may never have held together, the loads of
\* render being two; but each value did, at some time during the scrape.
ScrapeBetween ==
    /\ shown.allowed <= allowed /\ shown.denied <= denied
    /\ ~scrape.loading =>
          floor.allowed <= shown.allowed /\ floor.denied <= shown.denied

\* What is exposed as a counter (the TYPE that render declares) never falls from
\* one scrape to the next, however they fall among the requests.
ScrapesNeverFall ==
    [][shown'.allowed >= shown.allowed /\ shown'.denied >= shown.denied]_vars

\* Exit 0 means that the daemon could be reached while this probe ran (README.md:
\* "exits 0 when healthy"), not before it, and not merely that a proxy answered.
PassMeansReached == probe = "passed" => reached

\* Exit 1 means that something was wrong while this probe ran: a healthy proxy
\* does not fail it for the address it is bound to.
FailMeansTrouble == probe = "failed" => trouble
=============================================================================
