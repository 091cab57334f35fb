------------------------- MODULE ObservabilityProofs -------------------------
(***************************************************************************)
(* Proofs about Observability.  The counters and the probe do not touch    *)
(* each other, so that each has an inductive invariant of its own.         *)
(***************************************************************************)
EXTENDS Observability, TLAPS

\* What a scrape holds lies between what it began with and what there is, and
\* above what was shown before.
ScrapeInv ==
    /\ allowed \in Nat /\ denied \in Nat
    /\ scrape \in [loading: BOOLEAN, allowed: Nat]
    /\ shown \in [allowed: Nat, denied: Nat]
    /\ floor \in [allowed: Nat, denied: Nat]
    /\ shown.allowed <= allowed /\ shown.denied <= denied /\ floor.denied <= denied
    /\ scrape.loading =>
          /\ floor.allowed <= scrape.allowed /\ scrape.allowed <= allowed
          /\ shown.allowed <= scrape.allowed
    /\ ~scrape.loading => floor.allowed <= shown.allowed /\ floor.denied <= shown.denied

LEMMA ScrapeInductive ==
    ASSUME ScrapeInv, [Next]_vars
    PROVE  /\ ScrapeInv'
           /\ shown'.allowed >= shown.allowed /\ shown'.denied >= shown.denied
<1> USE DEF ScrapeInv, Pair
<1>1. CASE record_allowed
  BY <1>1 DEF record_allowed
<1>2. CASE record_denied
  BY <1>2 DEF record_denied
<1>3. CASE LoadAllowed
  BY <1>3 DEF LoadAllowed
<1>4. CASE LoadDenied
  <2>1. /\ scrape.loading /\ ~scrape'.loading
        /\ scrape' \in [loading: BOOLEAN, allowed: Nat]
    BY <1>4 DEF LoadDenied
  <2>2. /\ shown' \in [allowed: Nat, denied: Nat]
        /\ shown'.allowed = scrape.allowed /\ shown'.denied = denied
        /\ allowed' = allowed /\ denied' = denied /\ floor' = floor
    BY <1>4 DEF LoadDenied
  <2> QED
    BY <2>1, <2>2
<1>5. CASE UNCHANGED counterVars
  BY <1>5 DEF counterVars
<1>6. CASE Probe \/ Health \/ HealthExpires \/ SocketTurns \/ ProxyStops \/ UNCHANGED vars
  <2>1. UNCHANGED counterVars
    BY <1>6 DEF Probe, Begin, Connect, Refused, ReadAnswer, ReadBroken, ProbeTimeout, End,
                Health, HealthExpires, SocketTurns, ProxyStops, vars, counterVars
  <2> QED
    BY <1>5, <2>1
<1> QED
  BY <1>1, <1>2, <1>3, <1>4, <1>6 DEF Next

LEMMA ScrapeInvariant == Spec => []ScrapeInv
<1>1. Init => ScrapeInv
  BY DEF Init, ScrapeInv, Pair
<1> QED
  BY <1>1, ScrapeInductive, PTL DEF Spec

\* Each value of an exposition held at some time during its scrape.
THEOREM ScrapesBetween == Spec => []ScrapeBetween
<1>1. ScrapeInv => ScrapeBetween
  BY DEF ScrapeInv, ScrapeBetween
<1> QED
  BY <1>1, ScrapeInvariant, PTL

\* What is exposed never falls.
THEOREM ExpositionsGrow == Spec => ScrapesNeverFall
<1>1. ScrapeInv /\ [Next]_vars =>
         [shown'.allowed >= shown.allowed /\ shown'.denied >= shown.denied]_vars
  BY ScrapeInductive
<1> QED
  BY <1>1, ScrapeInvariant, PTL DEF Spec, ScrapesNeverFall

-----------------------------------------------------------------------------

\* While the probe runs, and in what it ended with, the history is what happened.
ProbeInv ==
    /\ bind \in Addresses
    /\ socket \in BOOLEAN /\ serving \in BOOLEAN
    /\ Probing /\ socket => reached
    /\ Probing /\ (~socket \/ ~serving) => trouble
    /\ probe = "waiting" /\ health = "200" => reached
    /\ probe = "waiting" /\ health \in {"503", "504"} => trouble
    /\ PassMeansReached
    /\ FailMeansTrouble

\* Where the probe connects to, the proxy accepts.
LEMMA TargetAccepted == \A address \in Addresses: Accepts(address, Target(address))
BY DEF Addresses, Accepts, Target

LEMMA ProbeInductive == ProbeInv /\ [Next]_vars => ProbeInv'
<1> SUFFICES ASSUME ProbeInv, [Next]_vars PROVE ProbeInv'
  OBVIOUS
<1> USE DEF ProbeInv, Probing, PassMeansReached, FailMeansTrouble, End
<1>1. CASE Begin
  BY <1>1 DEF Begin
<1>2. CASE Connect
  BY <1>2 DEF Connect
<1>3. CASE Refused
  BY <1>3, TargetAccepted DEF Refused
<1>4. CASE ReadAnswer
  BY <1>4 DEF ReadAnswer
<1>5. CASE ReadBroken
  BY <1>5 DEF ReadBroken
<1>6. CASE ProbeTimeout
  BY <1>6 DEF ProbeTimeout
<1>7. CASE Health
  BY <1>7 DEF Health
<1>8. CASE HealthExpires
  BY <1>8 DEF HealthExpires
<1>9. CASE SocketTurns
  BY <1>9 DEF SocketTurns
<1>10. CASE ProxyStops
  BY <1>10 DEF ProxyStops
<1>11. CASE record_allowed \/ record_denied \/ LoadAllowed \/ LoadDenied \/ UNCHANGED vars
  BY <1>11 DEF record_allowed, record_denied, LoadAllowed, LoadDenied, vars, probeVars
<1> QED
  BY <1>1, <1>2, <1>3, <1>4, <1>5, <1>6, <1>7, <1>8, <1>9, <1>10, <1>11 DEF Next, Probe

LEMMA ProbeInvariant == Spec => []ProbeInv
<1>1. Init => ProbeInv
  BY ObservabilityAssumption DEF Init, ProbeInv, Probing, PassMeansReached, FailMeansTrouble
<1> QED
  BY <1>1, ProbeInductive, PTL DEF Spec

\* A probe that passes found a daemon.
THEOREM PassesReached == Spec => []PassMeansReached
<1>1. ProbeInv => PassMeansReached
  BY DEF ProbeInv
<1> QED
  BY <1>1, ProbeInvariant, PTL

\* A probe that fails found trouble, whatever the address.
THEOREM FailuresTroubled == Spec => []FailMeansTrouble
<1>1. ProbeInv => FailMeansTrouble
  BY DEF ProbeInv
<1> QED
  BY <1>1, ProbeInvariant, PTL
=============================================================================
