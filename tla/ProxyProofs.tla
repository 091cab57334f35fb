----------------------------- MODULE ProxyProofs -----------------------------
(***************************************************************************)
(* Theorems of Proxy, from any configuration to any answer.  Loading does  *)
(* not touch a request and serving does not touch the policy, so that what *)
(* is proved of the two in PolicyLoadProofs and ExchangeProofs holds of    *)
(* the whole; the theorems of this module follow from both at once.        *)
(***************************************************************************)
EXTENDS Proxy, PolicyLoadProofs, ExchangeProofs

-----------------------------------------------------------------------------
(***************************************************************************)
(* Each part goes its way.                                                 *)
(***************************************************************************)

\* Nothing that is done for a request changes the policy.
LEMMA FilterFixed == ASSUME [Handle]_exchangeVars PROVE filter' = filter
BY DEF Handle, Normalize, RejectPath, Decide, Inspect, Send, FailUpstream, Receive, Relay,
       Answered, Answer, Proceed, exchangeVars

\* A step of the proxy is one of its loader that leaves the request alone, or one
\* of the exchange, under a policy that is ready, that leaves the loader alone.
LEMMA StepOfEither ==
    ASSUME [ProxyNext]_proxyVars
    PROVE  \/ Next /\ stage \notin {"ready", "failed"} /\ UNCHANGED <<pathVars, messageVars>>
           \/ [Handle]_exchangeVars /\ stage = "ready" /\ UNCHANGED vars
           \/ UNCHANGED proxyVars
<1>1. CASE Load
  BY <1>1 DEF Load, Next, Fail, ReadSources, ApplyDocument, ApplyEnvironment
<1>2. CASE Serve
  BY <1>2, FilterFixed DEF Serve, vars
<1>3. CASE Exited \/ UNCHANGED proxyVars
  BY <1>3 DEF Exited
<1> QED
  BY <1>1, <1>2, <1>3 DEF ProxyNext

\* The proxy's policy comes about as PolicyLoad says: its theorems hold of the
\* filter that every request is decided with.
THEOREM LoadsItsPolicy == ProxySpec => Spec
<1>1. ASSUME [ProxyNext]_proxyVars PROVE [Next]_vars
  BY <1>1, StepOfEither DEF proxyVars, exchangeVars, vars
<1> QED
  BY <1>1, PTL DEF ProxySpec, ProxyInit, Spec

\* A request is read only by a proxy that has its policy.
WaitsForPolicy == stage # "ready" => phase = "head" /\ step = "decode"

ExchangeInv == PathInv /\ ReadInv /\ RelayInv /\ RefusalInv

ProxyInv == IInv /\ WaitsForPolicy /\ ExchangeInv

LEMMA ExchangeInductive == ExchangeInv /\ [Handle]_exchangeVars => ExchangeInv'
BY PathInductive, ReadInductive, RelayInductive, RefusalInductive DEF ExchangeInv

\* While the policy changes, no request has been looked at.
LEMMA LoadDisturbsNothing ==
    ASSUME ExchangeInv, UNCHANGED <<pathVars, messageVars>>, phase = "head", step = "decode"
    PROVE  ExchangeInv'
<1>1. PathInv'
  BY DEF ExchangeInv, pathVars, PathInv, NormalForm
<1>2. ReadInv'
  BY DEF ExchangeInv, pathVars, ReadInv, DecidedAsRead, AtStart, Underway, Current
<1>3. RelayInv'
  BY DEF ExchangeInv, pathVars, messageVars, RelayInv
<1>4. RefusalInv'
  BY DEF pathVars, messageVars, RefusalInv
<1> QED
  BY <1>1, <1>2, <1>3, <1>4 DEF ExchangeInv

LEMMA ProxyInductive == ProxyInv /\ [ProxyNext]_proxyVars => ProxyInv'
<1> SUFFICES ASSUME ProxyInv, [ProxyNext]_proxyVars PROVE ProxyInv'
  OBVIOUS
<1>1. CASE Next /\ stage \notin {"ready", "failed"} /\ UNCHANGED <<pathVars, messageVars>>
  <2>1. phase = "head" /\ step = "decode" /\ phase' = phase /\ step' = step
    BY <1>1 DEF ProxyInv, WaitsForPolicy, pathVars, messageVars
  <2> QED
    BY <1>1, <2>1, Inductive, LoadDisturbsNothing DEF ProxyInv, WaitsForPolicy
<1>2. CASE [Handle]_exchangeVars /\ stage = "ready" /\ UNCHANGED vars
  <2>1. stage' = "ready"
    BY <1>2 DEF vars
  <2> QED
    BY <1>2, <2>1, Inductive, ExchangeInductive DEF ProxyInv, WaitsForPolicy
<1>3. CASE UNCHANGED proxyVars
  <2>1. UNCHANGED vars /\ UNCHANGED exchangeVars
    BY <1>3 DEF proxyVars, exchangeVars, vars
  <2>2. WaitsForPolicy'
    BY <2>1 DEF ProxyInv, WaitsForPolicy, vars, exchangeVars, pathVars, messageVars
  <2> QED
    BY <2>1, <2>2, Inductive, ExchangeInductive DEF ProxyInv
<1> QED
  BY <1>1, <1>2, <1>3, StepOfEither

LEMMA ProxyInvariant == ProxySpec => []ProxyInv
<1>1. Begin => WaitsForPolicy
  BY DEF Begin, PathInit, WaitsForPolicy
<1>2. ProxyInit => ProxyInv
  BY <1>1, Inductive, PathBegins, ReadBegins, RelayBegins, RefusalBegins
     DEF ProxyInit, ProxyInv, ExchangeInv
<1> QED
  BY <1>2, ProxyInductive, PTL DEF ProxySpec

-----------------------------------------------------------------------------
(***************************************************************************)
(* The exchange, under the policy that was loaded.                         *)
(***************************************************************************)

\* The variables of an exchange keep their types.
THEOREM ExchangeTypeCorrect == ProxySpec => []TypeOK
<1>1. ProxyInv => TypeOK
  BY TypeMeans DEF ProxyInv, ExchangeInv
<1> QED
  BY <1>1, ProxyInvariant, PTL

\* Decoding moves no boundary of any path.
THEOREM BoundariesAlwaysKept == ProxySpec => []BoundariesKept
<1>1. ProxyInv => BoundariesKept
  BY PathMeans DEF ProxyInv, ExchangeInv
<1> QED
  BY <1>1, ProxyInvariant, PTL

\* The policy decides on a normal form, of any path.
THEOREM AlwaysNormal == ProxySpec => []NormalForm
<1>1. ProxyInv => NormalForm
  BY PathMeans DEF ProxyInv, ExchangeInv
<1> QED
  BY <1>1, ProxyInvariant, PTL

\* The policy decides on what the path reads as that is forwarded, for any path.
THEOREM AlwaysDecidedAsRead == ProxySpec => []DecidedAsRead
<1>1. ProxyInv => DecidedAsRead
  BY ReadMeans DEF ProxyInv, ExchangeInv
<1> QED
  BY <1>1, ProxyInvariant, PTL

\* Fields that are meant for one connection do not cross to the other.
THEOREM ConnectionsStayApart == ProxySpec => []ConnectionsApart
<1>1. ProxyInv => ConnectionsApart
  BY ApartMeans DEF ProxyInv, ExchangeInv
<1> QED
  BY <1>1, ProxyInvariant, PTL

\* The daemon is offered what the client offers, and the two switch together.
THEOREM AlwaysSwitchedTogether == ProxySpec => []SwitchedTogether
<1>1. ProxyInv => SwitchedTogether
  BY SwitchedMeans DEF ProxyInv, ExchangeInv
<1> QED
  BY <1>1, ProxyInvariant, PTL

\* What reaches the daemon is allowed as it reads, and contained.
THEOREM ForwardedAllowed == ProxySpec => []ForwardedIsAllowed
<1>1. ProxyInv => ForwardedIsAllowed
  BY ForwardedMeans, ReadMeans DEF ProxyInv, ExchangeInv
<1> QED
  BY <1>1, ProxyInvariant, PTL

-----------------------------------------------------------------------------
(***************************************************************************)
(* From the configuration to the daemon, and back to the client.           *)
(***************************************************************************)

\* What is sent was allowed by a policy that is ready, as it reads.
LEMMA SentAllowed ==
    ASSUME ProxyInv, sent # Nothing
    PROVE  stage = "ready" /\ IInv /\ Allows(filter, request.method, Endpoint)
<1>1. RelayInv /\ ForwardedIsAllowed
  BY ForwardedMeans, ReadMeans DEF ProxyInv, ExchangeInv
<1>2. stage = "ready"
  BY <1>1 DEF ProxyInv, WaitsForPolicy, RelayInv
<1> QED
  BY <1>1, <1>2 DEF ForwardedIsAllowed, Endpoint, ProxyInv

\* A list matches what one of its parts does.
LEMMA ListParts ==
    ASSUME NEW R, NEW S, NEW m, NEW p
    PROVE  ListMatches(R \cup S, m, p) <=> ListMatches(R, m, p) \/ ListMatches(S, m, p)
BY DEF ListMatches

\* The daemon is asked what the operator's sources grant, and nothing they
\* prohibit, for any configuration and however a path is written.
THEOREM AlwaysServedAsConfigured == ProxySpec => []ServedAsConfigured
<1>1. ProxyInv => ServedAsConfigured
  <2> SUFFICES ASSUME ProxyInv, sent # Nothing
               PROVE  /\ Readable(input) /\ ~Contradictory(input)
                      /\ GrantedByBase \/ GrantedByRule
                      /\ ~ProhibitedRule
    BY DEF ServedAsConfigured
  <2> DEFINE m == request.method
  <2>1. IInv /\ stage = "ready" /\ Allows(filter, m, Endpoint)
    BY SentAllowed
  <2>2. Readable(input) /\ ~Contradictory(input)
    BY <2>1 DEF IInv
  <2>3. /\ ListMatches(filter.allow, m, Endpoint)
        /\ ~ListMatches(filter.deny, m, Endpoint)
        /\ ~ListMatches(filter.exclude, m, Endpoint)
    BY <2>1, Verdicts DEF Allows
  <2>4. GrantedByBase \/ GrantedByRule
    BY <2>1, <2>3, LoadedRules, ListParts DEF GrantedByBase, GrantedByRule
  <2>5. ~ProhibitedRule
    BY <2>1, <2>3, LoadedRules, ListParts DEF ProhibitedRule
  <2> QED
    BY <2>2, <2>4, <2>5
<1> QED
  BY <1>1, ProxyInvariant, PTL

\* Read-only is read-only from one end to the other.
THEOREM ReadOnlyEndToEnd == ProxySpec => []ReadOnlyReachesNoWrite
<1>1. ProxyInv => ReadOnlyReachesNoWrite
  <2> SUFFICES ASSUME ProxyInv, sent # Nothing, input.profile = "read-only"
               PROVE  request.method \notin {"POST", "PUT", "DELETE", "PATCH"}
    BY DEF ReadOnlyReachesNoWrite
  <2>1. IInv /\ stage = "ready" /\ Allows(filter, request.method, Endpoint)
    BY SentAllowed
  <2> QED
    BY <2>1, ReadOnlyLoaded
<1> QED
  BY <1>1, ProxyInvariant, PTL

\* No refusal is without a reason that the client or the operator can find.
THEOREM AlwaysRefusedForAReason == ProxySpec => []RefusedForAReason
<1>1. ProxyInv => RefusedForAReason
  <2> SUFFICES ASSUME ProxyInv, answer # Nothing, reply = Nothing PROVE RefusedForAReason
    BY DEF RefusedForAReason
  <2>1. /\ answer.status = 400 => IsMalformed
        /\ answer.status = 403 =>
              \/ HidesSeparator
              \/ ~Allows(filter, request.method, Endpoint)
              \/ request.method = "POST" /\ Endpoint = CreatePath /\ ~Permitted(request.body)
    BY RefusedMeans, ReadMeans DEF ProxyInv, ExchangeInv, Endpoint
  <2>2. stage = "ready" /\ IInv
    BY DEF ProxyInv, ExchangeInv, WaitsForPolicy, RelayInv
  <2>3. ~Allows(filter, request.method, Endpoint) =>
           \/ ProhibitedRule
           \/ /\ ~GrantedByBase
              /\ ~GrantedByRule \/ ListMatches(Base(input).deny, request.method, Endpoint)
    BY <2>2, DeniedForASource, ListParts DEF ProhibitedRule, GrantedByBase, GrantedByRule
  <2> QED
    BY <2>1, <2>3 DEF RefusedForAReason, HidesSeparator, IsMalformed
<1> QED
  BY <1>1, ProxyInvariant, PTL
=============================================================================
