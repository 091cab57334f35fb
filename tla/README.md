# A TLA+ model of docker-socket-proxy

`docker-socket-proxy` listens on TCP, decides on every request with a policy,
forwards the allowed ones to the Docker daemon's Unix socket, and relays the
answers. These modules model what the proxy does with a request, with a
policy's sources and with a signal, check it with TLC on small instances, and
prove the main safety properties with TLAPS for every instance.

Line references are to `src/src/*.rs` (and `src/README.md`) of the repository.

## 1. The system

### Components

| Component | State | Operations | Modelled by |
|---|---|---|---|
| Enforcement layer (`middleware.rs`) | one future per request; shared: the filter (immutable), two counters | `call`: decide on the head, refuse, stream or collect and inspect the body, pass on | `RequestPipeline` |
| Request handler (`proxy.rs`) | one future per request; a new daemon connection each | `proxy_handler`: connect, forward, map errors, relay, accept or refuse a 101 | `RequestPipeline`; the fields it relays: `HeaderRelay`, `Exchange` |
| Timeout layer (`proxy.rs:110`) | a timer per request | give up with 504 | `RequestPipeline`, `ServerLifecycle`, `Observability` |
| Lifecycle (`proxy.rs`, `main.rs`) | `upgrade_tasks`, the copying tasks, the connections, the signal handlers | start, signal, graceful shutdown, drain, exit | `ServerLifecycle`, which implements `GracefulShutdown`; with the requests on its connections: `Server` |
| Policy decision (`security.rs`) | the filter: allow, deny and exclude lists | normalize a path, match patterns and rules, `check_head`, `check_body` | `RequestPath`, `PolicyDecision`, `CreateInspection`, composed in `Exchange` and, with the loader, in `Proxy` |
| Policy loader (`policy.rs`) | the filter being built | read the file, section variables, apply document, apply environment | `PolicyLoad` |
| Policy lint (`docker_api.rs`) | none | warn about patterns and methods that match nothing | `DockerApi`, used by `PolicyLoad` |
| Observability (`observability.rs`) | two counters | count, `/metrics`, `/healthz`, `--health-check` | `Observability`; who counts what: `RequestPipeline` |
| Errors (`error.rs`) | none | a status for each error | `RequestPipeline`, `Exchange` |
| Configuration and logging (`config.rs`, `main.rs`) | none after start | parse options | not modelled: constants of the others |
| Fuzz targets, tests, examples, packaging | – | – | not modelled: nothing of the program's own behaviour |

### Interaction

Calls: timeout layer → enforcement layer → handler → daemon, all within one
future per request, which is dropped as a whole by the deadline or when the
client goes. Shared state: the counters (atomics), and `upgrade_tasks` (a
mutex), which handlers append to and the drain takes. Messages: bytes of bodies
in both directions, in frames the peers choose. Detached: the task that copies
between client and daemon after a 101, which outlives its handler and its
connection's task and is reached again only by the drain at shutdown. The policy
loader runs once, before the listener exists; its filter never changes.

### What is hard, and the properties that answer it

- **Two readings of a request.** The policy sees a normalized path, the daemon
  the raw one (`DecidedAsRead`, `ForwardedIsAllowed`, `NormalForm`); each side of the hop may name any field of its message as its
  connection's own (`ConnectionsApart`), and an upgrade takes two connections,
  each with an offer and an acceptance (`SwitchedTogether`).
- **From a source to the daemon.** Loader, decision and forwarding are written
  apart: what an operator wrote must be what the daemon is asked under, however a
  path is spelled (`ServedAsConfigured`, `ReadOnlyReachesNoWrite`), and nobody is
  refused for a reason that is in no source (`RefusedForAReason`).
- **The end of a busy server.** The signal meets requests at every stage, on
  connections that carry one after another: each is answered, over, or in the list
  that is drained (`NoneForgotten`), the drain sees no more decisions
  (`NothingWhileDraining`), and a tunnel is one that the policy let through
  (`SessionsAuthorised`).
- **Concurrency.** A body arrives while a decision is due or an answer is already
  on its way (`Mediated`, `Implements`, `OverrunHandled`); a handle is stored
  while the list is taken (`SessionsTracked`, `DrainComplete`); counts, log and
  answer are three effects with five ways out (`CountersAgree`); a scrape loads
  two counters that move (`ScrapeBetween`).
- **Cancellation.** Deadline and client drop a future at any await
  (`NothingAfterTheAnswer`, `AnswerJustified`), among them the one between
  spawning a copying task and storing its handle: a task that is then in no list
  must be one that nobody has a session through (`SessionsTracked`).
- **Liveness.** No request without an answer when there is a deadline
  (`AnsweredOrGone`), nor a decision lost to it (`DecidedPromptly`); a signal
  ends the process if a handler for it could be installed, and nothing else does
  (`StopTerminates`, `ShutdownWasAsked`); no session is cut off without its
  window (`SeveredOutstayed`, `KeepsPromise`).
- **Stale answers.** A probe reports a daemon that comes and goes through a proxy
  that may stop (`PassMeansReached`, `FailMeansTrouble`).
- **Limits.** The body limit, exactly, buffered and streamed (`BodyBound`,
  `OverrunHandled`).
- **Combining sources of policy.** Later rules under a read-only profile
  (`ReadOnlyNeverWrites`), prohibitions against grants (`ProhibitionsDecisive`),
  rules merged into cross products (`GrantsHaveASource`), two tables kept in
  step by hand (`GrantsNotShadowed`), sources that fail (`FailsClosed`), and a
  lint that is written apart from the matcher (`LintAgrees`).

## 2. Modules

| Module | What it is |
|---|---|
| `Mediation` | Abstract: a reference monitor between clients and daemon |
| `RequestPipeline` | The life of requests: layer, handler, deadline, client, daemon. Implements `Mediation` |
| `GracefulShutdown` | Abstract: what the server's end promises to those who hold a session |
| `ServerLifecycle` | Start, connections, upgraded sessions, signals, drain, exit. Implements `GracefulShutdown` |
| `PolicyDecision` | Patterns, rules, profiles, the verdict: operators only |
| `DockerApi` | The lint over `PolicyDecision`: the table of the API, and what is known: operators only |
| `PolicyLoad` | The loader, with its lint, as a state machine over `DockerApi` |
| `RequestPath` | `normalize_path` as the loops that compute it, and a reference reading of the raw path |
| `CreateInspection` | `check_create_body`: operators only |
| `HeaderRelay` | Which fields cross the proxy, and when an upgrade is offered or accepted: operators only |
| `Exchange` | One request from head to answer, under a filter: composes `RequestPath`, `PolicyDecision`, `CreateInspection` and `HeaderRelay` |
| `Proxy` | From configuration to answer: composes `PolicyLoad` and `Exchange` on the filter that both know |
| `Server` | Requests on connections: composes `RequestPipeline` and `ServerLifecycle`, step by step |
| `Observability` | A scraper, the counters, `/healthz` and the probe |
| `RequestPipelineProofs`, `ServerLifecycleProofs`, `PolicyLoadProofs`, `RequestPathProofs`, `ExchangeProofs`, `ProxyProofs`, `ServerProofs`, `ObservabilityProofs` | Their theorems |
| `MCRequestPipeline`, `MCServerLifecycle`, `MCPolicyLoad`, `MCProxy`, `MCServer` | Small instances for TLC |

An operator whose comment says `Mutant:` is not part of a model. It is the code
with a plausible mistake in it, under which the property it is kept for fails;
`PROJECT.json` lists them.

### RequestPipeline

An action is what a request's task does between two awaits, in the order of the
code; every await is a stage, so that other requests, the client, the daemon and
the timer act in between.

| `stage` | where the future is | code |
|---|---|---|
| `arrived` | about to call `check_head` | `middleware.rs:120` |
| `collecting` | in `Limited::collect().await` | `middleware.rs:131` |
| `connecting` | in `client.request(..).await`, not connected | `proxy.rs:228` |
| `forwarding` | the same, the head sent, the body flowing | `proxy.rs:228` |
| `switching` | in `upgrade_tasks.lock().await` | `proxy.rs:337` |
| `relaying` | the response head is out, both bodies may flow | `proxy.rs:262` |
| `spliced` | the 101 is out, the copying task has the connection | `proxy.rs:322` |
| `closed` | over | |

The layer's part has one action per way out of `call`: `DenyHead`,
`DenyDeclared`, `AdmitHead`, and for a body the decision rests on
`BeginCollect`, `CollectFrame`, then `CollectOverrun`, `CollectError`,
`DenyBody` or `AdmitBody`. `Reject` and `Admit` hold the effects the code groups
there (count, log, answer; count, call the inner service). The handler's part
distinguishes errors before the response head (413 or 502, `StreamOverrun`,
`ForwardFail`) from errors after it, which have no status left to give.

Parameters stand for data: `HeadRule` gives `check_head`'s verdict on a head,
`SafeBody` the create bodies that `check_body` accepts; a body is a sequence of
bytes that comes in frames. `allowed`, `denied` and `audited` are the counters
and the audit log; `contacted`, `admitted`, `overrun` record history for the
properties.

What hyper and http_body_util do is external, taken from how the code relies on
it: `Limited` passes a frame exactly when it fits in what is left (`Fits`); a
body with a declared length is neither longer nor, when it ends, shorter
(`Supplies`, `Complete`); a request body still flows while the response is
relayed, and an error in it fails the pending request or breaks the response
off; a timeout or disconnect drops the future.

### Mediation

Five variables: what is demanded of a request (nothing, inspection, refusal),
the verdict, the body a grant rested on, who was reached, and what was
delivered. `Grant`, `Refuse`, `Reach` and `Deliver` say that a verdict is given
once, that the daemon is reached only after a grant, and that no more than the
limit, and after inspection only the inspected body and at once, is delivered.
`RequestPipeline!Implements` is this specification under the mapping given there
(`Demand`, `Verdict`, `VettedBody`).

### ServerLifecycle and GracefulShutdown

`phase` follows `serve`: `starting`, `serving`, `closing` (axum's graceful
shutdown), `draining`, `exited`, or `failed`. `conn` is what each connection's
task does, `session` the copying task spawned on its behalf, `tasks` the vector
in the mutex, and `queue` the handles `drain_upgrades` has taken and not yet
awaited. Spawning (`Spawn`), storing the handle (`Push`), writing the 101
(`HandOver`) and the upgrade of both halves (`Join`) are separate steps, and the
deadline (`Expire`) or the client (`Drop`) can come between them: then the client
half is never handed over, and once hyper gives it up the copying task ends with
an error (`ClientHalfFails`). When that is, is hyper's business (on a connection
that is kept alive perhaps not before it ends), so that no fairness is assumed of
it. `DrainTimeout` only drops the
handle (a dropped `JoinHandle` detaches); what is then still running is cut off
by `Exit`, where the runtime is dropped.

`installed` is the set of signals whose handler could be installed, `sent` those
the process has been sent while it serves. A branch of `shutdown_signal` whose
handler could not be installed parks; its signal is then lost, since the proxy
is taken to be the first process of its container, as its image makes it. A
second signal changes nothing: the futures that listened for it are gone.

`GracefulShutdown` knows a server that runs, stops and is stopped, and for each
holder a session that is open, overdue (it had its window), ended, or cut. It
says that only an overdue session is cut, and only when the server, having been
asked, stops; and that a stopped server leaves none open. The mapping
(`ServerPhase`, `Status`) takes a session as open from when its client half was
handed over.

### PolicyDecision, DockerApi and PolicyLoad

The tables of `security.rs`, `policy.rs` and `docker_api.rs` are there entry by
entry. A path or pattern is the sequence of what stands behind each of its
slashes, so that a trailing slash, which makes a prefix pattern, is an empty last
segment. Paths are normalized; patterns are as the operator spelled them, with a
doubled slash (an empty segment further in) or without the first one (a segment
`Rootless`, which no path has, in front). The matcher compares a pattern as it is
spelled, and without its empty segments only if there is a `*` in it
(`HasWildcard`; `Starred` has the wildcard, and one name for all segments that
merely contain the sign); the lint always compares without them (`Counts`,
`Place`). Rule lists are sets, since they are searched for any match. The loader
reads (`ReadSources` or `Fail`), applies the document, then the environment; each
source adds a rule of its own for each section, and what the lint finds in it is
kept in `warned` (`Report`), one entry for each origin and section. What a file
parses to, and whether it can be read and parsed, is an input.

### RequestPath and Exchange

A raw path is a sequence of pieces: a separator, a dot, a digit, a `v`, a run of
other letters, or an escape. `DecodePiece` and `ResolvePiece` are one turn of the
loops of `percent_decode` and `remove_dot_segments`, with errors in the order in
which the code meets them; `StripVersion` ends the second. `Reading` is the
reference: the segments of the separators the path is *written* with, each
decoded by itself, of which a name stands (`Standing`) unless at some point there
are more ways up than names behind it, by counting and without a stack.
`DecidedAsRead` says that the two agree.

`Exchange` has an action for each thing a request goes through: `Normalize` (one
turn of the loops), `RejectPath`, `Decide` (`check_head`), `Inspect`
(`check_body`), `Send`, `FailUpstream`, `Receive`, `Relay`. It is sequential, and
its inputs are what matters: any filter, request and reply. The filter is the
variable of `PolicyDecision`; who sets it is `Proxy`'s business.
`Send` forwards the path as it came (`proxy.rs:187`), so `ForwardedIsAllowed` is
stated of `Reading`, not of the path that was decided on. Streaming, deadlines
and counting are `RequestPipeline`'s, whose parameters `HeadRule` and `SafeBody`
are what `Exchange` computes.

### Proxy

`Load` is a step of the loader, while no message moves; `Serve` is a step of an
exchange, once the loader is done (`serve` binds the listener after
`PolicyLoader::load`); without a filter nothing is served (`Exited`). Its
properties relate the two ends that no module in between sees together: the
operator's sources (`Base`, `Written`) and what the daemon is asked, as it reads
the raw path that is sent (`Endpoint`).

### Server

Every step is a step of both `RequestPipeline` and `ServerLifecycle`, or a step of
one that the other does not see. `on` gives the connection a request comes on, so
that a connection carries several, one after the other.

| Step | of the request | of the connection |
|---|---|---|
| `Main` | – | the main task, the signals |
| `Wait` | – | accepted, closed while idle; both halves of a session are there |
| `Read` | `Arrive` | `Receive` |
| `Work` | the layer and the handler go on | – |
| `AnswerIt` | any answer but a 101 | `Respond` |
| `Switch`, `Store` | `SwitchProtocols`, `Splice` | `Spawn`, `Push` |
| `Deadline` | `Expire` | `Expire` |
| `BreakOff` | an error while relaying | `Drop` |
| `EndResponse` | `Finish`, or none if it was the proxy's own answer | `FinishResponse` |
| `Leave` | `Disconnect`, if there is a request | `Drop` |
| `HandOver`, `EndSession` | `Finish`, if the session it has is over | `HandOver`; `ClientHalfFails`, `SessionEnds` |

`RequestPipeline` counts a request answered by the proxy itself as over when the
answer is decided; `ServerLifecycle` has its connection stream until it is
written. That is why `EndResponse` and `Leave` may find no request in flight.

### Details of messages

A create body is a record of what the inspection looks at: the kind of JSON, the
image, the fields at either level (absent, unset explicitly, or set), the names
of labels. A message's fields are a set of names, and `options` is what its
`Connection` field lists.

### Observability

`render` loads one counter after the other (`LoadAllowed`, `LoadDenied`), with
requests counted in between (`record_allowed`, `record_denied`, each up to the
bound `MaxCount`). The probe is another process: it connects (`Connect`,
`Refused`), reads to the end (`ReadAnswer`, `ReadBroken`) or gives up
(`ProbeTimeout`), against a handler that connects to the daemon's socket
(`Health`) or is overtaken by the router's deadline (`HealthExpires`), a socket
that turns either way (`SocketTurns`) and a proxy that stops (`ProxyStops`).
`reached` and `trouble` record history for the properties. An address is one of
five kinds: the two wildcards, the two loopbacks, or an interface's.

## 3. Runs

| Run | Instance | States | Shows |
|---|---|---|---|
| `pipeline_body` | 1 request, limit 3, frames of 1 and 2 bytes, lengths 0, 3, 4 or none, fairness | 1 293 | `TypeOK`, `Mediated`, `BodyBound`, `OverrunHandled`, `Implements`, `AnsweredOrGone`, `DecidedPromptly` |
| `server` | 2 requests on 1 or 2 connections, limit 1, length 2 or none, the handler of SIGTERM | 1 377 264 | `CountersAgree`, `AnswerJustified`, `NothingAfterTheAnswer`, `SessionsAuthorised`, `NoneForgotten`, `NothingWhileDraining` |
| `lifecycle` | 3 connections, no handler or that of SIGTERM, fairness, a daemon that answers | 156 642 | `TypeOK`, `SessionsTracked`, `SeveredOutstayed`, `DrainComplete`, `ShutdownWasAsked`, `StopTerminates`, `KeepsPromise` |
| `proxy` | 5 configurations, 6 515 paths, 144 bodies, all shapes of `Connection` | 652 027 | `TypeOK`, `NormalForm`, `DecidedAsRead`, `ForwardedIsAllowed`, `ConnectionsApart`, `SwitchedTogether`, `ServedAsConfigured`, `ReadOnlyReachesNoWrite`, `RefusedForAReason` |
| `policy_load` | 6 request methods, a path per pattern, every source against every other | 4 182 | `ReadOnlyNeverWrites`, `ProhibitionsDecisive`, `GrantsHaveASource`, `GrantsNotShadowed`, `FailsClosed`, `LintAgrees` |
| `observability` | 5 kinds of address, counters up to 2 | 66 400 | `ScrapeBetween`, `PassMeansReached`, `FailMeansTrouble` |

**Bounds.** A body of up to one byte beyond a limit of three, in frames of one
and two bytes, ends under, at and over the limit, and passes it both from below
and from the limit itself; a bad byte can come first, in the middle or last. For
the properties that count, two requests are needed and the body matters only as
within or over the limit, so one byte is enough; on one connection they follow
each other, on two they interleave. Liveness of a request needs only that request,
since what is fair in it waits for no other. Three connections give a list
of handles in which one session ends in its window, one does not, and one never
was. A connection spawns one copying task at most (`Spawn`), though one whose
101 was cut short could try again. Paths have up to three segments of
seventeen kinds and of four segments of six kinds that resolve, so that a name
is taken back at once, later, after a dot, twice, or at the root, before and
behind a version; a body differs from a plain one in one field at one level, or
in its labels. The policy run uses the real tables; a path
is tried for every pattern in them, with the identifier `abc` for `*`, rules
have both sides, either or neither, and misspelt rules go wrong in the length, a
name, the case of a method, the first slash or a doubled one. Counters up to 2 let each move before, between and
after the two loads of two scrapes.

The five configurations of `proxy` are a profile as it is, section variables with
an exclusion, read-only with writes allowed on top of it, and two that do not load.

**Symmetry** is used in `server`, of requests and of connections: no definition
tells one from another, and no liveness property is checked there.

**Fairness.** In `RequestPipeline` only what the runtime does on its own is
fair: a task that has arrived is polled (`Decide`) and the timer fires
(`Expire`). Clients need not send, and the daemon need not answer. In
`ServerLifecycle`, `Scheduling` is the same idea: the main task wakes for a
signal it hears, the drain timer fires, idle connections are closed, handles
stored, a 101 written, an upgrade of a session that was handed over completed. `Responsive` adds that the
daemon answers and that its responses end, which `lifecycle` assumes and
`lifecycle_stop_following` does without. `Proxy`, `PolicyLoad`, `Server` and
`Observability` have no fairness and no liveness property.

### Where documents and code part

Six runs expect a violation; each checks one sentence of a document or comment.

- `pipeline_overrun_413`. `README.md:51`: a body over the limit is answered with
  413. Not when it is streamed and the daemon has begun to answer: the status is
  out, and the exchange is broken off.
- `pipeline_limit_trail`. `middleware.rs:106`: a body-limit rejection leaves the
  same structured trail as a denial. When a streamed body passes the limit the
  413 is the handler's (`proxy.rs:229`), which neither counts nor logs it.
- `lifecycle_stop_following`. `proxy.rs:344`: the drain is bounded so that
  `docker stop` still terminates. It is not begun before axum's graceful
  shutdown is over, and that waits for a followed log for as long as it lasts.
- `policy_all_off`. `README.md:185`: section variables grant a section each, and
  `EVENTS`, `PING`, `VERSION` are granted unless set to 0. With all three at 0
  and nothing else on, the one rule has no endpoints, and an empty side is a
  wildcard: everything can be read. (With `POST=1` the rule has no methods either,
  is inert, and grants nothing.)
- `policy_named_default`. `README.md:189`: section variables alongside
  `--profile` are refused. `--profile default` is not, since the loader cannot
  tell it from no `--profile`.
- `policy_dead_rule`. `README.md:156` and `docker_api.rs:131`: a pattern that
  matches no real endpoint is logged. `/info/` is not, since the lint compares it
  with `/info` and a slash (`docker_api.rs:139`); nothing of the API lies under
  that path, and the matcher does not let the prefix match the path itself
  (`security.rs:541`), so that an exclusion of it never takes effect. Nor are `info`
  or `/containers//json`: the lint drops empty segments (`docker_api.rs:141`) where
  the matcher, without a `*`, compares whole strings (`security.rs:537`).
  `LintAgrees` says where the two do agree.

Three smaller differences were met and have no run of their own. `proxy.rs:310`
speaks of a daemon that switches "without a client offer"; the code asks only
whether hyper holds a client half, which it does for an `Upgrade` field alone,
although that is no offer (`proxy.rs:285`). So `SwitchedTogether` says of the
daemon that it is *offered* an upgrade exactly if the client offered one, and of
the client that it is *told* 101 exactly if the daemon switched and there is a
half to splice. `STATUS.md:47` says that a declared length over the limit is
refused before any bytes are read; the body of a container create is collected up
to the limit whatever it declares (`middleware.rs:131`, `BeginCollect`). And a
prefix pattern with a concrete name, `/containers/abc/`, is reported though it
matches (`docker_api.rs:139` does not take the table's `*` for it), which is why
`LintAgrees` leaves prefixes out.

## 4. Proofs

All theorems hold for arbitrary values of the constants under the assumptions
named in the modules; `tlapm` checks every leaf.

**RequestPipelineProofs.** Assumptions: the set of requests is finite
(`RequestFinite`, for the counters), and the parameters have the types that give
them their meaning (`HeadRuleType`, `FrameType`, `SafeBodyType`, `LengthType`,
`LimitType`, `TimeoutType`); frames are not empty. No property but `TypeOK` is
inductive as stated: `Mediated`, for instance, needs to know in which stages a
request has been admitted and what its collected body was when it was. `IInv`
adds to the types, for each request, `Staged` (what each stage implies of
admission, contact and answer), `Vetted` (an admitted create's body was complete
and safe, and has not changed since) and `Bytes` (what was collected and sent,
against limit and contact). Two more invariants are inductive on top of it:
`AllAnswered` (what each answer, log entry and overrun says of the rest) and
`Counted` (the counters are cardinalities, by the finite-set theorems).
`TypeOK`, `Mediated`, `BodyBound`, `AnswerJustified`, `OverrunHandled` and
`CountersAgree` follow from it; `NothingAfterTheAnswer` and `Implements` are
proved action by action under it, `Implements` by showing which step of the
monitor, if any, each action is.

**ServerLifecycleProofs.** Assumptions: `TimeoutType`, `InstallableType`. `IInv`
adds to the types and to `ShutdownWasAsked` two invariants: `Lists` (which
handles can be in `tasks` and `queue`, in which phase, and no handle twice) and
`Kept(c)` (how a connection's state, its session and the lists go together). From
it follow `SessionsTracked`, `SeveredOutstayed` and `DrainComplete` for any
number of connections. `Implementation` proves `KeepsPromise`, action by action:
that `Stop` finds no session open needs `Kept` of every connection, and that a
connection's step is one of the promise or none needs it of that one.

**PolicyLoadProofs.** All six properties of its run, for any rules and
configurations an operator could write: the invariant describes the filter at
each stage as the base, then the document's rules, then the modifiers', and
`warned` as what the lint finds in those applied so far. `GrantsHold` rests on
`BaseConsistent` (what a profile or the section variables grant, the same do not
deny), which is proved from the tables, for any path. `LintAlwaysAgrees` rests on
`EffectIsKnown` and `KnownTakesEffect`: a pattern that `Matches` an instance of a
path `Covers` that path, however it is spelled, and one that `Covers` it has an
instance that it `Matches`, if it is spelled as Docker's paths are or has a `*`.
What relates the places of a spelled-out pattern to those of a filtered one is
`Places`, a count of segments.

**RequestPathProofs, ExchangeProofs and ProxyProofs.** The first two are lemmas
about the loops and about one step of an exchange, under any filter; the theorems
are `ProxyProofs`'. Assumptions: `PieceAssumption` (the
pieces that escapes decode to are pieces) and `MessageAssumption` (a path begins
with a separator; what lists options has a `Connection` field). `PathInv`
describes the loops: the text decoded so far agrees with the raw path on every
separator, the segments that stand are proper ones; from it follow
`BoundariesKept` and `NormalForm` for paths of any length. `ReadInv` relates them
to the reading: the stack holds, in order, the names that still stand after the
separators seen so far, each with as many more names than ways up behind it as
there are above it on the stack (`Holds`). So `..` takes back the one name whose
excess is nought (`StackStep`), and at the end of the path the stack is the
reading (`StackRead`); that gives `DecidedAsRead` for paths of any length.
`RelayInv` says what was decided of whatever has been sent, and gives
`ConnectionsApart`, `SwitchedTogether` and, with `DecidedAsRead`,
`ForwardedIsAllowed`, for any policy, request and reply. `RefusalInv` says the
same of what was refused: what path or body the refusal rests on.

`ProxyProofs` joins them to the loader. A step of the proxy is one of the loader
that moves no message, or one of an exchange that does not touch the loader
(`StepOfEither`); so `LoadsItsPolicy` shows that it behaves as `PolicyLoad`, whose
invariant it inherits, and until the policy is ready the exchange is where it
began (`WaitsForPolicy`), so that its invariants survive the loading. The rest is
about the filter that results: what it grants was granted by one source
(`PolicyLoadProofs`), its denial comes from the profile or from the operator
(`DeniedForASource`), and read-only's own denial is in it whatever came later
(`ReadOnlyLoaded`). With `DecidedAsRead` that speaks of the raw path:
`ServedAsConfigured`, `ReadOnlyReachesNoWrite` and `RefusedForAReason`, for every
configuration, request and reply.

**ServerProofs.** `ServesRequests` and `LivesAsServer` show that `Server` implements
`RequestPipeline` and `ServerLifecycle`, so that what was proved of either holds of
both together: `ServerCountersAgree`, `ServerAnswersJustified`,
`ServerAnswersFinal`, `ServerMediates`, `ServerSeversOutstayed`. What relates the
two rests on an invariant of the composition: `Linked` says what the connection of
a request does at each stage of it (handled by the layer or the handler: `handling`;
at the lock: `locking`; being relayed: `streaming`; spliced: `switching`, or handed
over to a session that has not ended), and `OneAtATime` that a connection is busy
with one request. Neither is inductive without the other: a step of a connection
ends *its* request only because there is no second one. Each is kept by a step of
a request (`RequestLinks`) because that leaves other requests and connections alone
(`RequestLocal`), and by a step of a connection (`ConnectionLinks`) because
whatever was in flight on it is then over, or still has the session
(`ConnectionLocal`). `NoneForgotten` and `NothingWhileDraining` follow with
`ServerLifecycle`'s own invariant, that connections are closed once the drain
begins and that handed-over sessions are listed; `SessionsAuthorised` with
`RequestPipeline`'s, since only `Switch` makes a session (`NewSession`).
Assumptions: those of both modules.

**ObservabilityProofs.** Assumption: `ObservabilityAssumption`. `ScrapeInv` bounds
what was loaded and shown by the counters when the scrape began and now;
`ProbeInv` says what each place of the probe and each answer of `/healthz`
implies of `reached` and `trouble`; that a refused probe means trouble rests on
`TargetAccepted`, that the proxy accepts where a probe of its address connects.

**Only model-checked.** Liveness (`AnsweredOrGone`, `DecidedPromptly`,
`StopTerminates`), which is out of the prover's reach. Every other property of a passing run is a theorem. Three theorems state what
no run checks by itself: `BoundariesAlwaysKept` is the decoding's share of
`DecidedAsRead`, `ExpositionsGrow` a consequence of `ScrapeBetween`, and `ServerSeversOutstayed`
is `lifecycle`'s `SeveredOutstayed`, carried over to `Server`.

## 5. Not modelled, and the plan

The modules that were planned are written. What could be added, in this order:

1. `Proxy` and `Server` joined: the parameters `HeadRule` and `SafeBody` of
   `RequestPipeline` are what `Exchange` computes under the loaded filter, and a
   theorem could say so (an instance of `RequestPipeline` with the verdicts of
   `Exchange`), as could one that the counters of `Observability` are those of
   `RequestPipeline`.
2. Segments of several pieces in policies (`Spelled` folds them into one name
   that no pattern has), and bodies with more than one field that matters.

Left out:

- **Parsing**: TOML, YAML, JSON and the command line (`config.rs`), down to their
  results. A JSON object whose keys repeat, or differ only in case, is one that
  has one of them: which one wins is the parser's choice.
- **Routing**: `/metrics` and `/healthz` are served by the router ahead of the
  filter (`proxy.rs:104-108`), so that they never enter `RequestPipeline` or `Exchange`.
- **Time**: the models have timers that may fire and no clock. So `StopTerminates`
  says that the drain ends, not that windows given one after the other add up
  (`proxy.rs:354`).
- **Errors that cannot come**: the internal ones of building a request or response
  (`proxy.rs:219`, `262`, `339`), since what is built comes from parts that hyper has
  parsed already; and that of `axum::serve` (`proxy.rs:153`), whose future, with a
  graceful shutdown, only ever returns `Ok`.
- **hyper's upgrades**: taken as given that a client half exists exactly if the
  request has an `Upgrade` field, and is handed over only once a 101 was written.
- **Growth**: the list of handles is only taken at shutdown (`proxy.rs:337`), so
  that those of sessions long over stay in it. The model has this; no property
  forbids it, since no document does.
- **Logging**, and the wording of answers, expositions and warnings.
- The fuzz targets, tests, examples and packaging, which have no behaviour of the
  program's own.
