--------------------------- MODULE RequestPipeline ---------------------------
(***************************************************************************)
(* The life of a proxied request: the enforcement layer (middleware.rs)    *)
(* decides on it, the handler (proxy.rs) forwards it to the Docker daemon  *)
(* and relays the answer, and the timeout layer around both may give up.   *)
(*                                                                         *)
(* An action is what one task does between two awaits, so that the steps   *)
(* of several requests, of their clients, of the daemon and of the timer   *)
(* interleave as the runtime lets them.  What a policy says of a request   *)
(* head is the parameter HeadRule, and the create bodies that inspection   *)
(* accepts are the parameter SafeBody.                                     *)
(***************************************************************************)
EXTENDS Naturals, Sequences, FiniteSets

CONSTANTS
    Request,        \* the requests of a behaviour
    Heads,          \* request heads: a method and a path
    HeadRule,       \* what check_head says of each head
    Byte,           \* what bodies are made of
    Frame,          \* the pieces in which a body can come in
    SafeBody,       \* the bodies check_body accepts for a container create
    Length,         \* the values Content-Length can declare
    NoLength,       \* the head declares no length: a chunked body, or none
    MaxBodyBytes,   \* --max-body-bytes
    TimeoutEnabled  \* --timeout-secs is not 0

HeadErrors == {"Forbidden", "BadRequest"}

ASSUME RequestFinite == IsFiniteSet(Request)
ASSUME HeadRuleType ==
    HeadRule \in [Heads -> {"None", "ContainerCreate"} \cup HeadErrors]
ASSUME FrameType    == Frame \subseteq Seq(Byte) \ {<<>>}
ASSUME SafeBodyType == SafeBody \subseteq Seq(Byte)
ASSUME LengthType   == Length \subseteq Nat /\ NoLength \notin Length
ASSUME LimitType    == MaxBodyBytes \in Nat
ASSUME TimeoutType  == TimeoutEnabled \in BOOLEAN

VARIABLES
    stage,      \* how far the request's task has come
    asked,      \* its head, declared length, and whether it has an Upgrade field
    collected,  \* the body bytes the layer has buffered for inspection
    upstream,   \* the body bytes sent to the daemon
    contacted,  \* the requests whose head was sent to the daemon
    admitted,   \* the requests the layer passed to the inner service
    overrun,    \* the requests whose body was cut off by the limit
    answer,     \* the status the client was answered with
    allowed,    \* the counter of allowed requests
    denied,     \* the counter of denied requests
    audited     \* the refusals in the structured log, by request

vars == <<stage, asked, collected, upstream, contacted, admitted, overrun,
          answer, allowed, denied, audited>>

Stages == {"absent", "arrived", "collecting", "connecting", "forwarding",
           "switching", "relaying", "spliced", "closed"}

\* The variants of ProxyError that a request can meet.
Errors == HeadErrors \cup {"TooLarge", "Internal", "Docker"}

\* What a client can be answered with: an error of ours, the deadline's 504, the
\* daemon's own response, or the daemon's 101.
Answers == Errors \cup {"none", "Timeout", "Upstream", "Switching"}

Asked == [head: Heads, length: Length \cup {NoLength}, upgrade: BOOLEAN]

Rule(r) == HeadRule[asked[r].head]

Init ==
    /\ stage = [r \in Request |-> "absent"]
    /\ asked \in [Request -> Asked]
    /\ collected = [r \in Request |-> <<>>]
    /\ upstream = [r \in Request |-> <<>>]
    /\ contacted = {}
    /\ admitted = {}
    /\ overrun = {}
    /\ answer = [r \in Request |-> "none"]
    /\ allowed = 0
    /\ denied = 0
    /\ audited = [r \in Request |-> "none"]

-----------------------------------------------------------------------------
(***************************************************************************)
(* What the actions are built from.                                        *)
(***************************************************************************)

\* Mutant: the declaration is compared against one byte too many.
OversizedByTwo(length) == length # NoLength /\ length > MaxBodyBytes + 1

\* oversized_declaration: only a declared length can be refused unread.
Oversized(length) == length # NoLength /\ length > MaxBodyBytes

\* http_body_util::Limited: a frame passes when it fits in what is left.
Fits(body, f) == Len(body) + Len(f) <= MaxBodyBytes

\* hyper's decoder never yields more bytes than the head declared ...
Supplies(r, body, f) ==
    asked[r].length # NoLength => Len(body) + Len(f) <= asked[r].length

\* ... and ends a body of declared length only when it is complete.
Complete(r, body) == asked[r].length # NoLength => Len(body) = asked[r].length

\* The client is answered and the request's task has nothing left to do.
Close(r, a) ==
    /\ stage' = [stage EXCEPT ![r] = "closed"]
    /\ answer' = [answer EXCEPT ![r] = a]

\* Mutant: only policy denials are counted, body rejections are not.
RejectUncounted(r, e) ==
    /\ Close(r, e)
    /\ denied' = IF e \in HeadErrors THEN denied + 1 ELSE denied
    /\ audited' = [audited EXCEPT ![r] = e]
    /\ UNCHANGED <<admitted, allowed>>

\* The layer's two closures, audit and reject: count, log, answer.
Reject(r, e) ==
    /\ Close(r, e)
    /\ denied' = denied + 1
    /\ audited' = [audited EXCEPT ![r] = e]
    /\ UNCHANGED <<admitted, allowed>>

\* The request goes on to the inner service.
Admit(r) ==
    /\ stage' = [stage EXCEPT ![r] = "connecting"]
    /\ admitted' = admitted \cup {r}
    /\ allowed' = allowed + 1
    /\ UNCHANGED <<answer, denied, audited>>

\* Mutant: after inspection the client's body is streamed on all the same.
StreamsAlways(r) == r \in Request

\* The bytes of an admitted request that its client still has to send are not
\* buffered, unless its rule made the layer collect them.
Streams(r) == Rule(r) = "None"

-----------------------------------------------------------------------------
(***************************************************************************)
(* The enforcement layer.                                                  *)
(***************************************************************************)

\* The client's head is read and routed to the proxied fallback.
Arrive(r) ==
    /\ stage[r] = "absent"
    /\ stage' = [stage EXCEPT ![r] = "arrived"]
    /\ UNCHANGED <<asked, collected, upstream, contacted, admitted, overrun,
                   answer, allowed, denied, audited>>

\* Mutant: what check_head says is answered before it is looked at.
DenyHeadAlways(r) ==
    /\ stage[r] = "arrived"
    /\ Reject(r, Rule(r))
    /\ UNCHANGED <<asked, collected, upstream, contacted, overrun>>

DenyHead(r) ==
    /\ stage[r] = "arrived"
    /\ Rule(r) \in HeadErrors
    /\ Reject(r, Rule(r))
    /\ UNCHANGED <<asked, collected, upstream, contacted, overrun>>

DenyDeclared(r) ==
    /\ stage[r] = "arrived"
    /\ Rule(r) = "None"
    /\ Oversized(asked[r].length)
    /\ Reject(r, "TooLarge")
    /\ UNCHANGED <<asked, collected, upstream, contacted, overrun>>

AdmitHead(r) ==
    /\ stage[r] = "arrived"
    /\ Rule(r) = "None"
    /\ ~Oversized(asked[r].length)
    /\ Admit(r)
    /\ UNCHANGED <<asked, collected, upstream, contacted, overrun>>

\* Mutant: every body is collected before the request goes on.
BeginCollectAll(r) ==
    /\ stage[r] = "arrived"
    /\ Rule(r) \notin HeadErrors
    /\ stage' = [stage EXCEPT ![r] = "collecting"]
    /\ UNCHANGED <<asked, collected, upstream, contacted, admitted, overrun,
                   answer, allowed, denied, audited>>

\* A body the decision rests on is awaited, whatever length it declares.
BeginCollect(r) ==
    /\ stage[r] = "arrived"
    /\ Rule(r) = "ContainerCreate"
    /\ stage' = [stage EXCEPT ![r] = "collecting"]
    /\ UNCHANGED <<asked, collected, upstream, contacted, admitted, overrun,
                   answer, allowed, denied, audited>>

\* Mutant: the body to be inspected is collected without Limited around it.
CollectUnlimited(r, f) ==
    /\ stage[r] = "collecting"
    /\ Supplies(r, collected[r], f)
    /\ collected' = [collected EXCEPT ![r] = @ \o f]
    /\ UNCHANGED <<stage, asked, upstream, contacted, admitted, overrun,
                   answer, allowed, denied, audited>>

CollectFrame(r, f) ==
    /\ stage[r] = "collecting"
    /\ Supplies(r, collected[r], f)
    /\ Fits(collected[r], f)
    /\ collected' = [collected EXCEPT ![r] = @ \o f]
    /\ UNCHANGED <<stage, asked, upstream, contacted, admitted, overrun,
                   answer, allowed, denied, audited>>

CollectOverrun(r, f) ==
    /\ stage[r] = "collecting"
    /\ Supplies(r, collected[r], f)
    /\ ~Fits(collected[r], f)
    /\ overrun' = overrun \cup {r}
    /\ Reject(r, "TooLarge")
    /\ UNCHANGED <<asked, collected, upstream, contacted>>

\* The body cannot be read to its end: body_error answers 500.
CollectError(r) ==
    /\ stage[r] = "collecting"
    /\ Reject(r, "Internal")
    /\ UNCHANGED <<asked, collected, upstream, contacted, overrun>>

\* Mutant: the decision is taken on what has come in so far.
AdmitBodyEarly(r) ==
    /\ stage[r] = "collecting"
    /\ collected[r] \in SafeBody
    /\ Admit(r)
    /\ UNCHANGED <<asked, collected, upstream, contacted, overrun>>

\* The end of the body: check_body decides on what was collected.
AdmitBody(r) ==
    /\ stage[r] = "collecting"
    /\ Complete(r, collected[r])
    /\ collected[r] \in SafeBody
    /\ Admit(r)
    /\ UNCHANGED <<asked, collected, upstream, contacted, overrun>>

DenyBody(r) ==
    /\ stage[r] = "collecting"
    /\ Complete(r, collected[r])
    /\ collected[r] \notin SafeBody
    /\ Reject(r, "Forbidden")
    /\ UNCHANGED <<asked, collected, upstream, contacted, overrun>>

-----------------------------------------------------------------------------
(***************************************************************************)
(* The handler.                                                            *)
(***************************************************************************)

\* A new connection for every request (no idle pool), then the head.
Connect(r) ==
    /\ stage[r] = "connecting"
    /\ stage' = [stage EXCEPT ![r] = "forwarding"]
    /\ contacted' = contacted \cup {r}
    /\ UNCHANGED <<asked, collected, upstream, admitted, overrun,
                   answer, allowed, denied, audited>>

ConnectFail(r) ==
    /\ stage[r] = "connecting"
    /\ Close(r, "Docker")
    /\ UNCHANGED <<asked, collected, upstream, contacted, admitted, overrun,
                   allowed, denied, audited>>

\* Mutant: the body is still read when the connection has been handed over.
SendingAfterSwitch(r) == stage[r] \in {"forwarding", "relaying", "spliced"}

\* The request body flows until the response has ended, so also while the
\* response is being relayed.
Sending(r) == stage[r] \in {"forwarding", "relaying"}

\* An inspected body goes out as the single frame it was collected into.
SendBuffered(r) ==
    /\ Sending(r)
    /\ ~Streams(r)
    /\ upstream[r] = <<>>
    /\ collected[r] # <<>>
    /\ upstream' = [upstream EXCEPT ![r] = collected[r]]
    /\ UNCHANGED <<stage, asked, collected, contacted, admitted, overrun,
                   answer, allowed, denied, audited>>

StreamFrame(r, f) ==
    /\ Sending(r)
    /\ Streams(r)
    /\ Supplies(r, upstream[r], f)
    /\ Fits(upstream[r], f)
    /\ upstream' = [upstream EXCEPT ![r] = @ \o f]
    /\ UNCHANGED <<stage, asked, collected, contacted, admitted, overrun,
                   answer, allowed, denied, audited>>

\* The streamed body passes the limit: the send fails, with a 413 when the
\* response has not begun, and otherwise by breaking the relayed response off.
StreamOverrun(r, f) ==
    /\ Sending(r)
    /\ Streams(r)
    /\ Supplies(r, upstream[r], f)
    /\ ~Fits(upstream[r], f)
    /\ overrun' = overrun \cup {r}
    /\ Close(r, IF stage[r] = "forwarding" THEN "TooLarge" ELSE answer[r])
    /\ UNCHANGED <<asked, collected, upstream, contacted, admitted,
                   allowed, denied, audited>>

\* The exchange with the daemon fails: the client's body cannot be read, or the
\* daemon hangs up.
ForwardFail(r) ==
    /\ Sending(r)
    /\ Close(r, IF stage[r] = "forwarding" THEN "Docker" ELSE answer[r])
    /\ UNCHANGED <<asked, collected, upstream, contacted, admitted, overrun,
                   allowed, denied, audited>>

\* The daemon's response head is relayed; its body follows frame by frame.
Respond(r) ==
    /\ stage[r] = "forwarding"
    /\ stage' = [stage EXCEPT ![r] = "relaying"]
    /\ answer' = [answer EXCEPT ![r] = "Upstream"]
    /\ UNCHANGED <<asked, collected, upstream, contacted, admitted, overrun,
                   allowed, denied, audited>>

\* Mutant: the daemon's 101 is accepted on behalf of any client.
SwitchUnasked(r) ==
    /\ stage[r] = "forwarding"
    /\ stage' = [stage EXCEPT ![r] = "switching"]
    /\ UNCHANGED <<asked, collected, upstream, contacted, admitted, overrun,
                   answer, allowed, denied, audited>>

\* The daemon answers 101: the copying task is spawned and the handler waits
\* for the lock on upgrade_tasks.
SwitchProtocols(r) ==
    /\ stage[r] = "forwarding"
    /\ asked[r].upgrade
    /\ stage' = [stage EXCEPT ![r] = "switching"]
    /\ UNCHANGED <<asked, collected, upstream, contacted, admitted, overrun,
                   answer, allowed, denied, audited>>

\* The daemon answers 101 to a client of which hyper holds no half to splice.
RefuseSwitch(r) ==
    /\ stage[r] = "forwarding"
    /\ ~asked[r].upgrade
    /\ Close(r, "Docker")
    /\ UNCHANGED <<asked, collected, upstream, contacted, admitted, overrun,
                   allowed, denied, audited>>

\* The handle is pushed and the 101 written.
Splice(r) ==
    /\ stage[r] = "switching"
    /\ stage' = [stage EXCEPT ![r] = "spliced"]
    /\ answer' = [answer EXCEPT ![r] = "Switching"]
    /\ UNCHANGED <<asked, collected, upstream, contacted, admitted, overrun,
                   allowed, denied, audited>>

\* The response, or the spliced connection, has come to its end.
Finish(r) ==
    /\ stage[r] \in {"relaying", "spliced"}
    /\ Close(r, answer[r])
    /\ UNCHANGED <<asked, collected, upstream, contacted, admitted, overrun,
                   allowed, denied, audited>>

-----------------------------------------------------------------------------
(***************************************************************************)
(* The timeout layer and the client.  Both drop the request's future       *)
(* wherever it is suspended, which also closes the daemon's connection.    *)
(***************************************************************************)

\* Mutant: the deadline is layered under the filter, around the handler alone.
PendingInner(r) == stage[r] \in {"connecting", "forwarding", "switching"}

\* The handler has not produced a response yet.
Pending(r) == stage[r] \in {"collecting", "connecting", "forwarding", "switching"}

\* TimeoutLayer polls the inner future first, so that the deadline is seen
\* only at an await, and it bounds the response head, not the body.
Expire(r) ==
    /\ TimeoutEnabled
    /\ Pending(r)
    /\ Close(r, "Timeout")
    /\ UNCHANGED <<asked, collected, upstream, contacted, admitted, overrun,
                   allowed, denied, audited>>

Disconnect(r) ==
    /\ stage[r] \notin {"absent", "closed"}
    /\ Close(r, answer[r])
    /\ UNCHANGED <<asked, collected, upstream, contacted, admitted, overrun,
                   allowed, denied, audited>>

-----------------------------------------------------------------------------
Layer(r) ==
    \/ DenyHead(r) \/ DenyDeclared(r) \/ AdmitHead(r) \/ BeginCollect(r)
    \/ CollectError(r) \/ AdmitBody(r) \/ DenyBody(r)
    \/ \E f \in Frame: CollectFrame(r, f) \/ CollectOverrun(r, f)

Handler(r) ==
    \/ Connect(r) \/ ConnectFail(r) \/ SendBuffered(r) \/ ForwardFail(r)
    \/ Respond(r) \/ SwitchProtocols(r) \/ RefuseSwitch(r) \/ Splice(r) \/ Finish(r)
    \/ \E f \in Frame: StreamFrame(r, f) \/ StreamOverrun(r, f)

Done == /\ \A r \in Request: stage[r] = "closed"
        /\ UNCHANGED vars

Next ==
    \/ \E r \in Request:
          Arrive(r) \/ Layer(r) \/ Handler(r) \/ Expire(r) \/ Disconnect(r)
    \/ Done

Spec == Init /\ [][Next]_vars

\* The runtime polls a task that has arrived, and the timer fires.  Nothing is
\* promised of clients (who send bodies) and of the daemon (who answers).
Decide(r) == DenyHead(r) \/ DenyDeclared(r) \/ AdmitHead(r) \/ BeginCollect(r)

Fairness ==
    \A r \in Request:
       /\ WF_vars(Decide(r))
       /\ WF_vars(Expire(r))

FairSpec == Spec /\ Fairness

-----------------------------------------------------------------------------
(***************************************************************************)
(* Properties.                                                             *)
(***************************************************************************)

\* The variables have their types.
TypeOK ==
    /\ stage \in [Request -> Stages]
    /\ asked \in [Request -> Asked]
    /\ collected \in [Request -> Seq(Byte)]
    /\ upstream \in [Request -> Seq(Byte)]
    /\ contacted \subseteq Request
    /\ admitted \subseteq Request
    /\ overrun \subseteq Request
    /\ answer \in [Request -> Answers]
    /\ allowed \in Nat
    /\ denied \in Nat
    /\ audited \in [Request -> Errors \cup {"none"}]

\* The layer's first invariant (middleware.rs, Contract): the daemon hears only
\* of requests the layer let through, on the strength of what it saw.  A
\* container create reaches it with the very body that inspection accepted, or
\* with a cut-off of nothing at all.
Mediated ==
    \A r \in Request:
       /\ r \in contacted => r \in admitted
       /\ r \in admitted => Rule(r) \notin HeadErrors
       /\ upstream[r] # <<>> => r \in contacted
       /\ r \in contacted /\ Rule(r) = "ContainerCreate" =>
             /\ collected[r] \in SafeBody
             /\ Complete(r, collected[r])
             /\ upstream[r] \in {<<>>, collected[r]}

\* The layer's second invariant: no more than max_body_bytes pass, buffered or
\* streamed, and only the bodies a decision rests on are buffered at all.
BodyBound ==
    \A r \in Request:
       /\ Len(collected[r]) <= MaxBodyBytes
       /\ Len(upstream[r]) <= MaxBodyBytes
       /\ Streams(r) => collected[r] = <<>>

\* The requests that the layer itself answered.
Refused == {r \in Request: audited[r] # "none"}

\* What an operator reads off /metrics and the log agrees with what happened:
\* the counters are the numbers of requests let through and of requests
\* answered by the layer, the log names each of the latter with the error its
\* client saw, and no other answer is given to a request not let through,
\* except when the deadline passes first.
CountersAgree ==
    /\ allowed = Cardinality(admitted)
    /\ denied = Cardinality(Refused)
    /\ Refused \cap admitted = {}
    /\ \A r \in Request:
          /\ r \in Refused => answer[r] = audited[r]
          /\ r \notin admitted \cup Refused => answer[r] \in {"none", "Timeout"}

\* A client can trust the status it gets: 400, 403 and 500 mean that the daemon
\* heard nothing of the request, 502 and the daemon's own answers that the
\* policy had allowed it, a relayed answer or a 101 that the daemon was reached,
\* 413 that the body was over the limit, and 504 that there is a deadline.
AnswerJustified ==
    \A r \in Request:
       /\ answer[r] \in {"Forbidden", "BadRequest", "Internal"} => r \notin contacted
       /\ answer[r] = "Docker" => r \in admitted
       /\ answer[r] \in {"Upstream", "Switching"} => r \in contacted
       /\ answer[r] = "Switching" => asked[r].upgrade
       /\ answer[r] = "TooLarge" => r \in overrun \/ Oversized(asked[r].length)
       /\ answer[r] = "Timeout" => TimeoutEnabled

\* A body that went over the limit is never treated as complete: its request is
\* over, with a 413 unless the daemon's own answer had already been relayed, and
\* an honest Content-Length is never cut off on the way to the daemon.
OverrunHandled ==
    \A r \in overrun:
       /\ stage[r] = "closed"
       /\ answer[r] \in {"TooLarge", "Upstream"}
       /\ r \in contacted => asked[r].length = NoLength

\* An answer is final, and a request that was answered by the proxy or dropped
\* by its client moves nothing to the daemon any more.
NothingAfterTheAnswer ==
    [][\A r \in Request:
          /\ answer[r] # "none" => answer'[r] = answer[r]
          /\ stage[r] \in {"closed", "spliced"} =>
                /\ upstream'[r] = upstream[r]
                /\ r \in contacted' => r \in contacted
                /\ r \in admitted' => r \in admitted]_vars

\* With a deadline, no request stays unanswered, whatever its client and the
\* daemon fail to send.
AnsweredOrGone ==
    \A r \in Request:
       stage[r] = "arrived" ~> answer[r] # "none" \/ stage[r] = "closed"

\* A decision that needs no body is taken without the help of the client or the
\* daemon, and the deadline never gets in before it: it is let through or refused
\* by the layer, unless its client goes without an answer.
DecidedPromptly ==
    \A r \in Request:
       stage[r] = "arrived" /\ Rule(r) # "ContainerCreate"
          ~> \/ r \in admitted \/ audited[r] # "none"
             \/ stage[r] = "closed" /\ answer[r] = "none"

\* What the reference monitor sees of the pipeline.
Demand ==
    [r \in Request |-> CASE Rule(r) = "None"            -> "nothing"
                         [] Rule(r) = "ContainerCreate" -> "inspection"
                         [] Rule(r) \in HeadErrors      -> "refusal"]
Verdict ==
    [r \in Request |-> IF r \in admitted THEN "granted"
                       ELSE IF stage[r] = "closed" THEN "refused" ELSE "pending"]
VettedBody == [r \in Request |-> IF r \in admitted THEN collected[r] ELSE <<>>]

Monitor == INSTANCE Mediation WITH
    Acceptable <- SafeBody, Limit <- MaxBodyBytes,
    demand <- Demand, verdict <- Verdict, vetted <- VettedBody,
    reached <- contacted, delivered <- upstream

\* Every step of the pipeline is a step of the reference monitor, or no step.
Implements == Monitor!Spec

(***************************************************************************)
(* What the documents say of the same behaviour, and the code does not do. *)
(***************************************************************************)

\* README.md: "A request body over --max-body-bytes is answered with 413".
OverrunIs413 == \A r \in overrun: answer[r] = "TooLarge"

\* middleware.rs, on reject: "A body-limit rejection is not a policy denial, but
\* it is forensically meaningful and leaves the same structured trail."
LimitLeavesTrail == \A r \in Request: answer[r] = "TooLarge" => audited[r] = "TooLarge"
=============================================================================
