------------------------------ MODULE Exchange ------------------------------
(***************************************************************************)
(* One request from its head to its answer: the path is normalized, the    *)
(* policy decides on it, a container-create body is inspected, and what is *)
(* permitted is relayed, with the path as it came.  It composes            *)
(* RequestPath, PolicyDecision, CreateInspection and HeaderRelay; how the  *)
(* body streams, and what is counted and answered when, is                 *)
(* RequestPipeline's, and where the policy comes from is Proxy's.          *)
(***************************************************************************)
EXTENDS RequestPath, PolicyDecision, CreateInspection, HeaderRelay

CONSTANTS
    Requests,    \* what a client may ask
    Replies,     \* what the daemon may answer
    Nothing      \* no message yet

ASSUME MessageAssumption ==
    /\ \A r \in Requests:
          /\ r.path \in Seq(Piece) /\ r.path # <<>> /\ r.path[1] = "/"
          /\ r.options # {} => "connection" \in r.fields
    /\ \A r \in Replies: r.options # {} => "connection" \in r.fields
    /\ Nothing \notin Replies

VARIABLES
    request,     \* the request
    phase,       \* where the request is
    sent,        \* what was sent upstream
    reply,       \* what the daemon answered
    answer       \* what the client was answered

messageVars  == <<request, phase, sent, reply, answer>>
exchangeVars == <<pathVars, messageVars, filter>>

\* A request reaches the proxy, whatever its policy is.
Begin ==
    /\ request \in Requests
    /\ phase = "head"
    /\ sent = Nothing
    /\ reply = Nothing
    /\ answer = Nothing
    /\ PathInit(request.path)

\* A segment as policies spell it: no pattern names one of several pieces.
Spelled(segments) ==
    [i \in 1..Len(segments) |->
       CASE Len(segments[i]) = 0 -> ""
         [] Len(segments[i]) = 1 -> segments[i][1]
         [] OTHER -> "other"]

Answer(message) ==
    /\ answer' = message
    /\ phase' = "answered"
    /\ UNCHANGED <<pathVars, filter, request, sent, reply>>

Proceed(next) ==
    /\ phase' = next
    /\ UNCHANGED <<pathVars, filter, request, sent, reply, answer>>

-----------------------------------------------------------------------------
Normalize == phase = "head" /\ PathNext /\ UNCHANGED <<messageVars, filter>>

RejectPath ==
    /\ phase = "head"
    /\ \/ step = "Forbidden" /\ Answer(Failure(403))
       \/ step = "BadRequest" /\ Answer(Failure(400))

Verdict == CheckHead(filter, request.method, Spelled(path))

Decide ==
    /\ phase = "head"
    /\ step = "normal"
    /\ \/ Verdict = "Forbidden" /\ Answer(Failure(403))
       \/ Verdict = "ContainerCreate" /\ Proceed("inspect")
       \/ Verdict = "None" /\ Proceed("send")

\* check_body, once the body is whole.
Inspect ==
    /\ phase = "inspect"
    /\ \/ ~Permitted(request.body) /\ Answer(Failure(403))
       \/ Permitted(request.body) /\ Proceed("send")

\* The path goes as it came, the fields as they may cross.
Send ==
    /\ phase = "send"
    /\ sent' = [path |-> raw, body |-> request.body, head |-> Upstream(request)]
    /\ phase' = "await"
    /\ UNCHANGED <<pathVars, filter, request, reply, answer>>

\* The daemon cannot be reached, or does not answer.
FailUpstream == phase = "await" /\ Answer(Failure(502))

Receive ==
    /\ phase = "await"
    /\ reply' \in Replies
    /\ phase' = "relay"
    /\ UNCHANGED <<pathVars, filter, request, sent, answer>>

Relay == phase = "relay" /\ Answer(Downstream(request, reply))

Answered == phase = "answered" /\ UNCHANGED exchangeVars

Handle ==
    \/ Normalize \/ RejectPath \/ Decide \/ Inspect
    \/ Send \/ FailUpstream \/ Receive \/ Relay \/ Answered

-----------------------------------------------------------------------------
(***************************************************************************)
(* Properties.                                                             *)
(***************************************************************************)

TypeOK ==
    /\ phase \in {"head", "inspect", "send", "await", "relay", "answered"}
    /\ step \in {"decode", "resolve", "normal", "Forbidden", "BadRequest"}
    /\ at \in 1..(Len(raw) + 1)
    /\ reply \in Replies \cup {Nothing}

\* The proxy decides on one path and sends another: what reaches the daemon is,
\* read segment by segment as it was written, allowed by the policy, and a
\* creation among it asks for nothing at either level of its body that the
\* proxy refuses (proxy_handler: "has allowed the request").
ForwardedIsAllowed ==
    sent # Nothing =>
       LET endpoint == Spelled(Reading(raw))
       IN  /\ Allows(filter, request.method, endpoint)
           /\ request.method = "POST" /\ endpoint = CreatePath =>
                 \A fields \in {sent.body.fields, sent.body.HostConfig}: \A key \in DOMAIN fields:
                    /\ key \in GuardedKeys => fields[key] \in {"null", "false", "[]", "''"}
                    /\ key = "NetworkMode" => fields[key] # "host"

\* No field that either sender means for its own connection crosses the proxy,
\* in either direction, whatever else the Connection field names; what the proxy
\* puts in its place is an upgrade that the sender did ask for.
ConnectionsApart ==
    /\ sent # Nothing =>
          \A name \in sent.head.fields \cap (HopByHop \cup request.options):
             name \in {"connection", "upgrade"} /\ "upgrade" \in request.options
    /\ answer # Nothing /\ reply # Nothing =>
          \A name \in answer.fields \cap (HopByHop \cup reply.options):
             name \in {"connection", "upgrade"} /\ "upgrade" \in reply.fields

\* Two connections switch, or neither does.  The daemon is made an offer exactly if
\* the client made one, and the client is told to switch exactly if the daemon has
\* switched and hyper holds a half of the client's to splice; a daemon without such
\* a client is let go and the client told of a failure.  (The half is held for the
\* Upgrade field alone, which is no offer: a client that sent no more is switched
\* with a daemon that switches unasked.)
SwitchedTogether ==
    /\ sent # Nothing => (Offers(sent.head) <=> Offers(request))
    /\ answer # Nothing =>
          (answer.status = 101 <=>
              reply # Nothing /\ reply.status = 101 /\ HasClientHalf(request))
=============================================================================
