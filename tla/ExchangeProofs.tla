--------------------------- MODULE ExchangeProofs ---------------------------
(***************************************************************************)
(* What an exchange keeps, under any policy, for any requests and replies. *)
(* The loops over the path have invariants of their own (PathInv and       *)
(* ReadInv, in RequestPathProofs), which no other step of an exchange      *)
(* disturbs; that of the exchange (RelayInv) says what was decided of      *)
(* whatever has been sent.  ProxyProofs puts them under a specification.   *)
(***************************************************************************)
EXTENDS Exchange, RequestPathProofs

-----------------------------------------------------------------------------
(***************************************************************************)
(* The path.                                                               *)
(***************************************************************************)

\* Whatever is not a turn of the loops leaves the path alone.
LEMMA PathOrNot == ASSUME [Handle]_exchangeVars PROVE Normalize \/ UNCHANGED pathVars
BY DEF Handle, RejectPath, Decide, Inspect, Send, FailUpstream, Receive, Relay, Answered,
       Answer, Proceed, exchangeVars

LEMMA PathInductive == PathInv /\ [Handle]_exchangeVars => PathInv'
<1> SUFFICES ASSUME PathInv, [Handle]_exchangeVars PROVE PathInv'
  OBVIOUS
<1>1. CASE Normalize
  BY <1>1, PathStep DEF Normalize
<1>2. CASE UNCHANGED pathVars
  BY <1>2 DEF pathVars, PathInv, NormalForm
<1> QED
  BY <1>1, <1>2, PathOrNot

LEMMA PathBegins == Begin => PathInv
<1> SUFFICES ASSUME Begin PROVE PathInv
  OBVIOUS
<1>1. raw \in Seq(Piece) /\ raw # <<>>
  BY MessageAssumption DEF Begin, PathInit
<1>2. at = 1 /\ text = <<>> /\ segment = <<>> /\ path = <<>> /\ step = "decode"
  BY DEF Begin, PathInit
<1> QED
  BY <1>1, <1>2 DEF PathInv, Steps, NormalForm

LEMMA ReadInductive == PathInv /\ ReadInv /\ [Handle]_exchangeVars => ReadInv'
<1> SUFFICES ASSUME PathInv, ReadInv, [Handle]_exchangeVars PROVE ReadInv'
  OBVIOUS
<1>1. CASE Normalize
  BY <1>1, ReadStep DEF Normalize
<1>2. CASE UNCHANGED pathVars
  BY <1>2 DEF pathVars, ReadInv, DecidedAsRead, AtStart, Underway, Current
<1> QED
  BY <1>1, <1>2, PathOrNot

LEMMA ReadBegins == Begin => ReadInv
BY MessageAssumption DEF Begin, PathInit, ReadInv, DecidedAsRead

LEMMA PathMeans == PathInv => BoundariesKept /\ NormalForm
BY DEF PathInv, BoundariesKept, SameBoundary

LEMMA ReadMeans == ReadInv => DecidedAsRead
BY DEF ReadInv

-----------------------------------------------------------------------------
(***************************************************************************)
(* The exchange.                                                           *)
(***************************************************************************)

\* What the proxy has decided of a request before it sends it.
Decided ==
    /\ step = "normal"
    /\ Allows(filter, request.method, Spelled(path))
    /\ request.method = "POST" /\ Spelled(path) = CreatePath => Permitted(request.body)

Failures == {Failure(400), Failure(403), Failure(502)}

Sent == [path |-> raw, body |-> request.body, head |-> Upstream(request)]

RelayInv ==
    /\ request \in Requests
    /\ phase \in {"head", "inspect", "send", "await", "relay", "answered"}
    /\ phase \in {"head", "inspect", "send"} => sent = Nothing
    /\ phase = "inspect" => step = "normal" /\ Verdict = "ContainerCreate"
    /\ phase = "send" => Decided
    /\ phase \in {"await", "relay"} => Decided /\ sent = Sent
    /\ sent # Nothing => Decided /\ sent = Sent
    /\ phase \in {"head", "inspect", "send", "await"} => reply = Nothing
    /\ phase = "relay" => reply \in Replies
    /\ phase # "answered" => answer = Nothing
    /\ phase = "answered" =>
          \/ reply = Nothing /\ answer \in Failures
          \/ reply \in Replies /\ answer = Downstream(request, reply)

LEMMA VerdictMeans ==
    /\ Verdict # "Forbidden" => Allows(filter, request.method, Spelled(path))
    /\ Verdict = "None" => ~(request.method = "POST" /\ Spelled(path) = CreatePath)
BY DEF Verdict, CheckHead

LEMMA RelayInductive == RelayInv /\ [Handle]_exchangeVars => RelayInv'
<1> SUFFICES ASSUME RelayInv, [Handle]_exchangeVars PROVE RelayInv'
  OBVIOUS
<1>1. CASE Normalize
  <2>1. phase = "head" /\ UNCHANGED <<messageVars, filter>>
    BY <1>1 DEF Normalize
  <2> QED
    BY <2>1 DEF RelayInv, messageVars
<1>2. ASSUME UNCHANGED <<pathVars, filter, request>> PROVE Decided' = Decided /\ Sent' = Sent
  BY <1>2 DEF Decided, Sent, pathVars
<1>3. ASSUME NEW failure \in Failures, Answer(failure), phase # "relay", phase # "answered"
      PROVE  RelayInv'
  <2>1. /\ UNCHANGED <<pathVars, filter, request, sent, reply>>
        /\ answer' = failure /\ phase' = "answered"
    BY <1>3 DEF Answer
  <2>2. Decided' = Decided /\ Sent' = Sent
    BY <1>2, <2>1
  <2> QED
    BY <1>3, <2>1, <2>2 DEF RelayInv
<1>4. CASE RejectPath
  BY <1>3, <1>4 DEF RejectPath, Failures
<1>5. ASSUME Proceed("send"), phase \in {"head", "inspect"}, Decided PROVE RelayInv'
  <2>1. UNCHANGED <<pathVars, filter, request, sent, reply, answer>> /\ phase' = "send"
    BY <1>5 DEF Proceed
  <2>2. Decided'
    BY <1>2, <1>5, <2>1
  <2> QED
    BY <1>5, <2>1, <2>2 DEF RelayInv
<1>6. CASE Decide
  <2>1. CASE Verdict = "Forbidden" /\ Answer(Failure(403))
    BY <1>3, <1>6, <2>1 DEF Decide, Failures
  <2>2. CASE Verdict = "ContainerCreate" /\ Proceed("inspect")
    <3>1. /\ UNCHANGED <<pathVars, filter, request, sent, reply, answer>>
          /\ phase' = "inspect" /\ phase = "head" /\ step = "normal"
      BY <1>6, <2>2 DEF Decide, Proceed
    <3>2. Verdict' = Verdict
      BY <3>1 DEF Verdict, pathVars
    <3> QED
      BY <2>2, <3>1, <3>2 DEF RelayInv, pathVars
  <2>3. CASE Verdict = "None" /\ Proceed("send")
    BY <1>5, <1>6, <2>3, VerdictMeans DEF Decide, Decided
  <2> QED
    BY <1>6, <2>1, <2>2, <2>3 DEF Decide
<1>7. CASE Inspect
  <2>1. phase = "inspect" /\ step = "normal" /\ Verdict = "ContainerCreate"
    BY <1>7 DEF Inspect, RelayInv
  <2>2. CASE Answer(Failure(403))
    BY <1>3, <2>1, <2>2 DEF Failures
  <2>3. CASE Permitted(request.body) /\ Proceed("send")
    BY <1>5, <2>1, <2>3, VerdictMeans DEF Decided
  <2> QED
    BY <1>7, <2>2, <2>3 DEF Inspect
<1>8. CASE Send
  <2>1. /\ phase = "send" /\ phase' = "await" /\ sent' = Sent
        /\ UNCHANGED <<pathVars, filter, request, reply, answer>>
    BY <1>8 DEF Send, Sent
  <2> QED
    BY <1>2, <2>1 DEF RelayInv
<1>9. CASE FailUpstream
  BY <1>3, <1>9 DEF FailUpstream, Failures
<1>10. CASE Receive
  <2>1. /\ phase = "await" /\ phase' = "relay" /\ reply' \in Replies
        /\ UNCHANGED <<pathVars, filter, request, sent, answer>>
    BY <1>10 DEF Receive
  <2> QED
    BY <1>2, <2>1 DEF RelayInv
<1>11. CASE Relay
  <2>1. /\ phase = "relay" /\ phase' = "answered" /\ answer' = Downstream(request, reply)
        /\ UNCHANGED <<pathVars, filter, request, sent, reply>>
    BY <1>11 DEF Relay, Answer
  <2>2. reply' \in Replies /\ answer' = Downstream(request', reply')
    BY <2>1 DEF RelayInv
  <2> QED
    BY <1>2, <2>1, <2>2 DEF RelayInv
<1>12. CASE Answered \/ UNCHANGED exchangeVars
  <2>1. UNCHANGED exchangeVars
    BY <1>12 DEF Answered
  <2>2. Verdict' = Verdict
    BY <2>1 DEF pathVars, exchangeVars, messageVars, Verdict
  <2> QED
    BY <1>2, <2>1, <2>2 DEF exchangeVars, messageVars, pathVars, RelayInv
<1> QED
  BY <1>1, <1>4, <1>6, <1>7, <1>8, <1>9, <1>10, <1>11, <1>12 DEF Handle

LEMMA RelayBegins == Begin => RelayInv
BY DEF Begin, RelayInv

LEMMA TypeMeans == PathInv /\ RelayInv => TypeOK
BY DEF PathInv, RelayInv, TypeOK, Steps

\* Fields that are meant for one connection do not cross to the other.
LEMMA ApartMeans == RelayInv => ConnectionsApart
<1> SUFFICES ASSUME RelayInv PROVE ConnectionsApart
  OBVIOUS
<1>1. ASSUME sent # Nothing, NEW name \in sent.head.fields \cap (HopByHop \cup request.options)
      PROVE  name \in {"connection", "upgrade"} /\ "upgrade" \in request.options
  <2>1. sent.head = Upstream(request)
    BY <1>1 DEF RelayInv, Sent
  <2> QED
    BY <1>1, <2>1 DEF Upstream, EndToEnd, is_hop_by_hop, Offers, UpgradeHeld, NoUpgrade
<1>2. ASSUME answer # Nothing, reply # Nothing,
             NEW name \in answer.fields \cap (HopByHop \cup reply.options)
      PROVE  name \in {"connection", "upgrade"} /\ "upgrade" \in reply.fields
  <2>1. answer = Downstream(request, reply)
    BY <1>2 DEF RelayInv
  <2> QED
    BY <1>2, <2>1 DEF Downstream, EndToEnd, is_hop_by_hop, UpgradeHeld, NoUpgrade, Failure
<1> QED
  BY <1>1, <1>2 DEF ConnectionsApart

\* The daemon is offered what the client offers, and they switch together.
LEMMA SwitchedMeans == RelayInv => SwitchedTogether
<1> SUFFICES ASSUME RelayInv PROVE SwitchedTogether
  OBVIOUS
<1>1. ASSUME sent # Nothing PROVE Offers(sent.head) <=> Offers(request)
  <2>1. sent.head = Upstream(request)
    BY <1>1 DEF RelayInv, Sent
  <2> QED
    BY <2>1 DEF Upstream, EndToEnd, is_hop_by_hop, HopByHop, Offers, UpgradeHeld, NoUpgrade
<1>2. ASSUME answer # Nothing
      PROVE  answer.status = 101 <=>
                reply # Nothing /\ reply.status = 101 /\ HasClientHalf(request)
  <2>1. CASE reply = Nothing /\ answer \in Failures
    BY <2>1 DEF Failures, Failure
  <2>2. CASE reply \in Replies /\ answer = Downstream(request, reply)
    BY <2>2, MessageAssumption DEF Downstream, Failure
  <2> QED
    BY <1>2, <2>1, <2>2 DEF RelayInv
<1> QED
  BY <1>1, <1>2 DEF SwitchedTogether

\* What reaches the daemon is allowed as it reads, and contained.
LEMMA ForwardedMeans == RelayInv /\ DecidedAsRead => ForwardedIsAllowed
<1> SUFFICES ASSUME RelayInv, DecidedAsRead, sent # Nothing PROVE ForwardedIsAllowed
  BY DEF ForwardedIsAllowed
<1>1. Decided /\ sent.body = request.body
  BY DEF RelayInv, Sent
<1>2. path = Reading(raw)
  BY <1>1 DEF Decided, DecidedAsRead
<1>3. Permitted(request.body) =>
         \A fields \in {sent.body.fields, sent.body.HostConfig}: \A key \in DOMAIN fields:
            /\ key \in GuardedKeys => fields[key] \in {"null", "false", "[]", "''"}
            /\ key = "NetworkMode" => fields[key] # "host"
  BY <1>1 DEF Permitted, LevelPermitted, meaningfully_set
<1> QED
  BY <1>1, <1>2, <1>3 DEF Decided, ForwardedIsAllowed

-----------------------------------------------------------------------------
(***************************************************************************)
(* Why a request is refused.                                               *)
(***************************************************************************)

\* Where an answer of the proxy's own came from.
Reason ==
    \/ step = "Forbidden" /\ answer = Failure(403)
    \/ step = "BadRequest" /\ answer = Failure(400)
    \/ step = "normal" /\ Verdict = "Forbidden" /\ answer = Failure(403)
    \/ /\ step = "normal" /\ Verdict = "ContainerCreate" /\ answer = Failure(403)
       /\ ~Permitted(request.body)
    \/ answer = Failure(502)

HidesSeparator == \E i \in 1..Len(raw): IsEncodedSeparator(raw[i])
IsMalformed    == \E i \in 1..Len(raw): raw[i] \in Malformed \cup NotText

RefusalInv ==
    /\ step = "Forbidden" => HidesSeparator
    /\ step = "BadRequest" => IsMalformed
    /\ phase = "answered" /\ reply = Nothing => Reason

\* What decodes to a byte that is no text is written as one.
LEMMA NotTextAsWritten == ASSUME NEW piece, Meaning(piece) \in NotText PROVE piece \in NotText
BY DEF Meaning, NotText

LEMMA PathRefused ==
    ASSUME PathInv, ReadInv, RefusalInv, PathNext
    PROVE  (step' = "Forbidden" => HidesSeparator') /\ (step' = "BadRequest" => IsMalformed')
<1>1. raw' = raw /\ at \in Nat /\ raw \in Seq(Piece)
  BY DEF PathNext, DecodePiece, FinishDecoding, ResolvePiece, FinishResolving, Refuse, DecodeAs,
         PathInv
<1>2. CASE DecodePiece
  <2>1. at \in 1..Len(raw)
    BY <1>2 DEF DecodePiece, PathInv
  <2>2. \/ step' = step
        \/ step' = "BadRequest" /\ raw[at] \in Malformed
        \/ step' = "Forbidden" /\ IsEncodedSeparator(raw[at])
    BY <1>2 DEF DecodePiece, Refuse, DecodeAs
  <2> QED
    BY <1>1, <2>1, <2>2 DEF RefusalInv, HidesSeparator, IsMalformed
<1>3. CASE FinishDecoding
  <2>1. CASE step' = "BadRequest"
    <3>1. PICK i \in 1..Len(text): text[i] \in NotText
      BY <1>3, <2>1 DEF FinishDecoding
    <3>2. i \in 1..Len(raw) /\ raw[i] \in NotText
      BY <3>1, NotTextAsWritten DEF PathInv, ReadInv
    <3> QED
      BY <1>1, <2>1, <3>2 DEF IsMalformed
  <2>2. CASE step' # "BadRequest"
    BY <1>3, <2>2 DEF FinishDecoding, Refuse
  <2> QED
    BY <2>1, <2>2
<1>4. CASE ResolvePiece \/ FinishResolving
  BY <1>4 DEF ResolvePiece, FinishResolving
<1> QED
  BY <1>2, <1>3, <1>4 DEF PathNext

LEMMA RefusalBegins == Begin => RefusalInv
BY DEF Begin, PathInit, RefusalInv

LEMMA RefusalInductive ==
    PathInv /\ ReadInv /\ RelayInv /\ RefusalInv /\ [Handle]_exchangeVars => RefusalInv'
<1> SUFFICES ASSUME PathInv, ReadInv, RelayInv, RefusalInv, [Handle]_exchangeVars
             PROVE  RefusalInv'
  OBVIOUS
<1>1. CASE Normalize
  BY <1>1, PathRefused DEF Normalize, messageVars, RefusalInv
<1>2. ASSUME UNCHANGED pathVars
      PROVE  (step' = "Forbidden" => HidesSeparator') /\ (step' = "BadRequest" => IsMalformed')
  BY <1>2 DEF pathVars, RefusalInv, HidesSeparator, IsMalformed
<1>3. ASSUME UNCHANGED <<pathVars, filter, request>> PROVE Verdict' = Verdict
  BY <1>3 DEF pathVars, Verdict
<1>4. ASSUME NEW failure, Answer(failure),
             \/ step = "Forbidden" /\ failure = Failure(403)
             \/ step = "BadRequest" /\ failure = Failure(400)
             \/ step = "normal" /\ Verdict = "Forbidden" /\ failure = Failure(403)
             \/ /\ step = "normal" /\ Verdict = "ContainerCreate" /\ failure = Failure(403)
                /\ ~Permitted(request.body)
             \/ failure = Failure(502)
      PROVE  RefusalInv'
  <2>1. /\ UNCHANGED <<pathVars, filter, request>> /\ answer' = failure
        /\ step' = step /\ request' = request
    BY <1>4 DEF Answer, pathVars
  <2>2. Reason'
    BY <1>3, <1>4, <2>1 DEF Reason
  <2> QED
    BY <1>2, <2>1, <2>2 DEF RefusalInv
<1>5. CASE RejectPath
  BY <1>4, <1>5 DEF RejectPath
<1>6. ASSUME NEW next \in {"inspect", "send"}, Proceed(next) PROVE RefusalInv'
  BY <1>2, <1>6 DEF Proceed, RefusalInv
<1>7. CASE Decide
  BY <1>4, <1>6, <1>7 DEF Decide
<1>8. CASE Inspect
  <2>1. step = "normal" /\ Verdict = "ContainerCreate"
    BY <1>8 DEF Inspect, RelayInv
  <2> QED
    BY <1>4, <1>6, <1>8, <2>1 DEF Inspect
<1>9. CASE Send \/ Receive
  BY <1>2, <1>9 DEF Send, Receive, RefusalInv
<1>10. CASE FailUpstream
  BY <1>4, <1>10 DEF FailUpstream
<1>11. CASE Relay
  <2>1. reply \in Replies /\ reply' = reply /\ UNCHANGED pathVars
    BY <1>11 DEF Relay, Answer, RelayInv
  <2>2. reply' # Nothing
    BY <2>1, MessageAssumption
  <2> QED
    BY <1>2, <2>1, <2>2 DEF RefusalInv
<1>12. CASE Answered \/ UNCHANGED exchangeVars
  <2>1. UNCHANGED exchangeVars
    BY <1>12 DEF Answered
  <2>2. UNCHANGED <<pathVars, filter, request, phase, reply, answer, step>>
    BY <2>1 DEF exchangeVars, messageVars, pathVars
  <2>3. Reason' = Reason
    BY <1>3, <2>2 DEF Reason
  <2> QED
    BY <1>2, <2>2, <2>3 DEF RefusalInv
<1> QED
  BY <1>1, <1>5, <1>7, <1>8, <1>9, <1>10, <1>11, <1>12 DEF Handle

\* What a refusal says of the request.
LEMMA RefusedMeans ==
    ASSUME RelayInv, DecidedAsRead, RefusalInv, answer # Nothing, reply = Nothing
    PROVE  /\ answer.status = 400 => IsMalformed
           /\ answer.status = 403 =>
                 \/ HidesSeparator
                 \/ ~Allows(filter, request.method, Spelled(Reading(raw)))
                 \/ /\ request.method = "POST" /\ Spelled(Reading(raw)) = CreatePath
                    /\ ~Permitted(request.body)
<1>1. Reason
  BY DEF RelayInv, RefusalInv
<1>2. \A status: Failure(status).status = status
  BY DEF Failure
<1>3. step = "normal" => path = Reading(raw)
  BY DEF DecidedAsRead
<1>4. /\ Verdict = "Forbidden" => ~Allows(filter, request.method, Spelled(path))
      /\ Verdict = "ContainerCreate" => request.method = "POST" /\ Spelled(path) = CreatePath
  BY DEF Verdict, CheckHead
<1>5. CASE answer = Failure(403)
  BY <1>1, <1>2, <1>3, <1>4, <1>5 DEF Reason, RefusalInv
<1>6. CASE answer # Failure(403)
  BY <1>1, <1>2, <1>6 DEF Reason, RefusalInv
<1> QED
  BY <1>5, <1>6
=============================================================================
