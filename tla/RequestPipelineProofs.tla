------------------------ MODULE RequestPipelineProofs ------------------------
(***************************************************************************)
(* Theorems of RequestPipeline, for any requests, policy, frames and limit. *)
(* All rest on one inductive invariant, IInv, which says what each stage of *)
(* a request implies about the bytes and the sets of the pipeline.          *)
(***************************************************************************)
EXTENDS RequestPipeline, FiniteSetTheorems, TLAPS

\* What holds of a single request at each stage of its life.
Staged(r) ==
    /\ stage[r] \in {"absent", "arrived", "collecting"} =>
          r \notin admitted /\ audited[r] = "none" /\ answer[r] = "none"
    /\ stage[r] \in {"absent", "arrived"} => collected[r] = <<>>
    /\ stage[r] = "collecting" => Rule(r) = "ContainerCreate"
    /\ stage[r] \in {"connecting", "forwarding", "switching"} =>
          r \in admitted /\ answer[r] = "none"
    /\ stage[r] \in {"forwarding", "switching", "relaying", "spliced"} => r \in contacted
    /\ stage[r] = "relaying" => answer[r] = "Upstream"
    /\ stage[r] = "spliced" => answer[r] = "Switching"

\* What the layer has seen of a request that it let through.
Vetted(r) ==
    /\ r \in admitted => Rule(r) \notin HeadErrors
    /\ r \in admitted /\ Rule(r) = "ContainerCreate" =>
          collected[r] \in SafeBody /\ Complete(r, collected[r])

\* How far the bytes of a request have come.
Bytes(r) ==
    /\ r \in contacted => r \in admitted
    /\ upstream[r] # <<>> => r \in contacted
    /\ Rule(r) = "ContainerCreate" => upstream[r] \in {<<>>, collected[r]}
    /\ Rule(r) # "ContainerCreate" => collected[r] = <<>>
    /\ Len(collected[r]) <= MaxBodyBytes
    /\ Len(upstream[r]) <= MaxBodyBytes

IInv == TypeOK /\ \A r \in Request: Staged(r) /\ Vetted(r) /\ Bytes(r)

-----------------------------------------------------------------------------

\* A rule is one of four.
LEMMA RuleKind ==
    ASSUME TypeOK, NEW r \in Request
    PROVE  Rule(r) \in {"None", "ContainerCreate"} \cup HeadErrors
BY HeadRuleType DEF TypeOK, Rule, Asked

\* Adding a frame to a body gives a body, longer by the frame.
LEMMA FrameAppends ==
    ASSUME NEW b \in Seq(Byte), NEW f \in Frame
    PROVE  /\ b \o f \in Seq(Byte)
           /\ Len(b \o f) = Len(b) + Len(f)
           /\ Len(f) \in Nat
           /\ f # <<>>
BY FrameType

\* The initial states satisfy the invariant.
LEMMA InitIInv == Init => IInv
<1> SUFFICES ASSUME Init PROVE IInv
    OBVIOUS
<1>1. TypeOK
  <2>1. <<>> \in Seq(Byte)
    OBVIOUS
  <2> QED
    BY <2>1 DEF Init, TypeOK, Stages, Answers, Errors, HeadErrors
<1>2. ASSUME NEW r \in Request PROVE Staged(r) /\ Vetted(r) /\ Bytes(r)
  BY LimitType, <1>1, RuleKind DEF Init, Staged, Vetted, Bytes
<1> QED
  BY <1>1, <1>2 DEF IInv

-----------------------------------------------------------------------------

\* Every step keeps the types.
LEMMA NextTypeOK == TypeOK /\ [Next]_vars => TypeOK'
<1> SUFFICES ASSUME TypeOK, [Next]_vars PROVE TypeOK'
    OBVIOUS
<1> USE DEF TypeOK
<1>1. CASE UNCHANGED vars
  BY <1>1 DEF vars
<1>2. ASSUME NEW r \in Request, Arrive(r) PROVE TypeOK'
  BY <1>2 DEF Arrive, Stages
<1>3. ASSUME NEW r \in Request, Layer(r) PROVE TypeOK'
  <2> USE DEF Stages, Answers, Errors, HeadErrors
  <2>1. CASE DenyHead(r)
    BY <2>1 DEF DenyHead, Reject, Close
  <2>2. CASE DenyDeclared(r)
    BY <2>2 DEF DenyDeclared, Reject, Close
  <2>3. CASE AdmitHead(r)
    BY <2>3 DEF AdmitHead, Admit
  <2>4. CASE BeginCollect(r)
    BY <2>4 DEF BeginCollect
  <2>5. CASE CollectError(r)
    BY <2>5 DEF CollectError, Reject, Close
  <2>6. CASE AdmitBody(r)
    BY <2>6 DEF AdmitBody, Admit
  <2>7. CASE DenyBody(r)
    BY <2>7 DEF DenyBody, Reject, Close
  <2>8. ASSUME NEW f \in Frame, CollectFrame(r, f) PROVE TypeOK'
    BY <2>8, FrameAppends DEF CollectFrame
  <2>9. ASSUME NEW f \in Frame, CollectOverrun(r, f) PROVE TypeOK'
    BY <2>9 DEF CollectOverrun, Reject, Close
  <2> QED
    BY <1>3, <2>1, <2>2, <2>3, <2>4, <2>5, <2>6, <2>7, <2>8, <2>9 DEF Layer
<1>4. ASSUME NEW r \in Request, Handler(r) PROVE TypeOK'
  <2> USE DEF Stages, Answers, Errors, HeadErrors
  <2>1. CASE Connect(r)
    BY <2>1 DEF Connect
  <2>2. CASE ConnectFail(r)
    BY <2>2 DEF ConnectFail, Close
  <2>3. CASE SendBuffered(r)
    BY <2>3 DEF SendBuffered
  <2>4. CASE ForwardFail(r)
    BY <2>4 DEF ForwardFail, Close
  <2>5. CASE Respond(r)
    BY <2>5 DEF Respond
  <2>6. CASE SwitchProtocols(r)
    BY <2>6 DEF SwitchProtocols
  <2>7. CASE RefuseSwitch(r)
    BY <2>7 DEF RefuseSwitch, Close
  <2>8. CASE Splice(r)
    BY <2>8 DEF Splice
  <2>9. CASE Finish(r)
    BY <2>9 DEF Finish, Close
  <2>10. ASSUME NEW f \in Frame, StreamFrame(r, f) PROVE TypeOK'
    BY <2>10, FrameAppends DEF StreamFrame
  <2>11. ASSUME NEW f \in Frame, StreamOverrun(r, f) PROVE TypeOK'
    BY <2>11 DEF StreamOverrun, Close
  <2> QED
    BY <1>4, <2>1, <2>2, <2>3, <2>4, <2>5, <2>6, <2>7, <2>8, <2>9, <2>10, <2>11
       DEF Handler
<1>5. ASSUME NEW r \in Request, Expire(r) \/ Disconnect(r) PROVE TypeOK'
  BY <1>5 DEF Expire, Disconnect, Close, Stages, Answers
<1> QED
  BY <1>1, <1>2, <1>3, <1>4, <1>5 DEF Next, Done

\* RequestPipeline is type correct.
THEOREM TypeCorrect == Spec => []TypeOK
<1>1. Init => TypeOK
  BY InitIInv DEF IInv
<1> QED
  BY <1>1, NextTypeOK, PTL DEF Spec

-----------------------------------------------------------------------------

\* Every step keeps the invariant.  The one delicate case is that of a request
\* whose body was inspected: only its own steps touch its bytes, and none does
\* between the decision and the single frame that carries them on.
LEMMA NextIInv == IInv /\ [Next]_vars => IInv'
<1> SUFFICES ASSUME IInv, [Next]_vars PROVE IInv'
    OBVIOUS
<1>1. TypeOK /\ TypeOK'
  BY NextTypeOK DEF IInv
<1>2. ASSUME NEW q \in Request PROVE (Staged(q) /\ Vetted(q) /\ Bytes(q))'
  <2>1. Staged(q) /\ Vetted(q) /\ Bytes(q)
    BY DEF IInv
  <2>2. /\ collected[q] \in Seq(Byte) /\ upstream[q] \in Seq(Byte)
        /\ Rule(q) \in {"None", "ContainerCreate"} \cup HeadErrors
    BY <1>1, RuleKind DEF TypeOK
  <2> USE <1>1, <2>1, <2>2, LimitType DEF TypeOK, Staged, Vetted, Bytes, Rule, Complete
  <2>3. CASE UNCHANGED vars
    BY <2>3 DEF vars
  <2>4. ASSUME NEW r \in Request, Arrive(r) PROVE (Staged(q) /\ Vetted(q) /\ Bytes(q))'
    BY <2>4 DEF Arrive
  <2>5. ASSUME NEW r \in Request, Layer(r) PROVE (Staged(q) /\ Vetted(q) /\ Bytes(q))'
    <3>1. CASE DenyHead(r)
      BY <3>1 DEF DenyHead, Reject, Close, HeadErrors
    <3>2. CASE DenyDeclared(r)
      BY <3>2 DEF DenyDeclared, Reject, Close, HeadErrors
    <3>3. CASE AdmitHead(r)
      BY <3>3 DEF AdmitHead, Admit, HeadErrors
    <3>4. CASE BeginCollect(r)
      BY <3>4 DEF BeginCollect
    <3>5. CASE CollectError(r)
      BY <3>5 DEF CollectError, Reject, Close
    <3>6. CASE AdmitBody(r)
      BY <3>6 DEF AdmitBody, Admit, HeadErrors
    <3>7. CASE DenyBody(r)
      BY <3>7 DEF DenyBody, Reject, Close, HeadErrors
    <3>8. ASSUME NEW f \in Frame, CollectFrame(r, f) PROVE (Staged(q) /\ Vetted(q) /\ Bytes(q))'
      BY <3>8, FrameAppends DEF CollectFrame, Fits
    <3>9. ASSUME NEW f \in Frame, CollectOverrun(r, f) PROVE (Staged(q) /\ Vetted(q) /\ Bytes(q))'
      BY <3>9 DEF CollectOverrun, Reject, Close
    <3> QED
      BY <2>5, <3>1, <3>2, <3>3, <3>4, <3>5, <3>6, <3>7, <3>8, <3>9 DEF Layer
  <2>6. ASSUME NEW r \in Request, Handler(r) PROVE (Staged(q) /\ Vetted(q) /\ Bytes(q))'
    <3>1. CASE Connect(r)
      BY <3>1 DEF Connect
    <3>2. CASE ConnectFail(r)
      BY <3>2 DEF ConnectFail, Close
    <3>3. CASE SendBuffered(r)
      BY <3>3 DEF SendBuffered, Sending, Streams
    <3>4. CASE ForwardFail(r)
      BY <3>4 DEF ForwardFail, Close, Sending
    <3>5. CASE Respond(r)
      BY <3>5 DEF Respond
    <3>6. CASE SwitchProtocols(r)
      BY <3>6 DEF SwitchProtocols
    <3>7. CASE RefuseSwitch(r)
      BY <3>7 DEF RefuseSwitch, Close
    <3>8. CASE Splice(r)
      BY <3>8 DEF Splice
    <3>9. CASE Finish(r)
      BY <3>9 DEF Finish, Close
    <3>10. ASSUME NEW f \in Frame, StreamFrame(r, f) PROVE (Staged(q) /\ Vetted(q) /\ Bytes(q))'
      BY <3>10, FrameAppends DEF StreamFrame, Sending, Streams, Fits
    <3>11. ASSUME NEW f \in Frame, StreamOverrun(r, f) PROVE (Staged(q) /\ Vetted(q) /\ Bytes(q))'
      BY <3>11 DEF StreamOverrun, Close, Sending
    <3> QED
      BY <2>6, <3>1, <3>2, <3>3, <3>4, <3>5, <3>6, <3>7, <3>8, <3>9, <3>10, <3>11
         DEF Handler
  <2>7. ASSUME NEW r \in Request, Expire(r) \/ Disconnect(r)
        PROVE  (Staged(q) /\ Vetted(q) /\ Bytes(q))'
    BY <2>7 DEF Expire, Disconnect, Close
  <2> QED
    BY <2>3, <2>4, <2>5, <2>6, <2>7 DEF Next, Done
<1> QED
  BY <1>1, <1>2 DEF IInv

-----------------------------------------------------------------------------

\* The inductive invariant gives the layer's two invariants.
LEMMA IInvImplies == IInv => Mediated /\ BodyBound
BY DEF IInv, Mediated, BodyBound, Vetted, Bytes, Streams

\* The daemon hears of a request only after the layer let it through, and of an
\* inspected body only the bytes that were inspected (middleware.rs, Contract).
THEOREM MediatedAlways == Spec => []Mediated
<1> QED
  BY InitIInv, NextIInv, IInvImplies, PTL DEF Spec

\* No request passes more than max_body_bytes, and no body is buffered that the
\* decision does not rest on (middleware.rs, Contract).
THEOREM BodyBounded == Spec => []BodyBound
<1> QED
  BY InitIInv, NextIInv, IInvImplies, PTL DEF Spec

-----------------------------------------------------------------------------

\* What the answers of a single request tell, with what makes it inductive: a
\* declared length over the limit is never let through to be streamed, a 101 is
\* accepted only for a client that can switch.
Answered(r) ==
    /\ r \in admitted /\ Rule(r) = "None" => ~Oversized(asked[r].length)
    /\ stage[r] = "switching" => asked[r].upgrade
    /\ answer[r] \in {"Forbidden", "BadRequest", "Internal"} => r \notin contacted
    /\ answer[r] = "Docker" => r \in admitted
    /\ answer[r] \in {"Upstream", "Switching"} => r \in contacted
    /\ answer[r] = "Switching" => asked[r].upgrade
    /\ answer[r] = "TooLarge" => r \in overrun \/ Oversized(asked[r].length)
    /\ answer[r] = "Timeout" => TimeoutEnabled
    /\ r \in overrun =>
          /\ stage[r] = "closed"
          /\ answer[r] \in {"TooLarge", "Upstream"}
          /\ r \in contacted => asked[r].length = NoLength
    /\ audited[r] # "none" => r \notin admitted /\ answer[r] = audited[r]
    /\ audited[r] = "none" /\ r \notin admitted => answer[r] \in {"none", "Timeout"}

AllAnswered == \A r \in Request: Answered(r)

\* A frame that a declared length supplies, and that does not fit, belongs to a
\* declaration over the limit.
LEMMA OverrunOfDeclared ==
    ASSUME TypeOK, NEW r \in Request, NEW b \in Seq(Byte), NEW f \in Frame,
           Supplies(r, b, f), ~Fits(b, f), asked[r].length # NoLength
    PROVE  Oversized(asked[r].length)
<1>1. asked[r].length \in Nat
  BY LengthType DEF TypeOK, Asked
<1>2. Len(b) \in Nat /\ Len(f) \in Nat
  BY FrameType
<1> QED
  BY <1>1, <1>2, LimitType DEF Supplies, Fits, Oversized

\* Every step keeps what the answers tell.
LEMMA NextAnswered == IInv /\ AllAnswered /\ [Next]_vars => AllAnswered'
<1> SUFFICES ASSUME IInv, AllAnswered, [Next]_vars, NEW q \in Request
             PROVE  Answered(q)'
    BY DEF AllAnswered
<1>1. TypeOK /\ TypeOK' /\ Staged(q) /\ Vetted(q) /\ Bytes(q) /\ Answered(q)
  BY NextTypeOK DEF IInv, AllAnswered
<1> USE <1>1 DEF TypeOK, Staged, Answered, Rule
<1>2. CASE UNCHANGED vars
  BY <1>2 DEF vars
<1>3. ASSUME NEW r \in Request, Arrive(r) PROVE Answered(q)'
  BY <1>3 DEF Arrive
<1>4. ASSUME NEW r \in Request, Layer(r) PROVE Answered(q)'
  <2>1. CASE DenyHead(r)
    BY <2>1 DEF DenyHead, Reject, Close, HeadErrors, Bytes
  <2>2. CASE DenyDeclared(r)
    BY <2>2 DEF DenyDeclared, Reject, Close, Bytes
  <2>3. CASE AdmitHead(r)
    BY <2>3 DEF AdmitHead, Admit
  <2>4. CASE BeginCollect(r)
    BY <2>4 DEF BeginCollect
  <2>5. CASE CollectError(r)
    BY <2>5 DEF CollectError, Reject, Close, Bytes
  <2>6. CASE AdmitBody(r)
    BY <2>6 DEF AdmitBody, Admit
  <2>7. CASE DenyBody(r)
    BY <2>7 DEF DenyBody, Reject, Close, Bytes
  <2>8. ASSUME NEW f \in Frame, CollectFrame(r, f) PROVE Answered(q)'
    BY <2>8 DEF CollectFrame
  <2>9. ASSUME NEW f \in Frame, CollectOverrun(r, f) PROVE Answered(q)'
    BY <2>9 DEF CollectOverrun, Reject, Close, Bytes
  <2> QED
    BY <1>4, <2>1, <2>2, <2>3, <2>4, <2>5, <2>6, <2>7, <2>8, <2>9 DEF Layer
<1>5. ASSUME NEW r \in Request, Handler(r) PROVE Answered(q)'
  <2>1. CASE Connect(r)
    BY <2>1 DEF Connect, Bytes
  <2>2. CASE ConnectFail(r)
    BY <2>2 DEF ConnectFail, Close, Bytes
  <2>3. CASE SendBuffered(r)
    BY <2>3 DEF SendBuffered, Bytes
  <2>4. CASE ForwardFail(r)
    BY <2>4 DEF ForwardFail, Close, Sending, Bytes
  <2>5. CASE Respond(r)
    BY <2>5 DEF Respond, Bytes
  <2>6. CASE SwitchProtocols(r)
    BY <2>6 DEF SwitchProtocols, Bytes
  <2>7. CASE RefuseSwitch(r)
    BY <2>7 DEF RefuseSwitch, Close, Bytes
  <2>8. CASE Splice(r)
    BY <2>8 DEF Splice, Bytes
  <2>9. CASE Finish(r)
    BY <2>9 DEF Finish, Close, Bytes
  <2>10. ASSUME NEW f \in Frame, StreamFrame(r, f) PROVE Answered(q)'
    BY <2>10 DEF StreamFrame
  <2>11. ASSUME NEW f \in Frame, StreamOverrun(r, f) PROVE Answered(q)'
    <3>1. /\ upstream[r] \in Seq(Byte)
          /\ r \in admitted /\ Rule(r) = "None" => ~Oversized(asked[r].length)
      BY DEF IInv, AllAnswered
    <3>2. r \in contacted /\ r \in admitted /\ Streams(r)
      BY <2>11 DEF IInv, StreamOverrun, Sending, Bytes
    <3>3. asked[r].length = NoLength
      BY <2>11, <3>1, <3>2, OverrunOfDeclared DEF StreamOverrun, Streams
    <3> QED
      BY <2>11, <3>2, <3>3 DEF StreamOverrun, Close, Sending, Bytes
  <2> QED
    BY <1>5, <2>1, <2>2, <2>3, <2>4, <2>5, <2>6, <2>7, <2>8, <2>9, <2>10, <2>11 DEF Handler
<1>6. ASSUME NEW r \in Request, Expire(r) \/ Disconnect(r) PROVE Answered(q)'
  BY <1>6 DEF Expire, Disconnect, Close, Pending, Bytes
<1> QED
  BY <1>2, <1>3, <1>4, <1>5, <1>6 DEF Next, Done

\* A client can trust the status it gets.
THEOREM AnswersJustified == Spec => []AnswerJustified
<1>1. Init => AllAnswered
  BY DEF Init, AllAnswered, Answered, Errors, HeadErrors
<1>2. AllAnswered => AnswerJustified
  BY DEF AllAnswered, Answered, AnswerJustified
<1> QED
  BY <1>1, <1>2, InitIInv, NextIInv, NextAnswered, PTL DEF Spec

\* A body over the limit ends its request, and a declared length that was let
\* through is never cut off.
THEOREM OverrunsHandled == Spec => []OverrunHandled
<1>1. Init => AllAnswered
  BY DEF Init, AllAnswered, Answered, Errors, HeadErrors
<1>2. IInv /\ AllAnswered => OverrunHandled
  BY DEF IInv, TypeOK, AllAnswered, Answered, OverrunHandled
<1> QED
  BY <1>1, <1>2, InitIInv, NextIInv, NextAnswered, PTL DEF Spec

-----------------------------------------------------------------------------

\* The counters are the sizes of the two sets.
Counted == allowed = Cardinality(admitted) /\ denied = Cardinality(Refused)

\* Letting one more request through counts it once.
LEMMA CountAdmitted ==
    ASSUME TypeOK, NEW r \in Request, r \notin admitted, Counted, Admit(r)
    PROVE  Counted'
<1>1. IsFiniteSet(admitted)
  BY RequestFinite, FS_Subset DEF TypeOK
<1>2. Cardinality(admitted \cup {r}) = Cardinality(admitted) + 1
  BY <1>1, FS_AddElement
<1>3. Refused' = Refused
  BY DEF Admit, Refused
<1> QED
  BY <1>2, <1>3 DEF Counted, Admit

\* Answering one more request in the layer counts it once.
LEMMA CountRefused ==
    ASSUME TypeOK, NEW r \in Request, audited[r] = "none", Counted,
           NEW e \in Errors, Reject(r, e)
    PROVE  Counted'
<1>1. IsFiniteSet(Refused)
  BY RequestFinite, FS_Subset DEF Refused
<1>2. Refused' = Refused \cup {r} /\ r \notin Refused
  BY DEF TypeOK, Reject, Refused, Errors, HeadErrors
<1>3. Cardinality(Refused \cup {r}) = Cardinality(Refused) + 1
  BY <1>1, <1>2, FS_AddElement
<1> QED
  BY <1>2, <1>3 DEF Counted, Reject

\* Every step keeps the counters in agreement.
LEMMA NextCounted == IInv /\ Counted /\ [Next]_vars => Counted'
<1> SUFFICES ASSUME IInv, Counted, [Next]_vars PROVE Counted'
    OBVIOUS
<1> USE DEF Errors, HeadErrors
<1>1. CASE UNCHANGED <<admitted, allowed, denied, audited>>
  BY <1>1 DEF Counted, Refused
<1>2. ASSUME NEW r \in Request, Layer(r) PROVE Counted'
  <2>1. TypeOK /\ Staged(r)
    BY DEF IInv
  <2>2. CASE DenyHead(r)
    BY <2>1, <2>2, CountRefused DEF DenyHead, Staged
  <2>3. CASE DenyDeclared(r)
    BY <2>1, <2>3, CountRefused DEF DenyDeclared, Staged
  <2>4. CASE AdmitHead(r)
    BY <2>1, <2>4, CountAdmitted DEF AdmitHead, Staged
  <2>5. CASE BeginCollect(r)
    BY <1>1, <2>5 DEF BeginCollect
  <2>6. CASE CollectError(r)
    BY <2>1, <2>6, CountRefused DEF CollectError, Staged
  <2>7. CASE AdmitBody(r)
    BY <2>1, <2>7, CountAdmitted DEF AdmitBody, Staged
  <2>8. CASE DenyBody(r)
    BY <2>1, <2>8, CountRefused DEF DenyBody, Staged
  <2>9. ASSUME NEW f \in Frame, CollectFrame(r, f) PROVE Counted'
    BY <1>1, <2>9 DEF CollectFrame
  <2>10. ASSUME NEW f \in Frame, CollectOverrun(r, f) PROVE Counted'
    BY <2>1, <2>10, CountRefused DEF CollectOverrun, Staged
  <2> QED
    BY <1>2, <2>2, <2>3, <2>4, <2>5, <2>6, <2>7, <2>8, <2>9, <2>10 DEF Layer
<1>3. ASSUME NEW r \in Request, Handler(r) PROVE Counted'
  BY <1>1, <1>3 DEF Handler, Connect, ConnectFail, SendBuffered, ForwardFail, Respond,
     SwitchProtocols, RefuseSwitch, Splice, Finish, StreamFrame, StreamOverrun
<1>4. ASSUME NEW r \in Request, Arrive(r) \/ Expire(r) \/ Disconnect(r) PROVE Counted'
  BY <1>1, <1>4 DEF Arrive, Expire, Disconnect
<1> QED
  BY <1>1, <1>2, <1>3, <1>4 DEF Next, Done, vars

\* What /metrics and the log report is what happened.
THEOREM CountersAgreeAlways == Spec => []CountersAgree
<1>1. Init => AllAnswered
  BY DEF Init, AllAnswered, Answered, Errors, HeadErrors
<1>2. Init => Counted
  <2> SUFFICES ASSUME Init PROVE Counted
      OBVIOUS
  <2>1. admitted = {} /\ Refused = {} /\ allowed = 0 /\ denied = 0
    BY DEF Init, Refused
  <2> QED
    BY <2>1, FS_EmptySet DEF Counted
<1>3. IInv /\ AllAnswered /\ Counted => CountersAgree
  BY DEF IInv, TypeOK, AllAnswered, Answered, Counted, CountersAgree, Refused
<1> QED
  BY <1>1, <1>2, <1>3, InitIInv, NextIInv, NextAnswered, NextCounted, PTL DEF Spec

-----------------------------------------------------------------------------

\* What a step may not do to a request that has its answer.
Settled(r) ==
    /\ answer[r] # "none" => answer'[r] = answer[r]
    /\ stage[r] \in {"closed", "spliced"} =>
          /\ upstream'[r] = upstream[r]
          /\ r \in contacted' => r \in contacted
          /\ r \in admitted' => r \in admitted

\* No step undoes an answer, nor sends the daemon more of an answered request.
LEMMA NextSettled == IInv /\ [Next]_vars => \A q \in Request: Settled(q)
<1> SUFFICES ASSUME IInv, [Next]_vars, NEW q \in Request PROVE Settled(q)
    OBVIOUS
<1>1. TypeOK /\ Staged(q)
  BY DEF IInv
<1> USE <1>1 DEF TypeOK, Staged, Settled
<1>2. CASE UNCHANGED <<answer, upstream, contacted, admitted>>
  BY <1>2
<1>3. ASSUME NEW r \in Request, Layer(r) PROVE Settled(q)
  <2>1. UNCHANGED <<upstream, contacted>>
    BY <1>3 DEF Layer, DenyHead, DenyDeclared, AdmitHead, BeginCollect, CollectError,
       AdmitBody, DenyBody, CollectFrame, CollectOverrun
  <2>2. answer[r] = "none" /\ stage[r] \in {"arrived", "collecting"}
    BY <1>3 DEF IInv, Layer, DenyHead, DenyDeclared, AdmitHead, BeginCollect, CollectError,
       AdmitBody, DenyBody, CollectFrame, CollectOverrun
  <2>3. \/ UNCHANGED <<answer, admitted>>
        \/ answer' = answer /\ admitted' = admitted \cup {r}
        \/ admitted' = admitted /\ \E e \in Answers: answer' = [answer EXCEPT ![r] = e]
    BY <1>3 DEF Layer, DenyHead, DenyDeclared, AdmitHead, BeginCollect, CollectError,
       AdmitBody, DenyBody, CollectFrame, CollectOverrun, Reject, Close, Admit, Answers,
       Errors, HeadErrors
  <2> QED
    BY <2>1, <2>2, <2>3
<1>4. ASSUME NEW r \in Request, Handler(r) PROVE Settled(q)
  <2>1. CASE Connect(r)
    BY <2>1 DEF Connect
  <2>2. CASE ConnectFail(r)
    BY <2>2 DEF ConnectFail, Close
  <2>3. CASE SendBuffered(r)
    BY <2>3 DEF SendBuffered, Sending
  <2>4. CASE ForwardFail(r)
    BY <2>4 DEF ForwardFail, Close
  <2>5. CASE Respond(r)
    BY <2>5 DEF Respond
  <2>6. CASE SwitchProtocols(r)
    BY <1>2, <2>6 DEF SwitchProtocols
  <2>7. CASE RefuseSwitch(r)
    BY <2>7 DEF RefuseSwitch, Close
  <2>8. CASE Splice(r)
    BY <2>8 DEF Splice
  <2>9. CASE Finish(r)
    BY <2>9 DEF Finish, Close
  <2>10. ASSUME NEW f \in Frame, StreamFrame(r, f) PROVE Settled(q)
    BY <2>10 DEF StreamFrame, Sending
  <2>11. ASSUME NEW f \in Frame, StreamOverrun(r, f) PROVE Settled(q)
    BY <2>11 DEF StreamOverrun, Close
  <2> QED
    BY <1>4, <2>1, <2>2, <2>3, <2>4, <2>5, <2>6, <2>7, <2>8, <2>9, <2>10, <2>11
       DEF Handler
<1>5. ASSUME NEW r \in Request, Arrive(r) \/ Expire(r) \/ Disconnect(r) PROVE Settled(q)
  BY <1>2, <1>5 DEF Arrive, Expire, Disconnect, Close, Pending
<1> QED
  BY <1>2, <1>3, <1>4, <1>5 DEF Next, Done, vars

\* An answer is final, and nothing of an answered request follows it upstream.
THEOREM AnswersFinal == Spec => NothingAfterTheAnswer
<1>1. IInv /\ [Next]_vars =>
        [\A r \in Request:
            /\ answer[r] # "none" => answer'[r] = answer[r]
            /\ stage[r] \in {"closed", "spliced"} =>
                  /\ upstream'[r] = upstream[r]
                  /\ r \in contacted' => r \in contacted
                  /\ r \in admitted' => r \in admitted]_vars
  BY NextSettled DEF Settled
<1> QED
  BY <1>1, InitIInv, NextIInv, PTL DEF Spec, NothingAfterTheAnswer

-----------------------------------------------------------------------------

\* The policy's demand on a request never changes.
LEMMA DemandFixed == ASSUME UNCHANGED asked PROVE Demand' = Demand
BY DEF Demand, Rule

\* A step that moves no byte, reaches no daemon, and changes neither who is
\* admitted nor which of the others are closed, is none to the monitor.
LEMMA Unnoticed ==
    ASSUME UNCHANGED <<asked, admitted, contacted, upstream>>,
           \A r \in Request: r \in admitted => collected'[r] = collected[r],
           \A r \in Request: r \notin admitted =>
              (stage'[r] = "closed" <=> stage[r] = "closed")
    PROVE  UNCHANGED Monitor!vars
<1>1. Demand' = Demand
  BY DemandFixed
<1>2. Verdict' = Verdict
  BY DEF Verdict
<1>3. VettedBody' = VettedBody
  BY DEF VettedBody
<1> QED
  BY <1>1, <1>2, <1>3 DEF Monitor!vars

\* Closing a request that was not let through refuses it; closing any other is
\* no step of the monitor.
LEMMA Closing ==
    ASSUME IInv, NEW r \in Request, stage[r] # "closed",
           stage' = [stage EXCEPT ![r] = "closed"],
           UNCHANGED <<asked, collected, upstream, contacted, admitted>>
    PROVE  Monitor!Refuse(r) \/ UNCHANGED Monitor!vars
<1>1. CASE r \in admitted
  <2>1. \A q \in Request: q \notin admitted =>
           (stage'[q] = "closed" <=> stage[q] = "closed")
    BY <1>1 DEF IInv, TypeOK
  <2> QED
    BY <2>1, Unnoticed
<1>2. CASE r \notin admitted
  <2>1. Demand' = Demand
    BY DemandFixed
  <2>2. Verdict' = [Verdict EXCEPT ![r] = "refused"] /\ Verdict[r] = "pending"
    BY <1>2 DEF Verdict, IInv, TypeOK
  <2>3. VettedBody' = VettedBody
    BY DEF VettedBody
  <2> QED
    BY <2>1, <2>2, <2>3 DEF Monitor!Refuse
<1> QED
  BY <1>1, <1>2

\* Letting a request through grants it, on the strength of what was collected.
LEMMA Granting ==
    ASSUME IInv, NEW r \in Request, Admit(r), r \notin admitted, stage[r] # "closed",
           UNCHANGED <<asked, collected, upstream, contacted>>,
           Rule(r) \notin HeadErrors,
           Rule(r) = "ContainerCreate" => collected[r] \in SafeBody
    PROVE  Monitor!Grant(r)
<1>1. Demand' = Demand /\ Demand[r] # "refusal"
      /\ (Demand[r] = "inspection" => Rule(r) = "ContainerCreate")
  BY DemandFixed, RuleKind DEF Demand, IInv, HeadErrors
<1>2. Verdict' = [Verdict EXCEPT ![r] = "granted"] /\ Verdict[r] = "pending"
  BY DEF Verdict, IInv, TypeOK, Admit
<1>3. VettedBody' = [VettedBody EXCEPT ![r] = collected[r]]
      /\ VettedBody'[r] = collected[r] /\ collected[r] \in Seq(Byte)
  BY DEF VettedBody, Admit, IInv, TypeOK
<1> QED
  BY <1>1, <1>2, <1>3 DEF Monitor!Grant

\* Sending more of an admitted request's body delivers it.
LEMMA Delivering ==
    ASSUME IInv, NEW r \in Request, r \in contacted, NEW b \in Seq(Byte),
           upstream' = [upstream EXCEPT ![r] = b],
           Len(upstream[r]) <= Len(b), Len(b) <= MaxBodyBytes,
           SubSeq(b, 1, Len(upstream[r])) = upstream[r],
           Rule(r) = "ContainerCreate" => b = collected[r],
           UNCHANGED <<stage, asked, collected, contacted, admitted>>
    PROVE  Monitor!Deliver(r)
<1>1. Demand' = Demand /\ (Demand[r] = "inspection" => Rule(r) = "ContainerCreate")
  BY DemandFixed, RuleKind DEF Demand, IInv, HeadErrors
<1>2. Verdict' = Verdict /\ VettedBody' = VettedBody
  BY DEF Verdict, VettedBody
<1>3. r \in admitted /\ VettedBody[r] = collected[r]
  BY DEF IInv, Bytes, VettedBody
<1>4. upstream'[r] = b
  BY DEF IInv, TypeOK
<1> QED
  BY <1>1, <1>2, <1>3, <1>4 DEF Monitor!Deliver

\* What a body was extended from is its prefix.
LEMMA PrefixOfConcat ==
    ASSUME NEW b \in Seq(Byte), NEW f \in Seq(Byte)
    PROVE  SubSeq(b \o f, 1, Len(b)) = b
OBVIOUS

\* Every step of the pipeline is a step of the monitor, or none.
LEMMA NextMonitored == IInv /\ [Next]_vars => [Monitor!Next]_(Monitor!vars)
<1> SUFFICES ASSUME IInv, [Next]_vars
             PROVE  (\E r \in Request: Monitor!Grant(r) \/ Monitor!Refuse(r)
                        \/ Monitor!Reach(r) \/ Monitor!Deliver(r))
                    \/ UNCHANGED Monitor!vars
    BY DEF Monitor!Next
<1> DEFINE Same(r) == /\ UNCHANGED <<asked, collected, upstream, contacted, admitted>>
                      /\ stage[r] # "closed"
                      /\ \E t \in Stages: stage' = [stage EXCEPT ![r] = t]
<1>1. TypeOK
  BY DEF IInv
<1>2. CASE UNCHANGED vars
  BY <1>2, Unnoticed DEF vars
<1>3. ASSUME NEW r \in Request, Same(r)
      PROVE  Monitor!Refuse(r) \/ UNCHANGED Monitor!vars
  <2>1. PICK t \in Stages: stage' = [stage EXCEPT ![r] = t]
    BY <1>3
  <2>2. CASE t = "closed"
    BY <1>3, <2>1, <2>2, Closing
  <2>3. CASE t # "closed"
    <3>1. \A q \in Request: stage'[q] = "closed" <=> stage[q] = "closed"
      BY <1>1, <1>3, <2>1, <2>3 DEF TypeOK
    <3> QED
      BY <1>3, <3>1, Unnoticed
  <2> QED
    BY <2>2, <2>3
<1>4. ASSUME NEW r \in Request, Arrive(r) PROVE Same(r)
  BY <1>4 DEF Arrive, Stages
<1>5. ASSUME NEW r \in Request, Layer(r)
      PROVE  Monitor!Grant(r) \/ Monitor!Refuse(r) \/ UNCHANGED Monitor!vars
  <2>1. r \notin admitted /\ stage[r] # "closed"
    BY <1>5 DEF IInv, Staged, Layer, DenyHead, DenyDeclared, AdmitHead, BeginCollect,
       CollectError, AdmitBody, DenyBody, CollectFrame, CollectOverrun
  <2>2. ASSUME NEW e, Reject(r, e), UNCHANGED <<asked, collected, upstream, contacted>>
        PROVE  Same(r)
    BY <2>1, <2>2 DEF Reject, Close, Stages
  <2>3. CASE DenyHead(r) \/ DenyDeclared(r) \/ CollectError(r) \/ DenyBody(r)
    BY <1>3, <2>2, <2>3 DEF DenyHead, DenyDeclared, CollectError, DenyBody
  <2>4. CASE AdmitHead(r)
    BY <2>1, <2>4, Granting DEF AdmitHead, HeadErrors
  <2>5. CASE AdmitBody(r)
    BY <2>1, <2>5, Granting DEF AdmitBody, HeadErrors, IInv, Staged
  <2>6. CASE BeginCollect(r)
    BY <1>3, <2>1, <2>6 DEF BeginCollect, Stages
  <2>7. ASSUME NEW f \in Frame, CollectFrame(r, f) PROVE UNCHANGED Monitor!vars
    <3>1. \A q \in Request: q \in admitted => collected'[q] = collected[q]
      BY <1>1, <2>1, <2>7 DEF CollectFrame, TypeOK
    <3> QED
      BY <2>7, <3>1, Unnoticed DEF CollectFrame
  <2>8. ASSUME NEW f \in Frame, CollectOverrun(r, f) PROVE Same(r)
    BY <2>2, <2>8 DEF CollectOverrun
  <2> QED
    BY <1>3, <1>5, <2>3, <2>4, <2>5, <2>6, <2>7, <2>8 DEF Layer
<1>6. ASSUME NEW r \in Request, Handler(r)
      PROVE  Monitor!Refuse(r) \/ Monitor!Reach(r) \/ Monitor!Deliver(r)
             \/ UNCHANGED Monitor!vars
  <2> USE DEF Stages
  <2>1. CASE Connect(r)
    <3>1. r \in admitted /\ Demand' = Demand /\ VettedBody' = VettedBody
      BY <2>1, DemandFixed DEF Connect, IInv, Staged, VettedBody
    <3>2. Verdict' = Verdict
      BY <1>1, <2>1 DEF Connect, Verdict, TypeOK
    <3> QED
      BY <2>1, <3>1, <3>2 DEF Connect, Verdict, Monitor!Reach
  <2>2. CASE ConnectFail(r) \/ ForwardFail(r) \/ Respond(r) \/ SwitchProtocols(r)
             \/ RefuseSwitch(r) \/ Splice(r) \/ Finish(r)
    <3>1. Same(r)
      BY <2>2 DEF ConnectFail, ForwardFail, Respond, SwitchProtocols, RefuseSwitch,
         Splice, Finish, Close, Sending
    <3> QED
      BY <1>3, <3>1
  <2>3. CASE SendBuffered(r)
    <3>1. collected[r] \in Seq(Byte) /\ r \in contacted /\ Len(collected[r]) <= MaxBodyBytes
      BY <1>1, <2>3 DEF SendBuffered, Sending, IInv, Staged, Bytes, TypeOK
    <3>2. Len(upstream[r]) <= Len(collected[r])
          /\ SubSeq(collected[r], 1, Len(upstream[r])) = upstream[r]
      BY <2>3, <3>1 DEF SendBuffered
    <3> QED
      BY <2>3, <3>1, <3>2, Delivering DEF SendBuffered
  <2>4. ASSUME NEW f \in Frame, StreamFrame(r, f) PROVE Monitor!Deliver(r)
    <3>1. upstream[r] \in Seq(Byte) /\ f \in Seq(Byte) /\ r \in contacted
      BY <1>1, <2>4, FrameType DEF StreamFrame, Sending, IInv, Staged, TypeOK
    <3>2. /\ upstream[r] \o f \in Seq(Byte)
          /\ Len(upstream[r]) <= Len(upstream[r] \o f)
          /\ Len(upstream[r] \o f) <= MaxBodyBytes
      BY <2>4, <3>1, FrameAppends, LimitType DEF StreamFrame, Fits
    <3>3. SubSeq(upstream[r] \o f, 1, Len(upstream[r])) = upstream[r]
      BY <3>1, PrefixOfConcat
    <3> QED
      BY <2>4, <3>1, <3>2, <3>3, Delivering DEF StreamFrame, Streams
  <2>5. ASSUME NEW f \in Frame, StreamOverrun(r, f) PROVE Same(r)
    BY <2>5 DEF StreamOverrun, Close, Sending
  <2> QED
    BY <1>3, <1>6, <2>1, <2>2, <2>3, <2>4, <2>5 DEF Handler
<1>7. ASSUME NEW r \in Request, Expire(r) \/ Disconnect(r) PROVE Same(r)
  BY <1>7 DEF Expire, Disconnect, Close, Pending, Stages
<1> QED
  BY <1>2, <1>3, <1>4, <1>5, <1>6, <1>7 DEF Next, Done

\* The pipeline implements the reference monitor.
THEOREM Implementation == Spec => Implements
<1>1. Init => Monitor!Init
  <2> SUFFICES ASSUME Init PROVE Monitor!Init
      OBVIOUS
  <2>1. TypeOK /\ \A r \in Request: Rule(r) \in {"None", "ContainerCreate"} \cup HeadErrors
    BY InitIInv, RuleKind DEF IInv
  <2>2. Demand \in [Request -> {"nothing", "inspection", "refusal"}]
    BY <2>1 DEF Demand
  <2> QED
    BY <2>2 DEF Init, Monitor!Init, Verdict, VettedBody
<1> QED
  BY <1>1, InitIInv, NextIInv, NextMonitored, PTL DEF Spec, Implements, Monitor!Spec
=============================================================================
