------------------------------ MODULE Mediation ------------------------------
(***************************************************************************)
(* What the proxy promises of every request, without a word on sockets,    *)
(* frames, timeouts or counters: a reference monitor between clients and   *)
(* the daemon.  A request is granted or refused once, and for good.  The   *)
(* daemon is reached only by a granted request, and is delivered no more   *)
(* than the limit of it, and, where the decision rested on the body,       *)
(* nothing but the body that was vetted, whole.                            *)
(*                                                                         *)
(* This is the contract stated at the top of middleware.rs and of          *)
(* proxy_handler; RequestPipeline implements it.                           *)
(***************************************************************************)
EXTENDS Naturals, Sequences

CONSTANTS
    Request,      \* the requests of a behaviour
    Byte,         \* what bodies are made of
    Acceptable,   \* the bodies that may be delivered after inspection
    Limit         \* the most that is delivered of a request

VARIABLES
    demand,       \* what the policy demands: nothing, inspection, or refusal
    verdict,      \* pending, granted or refused
    vetted,       \* the body that a grant rested on
    reached,      \* the requests the daemon has heard of
    delivered     \* the bytes of each body the daemon was sent

vars == <<demand, verdict, vetted, reached, delivered>>

Init ==
    /\ demand \in [Request -> {"nothing", "inspection", "refusal"}]
    /\ verdict = [r \in Request |-> "pending"]
    /\ vetted = [r \in Request |-> <<>>]
    /\ reached = {}
    /\ delivered = [r \in Request |-> <<>>]

\* A grant, on the strength of a body that is acceptable where inspection is
\* demanded.
Grant(r) ==
    /\ verdict[r] = "pending"
    /\ demand[r] # "refusal"
    /\ verdict' = [verdict EXCEPT ![r] = "granted"]
    /\ vetted'[r] \in Seq(Byte)
    /\ vetted' = [vetted EXCEPT ![r] = vetted'[r]]
    /\ demand[r] = "inspection" => vetted'[r] \in Acceptable
    /\ UNCHANGED <<demand, reached, delivered>>

\* A denial, or a request that is given up before a decision.
Refuse(r) ==
    /\ verdict[r] = "pending"
    /\ verdict' = [verdict EXCEPT ![r] = "refused"]
    /\ UNCHANGED <<demand, vetted, reached, delivered>>

Reach(r) ==
    /\ verdict[r] = "granted"
    /\ reached' = reached \cup {r}
    /\ UNCHANGED <<demand, verdict, vetted, delivered>>

\* The daemon is sent more of the body.
Deliver(r) ==
    /\ r \in reached
    /\ delivered'[r] \in Seq(Byte)
    /\ delivered' = [delivered EXCEPT ![r] = delivered'[r]]
    /\ Len(delivered[r]) <= Len(delivered'[r])
    /\ SubSeq(delivered'[r], 1, Len(delivered[r])) = delivered[r]
    /\ Len(delivered'[r]) <= Limit
    /\ demand[r] = "inspection" => delivered'[r] = vetted[r]
    /\ UNCHANGED <<demand, verdict, vetted, reached>>

Next == \E r \in Request: Grant(r) \/ Refuse(r) \/ Reach(r) \/ Deliver(r)

Spec == Init /\ [][Next]_vars
=============================================================================
