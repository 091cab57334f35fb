----------------------------- MODULE HeaderRelay -----------------------------
(***************************************************************************)
(* The fields that cross the proxy (proxy_handler, switch_protocols).  A   *)
(* message has the names of its fields, in lower case as they are          *)
(* compared, and the options that its Connection field lists.              *)
(***************************************************************************)

HopByHop ==
    {"connection", "keep-alive", "proxy-authenticate", "proxy-authorization", "te",
     "trailer", "transfer-encoding", "upgrade"}

\* Mutant: the options of Connection are not looked at.
is_hop_by_hop_fixed(name, message) == name \in HopByHop

is_hop_by_hop(name, message) == name \in HopByHop \cup message.options

EndToEnd(message) == {name \in message.fields: ~is_hop_by_hop(name, message)}

\* An upgrade that is negotiated on this hop.
UpgradeHeld == [fields |-> {"connection", "upgrade"}, options |-> {"upgrade"}]
NoUpgrade   == [fields |-> {}, options |-> {}]

\* requested_upgrade: the Upgrade field alone is no offer.
Offers(request) == "upgrade" \in request.options /\ "upgrade" \in request.fields

\* What is sent upstream.  The transport supplies Host.
Upstream(request) ==
    LET hop == IF Offers(request) THEN UpgradeHeld ELSE NoUpgrade
    IN  [fields |-> (EndToEnd(request) \ {"host"}) \cup hop.fields, options |-> hop.options]

\* hyper holds the client's half of an upgrade for any request with the field, an
\* offer or not (client_upgrade).
HasClientHalf(request) == "upgrade" \in request.fields

Failure(status) == [status |-> status, fields |-> {}, options |-> {}]

\* Mutant: the upgrade is accepted without a client to splice.
DownstreamAlways(request, reply) ==
    LET hop == IF reply.status = 101 /\ "upgrade" \in reply.fields THEN UpgradeHeld ELSE NoUpgrade
    IN  [status |-> reply.status, fields |-> EndToEnd(reply) \cup hop.fields,
         options |-> hop.options]

\* What the client is answered, a 101 by switch_protocols.
Downstream(request, reply) ==
    LET hop == IF reply.status = 101 /\ "upgrade" \in reply.fields THEN UpgradeHeld ELSE NoUpgrade
    IN  IF reply.status = 101 /\ ~HasClientHalf(request) THEN Failure(502)
        ELSE [status |-> reply.status, fields |-> EndToEnd(reply) \cup hop.fields,
              options |-> hop.options]
=============================================================================
