-------------------------- MODULE MCLocalIpDelivery --------------------------
(***************************************************************************)
(* Instances of LocalIpDelivery for TLC.                                   *)
(***************************************************************************)
EXTENDS LocalIpDelivery

CONSTANTS A, B, C, Server, k1, k2, n1, n2

Envelope(id, source, content, bytes, created, ttl) ==
    [message_id |-> id, source_peer_id |-> source, destination_peer_id |-> Server,
     content |-> content, payload_bytes |-> bytes,
     created_at_ms |-> created, ttl_ms |-> ttl]

AB == {A, B}
SharedSecrets == (A :> k1) @@ (B :> k2)
NoOffset == [p \in {A, B, Server} |-> 0]

(* Two peers use the id "m1", one peer uses two ids. *)
ReusedIds ==
    {Envelope("m1", A, "x", 30, 0, 9),
     Envelope("m1", B, "x", 30, 0, 9),
     Envelope("m2", A, "y", 30, 0, 9)}

(* Three ids against a cache of two, one of them also with other content. *)
ThreeIds ==
    {Envelope("m1", A, "x", 30, 0, 9),
     Envelope("m1", A, "y", 30, 0, 9),
     Envelope("m2", A, "x", 30, 0, 9),
     Envelope("m3", A, "x", 30, 0, 9)}

(* A's clock is one behind the server's.  Two messages expire at 3, the last   *)
(* instant, which A's clock does not reach.  B is provisioned with another      *)
(* secret than its adapter has, C not at all.  One message is for another       *)
(* server, one too big for this one.                                            *)
ABC == {A, B, C}
AdapterSecrets == (A :> k1) @@ (B :> k2) @@ (C :> k1)
ServerSecrets == (A :> k1) @@ (B :> k1)
ABehind == (A :> -1) @@ (B :> 0) @@ (C :> 0) @@ (Server :> 0)
Hurdles ==
    {Envelope("m1", A, "x", 30, 0, 3),
     Envelope("m2", B, "x", 30, 0, 3),
     Envelope("m3", C, "x", 30, 0, 9),
     [Envelope("m4", A, "x", 30, 0, 9) EXCEPT !.destination_peer_id = B],
     Envelope("m5", A, "x", 2049, 0, 9)}

(* Two messages of one peer and one whose frame is larger than an adapter with *)
(* these limits can frame, although its payload is within the payload limit.   *)
DefaultSized ==
    {Envelope("m1", A, "x", 30, 0, 9), Envelope("m2", A, "x", 196608, 0, 9)}

OneNonce == {n1}
TwoNonces == {n1, n2}
Symmetry == Permutations({n1, n2})
=============================================================================
