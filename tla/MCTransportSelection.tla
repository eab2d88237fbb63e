------------------------- MODULE MCTransportSelection -------------------------
(* Instance for TLC: protected and open IP, protected and open radio, a second *)
(* protected carrier of equal preference, and one that takes small payloads    *)
(* only; messages small and large, with and without acknowledgement, one of    *)
(* them a beacon too large for the public exception.                           *)
EXTENDS TransportSelection

Offer(name, kind, bytes, preference, protected, ack) ==
    [name |-> name, kind |-> kind, max_payload_bytes |-> bytes,
     preference |-> preference, protected_path |-> protected, supports_ack |-> ack]

MCCarriers ==
    <<Offer(3, "ip", 900, 1, FALSE, TRUE),
      Offer(2, "ip", 900, 2, TRUE, TRUE),
      Offer(1, "serial", 200, 2, TRUE, FALSE),
      Offer(5, "lorawan", 900, 1, FALSE, FALSE),
      Offer(4, "lora-p2p", 200, 3, FALSE, TRUE),
      Offer(0, "meshtastic", 200, 5, TRUE, TRUE)>>

Message(bytes, ack, public) ==
    [payload_bytes |-> bytes, ack_required |-> ack, public |-> public]

MCEnvelopes ==
    {Message(100, ack, public) : ack, public \in BOOLEAN}
        \cup {Message(384, FALSE, TRUE), Message(385, FALSE, TRUE)}
=============================================================================
