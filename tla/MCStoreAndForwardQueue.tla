------------------------ MODULE MCStoreAndForwardQueue ------------------------
(* Instance for TLC: messages that expire early, late and very late, one too *)
(* large, and clock readings before, between, at and after the expiries.     *)
EXTENDS StoreAndForwardQueue

Envelope(bytes, expiry) == [payload_bytes |-> bytes, expires_at_ms |-> expiry]

MCEnvelopes == {Envelope(1, 1), Envelope(1, 2), Envelope(1, 9), Envelope(5, 9)}
MCReadings == 0..2
=============================================================================
