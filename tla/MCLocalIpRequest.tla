-------------------------- MODULE MCLocalIpRequest --------------------------
(***************************************************************************)
(* Instances of LocalIpRequest for TLC.                                    *)
(***************************************************************************)
EXTENDS LocalIpRequest, MCLocalIpDelivery

Reply(accepted, bytes, detailBytes) ==
    [accepted |-> accepted, payload_bytes |-> bytes,
     detail_bytes |-> detailBytes, body |-> "receiver"]

(* Two contents of one id, one of which expires. *)
Requests == {Envelope("m1", A, "x", 30, 0, 9), Envelope("m1", A, "y", 30, 0, 1)}

NoOffsets == [p \in ABC \cup {Server} |-> 0]

(* 256 characters outside the basic plane, with the largest allowed payload. *)
LongDetail == {Reply(TRUE, 1533, 3072)}

(* An acceptance, a rejection the server sends but the adapter finds too large, *)
(* and a reply the server finds too large.                                      *)
OneOfEach == {Reply(TRUE, 9, 9), Reply(FALSE, 1200, 256), Reply(TRUE, 1534, 9)}

=============================================================================
