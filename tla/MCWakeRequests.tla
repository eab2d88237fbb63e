--------------------------- MODULE MCWakeRequests ---------------------------
(***************************************************************************)
(* WakeRequests on two nodes that make up to three envelopes, of requests  *)
(* that may share an id, and the instants around the ends of their lives.  *)
(***************************************************************************)
EXTENDS WakeRequests

Draft(id, node, severity, ttl, refBytes, summaryBytes) ==
    [request_id |-> id, source_peer_id |-> node, severity |-> severity,
     ttl_ms |-> ttl, ref_bytes |-> refBytes, summary_bytes |-> summaryBytes]

MCNodes == {"A", "B"}

(* The longest life and the largest payload, two ordinary ones to which two     *)
(* nodes give one id, a summary that is too long once escaped, and a lifetime   *)
(* that is too long.                                                            *)
MCDrafts ==
    {Draft("r1", "A", "emergency", 300000, 2584, 760),
     Draft("r2", "A", "attention", 2, 0, 0),
     Draft("r2", "B", "urgent", 2, 2584, 512),
     Draft("r4", "B", "urgent", 300000, 2584, 761),
     Draft("r5", "B", "urgent", 300001, 0, 0)}

MCOtherIds == {"m"}
MCLifetimes == {600000}
MCClaims == {"grants_execution"}
MCOffsets == ("A" :> 2 @@ "B" :> -1 @@ "supervisor" :> 0)
MCMoments == {1, 3, 300002, 300003}
=============================================================================
