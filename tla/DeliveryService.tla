--------------------------- MODULE DeliveryService ---------------------------
(***************************************************************************)
(* What the local-IP carrier promises its callers, without connections,    *)
(* clocks, secrets or the order the memory is kept in.  Each message id is *)
(* decided by the receiver once for as long as the decision is remembered; *)
(* a full memory gives up one decision for a new one, and only a restart   *)
(* gives up more.  A report is the caller's only answer, and what it says  *)
(* of the receiver is true.                                                *)
(***************************************************************************)
EXTENDS Integers, FiniteSets

CONSTANTS
    Envelopes,      \* what callers may send
    ReplayCapacity  \* how many decisions the service remembers

VARIABLES
    decided,        \* every answer the receiver ever gave, [env, accepted]
    remembered,     \* the answers the service still knows
    reports         \* the answer given to a caller last: {} or {report}

vars == <<decided, remembered, reports>>

Init ==
    /\ decided = {}
    /\ remembered = {}
    /\ reports = {}

(* What a report says of the receiver has happened: acceptance and rejection *)
(* of this very envelope, and for a conflict the acceptance or rejection of  *)
(* another envelope under the same message id.                               *)
Justified(r) ==
    /\ r.accepted => r.acknowledged /\ r.detail = "accepted"
    /\ r.detail = "accepted" => [env |-> r.env, accepted |-> TRUE] \in decided
    /\ r.detail = "rejected" => [env |-> r.env, accepted |-> FALSE] \in decided
    /\ r.detail = "conflict" =>
          \E d \in decided :
              /\ d.env # r.env
              /\ d.env.message_id = r.env.message_id

Details == {"accepted", "rejected", "conflict", "refused",
            "failed", "expired", "frame limit"}

AnyReport ==
    [env : Envelopes, accepted : BOOLEAN, acknowledged : BOOLEAN, detail : Details]

Report ==
    /\ UNCHANGED <<decided, remembered>>
    /\ \E r \in AnyReport : reports' = {r} /\ Justified(r)

Decide ==
    \E e \in Envelopes, accepted \in BOOLEAN, lost \in SUBSET remembered :
        LET d == [env |-> e, accepted |-> accepted] IN
        /\ UNCHANGED reports
        /\ remembered' = (remembered \ lost) \cup {d}
        /\ decided' = decided \cup {d}
        /\ \A r \in remembered : r.env.message_id # e.message_id
        /\ Cardinality(lost) =
              IF Cardinality(remembered) < ReplayCapacity THEN 0 ELSE 1

Restart ==
    /\ remembered' = {}
    /\ UNCHANGED <<decided, reports>>

Next == Restart \/ Report \/ Decide

Spec == Init /\ [][Next]_vars
=============================================================================
