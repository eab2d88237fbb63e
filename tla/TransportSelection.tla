-------------------------- MODULE TransportSelection --------------------------
(***************************************************************************)
(* routing.py and emergency.py: the carrier a message is planned for.      *)
(* Carriers come and go; a call of either selector reads the offers of all *)
(* of them, in the order of Carriers, and returns a plan or raises.        *)
(***************************************************************************)
EXTENDS Integers, Sequences

CONSTANTS
    Carriers,       \* sequence of TransportOffers without availability, name a rank
    Envelopes       \* [payload_bytes, ack_required, public]

CONSTRAINED_KINDS == {"lora-p2p", "meshtastic", "lorawan"}
_OPEN_FALLBACK_KINDS == {"lora-p2p", "meshtastic", "lorawan"}
MAX_PUBLIC_EMERGENCY_PAYLOAD_BYTES == 384

ValidOffer(o) ==
    /\ {o.name, o.preference} \subseteq Nat
    /\ o.max_payload_bytes \in Nat \ {0}
    /\ {o.protected_path, o.supports_ack} \subseteq BOOLEAN

(* public: the envelope satisfies validate_public_beacon but for its size, that *)
(* is, its type, destination, priority, lifetime and hop limit.                 *)
ASSUME CarrierAssumption ==
    /\ Len(Carriers) \in Nat
    /\ \A i \in 1..Len(Carriers) : ValidOffer(Carriers[i])
    /\ \A e \in Envelopes :
          /\ e.payload_bytes \in Nat \ {0}
          /\ {e.ack_required, e.public} \subseteq BOOLEAN

VARIABLES
    available,  \* the carriers whose offer says available
    answer      \* the last call and its outcome: [call, env, option, offered, plan]

vars == <<available, answer>>

Indices == 1..Len(Carriers)

Init ==
    /\ available \in SUBSET Indices
    /\ answer = {}

(* Mutant of Precedes: the name decides before the preference. *)
PrecedesByName(i, j) ==
    \/ Carriers[i].name < Carriers[j].name
    \/ Carriers[i].name = Carriers[j].name /\ i <= j

(* min(..., key=(preference, name)) takes the first of equal offers. *)
Precedes(i, j) ==
    LET a == Carriers[i]
        b == Carriers[j]
    IN  \/ a.preference < b.preference
        \/ a.preference = b.preference /\ a.name < b.name
        \/ a.preference = b.preference /\ a.name = b.name /\ i <= j

(* Mutant of Eligible: carriers that are down are considered as well. *)
EligibleIfListed(e, offered, protectedOnly) ==
    {i \in offered :
        /\ e.payload_bytes <= Carriers[i].max_payload_bytes
        /\ protectedOnly => Carriers[i].protected_path
        /\ e.ack_required => Carriers[i].supports_ack}

(* Of the offered carriers, those that are up and can carry e. *)
Eligible(e, offered, protectedOnly) ==
    {i \in offered :
        /\ i \in available
        /\ e.payload_bytes <= Carriers[i].max_payload_bytes
        /\ protectedOnly => Carriers[i].protected_path
        /\ e.ack_required => Carriers[i].supports_ack}

(* TransportSelector.select: {} when it raises NoEligibleTransport. *)
Selected(e, offered, protectedOnly) ==
    LET eligible == Eligible(e, offered, protectedOnly)
    IN  {[carrier |-> i, degraded |-> Carriers[i].kind \in CONSTRAINED_KINDS] :
            i \in {k \in eligible : \A j \in eligible : Precedes(k, j)}}

Answered(call, e, option, plan) ==
    /\ answer' = {[call |-> call, env |-> e, option |-> option,
                   offered |-> available, plan |-> plan]}
    /\ UNCHANGED available

select(e, require_protected_path) ==
    Answered("select", e, require_protected_path,
             Selected(e, Indices, require_protected_path))

PublicBeacon(e) ==
    e.public /\ e.payload_bytes <= MAX_PUBLIC_EMERGENCY_PAYLOAD_BYTES

OpenRadio == {i \in Indices : Carriers[i].kind \in _OPEN_FALLBACK_KINDS}

(* Mutants of EmergencyPlan: open radio is tried on any carrier; the opt-in opens *)
(* the radio before the protected carriers were tried.                            *)
OpenOnAnyCarrier(e, allow) ==
    LET protected == Selected(e, Indices, TRUE)
    IN  IF protected # {} \/ ~allow THEN protected ELSE Selected(e, Indices, FALSE)
OpenFirst(e, allow) ==
    IF allow THEN Selected(e, OpenRadio, FALSE) ELSE Selected(e, Indices, TRUE)

EmergencyPlan(e, allow) ==
    LET protected == Selected(e, Indices, TRUE)
    IN  IF protected # {} \/ ~allow THEN protected ELSE Selected(e, OpenRadio, FALSE)

(* EmergencyFallbackPolicy.select *)
emergency_select(e, allow_unprotected_broadcast) ==
    Answered("emergency", e, allow_unprotected_broadcast,
             IF PublicBeacon(e) THEN EmergencyPlan(e, allow_unprotected_broadcast)
                                ELSE {})

(* A carrier comes up or goes down. *)
CarrierChanges(i) ==
    /\ available' = IF i \in available THEN available \ {i} ELSE available \cup {i}
    /\ UNCHANGED answer

Next ==
    \/ \E e \in Envelopes, option \in BOOLEAN :
          select(e, option) \/ emergency_select(e, option)
    \/ \E i \in Indices : CarrierChanges(i)

Spec == Init /\ [][Next]_vars
-----------------------------------------------------------------------------
Suits(i, a) ==
    /\ i \in a.offered
    /\ a.env.payload_bytes <= Carriers[i].max_payload_bytes
    /\ a.env.ack_required => Carriers[i].supports_ack

(* A call has one plan at most, for a carrier that was up and suits the message. *)
TypeOK ==
    /\ available \in SUBSET Indices
    /\ \A a \in answer : \A p, q \in a.plan : p = q /\ Suits(p.carrier, a)

(* Outside the public beacon nothing travels unprotected unless its caller said *)
(* so, and a beacon does only over constrained radio, marked as degraded, with  *)
(* the opt-in, and when no protected carrier that was up suits it.              *)
UnprotectedOnlyAsAllowed ==
    \A a \in answer : \A p \in a.plan :
        \/ Carriers[p.carrier].protected_path
        \/ a.call = "select" /\ ~a.option
        \/ /\ a.call = "emergency" /\ a.option /\ PublicBeacon(a.env)
           /\ p.degraded /\ p.carrier \in OpenRadio
           /\ \A i \in Indices : Suits(i, a) => ~Carriers[i].protected_path

(* An incident never loses a carrier to the emergency policy: what the ordinary *)
(* selector finds on a protected path, the policy answers for a beacon as well. *)
BeaconKeepsProtectedPath ==
    \A a \in answer :
        /\ a.call = "emergency" /\ PublicBeacon(a.env)
        /\ \E i \in Indices : Suits(i, a) /\ Carriers[i].protected_path
        => \E p \in a.plan : Carriers[p.carrier].protected_path

SameCall(a, b) == <<a.call, a.env, a.option>> = <<b.call, b.env, b.option>>

(* Over any history of carriers going up and down between two equal calls, a plan *)
(* leaves its carrier for one with the same protection only when its own carrier  *)
(* went down, or when one at least as preferred came up.                          *)
PlansMoveForAReason ==
    [][\A a \in answer, b \in answer' : SameCall(a, b) =>
          \A p \in a.plan, q \in b.plan :
              LET from == Carriers[p.carrier]
                  to == Carriers[q.carrier]
              IN  \/ from.protected_path # to.protected_path
                  \/ p.carrier = q.carrier
                  \/ p.carrier \notin b.offered
                  \/ q.carrier \notin a.offered /\ to.preference <= from.preference
      ]_vars
=============================================================================
