----------------------- MODULE TransportSelectionProofs -----------------------
(***************************************************************************)
(* What the two selectors promise, for every list of carriers.  The order  *)
(* Precedes has one least element in every non-empty set of carriers, so a *)
(* plan is determined by the set it was chosen from.                       *)
(***************************************************************************)
EXTENDS TransportSelection, WellFoundedInduction, TLAPS

(* The carriers of a set C that were offered to a call and suit it. *)
Fit(a, C, protectedOnly) ==
    {i \in C : Suits(i, a) /\ (protectedOnly => Carriers[i].protected_path)}

First(i, S) == i \in S /\ \A j \in S : Precedes(i, j)

PlanFor(i) == [carrier |-> i, degraded |-> Carriers[i].kind \in CONSTRAINED_KINDS]

(* What is right about an answer. *)
Shaped(a) ==
    /\ a.call \in {"select", "emergency"}
    /\ a.option \in BOOLEAN
    /\ a.offered \in SUBSET Indices
    /\ \A p \in a.plan : p = PlanFor(p.carrier)

OrdinaryPlan(a) ==
    a.call = "select" =>
        \A p \in a.plan : First(p.carrier, Fit(a, Indices, a.option))

EmergencyPlanRight(a) ==
    a.call = "emergency" =>
        /\ a.plan # {} => PublicBeacon(a.env)
        /\ \A p \in a.plan :
              \/ First(p.carrier, Fit(a, Indices, TRUE))
              \/ /\ First(p.carrier, Fit(a, OpenRadio, FALSE))
                 /\ a.option
                 /\ Fit(a, Indices, TRUE) = {}
        /\ PublicBeacon(a.env) /\ Fit(a, Indices, TRUE) # {} =>
              \E p \in a.plan : First(p.carrier, Fit(a, Indices, TRUE))

AnswerRight(a) == Shaped(a) /\ OrdinaryPlan(a) /\ EmergencyPlanRight(a)

SelectionInv ==
    /\ available \in SUBSET Indices
    /\ \A a \in answer : AnswerRight(a)
-----------------------------------------------------------------------------
(* Every non-empty set of natural numbers has a least element. *)
LEMMA LeastNumber ==
    ASSUME NEW S \in SUBSET Nat, S # {}
    PROVE  \E m \in S : \A k \in S : m <= k
<1> DEFINE Less == OpToRel(<, Nat)
<1>1. IsWellFoundedOn(Less, Nat)
  BY NatLessThanWellFounded
<1>2. \A x, y \in Nat : y < x => <<y, x>> \in Less
  BY DEF OpToRel
<1> HIDE DEF Less
<1>3. \E m \in S : \A k \in S : ~(<<k, m>> \in Less)
  BY <1>1, WFMin
<1>4. PICK m \in S : \A k \in S : ~(<<k, m>> \in Less)
  BY <1>3
<1>5. ASSUME NEW k \in S PROVE m <= k
  <2>1. ~(k < m)
    BY <1>2, <1>4
  <2> QED
    BY <2>1
<1> QED
  BY <1>5

LEMMA CarrierFields ==
    \A i \in Indices : /\ i \in Nat
                       /\ Carriers[i].name \in Nat
                       /\ Carriers[i].preference \in Nat
  BY CarrierAssumption DEF ValidOffer, Indices

(* Two first carriers of a set are the same. *)
LEMMA FirstIsUnique ==
    ASSUME NEW S \in SUBSET Indices, NEW i, NEW j, First(i, S), First(j, S)
    PROVE  i = j
  BY CarrierFields DEF First, Precedes

(* A set of carriers has a first one, by preference, name and place. *)
LEMMA FirstExists ==
    ASSUME NEW S \in SUBSET Indices, S # {}
    PROVE  \E i \in S : First(i, S)
<1> DEFINE Preferences == {Carriers[i].preference : i \in S}
<1>1. PICK pref \in Preferences : \A k \in Preferences : pref <= k
  <2>1. Preferences \in SUBSET Nat /\ Preferences # {}
    BY CarrierFields
  <2> HIDE DEF Preferences
  <2> QED
    BY <2>1, LeastNumber
<1> DEFINE Preferred == {i \in S : Carriers[i].preference = pref}
           Names == {Carriers[i].name : i \in Preferred}
<1>2. PICK name \in Names : \A k \in Names : name <= k
  <2>1. Names \in SUBSET Nat /\ Names # {}
    BY CarrierFields
  <2> HIDE DEF Names
  <2> QED
    BY <2>1, LeastNumber
<1> DEFINE Named == {i \in Preferred : Carriers[i].name = name}
<1>3. PICK i \in Named : \A k \in Named : i <= k
  <2>1. Named \in SUBSET Nat /\ Named # {}
    BY CarrierFields
  <2> HIDE DEF Named
  <2> QED
    BY <2>1, LeastNumber
<1>4. ASSUME NEW j \in S PROVE Precedes(i, j)
  <2>1. /\ Carriers[i].preference = pref /\ Carriers[i].name = name /\ i \in S
        /\ Carriers[j].preference \in Preferences
    BY <1>3
  <2>2. pref <= Carriers[j].preference
    BY <1>1, <2>1
  <2>3. CASE Carriers[j].preference = pref
    <3>1. Carriers[j].name \in Names
      BY <2>3
    <3>2. name <= Carriers[j].name
      BY <1>2, <3>1
    <3>3. Carriers[j].name = name => i <= j
      BY <1>3, <2>3
    <3> QED
      BY <2>1, <2>3, <3>2, <3>3, CarrierFields DEF Precedes
  <2>4. CASE Carriers[j].preference # pref
    BY <2>1, <2>2, <2>4, CarrierFields DEF Precedes
  <2> QED
    BY <2>3, <2>4
<1> QED
  BY <1>3, <1>4 DEF First

(* What a selector answers from the offers of the carriers in C. *)
LEMMA SelectedIsFirst ==
    ASSUME NEW a, a.offered = available, NEW C \in SUBSET Indices,
           NEW protectedOnly \in BOOLEAN
    PROVE  /\ Selected(a.env, C, protectedOnly) =
                  {PlanFor(i) : i \in {k \in C : First(k, Fit(a, C, protectedOnly))}}
           /\ Fit(a, C, protectedOnly) # {} <=> Selected(a.env, C, protectedOnly) # {}
<1>1. Eligible(a.env, C, protectedOnly) = Fit(a, C, protectedOnly)
  BY DEF Eligible, Fit, Suits
<1>2. Selected(a.env, C, protectedOnly) =
          {PlanFor(i) : i \in {k \in C : First(k, Fit(a, C, protectedOnly))}}
  BY <1>1 DEF Selected, PlanFor, First, Fit
<1>3. ASSUME Fit(a, C, protectedOnly) # {}
      PROVE  Selected(a.env, C, protectedOnly) # {}
  <2>1. Fit(a, C, protectedOnly) \in SUBSET Indices
    BY DEF Fit
  <2>2. PICK i \in Fit(a, C, protectedOnly) : First(i, Fit(a, C, protectedOnly))
    BY <1>3, <2>1, FirstExists
  <2>3. i \in C
    BY DEF Fit
  <2> QED
    BY <1>2, <2>2, <2>3
<1>4. ASSUME Selected(a.env, C, protectedOnly) # {}
      PROVE  Fit(a, C, protectedOnly) # {}
  BY <1>2, <1>4 DEF First
<1> QED
  BY <1>2, <1>3, <1>4

(* A plan names its carrier, and plans made for the first of a set name it. *)
LEMMA PlanFields ==
    \A i : PlanFor(i).carrier = i /\ PlanFor(i).degraded = (Carriers[i].kind \in CONSTRAINED_KINDS)
  BY DEF PlanFor

LEMMA PlansOfFirst ==
    ASSUME NEW C, NEW F
    PROVE  \A p \in {PlanFor(i) : i \in {k \in C : First(k, F)}} :
              p = PlanFor(p.carrier) /\ First(p.carrier, F)
  BY PlanFields

LEMMA OpenRadioIndices == OpenRadio \in SUBSET Indices
  BY DEF OpenRadio

LEMMA SelectAnswers ==
    ASSUME SelectionInv, NEW e \in Envelopes, NEW option \in BOOLEAN, select(e, option)
    PROVE  SelectionInv'
<1> DEFINE a == [call |-> "select", env |-> e, option |-> option,
                 offered |-> available, plan |-> Selected(e, Indices, option)]
<1>1. answer' = {a} /\ available' = available
  BY DEF select, Answered
<1>2. /\ a.call = "select" /\ a.env = e /\ a.option = option
      /\ a.offered = available /\ a.plan = Selected(e, Indices, option)
  OBVIOUS
<1> HIDE DEF a
<1>3. a.plan = {PlanFor(i) : i \in {k \in Indices : First(k, Fit(a, Indices, option))}}
  BY <1>2, SelectedIsFirst
<1>4. \A p \in a.plan : p = PlanFor(p.carrier) /\ First(p.carrier, Fit(a, Indices, option))
  BY <1>3, PlansOfFirst
<1>5. AnswerRight(a)
  BY <1>2, <1>4 DEF AnswerRight, Shaped, OrdinaryPlan, EmergencyPlanRight, SelectionInv
<1> QED
  BY <1>1, <1>5 DEF SelectionInv, AnswerRight, Shaped, OrdinaryPlan, EmergencyPlanRight,
                    Fit, First, Suits

LEMMA EmergencyAnswers ==
    ASSUME SelectionInv, NEW e \in Envelopes, NEW option \in BOOLEAN,
           emergency_select(e, option)
    PROVE  SelectionInv'
<1> DEFINE a == [call |-> "emergency", env |-> e, option |-> option,
                 offered |-> available,
                 plan |-> IF PublicBeacon(e) THEN EmergencyPlan(e, option) ELSE {}]
           protected == Selected(e, Indices, TRUE)
           open == Selected(e, OpenRadio, FALSE)
<1>1. answer' = {a} /\ available' = available
  BY DEF emergency_select, Answered
<1>2. /\ a.call = "emergency" /\ a.env = e /\ a.option = option
      /\ a.offered = available
      /\ PublicBeacon(e) => a.plan = IF protected # {} \/ ~option THEN protected ELSE open
      /\ ~PublicBeacon(e) => a.plan = {}
  BY DEF EmergencyPlan
<1> HIDE DEF a, protected, open
<1>3. /\ protected = {PlanFor(i) : i \in {k \in Indices : First(k, Fit(a, Indices, TRUE))}}
      /\ Fit(a, Indices, TRUE) # {} <=> protected # {}
  BY <1>2, SelectedIsFirst DEF protected
<1>4. open = {PlanFor(i) : i \in {k \in OpenRadio : First(k, Fit(a, OpenRadio, FALSE))}}
  BY <1>2, SelectedIsFirst, OpenRadioIndices DEF open
<1>5. \A p \in protected : p = PlanFor(p.carrier) /\ First(p.carrier, Fit(a, Indices, TRUE))
  BY <1>3, PlansOfFirst
<1>6. \A p \in open : p = PlanFor(p.carrier) /\ First(p.carrier, Fit(a, OpenRadio, FALSE))
  BY <1>4, PlansOfFirst
<1>7. Shaped(a)
  BY <1>2, <1>5, <1>6 DEF Shaped, SelectionInv
<1>8. OrdinaryPlan(a)
  BY <1>2 DEF OrdinaryPlan
<1>9. EmergencyPlanRight(a)
  BY <1>2, <1>3, <1>5, <1>6 DEF EmergencyPlanRight
<1>10. AnswerRight(a)
  BY <1>7, <1>8, <1>9 DEF AnswerRight
<1> QED
  BY <1>1, <1>10 DEF SelectionInv

LEMMA NextSelectionInv == SelectionInv /\ [Next]_vars => SelectionInv'
<1> SUFFICES ASSUME SelectionInv, [Next]_vars PROVE SelectionInv'
  OBVIOUS
<1>1. ASSUME NEW e \in Envelopes, NEW option \in BOOLEAN, select(e, option)
      PROVE  SelectionInv'
  BY <1>1, SelectAnswers
<1>2. ASSUME NEW e \in Envelopes, NEW option \in BOOLEAN, emergency_select(e, option)
      PROVE  SelectionInv'
  BY <1>2, EmergencyAnswers
<1>3. ASSUME NEW i \in Indices, CarrierChanges(i) PROVE SelectionInv'
  BY <1>3 DEF CarrierChanges, SelectionInv
<1>4. CASE UNCHANGED vars
  BY <1>4 DEF vars, SelectionInv
<1> QED
  BY <1>1, <1>2, <1>3, <1>4 DEF Next

(* Every answer is right, for every list of carriers. *)
THEOREM AnswersRight == Spec => []SelectionInv
<1>1. Init => SelectionInv
  BY DEF Init, SelectionInv
<1> QED
  BY <1>1, NextSelectionInv, PTL DEF Spec
-----------------------------------------------------------------------------
(* A protected plan of the emergency policy is the ordinary one. *)
LEMMA ProtectedPlan ==
    ASSUME NEW a, AnswerRight(a), a.call = "emergency", NEW p \in a.plan,
           Carriers[p.carrier].protected_path
    PROVE  First(p.carrier, Fit(a, Indices, TRUE))
  BY OpenRadioIndices DEF AnswerRight, EmergencyPlanRight, First, Fit

LEMMA OpenPlan ==
    ASSUME NEW a, AnswerRight(a), a.call = "emergency", NEW p \in a.plan,
           ~Carriers[p.carrier].protected_path
    PROVE  /\ First(p.carrier, Fit(a, OpenRadio, FALSE))
           /\ a.option
           /\ Fit(a, Indices, TRUE) = {}
  BY DEF AnswerRight, EmergencyPlanRight, First, Fit

(* The set a plan was chosen from. *)
LEMMA PlanIsFirst ==
    ASSUME NEW a, AnswerRight(a), NEW p \in a.plan
    PROVE  \E C \in SUBSET Indices, protectedOnly \in BOOLEAN :
              First(p.carrier, Fit(a, C, protectedOnly))
<1>1. a.call = "select" \/ a.call = "emergency"
  BY DEF AnswerRight, Shaped
<1>2. a.option \in BOOLEAN
  BY DEF AnswerRight, Shaped
<1> QED
  BY <1>1, <1>2, OpenRadioIndices DEF AnswerRight, OrdinaryPlan, EmergencyPlanRight

(* An answer has one plan. *)
LEMMA OnePlan ==
    ASSUME NEW a, AnswerRight(a), NEW p \in a.plan, NEW q \in a.plan
    PROVE  p = q
<1>1. \A C \in SUBSET Indices : \A protectedOnly : Fit(a, C, protectedOnly) \in SUBSET Indices
  BY DEF Fit
<1>2. p.carrier = q.carrier
  <2>1. CASE a.call = "select"
    <3>1. /\ First(p.carrier, Fit(a, Indices, a.option))
          /\ First(q.carrier, Fit(a, Indices, a.option))
      BY <2>1 DEF AnswerRight, OrdinaryPlan
    <3> QED
      BY <1>1, <3>1, FirstIsUnique
  <2>2. CASE a.call = "emergency" /\ Fit(a, Indices, TRUE) # {}
    <3>1. /\ First(p.carrier, Fit(a, Indices, TRUE))
          /\ First(q.carrier, Fit(a, Indices, TRUE))
      BY <2>2 DEF AnswerRight, EmergencyPlanRight
    <3> QED
      BY <1>1, <3>1, FirstIsUnique
  <2>3. CASE a.call = "emergency" /\ Fit(a, Indices, TRUE) = {}
    <3>1. /\ First(p.carrier, Fit(a, OpenRadio, FALSE))
          /\ First(q.carrier, Fit(a, OpenRadio, FALSE))
      BY <2>3 DEF AnswerRight, EmergencyPlanRight, First
    <3> QED
      BY <1>1, <3>1, FirstIsUnique, OpenRadioIndices
  <2> QED
    BY <2>1, <2>2, <2>3 DEF AnswerRight, Shaped
<1> QED
  BY <1>2 DEF AnswerRight, Shaped

(* One plan at most, for a carrier that was up and suits the message. *)
THEOREM TypeCorrect == Spec => []TypeOK
<1>1. SelectionInv => TypeOK
  <2> SUFFICES ASSUME SelectionInv PROVE TypeOK
    OBVIOUS
  <2>1. ASSUME NEW a \in answer, NEW p \in a.plan, NEW q \in a.plan
        PROVE  p = q /\ Suits(p.carrier, a)
    <3>1. AnswerRight(a)
      BY DEF SelectionInv
    <3>2. PICK C \in SUBSET Indices, protectedOnly \in BOOLEAN :
              First(p.carrier, Fit(a, C, protectedOnly))
      BY <3>1, PlanIsFirst
    <3> QED
      BY <3>1, <3>2, OnePlan DEF First, Fit
  <2> QED
    BY <2>1 DEF TypeOK, SelectionInv
<1> QED
  BY <1>1, AnswersRight, PTL

(* Nothing travels unprotected but as the caller or the policy allows. *)
THEOREM UnprotectedAsAllowed == Spec => []UnprotectedOnlyAsAllowed
<1>1. SelectionInv => UnprotectedOnlyAsAllowed
  <2> SUFFICES ASSUME SelectionInv, NEW a \in answer, NEW p \in a.plan,
                      ~Carriers[p.carrier].protected_path
               PROVE  \/ a.call = "select" /\ ~a.option
                      \/ /\ a.call = "emergency" /\ a.option /\ PublicBeacon(a.env)
                         /\ p.degraded /\ p.carrier \in OpenRadio
                         /\ \A i \in Indices : Suits(i, a) => ~Carriers[i].protected_path
    BY DEF UnprotectedOnlyAsAllowed
  <2>1. AnswerRight(a)
    BY DEF SelectionInv
  <2>2. CASE a.call = "select"
    BY <2>1, <2>2 DEF AnswerRight, OrdinaryPlan, First, Fit
  <2>3. CASE a.call = "emergency"
    <3>1. /\ First(p.carrier, Fit(a, OpenRadio, FALSE))
          /\ a.option
          /\ Fit(a, Indices, TRUE) = {}
      BY <2>1, <2>3, OpenPlan
    <3>2. p.carrier \in OpenRadio /\ PublicBeacon(a.env)
      BY <2>1, <2>3, <3>1 DEF First, Fit, AnswerRight, EmergencyPlanRight
    <3>3. p.degraded
      <4>1. p = PlanFor(p.carrier)
        BY <2>1 DEF AnswerRight, Shaped
      <4>2. Carriers[p.carrier].kind \in CONSTRAINED_KINDS
        BY <3>2 DEF OpenRadio, _OPEN_FALLBACK_KINDS, CONSTRAINED_KINDS
      <4>3. p.degraded = (Carriers[p.carrier].kind \in CONSTRAINED_KINDS)
        BY <4>1, PlanFields
      <4> QED
        BY <4>2, <4>3
    <3>4. \A i \in Indices : Suits(i, a) => ~Carriers[i].protected_path
      BY <3>1 DEF Fit
    <3> QED
      BY <2>3, <3>1, <3>2, <3>3, <3>4
  <2> QED
    BY <2>1, <2>2, <2>3 DEF AnswerRight, Shaped
<1> QED
  BY <1>1, AnswersRight, PTL

(* A beacon keeps the protected path the ordinary selector would find. *)
THEOREM BeaconKeepsPath == Spec => []BeaconKeepsProtectedPath
<1>1. SelectionInv => BeaconKeepsProtectedPath
  <2> SUFFICES ASSUME SelectionInv, NEW a \in answer,
                      a.call = "emergency", PublicBeacon(a.env),
                      NEW i \in Indices, Suits(i, a), Carriers[i].protected_path
               PROVE  \E p \in a.plan : Carriers[p.carrier].protected_path
    BY DEF BeaconKeepsProtectedPath
  <2>1. Fit(a, Indices, TRUE) # {}
    BY DEF Fit
  <2> QED
    BY <2>1 DEF SelectionInv, AnswerRight, EmergencyPlanRight, First, Fit
<1> QED
  BY <1>1, AnswersRight, PTL
-----------------------------------------------------------------------------
(* The set and the protection a plan was chosen under follow from the call and *)
(* from whether its carrier is protected.                                      *)
LEMMA PlanIsFirstOfItsKind ==
    ASSUME NEW a, AnswerRight(a)
    PROVE  \A p \in a.plan :
              \/ a.call = "select" /\ First(p.carrier, Fit(a, Indices, a.option))
              \/ /\ a.call = "emergency" /\ Carriers[p.carrier].protected_path
                 /\ First(p.carrier, Fit(a, Indices, TRUE))
              \/ /\ a.call = "emergency" /\ ~Carriers[p.carrier].protected_path
                 /\ First(p.carrier, Fit(a, OpenRadio, FALSE))
<1> SUFFICES ASSUME NEW p \in a.plan
             PROVE  \/ a.call = "select" /\ First(p.carrier, Fit(a, Indices, a.option))
                    \/ /\ a.call = "emergency" /\ Carriers[p.carrier].protected_path
                       /\ First(p.carrier, Fit(a, Indices, TRUE))
                    \/ /\ a.call = "emergency" /\ ~Carriers[p.carrier].protected_path
                       /\ First(p.carrier, Fit(a, OpenRadio, FALSE))
  OBVIOUS
<1>1. CASE a.call = "select"
  BY <1>1 DEF AnswerRight, OrdinaryPlan
<1>2. CASE a.call = "emergency" /\ Carriers[p.carrier].protected_path
  BY <1>2, ProtectedPlan
<1>3. CASE a.call = "emergency" /\ ~Carriers[p.carrier].protected_path
  BY <1>3, OpenPlan
<1> QED
  BY <1>1, <1>2, <1>3 DEF AnswerRight, Shaped

(* Of two calls with the same message that chose from the same carriers, the   *)
(* later one leaves the first one's carrier only when it went down, or for one *)
(* that came up.                                                               *)
LEMMA FirstMovesForAReason ==
    ASSUME NEW a, NEW b, a.env = b.env, NEW C \in SUBSET Indices, NEW protectedOnly,
           NEW i, NEW j, First(i, Fit(a, C, protectedOnly)),
           First(j, Fit(b, C, protectedOnly)), i # j, i \in b.offered
    PROVE  j \notin a.offered /\ Carriers[j].preference <= Carriers[i].preference
<1>1. i \in Indices /\ j \in Indices
  BY DEF First, Fit
<1>2. Precedes(j, i)
  BY DEF First, Fit, Suits
<1>3. j \in a.offered => Precedes(i, j)
  BY DEF First, Fit, Suits
<1>4. ~Precedes(i, j) /\ Carriers[j].preference <= Carriers[i].preference
  BY <1>1, <1>2, CarrierFields DEF Precedes
<1> QED
  BY <1>3, <1>4

(* A plan moves only when its carrier goes down or a better one comes up. *)
THEOREM PlansMoveRight == Spec => PlansMoveForAReason
<1>1. ASSUME NEW a, NEW b, AnswerRight(a), AnswerRight(b), SameCall(a, b),
             NEW p \in a.plan, NEW q \in b.plan,
             Carriers[p.carrier].protected_path = Carriers[q.carrier].protected_path,
             p.carrier # q.carrier, p.carrier \in b.offered
      PROVE  /\ q.carrier \notin a.offered
             /\ Carriers[q.carrier].preference <= Carriers[p.carrier].preference
  <2>1. a.call = b.call /\ a.env = b.env /\ a.option = b.option
    BY <1>1 DEF SameCall
  <2>2. /\ a.call = "select" => First(p.carrier, Fit(a, Indices, a.option))
        /\ a.call = "emergency" /\ Carriers[p.carrier].protected_path =>
              First(p.carrier, Fit(a, Indices, TRUE))
        /\ a.call = "emergency" /\ ~Carriers[p.carrier].protected_path =>
              First(p.carrier, Fit(a, OpenRadio, FALSE))
        /\ a.call \in {"select", "emergency"}
    BY <1>1, PlanIsFirstOfItsKind
  <2>3. /\ b.call = "select" => First(q.carrier, Fit(b, Indices, b.option))
        /\ b.call = "emergency" /\ Carriers[q.carrier].protected_path =>
              First(q.carrier, Fit(b, Indices, TRUE))
        /\ b.call = "emergency" /\ ~Carriers[q.carrier].protected_path =>
              First(q.carrier, Fit(b, OpenRadio, FALSE))
    BY <1>1, PlanIsFirstOfItsKind
  <2>4. CASE a.call = "select"
    <3>1. /\ First(p.carrier, Fit(a, Indices, a.option))
          /\ First(q.carrier, Fit(b, Indices, a.option))
      BY <2>1, <2>2, <2>3, <2>4
    <3> QED
      BY <1>1, <2>1, <3>1, FirstMovesForAReason
  <2>5. CASE a.call = "emergency" /\ Carriers[p.carrier].protected_path
    <3>1. /\ First(p.carrier, Fit(a, Indices, TRUE))
          /\ First(q.carrier, Fit(b, Indices, TRUE))
      BY <1>1, <2>1, <2>2, <2>3, <2>5
    <3> QED
      BY <1>1, <2>1, <3>1, FirstMovesForAReason
  <2>6. CASE a.call = "emergency" /\ ~Carriers[p.carrier].protected_path
    <3>1. /\ First(p.carrier, Fit(a, OpenRadio, FALSE))
          /\ First(q.carrier, Fit(b, OpenRadio, FALSE))
      BY <1>1, <2>1, <2>2, <2>3, <2>6
    <3> QED
      BY <1>1, <2>1, <3>1, FirstMovesForAReason, OpenRadioIndices
  <2> QED
    BY <2>2, <2>4, <2>5, <2>6
<1>2. (\A b \in answer : AnswerRight(b))' => \A b \in answer' : AnswerRight(b)
  BY DEF AnswerRight, Shaped, OrdinaryPlan, EmergencyPlanRight, Fit, First, Suits
<1>3. SelectionInv /\ SelectionInv' /\ [Next]_vars =>
         [\A a \in answer, b \in answer' : SameCall(a, b) =>
            \A p \in a.plan, q \in b.plan :
              LET from == Carriers[p.carrier]
                  to == Carriers[q.carrier]
              IN  \/ from.protected_path # to.protected_path
                  \/ p.carrier = q.carrier
                  \/ p.carrier \notin b.offered
                  \/ q.carrier \notin a.offered /\ to.preference <= from.preference]_vars
  BY <1>1, <1>2 DEF SelectionInv
<1> QED
  BY <1>3, AnswersRight, PTL DEF Spec, PlansMoveForAReason
=============================================================================
