-------------------------- MODULE ReplayGuardProofs --------------------------
(***************************************************************************)
(* ReplayGuard suppresses exactly the window of its Capacity most recently *)
(* used ids, for every set of ids and every capacity.                      *)
(***************************************************************************)
EXTENDS ReplayGuard, RecencyOrderProofs

(* The inductive invariant: the order of seen is the order of use. *)
IInv == TypeOK /\ Tracks(seen, since, Capacity)

LEMMA InitIInv == Init => IInv
<1> SUFFICES ASSUME Init PROVE IInv
  OBVIOUS
<1>1. TypeOK
  BY CapacityAssumption, EmptySeq DEF Init, TypeOK
<1>2. Tracks(<<>>, <<>>, Capacity)
  BY CapacityAssumption, TracksEmpty
<1> QED BY <1>1, <1>2 DEF Init, IInv

(* Using an id keeps the record of uses within the ids. *)
LEMMA TouchType ==
    ASSUME TypeOK, NEW m \in Ids, since' = Touch(since, m)
    PROVE  /\ DOMAIN since' \subseteq Ids
           /\ \A k \in DOMAIN since' : since'[k] \subseteq Ids
BY DEF TypeOK, Touch

LEMMA SuppressIInv ==
    ASSUME IInv, NEW m \in Ids, Suppress(m)
    PROVE  IInv'
<1>1. PICK i \in PositionsOf(m) : seen' = Refreshed(seen, i)
  BY DEF Suppress
<1>2. i \in 1..Len(seen) /\ seen[i] = m /\ seen \in Seq(Ids) /\ Len(seen) <= Capacity
  BY <1>1 DEF PositionsOf, IInv, TypeOK
<1>3. seen' = MoveToEnd(seen, i) /\ since' = Touch(since, seen[i])
  BY <1>1, <1>2 DEF Suppress, Refreshed
<1>4. seen' \in Seq(Ids) /\ Len(seen') = Len(seen)
  BY <1>2, <1>3, MoveToEndProperties
<1>5. TypeOK'
  BY <1>2, <1>4, TouchType DEF Suppress, IInv, TypeOK
<1>6. Tracks(seen', since', Capacity)
  BY <1>2, <1>3, TracksHit, CapacityAssumption DEF IInv
<1> QED BY <1>5, <1>6 DEF IInv

LEMMA LetThroughIInv ==
    ASSUME IInv, NEW m \in Ids, LetThrough(m)
    PROVE  IInv'
<1>1. /\ seen \in Seq(Ids)
      /\ Len(seen) <= Capacity
      /\ \A i \in 1..Len(seen) : seen[i] # m
      /\ seen' = Inserted(seen, m, Capacity)
      /\ since' = Touch(since, m)
  BY DEF LetThrough, PositionsOf, IInv, TypeOK, Inserted
<1>2. seen' \in Seq(Ids) /\ Len(seen') <= Capacity
  BY <1>1, InsertProperties, CapacityAssumption
<1>3. TypeOK'
  BY <1>2, TouchType DEF LetThrough, IInv, TypeOK
<1>4. Tracks(seen', since', Capacity)
  BY <1>1, TracksMiss, CapacityAssumption DEF IInv
<1> QED BY <1>3, <1>4 DEF IInv

LEMMA NextIInv == IInv /\ [Next]_vars => IInv'
<1> SUFFICES ASSUME IInv, [Next]_vars PROVE IInv'
  OBVIOUS
<1>1. CASE Next
  BY <1>1, SuppressIInv, LetThroughIInv DEF Next, accept
<1>2. CASE UNCHANGED vars
  BY <1>2 DEF vars, IInv, TypeOK, Tracks
<1> QED BY <1>1, <1>2

THEOREM Inductive == Spec => []IInv
BY InitIInv, NextIInv, PTL DEF Spec

(* The state of the guard keeps its shape, and its memory its bound. *)
THEOREM TypeCorrect == Spec => []TypeOK
<1>1. IInv => TypeOK
  BY DEF IInv
<1> QED BY <1>1, Inductive, PTL

(* The ids in seen, as TLC's Range and as its elements. *)
LEMMA SeenIsTheWindow ==
    ASSUME IInv, NEW m
    PROVE  (\E i \in 1..Len(seen) : seen[i] = m) <=> Recent(m)
BY TracksWindow, CapacityAssumption DEF IInv, TypeOK, Recent

(* After any sequence of calls the guard remembers exactly the ids inside the *)
(* window of recent use.                                                      *)
THEOREM WindowRemembered == Spec => []RemembersTheWindow
<1>1. ASSUME IInv PROVE RemembersTheWindow
  <2>1. Range(seen) = {seen[i] : i \in 1..Len(seen)}
    BY <1>1, RangeEquality DEF IInv, TypeOK
  <2> QED BY <1>1, <2>1, SeenIsTheWindow DEF RemembersTheWindow
<1>2. IInv => RemembersTheWindow
  BY <1>1
<1> QED BY <1>2, Inductive, PTL

(* Every call answers TRUE exactly for an id outside the window. *)
THEOREM WindowSuppressed == Spec => SuppressesTheWindow
<1>1. ASSUME IInv, [Next]_vars
      PROVE  [\A v \in verdict' : v.fresh <=> ~Recent(v.id)]_vars
  <2>1. CASE UNCHANGED vars
    BY <2>1
  <2>2. ASSUME NEW m \in Ids, Suppress(m)
        PROVE  \A v \in verdict' : v.fresh <=> ~Recent(v.id)
    <3>1. Recent(m)
      BY <1>1, <2>2, SeenIsTheWindow DEF Suppress, PositionsOf
    <3> QED BY <2>2, <3>1 DEF Suppress
  <2>3. ASSUME NEW m \in Ids, LetThrough(m)
        PROVE  \A v \in verdict' : v.fresh <=> ~Recent(v.id)
    <3>1. ~Recent(m)
      BY <1>1, <2>3, SeenIsTheWindow DEF LetThrough, PositionsOf
    <3> QED BY <2>3, <3>1 DEF LetThrough
  <2> QED BY <1>1, <2>1, <2>2, <2>3 DEF Next, accept
<1> QED BY <1>1, Inductive, PTL DEF Spec, SuppressesTheWindow
=============================================================================
