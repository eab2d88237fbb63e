----------------------------- MODULE ReplayGuard -----------------------------
(***************************************************************************)
(* replay.py: the duplicate suppressor at the Communications boundary.     *)
(* accept(message_id) answers TRUE for a message to let through and FALSE  *)
(* for one it remembers; it remembers the Capacity ids used most recently, *)
(* and a suppressed duplicate counts as a use of its id.                   *)
(***************************************************************************)
EXTENDS RecencyOrder

CONSTANTS
    Ids,        \* message ids, all non-empty (accept raises on an empty one)
    Capacity    \* the constructor's capacity

ASSUME CapacityAssumption == Capacity \in Nat \ {0}

VARIABLES
    seen,       \* self._seen: the remembered ids, oldest first
    verdict,    \* what the last call returned: {} or {[id, fresh]}
    since       \* history: the ids used since each id was last used

vars == <<seen, verdict, since>>

Init ==
    /\ seen = <<>>
    /\ verdict = {}
    /\ since = <<>>

PositionsOf(m) == {i \in 1..Len(seen) : seen[i] = m}

(* Mutant of Refreshed: a duplicate leaves the order alone (first in, first out). *)
NotRefreshed(s, i) == s

(* The order after a duplicate at position i: it becomes the newest. *)
Refreshed(s, i) == MoveToEnd(s, i)

Suppress(m) ==
    /\ \E i \in PositionsOf(m) : seen' = Refreshed(seen, i)
    /\ verdict' = {[id |-> m, fresh |-> FALSE]}
    /\ since' = Touch(since, m)

LetThrough(m) ==
    /\ PositionsOf(m) = {}
    /\ seen' = KeepNewest(Append(seen, m), Capacity)
    /\ verdict' = {[id |-> m, fresh |-> TRUE]}
    /\ since' = Touch(since, m)

accept(m) == Suppress(m) \/ LetThrough(m)

Next == \E m \in Ids : accept(m)

Spec == Init /\ [][Next]_vars
-----------------------------------------------------------------------------
(* The state has its shape, and the memory never holds more than Capacity ids. *)
TypeOK ==
    /\ seen \in Seq(Ids)
    /\ Len(seen) <= Capacity
    /\ verdict \in SUBSET [id : Ids, fresh : BOOLEAN]
    /\ DOMAIN since \subseteq Ids
    /\ \A m \in DOMAIN since : since[m] \subseteq Ids

Recent(m) == UsedWithin(since, m, Capacity)

(* After any sequence of calls the guard remembers exactly the ids that were    *)
(* used with fewer than Capacity other ids used after them: nothing inside that *)
(* window is ever dropped, and nothing outside it is kept.                      *)
RemembersTheWindow == \A m \in Ids : m \in Range(seen) <=> Recent(m)

(* Every answer is the window's: a message is let through exactly when it was  *)
(* never used or has fallen out of the window.  A retry storm of Capacity - 1  *)
(* other ids cannot make a duplicate pass.                                     *)
SuppressesTheWindow ==
    [][\A v \in verdict' : v.fresh <=> ~Recent(v.id)]_vars
=============================================================================
