------------------------- MODULE StoreAndForwardQueue -------------------------
(***************************************************************************)
(* queueing.py: the bounded queue for messages to unreachable peers.  Each *)
(* call brings its own reading of the clock, which may have been set back  *)
(* since the call before.                                                  *)
(***************************************************************************)
EXTENDS Integers, SequencesExt

CONSTANTS
    Envelopes,          \* the V2VEnvelopes to queue: [payload_bytes, expires_at_ms]
    Capacity,           \* capacity and max_payload_bytes of the constructor
    MaxPayloadBytes,
    Readings,           \* the clock readings calls are made with
    MaxAccepted         \* bound: how many envelopes are ever queued

ASSUME QueueAssumption ==
    /\ Capacity \in Nat \ {0}
    /\ MaxPayloadBytes \in Nat \ {0}
    /\ Readings \subseteq Int
    /\ MaxAccepted \in Nat

VARIABLES
    items,      \* self._items, oldest first: [envelope, place]
    result,     \* how the last call ended: [call, at_ms]
    accepted,   \* history: the envelopes queued, in order; an item's place is its own
    handed,     \* history: what pop_next returned, in order: [place, at_ms]
    readings    \* history: the readings calls were made with

vars == <<items, result, accepted, handed, readings>>

Init ==
    /\ items = <<>>
    /\ result = [call |-> "created", at_ms |-> 0]
    /\ accepted = <<>>
    /\ handed = <<>>
    /\ readings = {}

IsExpired(e, t) == t >= e.expires_at_ms

(* Mutant of Unexpired: drops what was queued before an expired item as well. *)
AfterLastExpired(s, t) ==
    LET expired == {i \in 1..Len(s) : IsExpired(s[i].envelope, t)}
    IN  IF expired = {} THEN s ELSE SubSeq(s, Max(expired) + 1, Len(s))

(* What prune leaves: the items not expired, in their order. *)
Unexpired(s, t) ==
    LET kept[n \in 0..Len(s)] ==
            IF n = 0 THEN <<>>
            ELSE IF IsExpired(s[n].envelope, t) THEN kept[n - 1]
                                                ELSE Append(kept[n - 1], s[n])
    IN  kept[Len(s)]

(* Mutant of HasRoom: one item more than the capacity. *)
HasRoomForOneMore(s) == Len(s) <= Capacity

HasRoom(s) == Len(s) < Capacity

Call(name, t) ==
    /\ result' = [call |-> name, at_ms |-> t]
    /\ readings' = readings \cup {t}

(* A call that only prunes. *)
Keeps(t, outcome) ==
    /\ items' = Unexpired(items, t)
    /\ Call(outcome, t)
    /\ UNCHANGED <<accepted, handed>>

prune(t) == Keeps(t, "prune")

Admissible(e, t) == ~IsExpired(e, t) /\ e.payload_bytes <= MaxPayloadBytes

(* ValueError: expired or too large. *)
EnqueueRefused(e, t) == ~Admissible(e, t) /\ Keeps(t, "refused")

(* Mutant of EnqueueFull: the queue is measured before it is pruned. *)
EnqueueFullUnpruned(e, t) == Admissible(e, t) /\ ~HasRoom(items) /\ Keeps(t, "full")

(* OverflowError *)
EnqueueFull(e, t) ==
    /\ Admissible(e, t)
    /\ ~HasRoom(Unexpired(items, t))
    /\ Keeps(t, "full")

enqueue(e, t) ==
    /\ Admissible(e, t)
    /\ HasRoom(Unexpired(items, t))
    /\ Len(accepted) < MaxAccepted
    /\ items' = Append(Unexpired(items, t),
                       [envelope |-> e, place |-> Len(accepted) + 1])
    /\ accepted' = Append(accepted, e)
    /\ Call("enqueue", t)
    /\ UNCHANGED handed

HandsOver(queue, t) ==
    /\ queue # <<>>
    /\ items' = Tail(queue)
    /\ handed' = Append(handed, [place |-> Head(queue).place, at_ms |-> t])
    /\ Call("pop_next", t)
    /\ UNCHANGED accepted

(* Mutant of pop_next: nothing is pruned first. *)
PopUnpruned(t) == HandsOver(items, t)

pop_next(t) == HandsOver(Unexpired(items, t), t)

(* pop_next returns None. *)
PopNone(t) == Unexpired(items, t) = <<>> /\ Keeps(t, "none")

Next ==
    \E t \in Readings :
        \/ prune(t)
        \/ pop_next(t)
        \/ PopNone(t)
        \/ \E e \in Envelopes :
              enqueue(e, t) \/ EnqueueRefused(e, t) \/ EnqueueFull(e, t)

Spec == Init /\ [][Next]_vars
-----------------------------------------------------------------------------
Queued == {item.place : item \in Range(items)}
HandedOver == {h.place : h \in Range(handed)}

(* The queue keeps to its capacity, and every item is one that was accepted. *)
TypeOK ==
    /\ accepted \in Seq(Envelopes)
    /\ Len(items) <= Capacity
    /\ \A item \in Range(items) :
          /\ item.place \in 1..Len(accepted)
          /\ item.envelope = accepted[item.place]
    /\ \A h \in Range(handed) : h.place \in 1..Len(accepted)

(* An accepted message leaves the queue by being handed over or because some *)
(* call read a clock past its expiry: refused messages, a full queue and     *)
(* pruning around it cost it nothing.                                        *)
NoLiveMessageLost ==
    \A p \in 1..Len(accepted) :
        \/ p \in Queued \cup HandedOver
        \/ \E t \in readings : IsExpired(accepted[p], t)

(* Messages are handed over once each, in the order they were accepted, past *)
(* every expiry and every set-back of the clock between, and never at or     *)
(* after their expiry on the reading of the call that gets them.             *)
HandedOverInOrderAlive ==
    /\ \A i, j \in 1..Len(handed) : i < j => handed[i].place < handed[j].place
    /\ \A h \in Range(handed) :
          /\ \A p \in Queued : h.place < p
          /\ ~IsExpired(accepted[h.place], h.at_ms)

(* The queue is reported full only when every place is taken by a message that *)
(* is still alive on that call's reading.                                      *)
FullOnlyOfLiveMessages ==
    result.call = "full" =>
        /\ Len(items) = Capacity
        /\ \A item \in Range(items) : ~IsExpired(item.envelope, result.at_ms)
=============================================================================
