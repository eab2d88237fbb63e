---------------------- MODULE StoreAndForwardQueueProofs ----------------------
(***************************************************************************)
(* What the queue promises, for every capacity, every set of messages and  *)
(* clock readings.  The heart is what prune leaves of a queue: it is       *)
(* computed item by item, so it is proved by induction over the items,     *)
(* that is, from the least number of items for which it would be wrong.    *)
(***************************************************************************)
EXTENDS StoreAndForwardQueue, WellFoundedInduction, SequenceTheorems, TLAPS

Item == [envelope : Envelopes, place : Nat]

Ordered(s) == \A i, j \in 1..Len(s) : i < j => s[i].place < s[j].place

(* kept[n] is what prune leaves of the first n items. *)
Keeping(kept, n, s, t) ==
    kept = [k \in 0..n |->
               IF k = 0 THEN << >>
               ELSE IF IsExpired(s[k].envelope, t) THEN kept[k - 1]
               ELSE Append(kept[k - 1], s[k])]

(* What is right about it: the live ones of the first n items, in their order. *)
LiveOnes(u, n, s, t) ==
    /\ u \in Seq(Item)
    /\ Len(u) <= n
    /\ \A i \in 1..Len(u) :
          \E j \in 1..n : u[i] = s[j] /\ ~IsExpired(s[j].envelope, t)
    /\ \A j \in 1..n :
          ~IsExpired(s[j].envelope, t) => \E i \in 1..Len(u) : u[i] = s[j]
    /\ Ordered(u)
-----------------------------------------------------------------------------
(* Every non-empty set of natural numbers has a least element. *)
LEMMA LeastNumber ==
    ASSUME NEW S \in SUBSET Nat, S # {}
    PROVE  \E m \in S : \A k \in S : m <= k
<1> DEFINE Less == OpToRel(<, Nat)
<1>1. IsWellFoundedOn(Less, Nat)
  BY NatLessThanWellFounded
<1>2. \A x, y \in Nat : y < x => <<y, x>> \in Less
  BY DEF OpToRel
<1> HIDE DEF Less
<1>3. \E m \in S : \A k \in S : ~(<<k, m>> \in Less)
  BY <1>1, WFMin
<1>4. PICK m \in S : \A k \in S : ~(<<k, m>> \in Less)
  BY <1>3
<1>5. ASSUME NEW k \in S PROVE m <= k
  <2>1. ~(k < m)
    BY <1>2, <1>4
  <2> QED
    BY <2>1
<1> QED
  BY <1>5

(* The recursion of prune has a solution. *)
LEMMA KeepingExists ==
    ASSUME NEW s, NEW t, NEW n \in Nat
    PROVE  \E kept : Keeping(kept, n, s, t)
<1> DEFINE Bad == {k \in 0..n : ~ \E kept : Keeping(kept, k, s, t)}
<1>1. SUFFICES ASSUME Bad # {} PROVE FALSE
  <2>1. n \in 0..n
    OBVIOUS
  <2> QED
    BY <2>1
<1>2. PICK m \in Bad : \A k \in Bad : m <= k
  <2>1. Bad \in SUBSET Nat
    OBVIOUS
  <2> HIDE DEF Bad
  <2> QED
    BY <1>1, <2>1, LeastNumber
<1>3. CASE m = 0
  <2> DEFINE kept == [k \in 0..0 |-> << >>]
  <2>1. Keeping(kept, 0, s, t)
    BY DEF Keeping
  <2> QED
    BY <1>2, <1>3, <2>1
<1>4. CASE m # 0
  <2>1. m \in 1..n /\ m - 1 \in 0..n /\ m - 1 \notin Bad
    BY <1>2, <1>4
  <2>2. PICK before : Keeping(before, m - 1, s, t)
    BY <2>1
  <2> DEFINE kept == [k \in 0..m |->
                         IF k < m THEN before[k]
                         ELSE IF IsExpired(s[m].envelope, t) THEN before[m - 1]
                         ELSE Append(before[m - 1], s[m])]
  <2>3. \A k \in 0..(m - 1) : kept[k] = before[k]
    BY <2>1
  <2>4. \A k \in 0..m :
           kept[k] = IF k = 0 THEN << >>
                     ELSE IF IsExpired(s[k].envelope, t) THEN kept[k - 1]
                     ELSE Append(kept[k - 1], s[k])
    <3> SUFFICES ASSUME NEW k \in 0..m
                 PROVE  kept[k] = IF k = 0 THEN << >>
                                  ELSE IF IsExpired(s[k].envelope, t) THEN kept[k - 1]
                                  ELSE Append(kept[k - 1], s[k])
      OBVIOUS
    <3>1. CASE k < m
      <4>1. k \in 0..(m - 1) /\ (k # 0 => k - 1 \in 0..(m - 1))
        BY <2>1, <3>1
      <4>2. before[k] = IF k = 0 THEN << >>
                        ELSE IF IsExpired(s[k].envelope, t) THEN before[k - 1]
                        ELSE Append(before[k - 1], s[k])
        BY <2>2, <4>1 DEF Keeping
      <4> HIDE DEF kept
      <4> QED
        BY <2>3, <4>1, <4>2
    <3>2. CASE k = m
      <4>1. m - 1 \in 0..(m - 1)
        BY <2>1
      <4> QED
        BY <2>1, <2>3, <3>2, <4>1
    <3> QED
      BY <3>1, <3>2, <2>1
  <2>5. kept = [k \in 0..m |-> kept[k]]
    OBVIOUS
  <2> HIDE DEF kept
  <2>6. Keeping(kept, m, s, t)
    BY <2>4, <2>5 DEF Keeping
  <2> QED
    BY <1>2, <2>6
<1> QED
  BY <1>3, <1>4

(* What prune leaves is what is left of all items. *)
LEMMA UnexpiredIsKept ==
    ASSUME NEW s \in Seq(Item), NEW t
    PROVE  \E kept : Keeping(kept, Len(s), s, t) /\ Unexpired(s, t) = kept[Len(s)]
<1> DEFINE kept == CHOOSE f : Keeping(f, Len(s), s, t)
<1>1. Keeping(kept, Len(s), s, t)
  BY KeepingExists
<1>2. Unexpired(s, t) = kept[Len(s)]
  BY DEF Unexpired, Keeping
<1> HIDE DEF kept
<1> QED
  BY <1>1, <1>2

(* One more item. *)
LEMMA OneMoreItem ==
    ASSUME NEW s \in Seq(Item), Ordered(s), NEW t, NEW u,
           NEW n \in Nat, n + 1 \in 1..Len(s), LiveOnes(u, n, s, t)
    PROVE  LiveOnes(IF IsExpired(s[n + 1].envelope, t) THEN u ELSE Append(u, s[n + 1]),
                    n + 1, s, t)
<1>1. CASE IsExpired(s[n + 1].envelope, t)
  <2>1. \A j \in 1..(n + 1) : j \in 1..n \/ j = n + 1
    OBVIOUS
  <2>2. \A j \in 1..n : j \in 1..(n + 1)
    OBVIOUS
  <2>3. Len(u) <= n + 1
    BY DEF LiveOnes
  <2> QED
    BY <1>1, <2>1, <2>2, <2>3 DEF LiveOnes
<1>2. CASE ~IsExpired(s[n + 1].envelope, t)
  <2> DEFINE v == Append(u, s[n + 1])
  <2>1. /\ u \in Seq(Item) /\ s[n + 1] \in Item
        /\ Len(u) \in Nat /\ Len(u) <= n
    BY DEF LiveOnes
  <2>2. /\ v \in Seq(Item)
        /\ Len(v) = Len(u) + 1
        /\ \A i \in 1..Len(u) : v[i] = u[i]
        /\ v[Len(u) + 1] = s[n + 1]
    BY <2>1
  <2> HIDE DEF v
  <2>3. \A i \in 1..Len(v) : i \in 1..Len(u) \/ i = Len(u) + 1
    BY <2>1, <2>2
  <2>4. \A i \in 1..Len(v) :
           \E j \in 1..(n + 1) : v[i] = s[j] /\ ~IsExpired(s[j].envelope, t)
    <3> SUFFICES ASSUME NEW i \in 1..Len(v)
                 PROVE  \E j \in 1..(n + 1) : v[i] = s[j] /\ ~IsExpired(s[j].envelope, t)
      OBVIOUS
    <3>1. CASE i \in 1..Len(u)
      <4>1. PICK j \in 1..n : u[i] = s[j] /\ ~IsExpired(s[j].envelope, t)
        BY <3>1 DEF LiveOnes
      <4>2. j \in 1..(n + 1)
        OBVIOUS
      <4> QED
        BY <2>2, <3>1, <4>1, <4>2
    <3>2. CASE i = Len(u) + 1
      <4>1. n + 1 \in 1..(n + 1)
        OBVIOUS
      <4> QED
        BY <1>2, <2>2, <3>2, <4>1
    <3> QED
      BY <2>3, <3>1, <3>2
  <2>5. ASSUME NEW j \in 1..(n + 1), ~IsExpired(s[j].envelope, t)
        PROVE  \E i \in 1..Len(v) : v[i] = s[j]
    <3>1. CASE j \in 1..n
      <4>1. PICK i \in 1..Len(u) : u[i] = s[j]
        BY <2>5, <3>1 DEF LiveOnes
      <4>2. i \in 1..Len(v)
        BY <2>1, <2>2
      <4> QED
        BY <2>2, <4>1, <4>2
    <3>2. CASE j = n + 1
      <4>1. Len(u) + 1 \in 1..Len(v)
        BY <2>1, <2>2
      <4> QED
        BY <2>2, <3>2, <4>1
    <3> QED
      BY <3>1, <3>2
  <2>6. Ordered(v)
    <3> SUFFICES ASSUME NEW i \in 1..Len(v), NEW k \in 1..Len(v), i < k
                 PROVE  v[i].place < v[k].place
      BY DEF Ordered
    <3>1. i \in 1..Len(u)
      BY <2>1, <2>2
    <3>2. CASE k \in 1..Len(u)
      BY <2>2, <3>1, <3>2 DEF LiveOnes, Ordered
    <3>3. CASE k = Len(u) + 1
      <4>1. PICK j \in 1..n : u[i] = s[j]
        BY <3>1 DEF LiveOnes
      <4>2. j \in 1..Len(s) /\ n + 1 \in 1..Len(s) /\ j < n + 1
        OBVIOUS
      <4>3. s[j].place < s[n + 1].place
        BY <4>2 DEF Ordered
      <4> QED
        BY <2>2, <3>1, <3>3, <4>1, <4>3
    <3> QED
      BY <2>3, <3>2, <3>3
  <2> HIDE DEF LiveOnes
  <2>7. LiveOnes(v, n + 1, s, t)
    BY <2>1, <2>2, <2>4, <2>5, <2>6 DEF LiveOnes
  <2> QED
    BY <1>2, <2>7 DEF v
<1> QED
  BY <1>1, <1>2

(* prune leaves the live items of an ordered queue, all of them, in order. *)
LEMMA PruneKeepsTheLive ==
    ASSUME NEW s \in Seq(Item), Ordered(s), NEW t
    PROVE  LiveOnes(Unexpired(s, t), Len(s), s, t)
<1>1. PICK kept : Keeping(kept, Len(s), s, t) /\ Unexpired(s, t) = kept[Len(s)]
  BY UnexpiredIsKept
<1>2. Len(s) \in Nat
  OBVIOUS
<1> DEFINE Bad == {n \in 0..Len(s) : ~LiveOnes(kept[n], n, s, t)}
<1>3. SUFFICES ASSUME Bad # {} PROVE FALSE
  <2>1. Len(s) \in 0..Len(s)
    BY <1>2
  <2> QED
    BY <1>1, <2>1
<1>4. PICK m \in Bad : \A k \in Bad : m <= k
  <2>1. Bad \in SUBSET Nat
    BY <1>2
  <2> HIDE DEF Bad
  <2> QED
    BY <1>3, <2>1, LeastNumber
<1>5. CASE m = 0
  <2>1. kept[0] = << >>
    BY <1>1, <1>2 DEF Keeping
  <2>2. LiveOnes(<< >>, 0, s, t)
    BY DEF LiveOnes, Ordered
  <2> QED
    BY <1>4, <1>5, <2>1, <2>2
<1>6. CASE m # 0
  <2>1. /\ m - 1 \in Nat /\ m - 1 \in 0..Len(s)
        /\ (m - 1) + 1 = m /\ (m - 1) + 1 \in 1..Len(s)
        /\ m - 1 \notin Bad
    BY <1>2, <1>4, <1>6
  <2>2. LiveOnes(kept[m - 1], m - 1, s, t)
    BY <2>1
  <2>3. kept[m] = IF IsExpired(s[m].envelope, t) THEN kept[m - 1]
                                                 ELSE Append(kept[m - 1], s[m])
    BY <1>1, <1>2, <1>4, <1>6 DEF Keeping
  <2>4. LiveOnes(IF IsExpired(s[(m - 1) + 1].envelope, t) THEN kept[m - 1]
                 ELSE Append(kept[m - 1], s[(m - 1) + 1]), (m - 1) + 1, s, t)
    BY <2>1, <2>2, OneMoreItem
  <2>5. LiveOnes(kept[m], m, s, t)
    BY <2>1, <2>3, <2>4
  <2> QED
    BY <1>4, <2>5
<1> QED
  BY <1>5, <1>6
-----------------------------------------------------------------------------
(* The inductive invariant: an item carries the accepted message of its place; *)
(* the places handed over come before those queued, both in order; an accepted *)
(* message is in one of the two or has been seen expired.                      *)
Placed ==
    /\ accepted \in Seq(Envelopes)
    /\ items \in Seq(Item)
    /\ \A i \in 1..Len(items) : /\ items[i].place \in 1..Len(accepted)
                                /\ items[i].envelope = accepted[items[i].place]

Handed ==
    /\ handed \in Seq([place : Nat, at_ms : Readings])
    /\ \A h \in 1..Len(handed) :
          /\ handed[h].place \in 1..Len(accepted)
          /\ ~IsExpired(accepted[handed[h].place], handed[h].at_ms)

InOrder ==
    /\ Ordered(items)
    /\ Ordered(handed)
    /\ \A h \in 1..Len(handed), i \in 1..Len(items) : handed[h].place < items[i].place

Accounted ==
    \A p \in 1..Len(accepted) :
        \/ \E i \in 1..Len(items) : items[i].place = p
        \/ \E h \in 1..Len(handed) : handed[h].place = p
        \/ \E t \in readings : IsExpired(accepted[p], t)

FullOfLive ==
    result.call = "full" =>
        /\ Len(items) = Capacity
        /\ \A i \in 1..Len(items) : ~IsExpired(items[i].envelope, result.at_ms)

QueueInv ==
    Placed /\ Handed /\ InOrder /\ Accounted /\ FullOfLive /\ Len(items) <= Capacity

LEMMA InitQueueInv == Init => QueueInv
<1> SUFFICES ASSUME Init PROVE QueueInv
  OBVIOUS
<1>1. result.call # "full"
  BY DEF Init
<1> QED
  BY <1>1, QueueAssumption
     DEF Init, QueueInv, Placed, Handed, InOrder, Accounted, FullOfLive, Ordered

(* A queue that prune has gone over: everything but FullOfLive carries over. *)
LEMMA PrunedQueue ==
    ASSUME QueueInv, NEW t \in Readings, NEW u, u = Unexpired(items, t)
    PROVE  /\ u \in Seq(Item)
           /\ Len(u) <= Len(items)
           /\ Ordered(u)
           /\ \A i \in 1..Len(u) :
                 /\ u[i].place \in 1..Len(accepted)
                 /\ u[i].envelope = accepted[u[i].place]
                 /\ ~IsExpired(u[i].envelope, t)
                 /\ \A h \in 1..Len(handed) : handed[h].place < u[i].place
           /\ \A p \in 1..Len(accepted) :
                 \/ \E i \in 1..Len(u) : u[i].place = p
                 \/ \E h \in 1..Len(handed) : handed[h].place = p
                 \/ \E r \in readings \cup {t} : IsExpired(accepted[p], r)
<1>1. LiveOnes(u, Len(items), items, t)
  BY PruneKeepsTheLive DEF QueueInv, Placed, InOrder
<1>2. /\ u \in Seq(Item)
      /\ Len(u) <= Len(items)
      /\ Ordered(u)
  BY <1>1 DEF LiveOnes
<1>3. ASSUME NEW i \in 1..Len(u)
      PROVE  /\ u[i].place \in 1..Len(accepted)
             /\ u[i].envelope = accepted[u[i].place]
             /\ ~IsExpired(u[i].envelope, t)
             /\ \A h \in 1..Len(handed) : handed[h].place < u[i].place
  <2>1. PICK j \in 1..Len(items) : u[i] = items[j] /\ ~IsExpired(items[j].envelope, t)
    BY <1>1 DEF LiveOnes
  <2> QED
    BY <2>1 DEF QueueInv, Placed, InOrder
<1>4. ASSUME NEW p \in 1..Len(accepted)
      PROVE  \/ \E i \in 1..Len(u) : u[i].place = p
             \/ \E h \in 1..Len(handed) : handed[h].place = p
             \/ \E r \in readings \cup {t} : IsExpired(accepted[p], r)
  <2>1. CASE \E j \in 1..Len(items) : items[j].place = p
    <3>1. PICK j \in 1..Len(items) : items[j].place = p
      BY <2>1
    <3>2. items[j].envelope = accepted[p]
      BY <3>1 DEF QueueInv, Placed
    <3>3. CASE IsExpired(items[j].envelope, t)
      BY <3>2, <3>3
    <3>4. CASE ~IsExpired(items[j].envelope, t)
      <4>1. PICK i \in 1..Len(u) : u[i] = items[j]
        BY <1>1, <3>4 DEF LiveOnes
      <4> QED
        BY <3>1, <4>1
    <3> QED
      BY <3>3, <3>4
  <2>2. CASE ~ \E j \in 1..Len(items) : items[j].place = p
    BY <2>2 DEF QueueInv, Accounted
  <2> QED
    BY <2>1, <2>2
<1> QED
  BY <1>2, <1>3, <1>4

(* A call that only prunes: prune, pop_next of an empty queue, a refused or a *)
(* full enqueue.                                                              *)
LEMMA KeepsQueueInv ==
    ASSUME QueueInv, NEW t \in Readings, NEW outcome, Keeps(t, outcome),
           outcome = "full" => ~HasRoom(Unexpired(items, t))
    PROVE  QueueInv'
<1> DEFINE u == Unexpired(items, t)
<1>1. /\ u \in Seq(Item)
      /\ Len(u) <= Len(items)
      /\ Ordered(u)
      /\ \A i \in 1..Len(u) :
            /\ u[i].place \in 1..Len(accepted)
            /\ u[i].envelope = accepted[u[i].place]
            /\ ~IsExpired(u[i].envelope, t)
            /\ \A h \in 1..Len(handed) : handed[h].place < u[i].place
      /\ \A p \in 1..Len(accepted) :
            \/ \E i \in 1..Len(u) : u[i].place = p
            \/ \E h \in 1..Len(handed) : handed[h].place = p
            \/ \E r \in readings \cup {t} : IsExpired(accepted[p], r)
  BY PrunedQueue
<1>2. /\ items' = u /\ accepted' = accepted /\ handed' = handed
      /\ readings' = readings \cup {t}
      /\ result' = [call |-> outcome, at_ms |-> t]
  BY DEF Keeps, Call
<1>3. Len(u) <= Capacity /\ (outcome = "full" => Len(u) = Capacity)
  BY <1>1, QueueAssumption DEF QueueInv, Placed, HasRoom
<1> HIDE DEF u
<1>4. Placed'
  BY <1>1, <1>2 DEF QueueInv, Placed
<1>5. Handed'
  BY <1>2 DEF QueueInv, Handed
<1>6. InOrder'
  BY <1>1, <1>2 DEF QueueInv, InOrder, Ordered
<1>7. Accounted'
  BY <1>1, <1>2 DEF Accounted
<1>8. FullOfLive'
  BY <1>1, <1>2, <1>3 DEF FullOfLive
<1> QED
  BY <1>2, <1>3, <1>4, <1>5, <1>6, <1>7, <1>8 DEF QueueInv

LEMMA EnqueueQueueInv ==
    ASSUME QueueInv, NEW t \in Readings, NEW e \in Envelopes, enqueue(e, t)
    PROVE  QueueInv'
<1> DEFINE u == Unexpired(items, t)
           item == [envelope |-> e, place |-> Len(accepted) + 1]
<1>1. /\ u \in Seq(Item)
      /\ Len(u) <= Len(items)
      /\ Ordered(u)
      /\ \A i \in 1..Len(u) :
            /\ u[i].place \in 1..Len(accepted)
            /\ u[i].envelope = accepted[u[i].place]
            /\ ~IsExpired(u[i].envelope, t)
            /\ \A h \in 1..Len(handed) : handed[h].place < u[i].place
      /\ \A p \in 1..Len(accepted) :
            \/ \E i \in 1..Len(u) : u[i].place = p
            \/ \E h \in 1..Len(handed) : handed[h].place = p
            \/ \E r \in readings \cup {t} : IsExpired(accepted[p], r)
  BY PrunedQueue
<1>2. /\ items' = Append(u, item) /\ accepted' = Append(accepted, e)
      /\ handed' = handed /\ readings' = readings \cup {t}
      /\ result' = [call |-> "enqueue", at_ms |-> t]
      /\ Len(u) < Capacity
  BY DEF enqueue, Call, HasRoom
<1>3. accepted \in Seq(Envelopes) /\ Len(accepted) \in Nat /\ Len(u) \in Nat
  BY <1>1 DEF QueueInv, Placed
<1>4. item \in Item /\ item.place = Len(accepted) + 1 /\ item.envelope = e
  BY <1>3 DEF Item
<1> HIDE DEF u, item
<1>5. /\ items' \in Seq(Item) /\ Len(items') = Len(u) + 1
      /\ \A i \in 1..Len(u) : items'[i] = u[i]
      /\ items'[Len(u) + 1] = item
      /\ \A i \in 1..Len(items') : i \in 1..Len(u) \/ i = Len(u) + 1
      /\ \A i \in 1..Len(u) : i \in 1..Len(items')
      /\ Len(u) + 1 \in 1..Len(items')
  BY <1>1, <1>2, <1>3, <1>4
<1>6. /\ accepted' \in Seq(Envelopes) /\ Len(accepted') = Len(accepted) + 1
      /\ \A p \in 1..Len(accepted) : accepted'[p] = accepted[p]
      /\ accepted'[Len(accepted) + 1] = e
      /\ \A p \in 1..Len(accepted') : p \in 1..Len(accepted) \/ p = Len(accepted) + 1
      /\ \A p \in 1..Len(accepted) : p \in 1..Len(accepted')
      /\ Len(accepted) + 1 \in 1..Len(accepted')
  BY <1>2, <1>3
<1>7. Placed'
  <2> SUFFICES ASSUME NEW i \in 1..Len(items')
               PROVE  /\ items'[i].place \in 1..Len(accepted')
                      /\ items'[i].envelope = accepted'[items'[i].place]
    BY <1>5, <1>6 DEF Placed
  <2>1. CASE i \in 1..Len(u)
    <3>1. u[i].place \in 1..Len(accepted) /\ u[i].envelope = accepted[u[i].place]
      BY <1>1, <2>1
    <3> QED
      BY <1>5, <1>6, <2>1, <3>1
  <2>2. CASE i = Len(u) + 1
    BY <1>4, <1>5, <1>6, <2>2
  <2> QED
    BY <1>5, <2>1, <2>2
<1>8. Handed'
  BY <1>2, <1>6 DEF QueueInv, Handed
<1>9. InOrder'
  <2>1. Ordered(items')
    <3> SUFFICES ASSUME NEW i \in 1..Len(items'), NEW j \in 1..Len(items'), i < j
                 PROVE  items'[i].place < items'[j].place
      BY DEF Ordered
    <3>1. i \in 1..Len(u)
      BY <1>3, <1>5
    <3>2. CASE j \in 1..Len(u)
      BY <1>1, <1>5, <3>1, <3>2 DEF Ordered
    <3>3. CASE j = Len(u) + 1
      BY <1>1, <1>3, <1>4, <1>5, <3>1, <3>3
    <3> QED
      BY <1>5, <3>2, <3>3
  <2>2. ASSUME NEW h \in 1..Len(handed), NEW i \in 1..Len(items')
        PROVE  handed[h].place < items'[i].place
    <3>1. CASE i \in 1..Len(u)
      BY <1>1, <1>5, <3>1
    <3>2. CASE i = Len(u) + 1
      BY <1>3, <1>4, <1>5, <3>2 DEF QueueInv, Handed
    <3> QED
      BY <1>5, <3>1, <3>2
  <2> QED
    BY <1>2, <2>1, <2>2 DEF QueueInv, InOrder, Ordered
<1>10. Accounted'
  <2> SUFFICES ASSUME NEW p \in 1..Len(accepted')
               PROVE  \/ \E i \in 1..Len(items') : items'[i].place = p
                      \/ \E h \in 1..Len(handed) : handed[h].place = p
                      \/ \E r \in readings' : IsExpired(accepted'[p], r)
    BY <1>2 DEF Accounted
  <2>1. CASE p \in 1..Len(accepted)
    <3>1. CASE \E i \in 1..Len(u) : u[i].place = p
      BY <1>5, <3>1
    <3>2. CASE ~ \E i \in 1..Len(u) : u[i].place = p
      BY <1>1, <1>2, <1>6, <2>1, <3>2
    <3> QED
      BY <3>1, <3>2
  <2>2. CASE p = Len(accepted) + 1
    BY <1>4, <1>5, <2>2
  <2> QED
    BY <1>6, <2>1, <2>2
<1>11. FullOfLive' /\ (Len(items) <= Capacity)'
  <2>1. result'.call # "full"
    BY <1>2
  <2> QED
    BY <1>2, <1>3, <1>5, <2>1, QueueAssumption DEF FullOfLive
<1> QED
  BY <1>7, <1>8, <1>9, <1>10, <1>11 DEF QueueInv

LEMMA PopQueueInv ==
    ASSUME QueueInv, NEW t \in Readings, pop_next(t)
    PROVE  QueueInv'
<1> DEFINE u == Unexpired(items, t)
           h == [place |-> u[1].place, at_ms |-> t]
<1>1. /\ u \in Seq(Item)
      /\ Len(u) <= Len(items)
      /\ Ordered(u)
      /\ \A i \in 1..Len(u) :
            /\ u[i].place \in 1..Len(accepted)
            /\ u[i].envelope = accepted[u[i].place]
            /\ ~IsExpired(u[i].envelope, t)
            /\ \A k \in 1..Len(handed) : handed[k].place < u[i].place
      /\ \A p \in 1..Len(accepted) :
            \/ \E i \in 1..Len(u) : u[i].place = p
            \/ \E k \in 1..Len(handed) : handed[k].place = p
            \/ \E r \in readings \cup {t} : IsExpired(accepted[p], r)
  BY PrunedQueue
<1>2. /\ u # << >> /\ items' = Tail(u) /\ handed' = Append(handed, h)
      /\ accepted' = accepted /\ readings' = readings \cup {t}
      /\ result' = [call |-> "pop_next", at_ms |-> t]
  BY <1>1 DEF pop_next, HandsOver, Call
<1>3. /\ Len(u) \in Nat \ {0} /\ 1 \in 1..Len(u)
      /\ handed \in Seq([place : Nat, at_ms : Readings]) /\ Len(handed) \in Nat
  BY <1>1, <1>2 DEF QueueInv, Handed
<1>4. /\ h \in [place : Nat, at_ms : Readings]
      /\ h.place = u[1].place /\ h.at_ms = t
      /\ h.place \in 1..Len(accepted)
      /\ ~IsExpired(accepted[h.place], t)
  <2>1. u[1] \in Item
    BY <1>1, <1>3
  <2> QED
    BY <1>1, <1>3, <2>1 DEF Item
<1> HIDE DEF u, h
<1>5. /\ items' \in Seq(Item) /\ Len(items') = Len(u) - 1
      /\ \A i \in 1..Len(items') : items'[i] = u[i + 1] /\ i + 1 \in 1..Len(u)
      /\ \A i \in 1..Len(u) : i = 1 \/ (i - 1 \in 1..Len(items') /\ items'[i - 1] = u[i])
  BY <1>1, <1>2, <1>3
<1>6. /\ handed' \in Seq([place : Nat, at_ms : Readings])
      /\ Len(handed') = Len(handed) + 1
      /\ \A k \in 1..Len(handed) : handed'[k] = handed[k] /\ k \in 1..Len(handed')
      /\ handed'[Len(handed) + 1] = h
      /\ Len(handed) + 1 \in 1..Len(handed')
      /\ \A k \in 1..Len(handed') : k \in 1..Len(handed) \/ k = Len(handed) + 1
  BY <1>2, <1>3, <1>4
<1>7. Placed'
  BY <1>1, <1>2, <1>5 DEF QueueInv, Placed
<1>8. Handed'
  <2>1. \A k \in 1..Len(handed') :
           /\ handed'[k].place \in 1..Len(accepted)
           /\ ~IsExpired(accepted[handed'[k].place], handed'[k].at_ms)
    BY <1>4, <1>6 DEF QueueInv, Handed
  <2> QED
    BY <1>2, <1>6, <2>1 DEF Handed
<1>9. InOrder'
  <2>1. Ordered(items')
    <3> SUFFICES ASSUME NEW i \in 1..Len(items'), NEW j \in 1..Len(items'), i < j
                 PROVE  items'[i].place < items'[j].place
      BY DEF Ordered
    <3>1. i + 1 \in 1..Len(u) /\ j + 1 \in 1..Len(u) /\ i + 1 < j + 1
      BY <1>5
    <3> QED
      BY <1>1, <1>5, <3>1 DEF Ordered
  <2>2. Ordered(handed')
    <3> SUFFICES ASSUME NEW i \in 1..Len(handed'), NEW j \in 1..Len(handed'), i < j
                 PROVE  handed'[i].place < handed'[j].place
      BY DEF Ordered
    <3>1. i \in 1..Len(handed)
      BY <1>3, <1>6
    <3>2. CASE j \in 1..Len(handed)
      BY <1>6, <3>1, <3>2 DEF QueueInv, InOrder, Ordered
    <3>3. CASE j = Len(handed) + 1
      BY <1>1, <1>3, <1>4, <1>6, <3>1, <3>3
    <3> QED
      BY <1>6, <3>2, <3>3
  <2>3. ASSUME NEW k \in 1..Len(handed'), NEW i \in 1..Len(items')
        PROVE  handed'[k].place < items'[i].place
    <3>1. i + 1 \in 1..Len(u) /\ items'[i] = u[i + 1] /\ 1 < i + 1
      BY <1>5
    <3>2. CASE k \in 1..Len(handed)
      BY <1>1, <1>6, <3>1, <3>2
    <3>3. CASE k = Len(handed) + 1
      <4>1. u[1].place < u[i + 1].place
        BY <1>1, <1>3, <3>1 DEF Ordered
      <4> QED
        BY <1>4, <1>6, <3>1, <3>3, <4>1
    <3> QED
      BY <1>6, <3>2, <3>3
  <2> QED
    BY <2>1, <2>2, <2>3 DEF InOrder, Ordered
<1>10. Accounted'
  <2> SUFFICES ASSUME NEW p \in 1..Len(accepted)
               PROVE  \/ \E i \in 1..Len(items') : items'[i].place = p
                      \/ \E k \in 1..Len(handed') : handed'[k].place = p
                      \/ \E r \in readings' : IsExpired(accepted[p], r)
    BY <1>2 DEF Accounted
  <2>1. CASE \E i \in 1..Len(u) : u[i].place = p
    <3>1. PICK i \in 1..Len(u) : u[i].place = p
      BY <2>1
    <3>2. CASE i = 1
      BY <1>4, <1>6, <3>1, <3>2
    <3>3. CASE i # 1
      BY <1>5, <3>1, <3>3
    <3> QED
      BY <3>2, <3>3
  <2>2. CASE ~ \E i \in 1..Len(u) : u[i].place = p
    BY <1>1, <1>2, <1>6, <2>2
  <2> QED
    BY <2>1, <2>2
<1>11. FullOfLive' /\ (Len(items) <= Capacity)'
  <2>1. result'.call # "full"
    BY <1>2
  <2>2. Len(items) \in Nat /\ Len(items) <= Capacity
    BY DEF QueueInv, Placed
  <2> QED
    BY <1>1, <1>3, <1>5, <2>1, <2>2, QueueAssumption DEF FullOfLive
<1> QED
  BY <1>7, <1>8, <1>9, <1>10, <1>11 DEF QueueInv

LEMMA NextQueueInv == QueueInv /\ [Next]_vars => QueueInv'
<1> SUFFICES ASSUME QueueInv, [Next]_vars PROVE QueueInv'
  OBVIOUS
<1>1. ASSUME NEW t \in Readings, prune(t) PROVE QueueInv'
  BY <1>1, KeepsQueueInv DEF prune
<1>2. ASSUME NEW t \in Readings, pop_next(t) PROVE QueueInv'
  BY <1>2, PopQueueInv
<1>3. ASSUME NEW t \in Readings, PopNone(t) PROVE QueueInv'
  BY <1>3, KeepsQueueInv DEF PopNone
<1>4. ASSUME NEW t \in Readings, NEW e \in Envelopes, enqueue(e, t) PROVE QueueInv'
  BY <1>4, EnqueueQueueInv
<1>5. ASSUME NEW t \in Readings, NEW e \in Envelopes, EnqueueRefused(e, t)
      PROVE  QueueInv'
  BY <1>5, KeepsQueueInv DEF EnqueueRefused
<1>6. ASSUME NEW t \in Readings, NEW e \in Envelopes, EnqueueFull(e, t)
      PROVE  QueueInv'
  BY <1>6, KeepsQueueInv DEF EnqueueFull
<1>7. CASE UNCHANGED vars
  BY <1>7 DEF vars, QueueInv, Placed, Handed, InOrder, Ordered, Accounted, FullOfLive
<1> QED
  BY <1>1, <1>2, <1>3, <1>4, <1>5, <1>6, <1>7 DEF Next

(* The invariant holds for every capacity, message and clock reading. *)
THEOREM QueueInvariant == Spec => []QueueInv
  BY InitQueueInv, NextQueueInv, PTL DEF Spec
-----------------------------------------------------------------------------
(* The sets of places, by position. *)
LEMMA PlacesByPosition ==
    ASSUME QueueInv
    PROVE  /\ \A p : p \in Queued <=> \E i \in 1..Len(items) : items[i].place = p
           /\ \A p : p \in HandedOver <=> \E h \in 1..Len(handed) : handed[h].place = p
           /\ \A x : x \in Range(handed) <=> \E h \in 1..Len(handed) : handed[h] = x
<1>1. DOMAIN items = 1..Len(items) /\ DOMAIN handed = 1..Len(handed)
  BY DEF QueueInv, Placed, Handed
<1>2. \A x : x \in Range(items) <=> \E i \in 1..Len(items) : items[i] = x
  BY <1>1 DEF Range
<1>3. \A x : x \in Range(handed) <=> \E h \in 1..Len(handed) : handed[h] = x
  BY <1>1 DEF Range
<1> QED
  BY <1>2, <1>3 DEF Queued, HandedOver

(* The queue keeps its capacity and holds only accepted messages. *)
THEOREM TypeCorrect == Spec => []TypeOK
<1>1. QueueInv => TypeOK
  BY DEF QueueInv, Placed, Handed, TypeOK, Range
<1> QED
  BY <1>1, QueueInvariant, PTL

(* No accepted message is lost before some call has seen it expired. *)
THEOREM LiveMessagesKept == Spec => []NoLiveMessageLost
<1>1. QueueInv => NoLiveMessageLost
  BY PlacesByPosition DEF QueueInv, Accounted, NoLiveMessageLost
<1> QED
  BY <1>1, QueueInvariant, PTL

(* Messages are handed over once, in the order accepted, and alive. *)
THEOREM HandedOverRight == Spec => []HandedOverInOrderAlive
<1>1. QueueInv => HandedOverInOrderAlive
  <2> SUFFICES ASSUME QueueInv PROVE HandedOverInOrderAlive
    OBVIOUS
  <2>1. \A i, j \in 1..Len(handed) : i < j => handed[i].place < handed[j].place
    BY DEF QueueInv, InOrder, Ordered
  <2>2. ASSUME NEW x \in Range(handed)
        PROVE  (\A p \in Queued : x.place < p) /\ ~IsExpired(accepted[x.place], x.at_ms)
    <3>1. PICK h \in 1..Len(handed) : handed[h] = x
      BY <2>2, PlacesByPosition
    <3> QED
      BY <3>1, PlacesByPosition DEF QueueInv, InOrder, Handed
  <2> QED
    BY <2>1, <2>2 DEF HandedOverInOrderAlive
<1> QED
  BY <1>1, QueueInvariant, PTL

(* A queue reported full is full of live messages. *)
THEOREM FullOfLiveMessages == Spec => []FullOnlyOfLiveMessages
<1>1. QueueInv => FullOnlyOfLiveMessages
  BY DEF QueueInv, Placed, FullOfLive, FullOnlyOfLiveMessages, Range
<1> QED
  BY <1>1, QueueInvariant, PTL
=============================================================================
