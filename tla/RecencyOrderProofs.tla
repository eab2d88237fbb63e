-------------------------- MODULE RecencyOrderProofs --------------------------
(***************************************************************************)
(* What the operators of RecencyOrder do to a sequence, and that a memory  *)
(* maintained with them tracks the use of its keys.                        *)
(***************************************************************************)
EXTENDS RecencyOrder, SequenceTheorems, FiniteSetTheorems, TLAPS

(* move_to_end keeps the entries before i, shifts those after it, and puts the *)
(* entry at i last.                                                            *)
LEMMA MoveToEndProperties ==
    ASSUME NEW S, NEW s \in Seq(S), NEW i \in 1..Len(s)
    PROVE  /\ MoveToEnd(s, i) \in Seq(S)
           /\ Len(MoveToEnd(s, i)) = Len(s)
           /\ \A j \in 1..Len(s) : MoveToEnd(s, i)[j] =
                 IF j < i THEN s[j] ELSE IF j < Len(s) THEN s[j + 1] ELSE s[i]
<1> DEFINE before == SubSeq(s, 1, i - 1)
           after == SubSeq(s, i + 1, Len(s))
<1>1. /\ Len(s) \in Nat
      /\ \A j \in 1..Len(s) : s[j] \in S
  BY LenProperties, ElementOfSeq
<1>2. /\ before \in Seq(S)
      /\ Len(before) = i - 1
      /\ \A j \in 1..(i - 1) : before[j] = s[j]
  BY <1>1, SubSeqProperties
<1>3. /\ after \in Seq(S)
      /\ Len(after) = Len(s) - i
      /\ \A j \in 1..(Len(s) - i) : after[j] = s[i + j]
  <2>1. \A j \in (i + 1)..Len(s) : s[j] \in S
    BY <1>1
  <2>2. /\ after \in Seq(S)
        /\ Len(after) = IF i + 1 <= Len(s) THEN Len(s) - (i + 1) + 1 ELSE 0
        /\ \A j \in 1..(Len(s) - (i + 1) + 1) : after[j] = s[(i + 1) + j - 1]
    BY <1>1, <2>1, SubSeqProperties, i + 1 \in Int, Len(s) \in Int
  <2> QED BY <1>1, <2>2
<1> DEFINE rest == before \o after
<1> HIDE DEF before, after
<1>4. /\ rest \in Seq(S)
      /\ Len(rest) = Len(s) - 1
      /\ \A j \in 1..(Len(s) - 1) : rest[j] = IF j < i THEN s[j] ELSE s[j + 1]
  <2>1. /\ rest \in Seq(S)
        /\ Len(rest) = Len(before) + Len(after)
        /\ \A j \in 1..(Len(before) + Len(after)) :
              rest[j] = IF j <= Len(before) THEN before[j]
                                            ELSE after[j - Len(before)]
    BY <1>2, <1>3, ConcatProperties
  <2> HIDE DEF rest
  <2>2. Len(before) + Len(after) = Len(s) - 1
    BY <1>1, <1>2, <1>3
  <2>3. ASSUME NEW j \in 1..(Len(s) - 1)
        PROVE  rest[j] = IF j < i THEN s[j] ELSE s[j + 1]
    <3>1. CASE j < i
      BY <1>1, <1>2, <2>1, <2>2, <3>1
    <3>2. CASE j >= i
      <4>1. rest[j] = after[j - (i - 1)]
        BY <1>1, <1>2, <2>1, <2>2, <3>2
      <4>2. j - (i - 1) \in 1..(Len(s) - i)
        BY <1>1, <3>2
      <4>3. after[j - (i - 1)] = s[i + (j - (i - 1))]
        BY <1>3, <4>2
      <4>4. i + (j - (i - 1)) = j + 1
        BY <1>1
      <4> QED BY <1>1, <3>2, <4>1, <4>3, <4>4
    <3> QED BY <1>1, <3>1, <3>2
  <2> QED BY <2>1, <2>2, <2>3
<1>5. MoveToEnd(s, i) = Append(rest, s[i])
  BY DEF MoveToEnd, RemoveAt, before, after
<1> HIDE DEF rest
<1>6. /\ Append(rest, s[i]) \in Seq(S)
      /\ Len(Append(rest, s[i])) = Len(rest) + 1
      /\ \A j \in 1..Len(rest) : Append(rest, s[i])[j] = rest[j]
      /\ Append(rest, s[i])[Len(rest) + 1] = s[i]
  BY <1>1, <1>4, AppendProperties
<1> QED BY <1>1, <1>4, <1>5, <1>6

(* Adding an entry to a memory and trimming it, and how many entries a memory *)
(* within its capacity gives up for the new one.                              *)
Inserted(s, e, n) == KeepNewest(Append(s, e), n)
Dropped(s, n) == IF Len(s) = n THEN 1 ELSE 0

(* A full memory drops its oldest entry for a new one, any other none. *)
LEMMA InsertProperties ==
    ASSUME NEW S, NEW s \in Seq(S), NEW e \in S,
           NEW n \in Nat \ {0}, Len(s) <= n
    PROVE  /\ Inserted(s, e, n) \in Seq(S)
           /\ Len(Inserted(s, e, n)) = Len(s) + 1 - Dropped(s, n)
           /\ Len(Inserted(s, e, n)) <= n
           /\ \A j \in 1..Len(Inserted(s, e, n)) :
                 Inserted(s, e, n)[j] =
                    IF j = Len(Inserted(s, e, n)) THEN e ELSE s[j + Dropped(s, n)]
<1> DEFINE a == Append(s, e)
<1>1. Len(s) \in Nat /\ \A j \in 1..Len(s) : s[j] \in S
  BY LenProperties, ElementOfSeq
<1>2. /\ a \in Seq(S)
      /\ Len(a) = Len(s) + 1
      /\ \A j \in 1..Len(s) : a[j] = s[j]
      /\ a[Len(s) + 1] = e
  BY AppendProperties
<1> HIDE DEF a
<1>0. Inserted(s, e, n) = KeepNewest(a, n)
  BY DEF Inserted, a
<1>3. CASE Len(s) < n
  <2>1. KeepNewest(a, n) = a
    BY <1>1, <1>2, <1>3 DEF KeepNewest
  <2>2. Dropped(s, n) = 0
    BY <1>1, <1>3 DEF Dropped
  <2> QED BY <1>0, <1>1, <1>2, <1>3, <2>1, <2>2
<1>4. CASE Len(s) = n
  <2>1. KeepNewest(a, n) = SubSeq(a, 2, n + 1)
    BY <1>1, <1>2, <1>4 DEF KeepNewest
  <2>2. \A j \in 2..(n + 1) : a[j] \in S
    BY <1>2, <1>4, ElementOfSeq
  <2>3. /\ SubSeq(a, 2, n + 1) \in Seq(S)
        /\ Len(SubSeq(a, 2, n + 1)) =
              IF 2 <= n + 1 THEN (n + 1) - 2 + 1 ELSE 0
        /\ \A j \in 1..((n + 1) - 2 + 1) : SubSeq(a, 2, n + 1)[j] = a[2 + j - 1]
    BY <2>2, SubSeqProperties, 2 \in Int, n + 1 \in Int
  <2> HIDE DEF KeepNewest
  <2>4. /\ Len(SubSeq(a, 2, n + 1)) = n
        /\ \A j \in 1..n : SubSeq(a, 2, n + 1)[j] = a[j + 1]
    BY <2>3
  <2>5. \A j \in 1..n : a[j + 1] = IF j = n THEN e ELSE s[j + 1]
    BY <1>1, <1>2, <1>4
  <2>6. Dropped(s, n) = 1
    BY <1>4 DEF Dropped
  <2> QED BY <1>0, <1>4, <2>1, <2>3, <2>4, <2>5, <2>6
<1> QED BY <1>1, <1>3, <1>4
-----------------------------------------------------------------------------
(* In a sequence without repetition, Len(s) - i different entries follow the *)
(* entry at i.                                                               *)
LEMMA FollowersCount ==
    ASSUME NEW s, Len(s) \in Nat, NEW i \in 0..Len(s),
           \A j, k \in 1..Len(s) : s[j] = s[k] => j = k
    PROVE  LET followers == {s[j] : j \in (i + 1)..Len(s)}
           IN  IsFiniteSet(followers) /\ Cardinality(followers) = Len(s) - i
<1> DEFINE T == {s[j] : j \in (i + 1)..Len(s)}
           f == [j \in (i + 1)..Len(s) |-> s[j]]
<1>1. IsFiniteSet((i + 1)..Len(s)) /\ Cardinality((i + 1)..Len(s)) = Len(s) - i
  <2>1. /\ IsFiniteSet((i + 1)..Len(s))
        /\ Cardinality((i + 1)..Len(s)) =
              IF i + 1 > Len(s) THEN 0 ELSE Len(s) - (i + 1) + 1
    BY FS_Interval, i + 1 \in Int, Len(s) \in Int
  <2> QED BY <2>1
<1>2. f \in Bijection((i + 1)..Len(s), T)
  BY DEF Bijection, Injection, Surjection, IsInjective
<1>3. ExistsBijection((i + 1)..Len(s), T)
  BY <1>2 DEF ExistsBijection
<1> QED BY <1>1, <1>3, FS_Bijection

(* An empty memory tracks the use of no keys. *)
LEMMA TracksEmpty ==
    ASSUME NEW n \in Nat
    PROVE  Tracks(<<>>, <<>>, n)
BY DEF Tracks

(* A hit: the key at position i is used again and becomes the newest. *)
LEMMA TracksHit ==
    ASSUME NEW S, NEW s \in Seq(S), NEW since, NEW n \in Nat,
           Tracks(s, since, n), NEW i \in 1..Len(s)
    PROVE  Tracks(MoveToEnd(s, i), Touch(since, s[i]), n)
<1> DEFINE t == MoveToEnd(s, i)
           k == s[i]
           after == Touch(since, k)
<1>1. /\ Len(s) \in Nat
      /\ Len(t) = Len(s)
      /\ \A j \in 1..Len(s) :
            t[j] = IF j < i THEN s[j] ELSE IF j < Len(s) THEN s[j + 1] ELSE s[i]
  BY MoveToEndProperties, LenProperties
<1>2. k \in DOMAIN since /\ DOMAIN after = DOMAIN since
  <2>1. k \in DOMAIN since
    BY DEF Tracks
  <2>2. DOMAIN after = DOMAIN since \cup {k}
    BY DEF Touch
  <2> QED BY <2>1, <2>2
<1>3. \A x \in DOMAIN since : after[x] = IF x = k THEN {} ELSE since[x] \cup {k}
  BY <1>2 DEF Touch
<1> HIDE DEF t, after
<1>4. ASSUME NEW j \in 1..Len(t), NEW l \in 1..Len(t), t[j] = t[l]
      PROVE  j = l
  <2> DEFINE from(q) == IF q < i THEN q ELSE IF q < Len(s) THEN q + 1 ELSE i
  <2>1. ASSUME NEW q \in 1..Len(t)
        PROVE  from(q) \in 1..Len(s) /\ t[q] = s[from(q)]
    BY <1>1
  <2>2. from(j) = from(l)
    <3> HIDE DEF from
    <3>1. /\ from(j) \in 1..Len(s)
          /\ from(l) \in 1..Len(s)
          /\ s[from(j)] = s[from(l)]
      BY <1>4, <2>1
    <3>2. \A a, b \in 1..Len(s) : s[a] = s[b] => a = b
      BY DEF Tracks
    <3> QED BY <3>1, <3>2
  <2> QED BY <1>1, <2>2
<1>5. ASSUME NEW j \in 1..Len(t)
      PROVE  /\ t[j] \in DOMAIN after
             /\ after[t[j]] = {t[l] : l \in (j + 1)..Len(t)}
  <2>1. CASE j = Len(s)
    <3>1. t[j] = k
      BY <1>1, <2>1
    <3>2. after[t[j]] = {}
      BY <1>2, <1>3, <3>1
    <3>3. (j + 1)..Len(t) = {}
      BY <1>1, <2>1
    <3> QED BY <1>2, <3>1, <3>2, <3>3
  <2>2. CASE j < Len(s)
    <3> DEFINE p == IF j < i THEN j ELSE j + 1
    <3>1. p \in 1..Len(s) /\ p # i /\ t[j] = s[p]
      BY <1>1, <2>2
    <3>2. s[p] # k
      BY <3>1 DEF Tracks
    <3>3. s[p] \in DOMAIN since /\ since[s[p]] = {s[l] : l \in (p + 1)..Len(s)}
      BY <3>1 DEF Tracks
    <3>4. after[t[j]] = since[s[p]] \cup {k}
      BY <1>2, <1>3, <3>1, <3>2, <3>3
    <3>5. ASSUME NEW l \in (p + 1)..Len(s)
          PROVE  s[l] \in {t[q] : q \in (j + 1)..Len(t)}
      <4>1. CASE l < i
        BY <1>1, <2>2, <3>1, <4>1
      <4>2. CASE l = i
        <5>1. t[Len(s)] = s[l]
          BY <1>1, <4>2
        <5> QED BY <1>1, <2>2, <5>1
      <4>3. CASE l > i
        <5>1. l - 1 \in (j + 1)..Len(t) /\ t[l - 1] = s[l]
          BY <1>1, <2>2, <3>1, <4>3
        <5> QED BY <5>1
      <4> QED BY <1>1, <3>1, <4>1, <4>2, <4>3
    <3>6. k \in {t[q] : q \in (j + 1)..Len(t)}
      <4>1. t[Len(s)] = k /\ Len(s) \in (j + 1)..Len(t)
        BY <1>1, <2>2
      <4> QED BY <4>1
    <3>7. ASSUME NEW q \in (j + 1)..Len(t)
          PROVE  t[q] \in {s[l] : l \in (p + 1)..Len(s)} \cup {k}
      <4>1. CASE q < i
        <5>1. q \in (p + 1)..Len(s) /\ t[q] = s[q]
          BY <1>1, <2>2, <4>1
        <5> QED BY <5>1
      <4>2. CASE q >= i /\ q < Len(s)
        <5>1. q + 1 \in (p + 1)..Len(s) /\ t[q] = s[q + 1]
          BY <1>1, <2>2, <4>2
        <5> QED BY <5>1
      <4>3. CASE q = Len(s)
        BY <1>1, <4>3
      <4> QED BY <1>1, <4>1, <4>2, <4>3
    <3>8. {s[l] : l \in (p + 1)..Len(s)} \cup {k} = {t[q] : q \in (j + 1)..Len(t)}
      <4> HIDE DEF p, k
      <4> QED BY <3>5, <3>6, <3>7
    <3>9. after[t[j]] = {t[q] : q \in (j + 1)..Len(t)}
      BY <3>3, <3>4, <3>8
    <3> QED BY <1>2, <3>1, <3>3, <3>9
  <2> QED BY <1>1, <2>1, <2>2
<1>6. ASSUME NEW x \in DOMAIN after
      PROVE  /\ IsFiniteSet(after[x])
             /\ (\A j \in 1..Len(t) : t[j] # x) => Cardinality(after[x]) >= n
  <2>1. CASE x = k
    <3>1. after[x] = {}
      BY <1>2, <1>3, <2>1
    <3>2. t[Len(s)] = x /\ Len(s) \in 1..Len(t)
      BY <1>1, <2>1
    <3> QED BY <3>1, <3>2, FS_EmptySet
  <2>2. CASE x # k
    <3>1. IsFiniteSet(since[x]) /\ after[x] = since[x] \cup {k}
      BY <1>2, <1>3, <2>2 DEF Tracks
    <3>2. /\ IsFiniteSet(after[x])
          /\ Cardinality(after[x]) \in {Cardinality(since[x]), Cardinality(since[x]) + 1}
      <4> DEFINE u == since[x]
      <4>1. IsFiniteSet(u)
        BY <3>1
      <4> HIDE DEF u, k
      <4>2. /\ IsFiniteSet(u \cup {k})
            /\ Cardinality(u \cup {k}) \in {Cardinality(u), Cardinality(u) + 1}
        BY <4>1, FS_AddElement
      <4> QED BY <3>1, <4>2 DEF u
    <3>3. ASSUME \A j \in 1..Len(t) : t[j] # x
          PROVE  \A j \in 1..Len(s) : s[j] # x
      <4> SUFFICES ASSUME NEW j \in 1..Len(s) PROVE s[j] # x
        OBVIOUS
      <4>1. CASE j < i
        BY <1>1, <3>3, <4>1
      <4>2. CASE j = i
        BY <2>2, <4>2
      <4>3. CASE j > i
        <5>1. j - 1 \in 1..Len(t) /\ t[j - 1] = s[j]
          BY <1>1, <4>3
        <5> QED BY <3>3, <5>1
      <4> QED BY <1>1, <4>1, <4>2, <4>3
    <3>4. Cardinality(since[x]) \in Nat
      BY <3>1, FS_CardinalityType
    <3> QED BY <1>2, <3>2, <3>3, <3>4 DEF Tracks
  <2> QED BY <2>1, <2>2
<1>7. Len(t) <= n
  BY <1>1 DEF Tracks
<1>8. Tracks(t, after, n)
  BY <1>4, <1>5, <1>6, <1>7 DEF Tracks
<1> QED BY <1>8 DEF t, after

(* A miss: a key the memory does not hold is inserted, and the oldest one is *)
(* dropped when the memory was full.                                         *)
LEMMA TracksMiss ==
    ASSUME NEW S, NEW s \in Seq(S), NEW since, NEW n \in Nat \ {0},
           Tracks(s, since, n), NEW k \in S, \A i \in 1..Len(s) : s[i] # k
    PROVE  Tracks(Inserted(s, k, n), Touch(since, k), n)
<1> DEFINE t == Inserted(s, k, n)
           d == Dropped(s, n)
           after == Touch(since, k)
<1>1. Len(s) \in Nat /\ Len(s) <= n
  BY LenProperties DEF Tracks
<1>2. /\ Len(t) = Len(s) + 1 - d
      /\ Len(t) <= n
      /\ \A j \in 1..Len(t) : t[j] = IF j = Len(t) THEN k ELSE s[j + d]
  BY <1>1, InsertProperties
<1>d. d \in {0, 1} /\ (Len(s) = n <=> d = 1)
  BY DEF Dropped
<1> HIDE DEF t, d
<1>t. Len(t) \in Nat /\ Len(t) >= 1
  BY <1>1, <1>2, <1>d
<1>l. t[Len(t)] = k /\ \A j \in 1..(Len(t) - 1) : t[j] = s[j + d]
  BY <1>2, <1>t
<1>3. /\ DOMAIN after = DOMAIN since \cup {k}
      /\ \A x \in DOMAIN since \cup {k} :
            after[x] = IF x = k THEN {} ELSE since[x] \cup {k}
  BY DEF Touch
<1> HIDE DEF after
<1>4. \A j, l \in 1..Len(t) : t[j] = t[l] => j = l
  <2> SUFFICES ASSUME NEW j \in 1..Len(t), NEW l \in 1..Len(t), t[j] = t[l]
               PROVE  j = l
    OBVIOUS
  <2>1. \A q \in 1..Len(t) : q # Len(t) => q + d \in 1..Len(s)
    BY <1>1, <1>2, <1>d, <1>t
  <2>2. \A q \in 1..Len(t) : q # Len(t) => t[q] = s[q + d] /\ t[q] # k
    BY <1>2, <2>1
  <2>3. CASE j # Len(t) /\ l # Len(t)
    <3>1. s[j + d] = s[l + d]
      BY <2>2, <2>3
    <3>2. j + d = l + d
      BY <2>1, <2>3, <3>1 DEF Tracks
    <3> QED BY <1>1, <1>2, <1>d, <1>t, <3>2
  <2> QED BY <1>2, <2>2, <2>3
<1>5. ASSUME NEW j \in 1..Len(t)
      PROVE  /\ t[j] \in DOMAIN after
             /\ after[t[j]] = {t[l] : l \in (j + 1)..Len(t)}
  <2>1. CASE j = Len(t)
    <3>1. t[j] = k
      BY <1>2, <2>1
    <3>2. after[t[j]] = {} /\ t[j] \in DOMAIN after
      BY <1>3, <3>1
    <3>3. (j + 1)..Len(t) = {}
      BY <1>1, <1>2, <1>d, <1>t, <2>1
    <3> QED BY <3>2, <3>3
  <2>2. CASE j # Len(t)
    <3>1. j + d \in 1..Len(s) /\ t[j] = s[j + d]
      BY <1>1, <1>2, <1>d, <1>t, <2>2
    <3>2. /\ s[j + d] # k
          /\ s[j + d] \in DOMAIN since
          /\ since[s[j + d]] = {s[l] : l \in (j + d + 1)..Len(s)}
      BY <3>1 DEF Tracks
    <3>3. t[j] \in DOMAIN after /\ after[t[j]] = since[s[j + d]] \cup {k}
      BY <1>3, <3>1, <3>2
    <3>4. ASSUME NEW l \in (j + d + 1)..Len(s)
          PROVE  s[l] \in {t[q] : q \in (j + 1)..Len(t)}
      <4>1. l - d \in (j + 1)..(Len(t) - 1) /\ (l - d) + d = l
        BY <1>1, <1>2, <1>d, <1>t, <3>1
      <4>2. t[l - d] = s[l]
        BY <1>l, <4>1
      <4> QED BY <1>t, <4>1, <4>2
    <3>5. k \in {t[q] : q \in (j + 1)..Len(t)}
      <4>1. Len(t) \in (j + 1)..Len(t) /\ t[Len(t)] = k
        BY <1>1, <1>2, <1>d, <1>t, <2>2
      <4> QED BY <4>1
    <3>6. ASSUME NEW q \in (j + 1)..Len(t)
          PROVE  t[q] \in {s[l] : l \in (j + d + 1)..Len(s)} \cup {k}
      <4>1. CASE q = Len(t)
        BY <1>l, <4>1
      <4>2. CASE q # Len(t)
        <5>1. q + d \in (j + d + 1)..Len(s) /\ t[q] = s[q + d]
          BY <1>1, <1>2, <1>d, <1>t, <4>2
        <5> QED BY <5>1
      <4> QED BY <4>1, <4>2
    <3>7. {t[q] : q \in (j + 1)..Len(t)} =
             {s[l] : l \in (j + d + 1)..Len(s)} \cup {k}
      BY <3>4, <3>5, <3>6
    <3> QED BY <3>2, <3>3, <3>7
  <2> QED BY <2>1, <2>2
<1>6. ASSUME NEW x \in DOMAIN after
      PROVE  /\ IsFiniteSet(after[x])
             /\ (\A j \in 1..Len(t) : t[j] # x) => Cardinality(after[x]) >= n
  <2>1. CASE x = k
    <3>1. after[x] = {}
      BY <1>3, <2>1
    <3>2. t[Len(t)] = x /\ Len(t) \in 1..Len(t)
      BY <1>t, <1>l, <2>1
    <3> QED BY <3>1, <3>2, FS_EmptySet
  <2>2. CASE x # k
    <3>1. x \in DOMAIN since /\ IsFiniteSet(since[x]) /\ after[x] = since[x] \cup {k}
      BY <1>3, <2>2 DEF Tracks
    <3>2. Cardinality(since[x]) \in Nat
      BY <3>1, FS_CardinalityType
    <3>3. /\ IsFiniteSet(after[x])
          /\ Cardinality(after[x]) =
                IF k \in since[x] THEN Cardinality(since[x])
                                  ELSE Cardinality(since[x]) + 1
      BY <3>1, FS_AddElement
    <3>4. CASE \A j \in 1..Len(s) : s[j] # x
      BY <3>1, <3>2, <3>3, <3>4 DEF Tracks
    <3>5. CASE \E j \in 1..Len(s) : s[j] = x
      <4>1. PICK j \in 1..Len(s) : s[j] = x
        BY <3>5
      <4> SUFFICES ASSUME \A q \in 1..Len(t) : t[q] # x
                   PROVE  Cardinality(after[x]) >= n
        BY <3>3
      <4>2. j = 1 /\ Len(s) = n
        <5>1. j - d \in 1..(Len(t) - 1) => t[j - d] = x
          BY <1>1, <1>2, <1>d, <1>t, <4>1
        <5> QED BY <1>1, <1>2, <1>d, <1>t, <5>1
      <4>3. since[x] = {s[l] : l \in (1 + 1)..Len(s)}
        BY <4>1, <4>2 DEF Tracks
      <4>4. k \notin since[x]
        BY <1>1, <4>3
      <4>5. Cardinality(since[x]) = Len(s) - 1
        <5>1. \A p, q \in 1..Len(s) : s[p] = s[q] => p = q
          BY DEF Tracks
        <5>2. 1 \in 0..Len(s)
          BY <1>1, <4>2
        <5> QED BY <1>1, <4>3, <5>1, <5>2, FollowersCount
      <4> QED BY <1>1, <3>3, <4>2, <4>4, <4>5
    <3> QED BY <3>3, <3>4, <3>5
  <2> QED BY <2>1, <2>2
<1>7. Tracks(t, after, n)
  BY <1>2, <1>4, <1>5, <1>6 DEF Tracks
<1> QED BY <1>7 DEF t, after

(* A memory that tracks the use of its keys holds exactly the keys used with *)
(* fewer than n others used after them.                                      *)
LEMMA TracksWindow ==
    ASSUME NEW S, NEW s \in Seq(S), NEW since, NEW n \in Nat,
           Tracks(s, since, n), NEW k
    PROVE  (\E i \in 1..Len(s) : s[i] = k) <=> UsedWithin(since, k, n)
<1>1. Len(s) \in Nat /\ Len(s) <= n
  BY LenProperties DEF Tracks
<1>2. ASSUME NEW i \in 1..Len(s), s[i] = k
      PROVE  UsedWithin(since, k, n)
  <2>1. k \in DOMAIN since /\ since[k] = {s[j] : j \in (i + 1)..Len(s)}
    BY <1>2 DEF Tracks
  <2>2. \A p, q \in 1..Len(s) : s[p] = s[q] => p = q
    BY DEF Tracks
  <2>3. Cardinality(since[k]) = Len(s) - i
    BY <1>1, <2>1, <2>2, FollowersCount, i \in 0..Len(s)
  <2> QED BY <1>1, <2>1, <2>3 DEF UsedWithin
<1>3. ASSUME UsedWithin(since, k, n), \A i \in 1..Len(s) : s[i] # k
      PROVE  FALSE
  <2>1. /\ IsFiniteSet(since[k])
        /\ Cardinality(since[k]) >= n
        /\ Cardinality(since[k]) < n
    BY <1>3 DEF Tracks, UsedWithin
  <2>2. Cardinality(since[k]) \in Nat
    BY <2>1, FS_CardinalityType
  <2> QED BY <2>1, <2>2
<1> QED BY <1>2, <1>3
-----------------------------------------------------------------------------
(* What a memory holds, without its order.                                 *)

(* A hit changes the order and nothing else. *)
LEMMA MoveToEndRange ==
    ASSUME NEW S, NEW s \in Seq(S), NEW i \in 1..Len(s)
    PROVE  Range(MoveToEnd(s, i)) = Range(s)
<1> DEFINE t == MoveToEnd(s, i)
<1>1. /\ t \in Seq(S)
      /\ Len(t) = Len(s)
      /\ \A j \in 1..Len(s) : t[j] =
            IF j < i THEN s[j] ELSE IF j < Len(s) THEN s[j + 1] ELSE s[i]
  BY MoveToEndProperties
<1>2. Len(s) \in Nat
  BY LenProperties
<1> HIDE DEF t
<1>3. Range(s) = {s[j] : j \in 1..Len(s)} /\ Range(t) = {t[j] : j \in 1..Len(s)}
  BY <1>1, RangeEquality
<1>4. ASSUME NEW j \in 1..Len(s)
      PROVE  \E k \in 1..Len(s) : t[j] = s[k]
  <2>1. CASE j < i
    BY <1>1, <2>1
  <2>2. CASE ~(j < i) /\ j < Len(s)
    BY <1>1, <1>2, <2>2, j + 1 \in 1..Len(s)
  <2>3. CASE ~(j < i) /\ ~(j < Len(s))
    BY <1>1, <2>3
  <2> QED BY <2>1, <2>2, <2>3
<1>5. ASSUME NEW k \in 1..Len(s)
      PROVE  \E j \in 1..Len(s) : t[j] = s[k]
  <2>1. CASE k < i
    BY <1>1, <2>1
  <2>2. CASE k > i
    <3>1. k - 1 \in 1..Len(s) /\ ~(k - 1 < i) /\ k - 1 < Len(s) /\ (k - 1) + 1 = k
      BY <1>2, <2>2
    <3>2. t[k - 1] = s[k]
      BY <1>1, <3>1
    <3> QED BY <3>1, <3>2
  <2>3. CASE k = i
    <3>1. Len(s) \in 1..Len(s) /\ ~(Len(s) < i) /\ ~(Len(s) < Len(s))
      BY <1>2
    <3> QED BY <1>1, <2>3, <3>1
  <2> QED BY <1>2, <2>1, <2>2, <2>3
<1>6. Range(t) \subseteq Range(s) /\ Range(s) \subseteq Range(t)
  BY <1>3, <1>4, <1>5
<1> QED BY <1>6 DEF t

(* A memory without repetition that is given a new entry gives up one of its *)
(* own if it was full, and none otherwise.                                   *)
LEMMA InsertRange ==
    ASSUME NEW S, NEW s \in Seq(S), NEW e \in S,
           NEW n \in Nat \ {0}, Len(s) <= n,
           \A i, j \in 1..Len(s) : s[i] = s[j] => i = j
    PROVE  \E lost \in SUBSET Range(s) :
              /\ Range(Inserted(s, e, n)) = (Range(s) \ lost) \cup {e}
              /\ Cardinality(lost) = IF Cardinality(Range(s)) < n THEN 0 ELSE 1
<1> DEFINE t == Inserted(s, e, n)
           d == Dropped(s, n)
           lost == {s[j] : j \in 1..d}
<1>1. /\ t \in Seq(S)
      /\ Len(t) = Len(s) + 1 - d
      /\ \A j \in 1..Len(t) : t[j] = IF j = Len(t) THEN e ELSE s[j + d]
  BY InsertProperties
<1>2. /\ Len(s) \in Nat
      /\ d \in {0, 1}
      /\ d = 1 <=> Len(s) = n
  BY LenProperties DEF Dropped
<1>3. Range(s) = {s[j] : j \in 1..Len(s)} /\ Range(t) = {t[j] : j \in 1..Len(t)}
  BY <1>1, RangeEquality
<1>4. Cardinality(Range(s)) = Len(s)
  BY <1>2, <1>3, FollowersCount, 0 \in 0..Len(s), 0 + 1 = 1, Len(s) - 0 = Len(s)
<1> HIDE DEF t, d
<1>5. lost \subseteq Range(s)
  BY <1>2, <1>3
<1>6. Cardinality(lost) = IF Cardinality(Range(s)) < n THEN 0 ELSE 1
  <2>1. CASE d = 0
    <3>1. lost = {}
      BY <2>1
    <3>2. Cardinality(lost) = 0
      BY <3>1, FS_EmptySet
    <3>3. Len(s) < n
      BY <1>2, <2>1
    <3> HIDE DEF lost
    <3> QED BY <1>4, <3>2, <3>3
  <2>2. CASE d = 1
    <3>1. lost = {s[1]}
      BY <2>2
    <3>2. Cardinality(lost) = 1
      BY <3>1, FS_Singleton
    <3> HIDE DEF lost
    <3> QED BY <1>2, <1>4, <2>2, <3>2
  <2> QED BY <1>2, <2>1, <2>2
<1>7. Len(t) \in 1..n
  BY <1>1, <1>2
<1>8. ASSUME NEW j \in 1..Len(t)
      PROVE  t[j] \in (Range(s) \ lost) \cup {e}
  <2>1. CASE j = Len(t)
    BY <1>1, <2>1
  <2>2. CASE j # Len(t)
    <3>1. j + d \in 1..Len(s) /\ t[j] = s[j + d]
      BY <1>1, <1>2, <1>7, <2>2
    <3>2. \A k \in 1..d : k \in 1..Len(s) /\ k # j + d
      BY <1>2, <1>7
    <3>3. s[j + d] \notin lost
      BY <3>1, <3>2
    <3> QED BY <1>3, <3>1, <3>3
  <2> QED BY <2>1, <2>2
<1>9. ASSUME NEW k \in 1..Len(s), s[k] \notin lost
      PROVE  s[k] \in Range(t)
  <2>1. ~(k \in 1..d)
    BY <1>9
  <2>2. k - d \in 1..Len(t) /\ k - d # Len(t) /\ (k - d) + d = k
    BY <1>1, <1>2, <2>1
  <2>3. t[k - d] = s[k]
    BY <1>1, <2>2
  <2> QED BY <1>3, <2>2, <2>3
<1>10. e \in Range(t)
  BY <1>1, <1>3, <1>7
<1>11. Range(t) = (Range(s) \ lost) \cup {e}
  <2>1. Range(t) \subseteq (Range(s) \ lost) \cup {e}
    BY <1>3, <1>8
  <2>2. (Range(s) \ lost) \cup {e} \subseteq Range(t)
    <3> HIDE DEF lost
    <3> QED BY <1>3, <1>9, <1>10
  <2> QED BY <2>1, <2>2
<1> QED BY <1>5, <1>6, <1>11 DEF t
-----------------------------------------------------------------------------
(* What a sequence holds after adding at its end, or taking from its head. *)

LEMMA RangeAppend ==
    ASSUME NEW S, NEW s \in Seq(S), NEW e \in S
    PROVE  Range(Append(s, e)) = Range(s) \cup {e}
<1>1. /\ Append(s, e) \in Seq(S)
      /\ Len(s) \in Nat
      /\ Len(Append(s, e)) = Len(s) + 1
      /\ \A i \in 1..Len(s) : Append(s, e)[i] = s[i]
      /\ Append(s, e)[Len(s) + 1] = e
  BY AppendProperties, LenProperties
<1>2. /\ Range(s) = {s[i] : i \in 1..Len(s)}
      /\ Range(Append(s, e)) = {Append(s, e)[i] : i \in 1..(Len(s) + 1)}
  BY <1>1, RangeEquality
<1>3. 1..(Len(s) + 1) = (1..Len(s)) \cup {Len(s) + 1}
  BY <1>1
<1> QED BY <1>1, <1>2, <1>3

LEMMA HeadTailRange ==
    ASSUME NEW S, NEW s \in Seq(S), s # <<>>
    PROVE  /\ Head(s) \in S
           /\ Tail(s) \in Seq(S)
           /\ Len(Tail(s)) = Len(s) - 1
           /\ Len(s) \in Nat
           /\ Range(Tail(s)) \subseteq Range(s)
<1>1. /\ Head(s) \in S
      /\ Tail(s) \in Seq(S)
      /\ Len(Tail(s)) = Len(s) - 1
      /\ Len(s) \in Nat
      /\ \A i \in 1..Len(Tail(s)) : Tail(s)[i] = s[i + 1]
  BY HeadTailProperties, LenProperties
<1>2. /\ Range(s) = {s[i] : i \in 1..Len(s)}
      /\ Range(Tail(s)) = {Tail(s)[i] : i \in 1..Len(Tail(s))}
  BY <1>1, RangeEquality
<1>3. \A i \in 1..Len(Tail(s)) : i + 1 \in 1..Len(s)
  BY <1>1
<1> QED BY <1>1, <1>2, <1>3
-----------------------------------------------------------------------------
(* A memory of entries and the sequence of what F makes of each of them (their *)
(* keys, for instance) change alike.                                           *)
Mapped(F, s) == [j \in 1..Len(s) |-> F[s[j]]]

LEMMA MappedType ==
    ASSUME NEW S, NEW T, NEW F, \A x \in S : F[x] \in T, NEW s \in Seq(S)
    PROVE  Mapped(F, s) \in Seq(T)
<1>1. Len(s) \in Nat /\ \A j \in 1..Len(s) : s[j] \in S
  BY LenProperties, ElementOfSeq
<1>2. \A j \in 1..Len(s) : F[s[j]] \in T
  BY <1>1
<1> QED BY <1>1, <1>2, IsASeq DEF Mapped

LEMMA MappedElements ==
    ASSUME NEW S, NEW F, NEW s \in Seq(S)
    PROVE  /\ Len(Mapped(F, s)) = Len(s)
           /\ Len(s) \in Nat
           /\ \A j \in 1..Len(s) : s[j] \in S /\ Mapped(F, s)[j] = F[s[j]]
BY LenProperties, ElementOfSeq DEF Mapped

LEMMA MappedRange ==
    ASSUME NEW S, NEW F, NEW s \in Seq(S)
    PROVE  Range(Mapped(F, s)) = {F[x] : x \in Range(s)}
<1> DEFINE T == {F[x] : x \in S}
           m == Mapped(F, s)
<1>1. \A x \in S : F[x] \in T
  OBVIOUS
<1> HIDE DEF T
<1>2. m \in Seq(T)
  BY <1>1, MappedType
<1>3. Len(m) = Len(s) /\ \A j \in 1..Len(s) : m[j] = F[s[j]]
  BY MappedElements
<1> HIDE DEF m
<1>4. Range(m) = {m[j] : j \in 1..Len(m)} /\ Range(s) = {s[j] : j \in 1..Len(s)}
  BY <1>2, RangeEquality
<1> QED BY <1>3, <1>4 DEF m

LEMMA MappedMove ==
    ASSUME NEW S, NEW F, NEW s \in Seq(S), NEW i \in 1..Len(s)
    PROVE  Mapped(F, MoveToEnd(s, i)) = MoveToEnd(Mapped(F, s), i)
<1> DEFINE t == MoveToEnd(s, i)
           k == Mapped(F, s)
           m == Mapped(F, t)
           u == MoveToEnd(k, i)
<1> DEFINE T == {F[x] : x \in S}
<1>0. \A x \in S : F[x] \in T
  OBVIOUS
<1> HIDE DEF T
<1>1. /\ k \in Seq(T)
      /\ Len(k) = Len(s)
      /\ Len(s) \in Nat
      /\ \A j \in 1..Len(s) : k[j] = F[s[j]]
  BY <1>0, MappedType, MappedElements
<1>2. /\ t \in Seq(S)
      /\ Len(t) = Len(s)
      /\ \A j \in 1..Len(s) : t[j] =
            IF j < i THEN s[j] ELSE IF j < Len(s) THEN s[j + 1] ELSE s[i]
  BY MoveToEndProperties
<1>3. t \in Seq(S) /\ Len(t) = Len(s)
  BY <1>2
<1> HIDE DEF t
<1>4. /\ m \in Seq(T)
      /\ Len(m) = Len(s)
      /\ \A j \in 1..Len(s) : m[j] = F[t[j]]
  <2>1. m \in Seq(T)
    BY <1>0, <1>3, MappedType
  <2>2. Len(m) = Len(t) /\ \A j \in 1..Len(t) : m[j] = F[t[j]]
    BY <1>3, MappedElements
  <2> QED BY <1>3, <2>1, <2>2
<1>5. /\ u \in Seq(T)
      /\ Len(u) = Len(s)
      /\ \A j \in 1..Len(s) : u[j] =
            IF j < i THEN k[j] ELSE IF j < Len(s) THEN k[j + 1] ELSE k[i]
  BY <1>1, MoveToEndProperties
<1> HIDE DEF k, m, u
<1>6. ASSUME NEW j \in 1..Len(s)
      PROVE  m[j] = u[j]
  <2>0. m[j] = F[t[j]]
    BY <1>4
  <2>1. CASE j < i
    <3>1. t[j] = s[j] /\ u[j] = k[j]
      BY <1>2, <1>5, <2>1
    <3> QED BY <1>1, <2>0, <3>1
  <2>2. CASE ~(j < i) /\ j < Len(s)
    <3>1. t[j] = s[j + 1] /\ u[j] = k[j + 1]
      BY <1>2, <1>5, <2>2
    <3>2. j + 1 \in 1..Len(s)
      BY <1>1, <2>2
    <3> QED BY <1>1, <2>0, <3>1, <3>2
  <2>3. CASE ~(j < i) /\ ~(j < Len(s))
    <3>1. t[j] = s[i] /\ u[j] = k[i]
      BY <1>2, <1>5, <2>3
    <3> QED BY <1>1, <2>0, <3>1
  <2> QED BY <2>1, <2>2, <2>3
<1>7. m = u
  BY <1>4, <1>5, <1>6, SeqEqual
<1> QED BY <1>7 DEF m, u, k, t

LEMMA MappedInsert ==
    ASSUME NEW S, NEW F, NEW s \in Seq(S), NEW e \in S,
           NEW n \in Nat \ {0}, Len(s) <= n
    PROVE  Mapped(F, Inserted(s, e, n)) = Inserted(Mapped(F, s), F[e], n)
<1> DEFINE t == Inserted(s, e, n)
           k == Mapped(F, s)
           m == Mapped(F, t)
           u == Inserted(k, F[e], n)
           d == Dropped(s, n)
<1> DEFINE T == {F[x] : x \in S}
<1>0. \A x \in S : F[x] \in T
  OBVIOUS
<1> HIDE DEF T
<1>1. /\ k \in Seq(T)
      /\ Len(k) = Len(s)
      /\ Len(s) \in Nat
      /\ \A j \in 1..Len(s) : k[j] = F[s[j]]
      /\ F[e] \in T
  BY <1>0, MappedType, MappedElements
<1>2. /\ t \in Seq(S)
      /\ Len(t) = Len(s) + 1 - d
      /\ \A j \in 1..Len(t) : t[j] = IF j = Len(t) THEN e ELSE s[j + d]
  BY InsertProperties
<1>3. d \in {0, 1} /\ Dropped(k, n) = d
  BY <1>1 DEF Dropped
<1> HIDE DEF t
<1>4. /\ m \in Seq(T)
      /\ Len(m) = Len(t)
      /\ \A j \in 1..Len(t) : m[j] = F[t[j]]
  BY <1>0, <1>2, MappedType, MappedElements
<1>5. /\ u \in Seq(T)
      /\ Len(u) = Len(k) + 1 - Dropped(k, n)
      /\ \A j \in 1..Len(u) : u[j] = IF j = Len(u) THEN F[e] ELSE k[j + Dropped(k, n)]
  BY <1>1, InsertProperties
<1> HIDE DEF k, m, u, d
<1>6. ASSUME NEW j \in 1..Len(t)
      PROVE  m[j] = u[j]
  <2>1. CASE j = Len(t)
    BY <1>1, <1>2, <1>3, <1>4, <1>5, <2>1
  <2>2. CASE j # Len(t)
    <3>1. j + d \in 1..Len(s)
      BY <1>1, <1>2, <1>3, <2>2
    <3> QED BY <1>1, <1>2, <1>3, <1>4, <1>5, <2>2, <3>1
  <2> QED BY <2>1, <2>2
<1>7. m = u
  BY <1>1, <1>2, <1>3, <1>4, <1>5, <1>6, SeqEqual
<1> QED BY <1>7 DEF m, u, k, t
=============================================================================
