---------------------------- MODULE RecencyOrder ----------------------------
(***************************************************************************)
(* The bounded OrderedDict of this code base, used as a least-recently-    *)
(* used memory by ReplayGuard and by both local-IP servers.  The entries   *)
(* are a sequence, oldest first.  Touch keeps, beside the code, the record *)
(* of which other keys were used since each key was last used: what the    *)
(* memory ought to remember, stated without the order it is kept in.       *)
(***************************************************************************)
EXTENDS Integers, FiniteSets, SequencesExt

(* OrderedDict.move_to_end on the entry at position i. *)
MoveToEnd(s, i) == Append(RemoveAt(s, i), s[i])

(* Mutants of KeepNewest: never trims; empties the memory once it is full. *)
KeepAll(s, n) == s
KeepNewestOrNothing(s, n) == IF Len(s) <= n THEN s ELSE SubSeq(s, Len(s), Len(s))

(* while len(d) > n: d.popitem(last=False) *)
KeepNewest(s, n) ==
    IF Len(s) <= n THEN s ELSE SubSeq(s, Len(s) - n + 1, Len(s))

(* since[k] is the set of keys used after the last use of k. *)
Touch(since, k) ==
    [x \in DOMAIN since \cup {k} |-> IF x = k THEN {} ELSE since[x] \cup {k}]

(* k was used, and fewer than n other keys have been used after it. *)
UsedWithin(since, k, n) ==
    /\ k \in DOMAIN since
    /\ Cardinality(since[k]) < n

(* The link between the two, as an inductive invariant: the keys in s are       *)
(* distinct, a remembered key has been followed by exactly the keys after it in *)
(* s, and a key that is gone has been followed by at least n others.            *)
Tracks(s, since, n) ==
    /\ Len(s) <= n
    /\ \A i, j \in 1..Len(s) : s[i] = s[j] => i = j
    /\ \A i \in 1..Len(s) : /\ s[i] \in DOMAIN since
                            /\ since[s[i]] = {s[j] : j \in (i + 1)..Len(s)}
    /\ \A k \in DOMAIN since :
          /\ IsFiniteSet(since[k])
          /\ (\A i \in 1..Len(s) : s[i] # k) => Cardinality(since[k]) >= n
=============================================================================
