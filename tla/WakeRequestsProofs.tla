-------------------------- MODULE WakeRequestsProofs --------------------------
(***************************************************************************)
(* What wakes the body, for every set of nodes and drafts, every clock and *)
(* every capacity of the supervisor's guard.                               *)
(***************************************************************************)
EXTENDS WakeRequests, RecencyOrderProofs

(* The shape of requests and of the envelopes that carry them. *)
RequestType ==
    [request_id : Ids, source_peer_id : Nodes, severity : {d.severity : d \in Drafts},
     observed_at_ms : Int, expires_at_ms : Int, ref_bytes : Int, summary_bytes : Int]

CarriedType ==
    [message_id : Ids, source_peer_id : Nodes, created_at_ms : Int, ttl_ms : Int,
     priority : {"important", "urgent"},
     payload : [request : RequestType, claims : {{}}]]

WakeType == [request : RequestType, at_ms : Int]

(* Real time of the observation, as far as the node's clock can tell. *)
ObservedAt(r) == r.observed_at_ms - ClockOffset[r.source_peer_id]

(* What build_wake_envelope made bears the name of the node that observed. *)
MadeByItsNode ==
    /\ carried \in SUBSET CarriedType
    /\ \A e \in carried : /\ e.source_peer_id = e.payload.request.source_peer_id
                          /\ ObservedAt(e.payload.request) <= now

(* The guard remembers ids of requests that woke the body, and nothing else. *)
SeenWereWoken ==
    \A i \in 1..Len(seen) :
        \E w \in Range(woken) : w.request.request_id = seen[i]

SeenTracks == Tracks(seen, since, GuardCapacity)

(* The inductive invariant. *)
IInv ==
    /\ TypeOK
    /\ MadeByItsNode
    /\ woken \in Seq(WakeType)
    /\ SeenWereWoken
    /\ SeenTracks
    /\ WokenInTime
    /\ IgnoredForAReason
    /\ PlainTextFits
-----------------------------------------------------------------------------
(* The guard's calls, in the operators of RecencyOrder. *)
LEMMA GuardOperators ==
    ASSUME NEW s, NEW i, NEW k, NEW n, NEW r
    PROVE  /\ Guard!MoveToEnd(s, i) = MoveToEnd(s, i)
           /\ Guard!KeepNewest(s, n) = KeepNewest(s, n)
           /\ Guard!Touch(r, k) = Touch(r, k)
<1>1. Guard!MoveToEnd(s, i) = MoveToEnd(s, i)
  BY DEF Guard!MoveToEnd, MoveToEnd, Guard!RemoveAt, RemoveAt
<1>2. Guard!KeepNewest(s, n) = KeepNewest(s, n)
  BY DEF Guard!KeepNewest, KeepNewest
<1>3. Guard!Touch(r, k) = Touch(r, k)
  BY Zenon DEF Guard!Touch, Touch
<1> QED BY <1>1, <1>2, <1>3

LEMMA GuardSuppresses ==
    ASSUME NEW m, Guard!Suppress(m)
    PROVE  /\ \E i \in 1..Len(seen) : seen[i] = m /\ seen' = MoveToEnd(seen, i)
           /\ since' = Touch(since, m)
           /\ verdict' = {[id |-> m, fresh |-> FALSE]}
BY GuardOperators DEF Guard!Suppress, Guard!PositionsOf, Guard!Refreshed

LEMMA GuardLetsThrough ==
    ASSUME NEW m, Guard!LetThrough(m)
    PROVE  /\ \A i \in 1..Len(seen) : seen[i] # m
           /\ seen' = Inserted(seen, m, GuardCapacity)
           /\ since' = Touch(since, m)
           /\ verdict' = {[id |-> m, fresh |-> TRUE]}
BY GuardOperators DEF Guard!LetThrough, Guard!PositionsOf, Inserted

(* Either call keeps the shape of the guard, and its memory that of use. *)
LEMMA GuardStep ==
    ASSUME Guard!TypeOK, SeenTracks, NEW m \in Ids,
           Guard!Suppress(m) \/ Guard!LetThrough(m)
    PROVE  Guard!TypeOK' /\ SeenTracks'
<1>1. seen \in Seq(Ids) /\ Len(seen) <= GuardCapacity /\ GuardCapacity \in Nat \ {0}
  BY WakeAssumption DEF Guard!TypeOK
<1>2. /\ DOMAIN Touch(since, m) \subseteq Ids
      /\ \A k \in DOMAIN Touch(since, m) : Touch(since, m)[k] \subseteq Ids
  BY DEF Guard!TypeOK, Touch
<1>3. \A b \in BOOLEAN : [id |-> m, fresh |-> b] \in [id : Ids, fresh : BOOLEAN]
  BY Zenon
<1>4. CASE Guard!Suppress(m)
  <2>1. PICK i \in 1..Len(seen) : seen[i] = m /\ seen' = MoveToEnd(seen, i)
    BY <1>4, GuardSuppresses
  <2>2. since' = Touch(since, m) /\ verdict' = {[id |-> m, fresh |-> FALSE]}
    BY <1>4, GuardSuppresses
  <2>3. seen' \in Seq(Ids) /\ Len(seen') = Len(seen)
    BY <1>1, <2>1, MoveToEndProperties
  <2>4. Tracks(seen', since', GuardCapacity)
    BY <1>1, <2>1, <2>2, TracksHit DEF SeenTracks
  <2>5. verdict' \in SUBSET [id : Ids, fresh : BOOLEAN]
    BY <1>3, <2>2, Zenon
  <2> QED BY <1>1, <1>2, <2>2, <2>3, <2>4, <2>5 DEF Guard!TypeOK, SeenTracks
<1>5. CASE Guard!LetThrough(m)
  <2>1. /\ \A i \in 1..Len(seen) : seen[i] # m
        /\ seen' = Inserted(seen, m, GuardCapacity)
        /\ since' = Touch(since, m)
        /\ verdict' = {[id |-> m, fresh |-> TRUE]}
    BY <1>5, GuardLetsThrough
  <2>2. seen' \in Seq(Ids) /\ Len(seen') <= GuardCapacity
    BY <1>1, <2>1, InsertProperties
  <2>3. Tracks(seen', since', GuardCapacity)
    BY <1>1, <2>1, TracksMiss DEF SeenTracks
  <2>4. verdict' \in SUBSET [id : Ids, fresh : BOOLEAN]
    BY <1>3, <2>1, Zenon
  <2> QED BY <1>2, <2>1, <2>2, <2>3, <2>4 DEF Guard!TypeOK, SeenTracks
<1> QED BY <1>4, <1>5
-----------------------------------------------------------------------------
(* Requests and envelopes.                                                 *)

LEMMA ClockType ==
    ASSUME TypeOK, NEW p \in Nodes \cup {"supervisor"}
    PROVE  now \in Int /\ ClockOffset[p] \in Int /\ Clock(p) \in Int
BY WakeAssumption DEF TypeOK, Clock

(* A node's request says what its clock showed when it was made. *)
LEMMA RequestOfType ==
    ASSUME TypeOK, NEW d \in Drafts
    PROVE  /\ RequestOf(d) \in RequestType
           /\ ObservedAt(RequestOf(d)) = now
<1>1. /\ d.source_peer_id \in Nodes
      /\ d.ttl_ms \in Int
      /\ d.ref_bytes \in Int
      /\ d.summary_bytes \in Int
      /\ d.request_id \in Ids
      /\ d.severity \in {x.severity : x \in Drafts}
  BY WakeAssumption DEF ValidRefBytes, ValidSummaryBytes, Ids
<1>2. Clock(d.source_peer_id) \in Int /\ Clock(d.source_peer_id) + d.ttl_ms \in Int
  BY <1>1, ClockType
<1>3. ObservedAt(RequestOf(d)) = now
  BY <1>1, <1>2, ClockType DEF ObservedAt, RequestOf, Clock
<1> HIDE DEF Clock
<1> QED BY <1>1, <1>2, <1>3 DEF RequestType, RequestOf

(* An envelope a node wraps a request into has its shape. *)
LEMMA EnvelopeOfType ==
    ASSUME NEW r \in RequestType, NEW m \in Ids
    PROVE  /\ EnvelopeOf(r, m) \in CarriedType
           /\ EnvelopeOf(r, m).payload.request = r
           /\ EnvelopeOf(r, m).payload.claims = {}
           /\ EnvelopeOf(r, m).source_peer_id = r.source_peer_id
           /\ EnvelopeOf(r, m).message_id = m
<1>1. /\ r.source_peer_id \in Nodes
      /\ r.observed_at_ms \in Int
      /\ r.expires_at_ms - r.observed_at_ms \in Int
  BY DEF RequestType
<1>2. (IF r.severity = "attention" THEN "important" ELSE "urgent")
         \in {"important", "urgent"}
  OBVIOUS
<1> QED BY <1>1, <1>2 DEF EnvelopeOf, CarriedType

(* Wrapping again changes the envelope, never the request in it. *)
LEMMA WrappedKeepsRequest ==
    ASSUME MadeByItsNode, NEW env \in carried \cup WrappedAgain
    PROVE  /\ env.payload.request \in RequestType
           /\ env.message_id \in Ids
           /\ env.source_peer_id \in Nodes
           /\ ObservedAt(env.payload.request) <= now
<1>1. CASE env \in carried
  BY <1>1 DEF MadeByItsNode, CarriedType
<1>2. CASE env \in WrappedAgain
  <2>1. PICK e \in carried, m \in Ids, p \in Nodes, ttl \in Lifetimes, c \in SUBSET Claims :
           env = Rewrap(e, m, p, ttl, c)
    BY <1>2 DEF WrappedAgain
  <2>2. /\ e \in CarriedType
        /\ ObservedAt(e.payload.request) <= now
    BY DEF MadeByItsNode
  <2>3. /\ env.payload.request = e.payload.request
        /\ env.message_id = m
        /\ env.source_peer_id = p
    BY <2>1, <2>2 DEF CarriedType, Rewrap
  <2>4. e.payload.request \in RequestType
    BY <2>2 DEF CarriedType
  <2> QED BY <2>2, <2>3, <2>4
<1> QED BY <1>1, <1>2
-----------------------------------------------------------------------------
(* The steps.  Each keeps the conjuncts it can disturb.                    *)

(* Nothing a request or a wake was once true of is undone by time. *)
LEMMA TimeKeeps ==
    ASSUME IInv, TimePasses
    PROVE  IInv'
<1>1. /\ now' \in Moments
      /\ now' > now
      /\ UNCHANGED <<carried, seen, verdict, since, woken, result>>
  BY DEF TimePasses
<1>2. now \in Int /\ now' \in Int
  BY <1>1, WakeAssumption DEF IInv, TypeOK
<1>3. TypeOK' /\ woken' \in Seq(WakeType)
  BY <1>1 DEF IInv, TypeOK, Guard!TypeOK
<1>4. MadeByItsNode'
  <2>1. ASSUME NEW e \in carried
        PROVE  ObservedAt(e.payload.request) <= now'
    <3>1. /\ e.payload.request \in RequestType
          /\ ObservedAt(e.payload.request) <= now
      BY DEF IInv, MadeByItsNode, CarriedType
    <3>2. ObservedAt(e.payload.request) \in Int
      BY <3>1, WakeAssumption DEF RequestType, ObservedAt
    <3> QED BY <1>1, <1>2, <3>1, <3>2
  <2> QED BY <1>1, <2>1 DEF IInv, MadeByItsNode
<1>5. SeenWereWoken' /\ SeenTracks'
  BY <1>1 DEF IInv, SeenWereWoken, SeenTracks
<1>6. WokenInTime' /\ PlainTextFits'
  BY <1>1 DEF IInv, WokenInTime, PlainTextFits
<1>7. IgnoredForAReason'
  <2> SUFFICES ASSUME NEW x \in result
               PROVE  LET r == x.env.payload.request IN
                      /\ x.outcome = "duplicate" =>
                            \E w \in Range(woken) : w.request.request_id = r.request_id
                      /\ x.outcome = "refused" /\ x.env \in carried
                            => IsExpired(r, Clock("supervisor"))' \/ x.env.message_id # r.request_id
    BY <1>1 DEF IgnoredForAReason, IsExpired
  <2>1. ASSUME x.env \in carried, IsExpired(x.env.payload.request, Clock("supervisor"))
        PROVE  IsExpired(x.env.payload.request, Clock("supervisor"))'
    <3>1. x.env.payload.request.expires_at_ms \in Int
      BY <2>1 DEF IInv, MadeByItsNode, CarriedType, RequestType
    <3>2. ClockOffset["supervisor"] \in Int
      BY WakeAssumption
    <3> QED BY <1>1, <1>2, <2>1, <3>1, <3>2 DEF IsExpired, Clock
  <2> QED BY <2>1 DEF IInv, IgnoredForAReason
<1> QED BY <1>3, <1>4, <1>5, <1>6, <1>7 DEF IInv

(* A new request bears the name of its node, and any id. *)
LEMMA MakeKeeps ==
    ASSUME IInv, NEW d \in Drafts, NEW m \in {d.request_id} \cup OtherIds,
           MakeRequest(d, m)
    PROVE  IInv'
<1> DEFINE q == RequestOf(d)
           new == EnvelopeOf(q, m)
<1>1. /\ carried' = carried \cup {new}
      /\ result' = {}
      /\ UNCHANGED <<now, seen, verdict, since, woken>>
      /\ ValidRequest(q)
      /\ WithinPayloadLimit(q)
  BY DEF MakeRequest
<1>2. q \in RequestType /\ ObservedAt(q) = now
  BY RequestOfType DEF IInv
<1>3. m \in Ids
  BY DEF Ids
<1>4. /\ new \in CarriedType
      /\ new.payload.request = q
      /\ new.payload.claims = {}
      /\ new.source_peer_id = q.source_peer_id
  BY <1>2, <1>3, EnvelopeOfType
<1>5. now \in Int
  BY WakeAssumption DEF IInv, TypeOK
<1> HIDE DEF q, new
<1>6. TypeOK' /\ woken' \in Seq(WakeType)
  <2>1. ValidRequest(new.payload.request) /\ ValidPayload(new.payload)
    BY <1>1, <1>4 DEF ValidPayload
  <2> QED BY <1>1, <2>1 DEF IInv, TypeOK, Guard!TypeOK
<1>7. MadeByItsNode'
  BY <1>1, <1>2, <1>4, <1>5 DEF IInv, MadeByItsNode, ObservedAt
<1>8. SeenWereWoken' /\ SeenTracks' /\ WokenInTime'
  BY <1>1 DEF IInv, SeenWereWoken, SeenTracks, WokenInTime
<1>9. IgnoredForAReason' /\ PlainTextFits'
  BY <1>1 DEF IgnoredForAReason, PlainTextFits
<1> QED BY <1>6, <1>7, <1>8, <1>9 DEF IInv

(* References take at most 2584 bytes and the fixed part 752: what is too large *)
(* for 4096 has a summary of more than 512.                                     *)
LEMMA LongSummary ==
    ASSUME NEW r \in RequestType, ValidRequest(r), ~WithinPayloadLimit(r)
    PROVE  r.summary_bytes > 2 * MAX_WAKE_SUMMARY_CHARS
<1> DEFINE refs == r.ref_bytes
           summary == r.summary_bytes
<1>1. refs \in Int /\ summary \in Int
  BY DEF RequestType
<1>2. 8 * (2 * 160 + 3) = 2584 /\ 2 * 256 = 512
  OBVIOUS
<1>3. refs \in 0..2584
  BY <1>2 DEF ValidRequest, ValidRefBytes, MAX_WAKE_EVIDENCE_REFS,
     MAX_WAKE_EVIDENCE_REF_CHARS
<1>4. 752 + refs + summary > 4096
  BY <1>1 DEF WithinPayloadLimit, PayloadBytes, MAX_WAKE_PAYLOAD_BYTES
<1> HIDE DEF refs, summary
<1>5. summary > 512
  BY <1>1, <1>3, <1>4
<1> QED BY <1>2, <1>5 DEF summary, MAX_WAKE_SUMMARY_CHARS

LEMMA TooLargeKeeps ==
    ASSUME IInv, NEW d \in Drafts, RequestTooLarge(d)
    PROVE  IInv'
<1> DEFINE q == RequestOf(d)
           env == EnvelopeOf(q, d.request_id)
           tooLarge == "too large"
<1>1. /\ UNCHANGED <<now, carried, seen, verdict, since, woken>>
      /\ ValidRequest(q)
      /\ ~WithinPayloadLimit(q)
  BY DEF RequestTooLarge
<1>0. result' = {[outcome |-> tooLarge, env |-> env]}
  BY DEF RequestTooLarge
<1>2. env.payload.request = q
  BY DEF EnvelopeOf
<1>3. q.summary_bytes > 2 * MAX_WAKE_SUMMARY_CHARS
  BY <1>1, RequestOfType, LongSummary DEF IInv
<1>4. tooLarge # "duplicate" /\ tooLarge # "refused"
  BY Zenon
<1> HIDE DEF q, env, tooLarge
<1>5. IgnoredForAReason' /\ PlainTextFits'
  <2>1. \A x \in result' : x.outcome = tooLarge /\ x.env.payload.request = q
    BY <1>0, <1>2
  <2>2. IgnoredForAReason'
    BY <1>4, <2>1 DEF IgnoredForAReason
  <2>3. PlainTextFits'
    BY <1>3, <2>1, Zenon DEF PlainTextFits
  <2> QED BY <2>2, <2>3
<1> QED BY <1>1, <1>5 DEF IInv, TypeOK, Guard!TypeOK, MadeByItsNode,
        SeenWereWoken, SeenTracks, WokenInTime

(* What its node sent is only refused when it has expired or bears another id. *)
LEMMA RefuseKeeps ==
    ASSUME IInv, NEW env \in carried, Refuse(env)
    PROVE  IInv'
<1>1. /\ UNCHANGED <<now, carried, seen, verdict, since, woken>>
      /\ ~Unwraps(env, Clock("supervisor"))
      /\ result' = {[outcome |-> "refused", env |-> env]}
  BY DEF Refuse
<1>2. \A x \in result' : x.outcome = "refused" /\ x.env = env
  BY <1>1
<1>3. \/ IsExpired(env.payload.request, Clock("supervisor"))
      \/ env.message_id # env.payload.request.request_id
  <2>1. /\ ValidPayload(env.payload)
        /\ env.payload.request.source_peer_id = env.source_peer_id
    BY DEF IInv, TypeOK, MadeByItsNode
  <2> QED BY <1>1, <2>1 DEF Unwraps
<1>4. IgnoredForAReason' /\ PlainTextFits'
  BY <1>1, <1>2, <1>3 DEF IgnoredForAReason, PlainTextFits, Clock
<1> QED BY <1>1, <1>4 DEF IInv, TypeOK, Guard!TypeOK, MadeByItsNode,
        SeenWereWoken, SeenTracks, WokenInTime

(* A suppressed id was let through before, and woke the body. *)
LEMMA SuppressKeeps ==
    ASSUME IInv, NEW env \in carried \cup WrappedAgain, Suppress(env)
    PROVE  IInv'
<1>1. /\ UNCHANGED <<now, carried, woken>>
      /\ env.payload.request.request_id = env.message_id
      /\ Guard!Suppress(env.message_id)
      /\ result' = {[outcome |-> "duplicate", env |-> env]}
  BY DEF Suppress, Unwraps
<1>2. env.message_id \in Ids
  BY WrappedKeepsRequest DEF IInv
<1>3. Guard!TypeOK' /\ SeenTracks'
  BY <1>1, <1>2, GuardStep DEF IInv, TypeOK
<1>4. PICK i \in 1..Len(seen) :
         seen[i] = env.message_id /\ seen' = MoveToEnd(seen, i)
  BY <1>1, GuardSuppresses
<1>5. seen \in Seq(Ids)
  BY DEF IInv, TypeOK, Guard!TypeOK
<1>6. SeenWereWoken'
  <2>1. Range(seen') = Range(seen)
    BY <1>4, <1>5, MoveToEndRange
  <2>2. Range(seen) = {seen[j] : j \in 1..Len(seen)}
    BY <1>5, RangeEquality
  <2>3. Range(seen') = {seen'[j] : j \in 1..Len(seen')}
    BY <1>3, RangeEquality DEF Guard!TypeOK
  <2>4. ASSUME NEW j \in 1..Len(seen')
        PROVE  \E k \in 1..Len(seen) : seen'[j] = seen[k]
    BY <2>1, <2>2, <2>3
  <2> QED BY <1>1, <2>4 DEF IInv, SeenWereWoken
<1>7. PICK w \in Range(woken) : w.request.request_id = env.message_id
  BY <1>4 DEF IInv, SeenWereWoken
<1>8. \A x \in result' : x.outcome = "duplicate" /\ x.env = env
  BY <1>1
<1>9. IgnoredForAReason' /\ PlainTextFits'
  BY <1>1, <1>7, <1>8 DEF IgnoredForAReason, PlainTextFits
<1> QED BY <1>1, <1>3, <1>6, <1>9 DEF IInv, TypeOK, MadeByItsNode, WokenInTime

LEMMA MaxTtlType == MAX_WAKE_REQUEST_TTL_MS \in Int
BY DEF MAX_WAKE_REQUEST_TTL_MS

(* The time from the observation to a wake before the expiry. *)
LEMMA WakeDelay ==
    ASSUME NEW t \in Int, NEW observed \in Int, NEW expires \in Int,
           NEW there \in Int, NEW here \in Int,
           expires - observed \in 1..MAX_WAKE_REQUEST_TTL_MS,
           observed - there <= t,
           t + here < expires
    PROVE  t - (observed - there)
              \in 0..(MAX_WAKE_REQUEST_TTL_MS + (there - here) - 1)
BY MaxTtlType

(* What wakes the body was unwrapped now: the guard had not let it through. *)
LEMMA WakeKeeps ==
    ASSUME IInv, NEW env \in carried \cup WrappedAgain, Wake(env)
    PROVE  IInv'
<1> DEFINE r == env.payload.request
           new == [request |-> r, at_ms |-> now]
<1>1. /\ UNCHANGED <<now, carried>>
      /\ result' = {}
      /\ Len(woken) < MaxWakes
      /\ Guard!LetThrough(env.message_id)
      /\ woken' = Append(woken, new)
      /\ Unwraps(env, Clock("supervisor"))
  BY DEF Wake
<1>2. /\ ValidRequest(r)
      /\ r.source_peer_id = env.source_peer_id
      /\ r.request_id = env.message_id
      /\ ~IsExpired(r, Clock("supervisor"))
  BY <1>1 DEF Unwraps, ValidPayload
<1>3. /\ r \in RequestType
      /\ env.message_id \in Ids
      /\ env.source_peer_id \in Nodes
      /\ ObservedAt(r) <= now
  BY WrappedKeepsRequest DEF IInv
<1>4. now \in Int /\ MaxWakes \in Nat /\ woken \in Seq(WakeType)
  BY WakeAssumption DEF IInv, TypeOK
<1>5. /\ new \in WakeType
      /\ new.request = r
      /\ new.at_ms = now
  BY <1>3, <1>4 DEF WakeType
<1> HIDE DEF new, r
<1>6. Range(woken') = Range(woken) \cup {new}
  BY <1>1, <1>4, <1>5, RangeAppend
<1>7. woken' \in Seq(WakeType) /\ Len(woken') <= MaxWakes
  BY <1>1, <1>4, <1>5, AppendProperties, LenProperties
<1>8. Guard!TypeOK' /\ SeenTracks'
  BY <1>1, <1>3, GuardStep DEF IInv, TypeOK
<1>9. SeenWereWoken'
  <2>1. seen' = Inserted(seen, env.message_id, GuardCapacity)
    BY <1>1, GuardLetsThrough
  <2>2. /\ seen \in Seq(Ids)
        /\ Len(seen) \in Nat
        /\ Len(seen) <= GuardCapacity
        /\ GuardCapacity \in Nat \ {0}
    BY WakeAssumption, LenProperties DEF IInv, TypeOK, Guard!TypeOK
  <2> DEFINE o == Dropped(seen, GuardCapacity)
  <2>3. /\ Len(seen') = Len(seen) + 1 - o
        /\ \A j \in 1..Len(seen') :
              seen'[j] = IF j = Len(seen') THEN env.message_id ELSE seen[j + o]
    BY <1>3, <2>1, <2>2, InsertProperties
  <2>4. o \in {0, 1} /\ (o = 1 => Len(seen) = GuardCapacity)
    BY DEF Dropped
  <2> HIDE DEF o
  <2>5. ASSUME NEW j \in 1..Len(seen'), j # Len(seen')
        PROVE  j + o \in 1..Len(seen) /\ seen'[j] = seen[j + o]
    BY <2>2, <2>3, <2>4, <2>5
  <2>6. \A j \in 1..Len(seen') : j = Len(seen') => seen'[j] = new.request.request_id
    BY <1>2, <1>5, <2>3
  <2> QED BY <1>6, <2>5, <2>6 DEF IInv, SeenWereWoken
<1>10. WokenInTime'
  <2>1. /\ ClockOffset["supervisor"] \in Int
        /\ ClockOffset[r.source_peer_id] \in Int
        /\ r.observed_at_ms \in Int
        /\ r.expires_at_ms \in Int
    BY <1>3, WakeAssumption DEF RequestType
  <2>2. r.expires_at_ms - r.observed_at_ms \in 1..MAX_WAKE_REQUEST_TTL_MS
    BY <1>2 DEF ValidRequest
  <2>3. now + ClockOffset["supervisor"] < r.expires_at_ms
    BY <1>2, <1>4, <2>1 DEF IsExpired, Clock
  <2>4. now - ObservedAt(r) \in 0..(MAX_WAKE_REQUEST_TTL_MS
           + (ClockOffset[r.source_peer_id] - ClockOffset["supervisor"]) - 1)
    BY <1>3, <1>4, <2>1, <2>2, <2>3, WakeDelay DEF ObservedAt
  <2> QED BY <1>5, <1>6, <2>3, <2>4 DEF IInv, WokenInTime, ObservedAt
<1>11. IgnoredForAReason' /\ PlainTextFits'
  BY <1>1 DEF IgnoredForAReason, PlainTextFits
<1>12. TypeOK' /\ MadeByItsNode'
  BY <1>1, <1>7, <1>8 DEF IInv, TypeOK, MadeByItsNode
<1> QED BY <1>7, <1>8, <1>9, <1>10, <1>11, <1>12 DEF IInv
-----------------------------------------------------------------------------
LEMMA InitIInv == Init => IInv
<1> SUFFICES ASSUME Init PROVE IInv
  OBVIOUS
<1>1. /\ now \in Moments
      /\ carried = {} /\ seen = <<>> /\ verdict = {} /\ since = <<>>
      /\ woken = <<>> /\ result = {}
  BY DEF Init, Guard!Init
<1>2. <<>> \in Seq(Ids) /\ <<>> \in Seq(WakeType) /\ Len(<<>>) = 0
      /\ Range(<<>>) = {} /\ DOMAIN <<>> = {}
  BY EmptySeq DEF Range
<1>3. TypeOK
  BY <1>1, <1>2, WakeAssumption DEF TypeOK, Guard!TypeOK
<1>4. MadeByItsNode
  BY <1>1 DEF MadeByItsNode
<1>5. SeenWereWoken /\ WokenInTime
  BY <1>1, <1>2 DEF SeenWereWoken, WokenInTime
<1>6. SeenTracks
  BY <1>1, TracksEmpty, WakeAssumption DEF SeenTracks
<1>7. IgnoredForAReason /\ PlainTextFits
  BY <1>1 DEF IgnoredForAReason, PlainTextFits
<1> QED BY <1>1, <1>2, <1>3, <1>4, <1>5, <1>6, <1>7 DEF IInv

LEMMA NextIInv == IInv /\ [Next]_vars => IInv'
<1> SUFFICES ASSUME IInv, [Next]_vars PROVE IInv'
  OBVIOUS
<1>1. CASE UNCHANGED vars
  <2>1. UNCHANGED <<now, carried, seen, verdict, since, woken, result>>
    BY <1>1 DEF vars
  <2>2. TypeOK' /\ MadeByItsNode' /\ woken' \in Seq(WakeType)
    BY <2>1 DEF IInv, TypeOK, Guard!TypeOK, MadeByItsNode
  <2>3. SeenWereWoken' /\ SeenTracks' /\ WokenInTime'
    BY <2>1 DEF IInv, SeenWereWoken, SeenTracks, WokenInTime
  <2>4. IgnoredForAReason' /\ PlainTextFits'
    BY <2>1, Zenon DEF IInv, IgnoredForAReason, PlainTextFits, Clock
  <2> QED BY <2>2, <2>3, <2>4 DEF IInv
<1>2. CASE \E d \in Drafts :
              \/ \E m \in {d.request_id} \cup OtherIds : MakeRequest(d, m)
              \/ RequestTooLarge(d)
  BY <1>2, MakeKeeps, TooLargeKeeps
<1>3. CASE \E env \in carried : Refuse(env)
  BY <1>3, RefuseKeeps
<1>4. CASE \E env \in carried \cup WrappedAgain : Suppress(env) \/ Wake(env)
  BY <1>4, SuppressKeeps, WakeKeeps
<1> QED BY <1>1, <1>2, <1>3, <1>4, TimeKeeps DEF Next

(* Requests are made by their own node; what the guard remembers has woken the *)
(* body, and it is the window of recent use.                                   *)
THEOREM Inductive == Spec => []IInv
BY InitIInv, NextIInv, PTL DEF Spec

(* Requests, the guard and the record of wakes keep their shape, and the guard *)
(* its capacity.                                                               *)
THEOREM TypeCorrect == Spec => []TypeOK
<1>1. IInv => TypeOK
  BY DEF IInv
<1> QED BY <1>1, Inductive, PTL

(* However long an envelope was carried and whatever lifetime it was wrapped   *)
(* with: the body is woken within five minutes, corrected by the clocks, of    *)
(* the observation.                                                            *)
THEOREM InTime == Spec => []WokenInTime
<1>1. IInv => WokenInTime
  BY DEF IInv
<1> QED BY <1>1, Inductive, PTL

(* A request is suppressed only after one of its id woke the body, whoever made *)
(* the two, and its node's own envelope is refused only for its age or for an   *)
(* id that is not the request's.                                                *)
THEOREM Explained == Spec => []IgnoredForAReason
<1>1. IInv => IgnoredForAReason
  BY DEF IInv
<1> QED BY <1>1, Inductive, PTL

(* Whatever references it carries, a request with a plain ASCII summary fits *)
(* its payload.                                                              *)
THEOREM PlainFits == Spec => []PlainTextFits
<1>1. IInv => PlainTextFits
  BY DEF IInv
<1> QED BY <1>1, Inductive, PTL

(* A request wakes the body again only after GuardCapacity other ids. *)
THEOREM OncePerWindow == Spec => WokenOncePerWindow
<1> DEFINE NotRecent ==
       LET w == woken'[Len(woken')] IN
           (\E v \in Range(woken) : v.request = w.request)
               => ~UsedWithin(since, w.request.request_id, GuardCapacity)
<1>1. ASSUME IInv, NEW env \in carried \cup WrappedAgain, Wake(env)
      PROVE  NotRecent
  <2>1. /\ env.payload.request.request_id = env.message_id
        /\ Guard!LetThrough(env.message_id)
        /\ woken' = Append(woken, [request |-> env.payload.request,
                                   at_ms |-> now])
    BY <1>1 DEF Wake, Unwraps
  <2>2. woken'[Len(woken')].request.request_id = env.message_id
    <3>1. /\ woken \in Seq(WakeType)
          /\ woken' \in Seq(WakeType)
      BY <1>1, NextIInv DEF IInv, Next
    <3>2. woken'[Len(woken')] = [request |-> env.payload.request,
                                 at_ms |-> now]
      BY <2>1, <3>1
    <3> QED BY <2>1, <3>2
  <2>3. ~UsedWithin(since, env.message_id, GuardCapacity)
    <3>1. /\ seen \in Seq(Ids)
          /\ Tracks(seen, since, GuardCapacity)
          /\ GuardCapacity \in Nat
      BY <1>1, WakeAssumption DEF IInv, TypeOK, Guard!TypeOK, SeenTracks
    <3> QED BY <2>1, <3>1, GuardLetsThrough, TracksWindow
  <2> QED BY <2>2, <2>3
<1>2. ASSUME IInv, [Next]_vars, woken' # woken
      PROVE  NotRecent
  <2>1. PICK env \in carried \cup WrappedAgain : Wake(env)
    BY <1>2 DEF Next, vars, MakeRequest, RequestTooLarge, Refuse, Suppress, TimePasses
  <2> QED BY <1>1, <1>2, <2>1
<1> HIDE DEF NotRecent
<1>3. IInv /\ [Next]_vars => [woken' # woken => NotRecent]_vars
  BY <1>2
<1> QED BY <1>3, Inductive, PTL DEF Spec, WokenOncePerWindow, NotRecent
=============================================================================
