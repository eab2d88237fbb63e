------------------------ MODULE LocalIpDeliveryProofs ------------------------
(***************************************************************************)
(* The safety properties of LocalIpDelivery, for every set of peers and    *)
(* envelopes, every limit, every clock and every capacity.                 *)
(***************************************************************************)
EXTENDS LocalIpDelivery, RecencyOrderProofs

(* The connections whose delivery frame the server has not answered yet. *)
InFlight == Range(backlog) \cup calling

(* The ids in the cache, oldest first. *)
CacheKeys == [i \in 1..Len(cache) |-> cache[i].env.message_id]

(* A nonce belongs to one connection: one caller, one envelope. *)
NoncesAgree ==
    /\ \A v, w \in waiting : v.nonce = w.nonce => v = w
    /\ \A f \in InFlight, w \in waiting : f.nonce = w.nonce => f.env = w.env

(* The receiver is only ever called for an admitted frame of a paired peer, *)
(* and the cache does not learn its message id during the call.             *)
CallsAreNew ==
    \A f \in calling :
        /\ Paired(f.env.source_peer_id)
        /\ f.env.destination_peer_id = ServerId
        /\ PositionsOf(f.env) = {}

(* What an ack on its way will make its caller report. *)
AckReport(a, w) == [env |-> w.env, accepted |-> a.accepted,
                    acknowledged |-> TRUE, detail |-> a.detail]

(* An ack is signed with the secret of the caller's peer and tells the truth. *)
AcksAreTrue ==
    \A a \in acks, w \in waiting :
        a.request_nonce = w.nonce =>
            /\ w.env.source_peer_id \in DOMAIN PeerSecrets
            /\ a.secret = PeerSecrets[w.env.source_peer_id]
            /\ Justified(AckReport(a, w))

(* The cache holds decisions, and every decision not forgotten. *)
CacheIsTrue ==
    /\ Range(cache) \subseteq decided
    /\ \A d \in decided : d.env.message_id \in forgotten \/ d \in Range(cache)

CacheTracks == Tracks(CacheKeys, since, ReplayCapacity)

(* The inductive invariant. *)
IInv ==
    /\ TypeOK
    /\ NoncesAgree
    /\ CallsAreNew
    /\ AcksAreTrue
    /\ CacheIsTrue
    /\ CacheTracks
    /\ ReportsAreTrue
    /\ PairedPeersOnly
-----------------------------------------------------------------------------
(* Sequences of connections.                                               *)

(* What the state of the connections has to do with the type invariant. *)
ConnectionsOK ==
    /\ now \in StartMs..StopMs
    /\ waiting \in SUBSET Waiter
    /\ backlog \in Seq(Frame)
    /\ Len(backlog) <= ListenBacklog
    /\ calling \in SUBSET Frame

LEMMA Connections == TypeOK => ConnectionsOK
BY DEF TypeOK, ConnectionsOK

LEMMA InFlightType == ConnectionsOK => InFlight \subseteq Frame
BY RangeOfSeq DEF ConnectionsOK, InFlight
-----------------------------------------------------------------------------
(* The cache, as a memory of entries about envelopes: the decisions of the *)
(* carrier, or the replies kept for its requests.                          *)
AboutEnvelopes(S) == \A d \in S : d.env \in Envelopes

CacheOf(S) == cache \in Seq(S) /\ Len(cache) <= ReplayCapacity

LEMMA CacheContents ==
    ASSUME NEW S, CacheOf(S)
    PROVE  /\ Len(cache) \in Nat
           /\ Range(cache) = {cache[i] : i \in 1..Len(cache)}
           /\ Range(cache) \subseteq S
BY LenProperties, RangeEquality, RangeOfSeq DEF CacheOf

LEMMA KeysType ==
    ASSUME NEW S, AboutEnvelopes(S), CacheOf(S)
    PROVE  /\ CacheKeys \in Seq(Ids)
           /\ Len(CacheKeys) = Len(cache)
           /\ \A i \in 1..Len(cache) : CacheKeys[i] = cache[i].env.message_id
           /\ CacheKeys = Mapped([d \in S |-> d.env.message_id], cache)
<1>1. Len(cache) \in Nat /\ \A i \in 1..Len(cache) : cache[i] \in S
  BY CacheContents
<1>2. \A i \in 1..Len(cache) : cache[i].env.message_id \in Ids
  BY <1>1 DEF AboutEnvelopes, Ids
<1>3. CacheKeys \in Seq(Ids) /\ Len(CacheKeys) = Len(cache)
  BY <1>1, <1>2, IsASeq DEF CacheKeys
<1>4. CacheKeys = Mapped([d \in S |-> d.env.message_id], cache)
  BY <1>1 DEF CacheKeys, Mapped
<1> QED BY <1>3, <1>4 DEF CacheKeys

LEMMA IdsDiffer ==
    ASSUME NEW S, AboutEnvelopes(S), CacheOf(S), CacheTracks,
           NEW i \in 1..Len(cache), NEW j \in 1..Len(cache),
           cache[i].env.message_id = cache[j].env.message_id
    PROVE  i = j
<1>1. /\ Len(CacheKeys) = Len(cache)
      /\ CacheKeys[i] = cache[i].env.message_id
      /\ CacheKeys[j] = cache[j].env.message_id
  BY KeysType
<1> QED BY <1>1 DEF CacheTracks, Tracks

(* A hit moves its entry to the end of the cache, and its key with it. *)
LEMMA HitMoves ==
    ASSUME NEW S, CacheOf(S), NEW i \in 1..Len(cache), cache' = Refreshed(cache, i)
    PROVE  CacheOf(S)' /\ Range(cache') = Range(cache)
BY MoveToEndProperties, MoveToEndRange DEF CacheOf, Refreshed

LEMMA HitTracks ==
    ASSUME NEW S, AboutEnvelopes(S), CacheOf(S), CacheTracks,
           NEW i \in 1..Len(cache), cache' = Refreshed(cache, i),
           since' = Touch(since, cache[i].env.message_id)
    PROVE  CacheTracks'
<1> DEFINE F == [d \in S |-> d.env.message_id]
<1>1. /\ CacheKeys \in Seq(Ids)
      /\ i \in 1..Len(CacheKeys)
      /\ CacheKeys[i] = cache[i].env.message_id
      /\ CacheKeys = Mapped(F, cache)
  BY KeysType
<1>2. CacheOf(S)'
  BY HitMoves
<1>3. CacheKeys' = Mapped(F, cache')
  BY <1>2 DEF CacheKeys, Mapped, CacheOf
<1>4. \A x \in S : F[x] \in Ids
  BY DEF AboutEnvelopes, Ids
<1> HIDE DEF F
<1>5. CacheKeys' = MoveToEnd(CacheKeys, i)
  <2>1. cache \in Seq(S) /\ cache' = MoveToEnd(cache, i)
    BY DEF CacheOf, Refreshed
  <2>2. Mapped(F, MoveToEnd(cache, i)) = MoveToEnd(Mapped(F, cache), i)
    BY <1>4, <2>1, MappedMove
  <2> QED BY <1>1, <1>3, <2>1, <2>2
<1>6. Tracks(MoveToEnd(CacheKeys, i), Touch(since, CacheKeys[i]), ReplayCapacity)
  BY <1>1, TracksHit, ServerAssumption DEF CacheTracks
<1> QED BY <1>1, <1>5, <1>6 DEF CacheTracks

(* A new entry is added at the end; a full cache drops its oldest one. *)
LEMMA NewAdds ==
    ASSUME NEW S, CacheOf(S), NEW d \in S,
           cache' = Inserted(cache, d, ReplayCapacity)
    PROVE  CacheOf(S)'
BY InsertProperties, ServerAssumption DEF CacheOf

LEMMA NewTracks ==
    ASSUME NEW S, AboutEnvelopes(S), CacheOf(S), CacheTracks, NEW d \in S,
           PositionsOf(d.env) = {},
           cache' = Inserted(cache, d, ReplayCapacity),
           since' = Touch(since, d.env.message_id)
    PROVE  CacheTracks'
<1> DEFINE F == [x \in S |-> x.env.message_id]
           m == d.env.message_id
<1>1. /\ CacheKeys \in Seq(Ids)
      /\ CacheKeys = Mapped(F, cache)
      /\ \A i \in 1..Len(CacheKeys) : CacheKeys[i] # m
  BY KeysType DEF PositionsOf
<1>2. CacheOf(S)'
  BY NewAdds
<1>3. CacheKeys' = Mapped(F, cache')
  BY <1>2 DEF CacheKeys, Mapped, CacheOf
<1>4. (\A x \in S : F[x] \in Ids) /\ F[d] = m /\ m \in Ids
  BY DEF AboutEnvelopes, Ids
<1> HIDE DEF F, m
<1>5. CacheKeys' = Inserted(CacheKeys, m, ReplayCapacity)
  <2>1. cache \in Seq(S) /\ Len(cache) <= ReplayCapacity /\ ReplayCapacity \in Nat \ {0}
    BY ServerAssumption DEF CacheOf
  <2>2. Mapped(F, Inserted(cache, d, ReplayCapacity))
           = Inserted(Mapped(F, cache), F[d], ReplayCapacity)
    BY <1>4, <2>1, MappedInsert
  <2> QED BY <1>1, <1>3, <1>4, <2>2
<1>6. Tracks(Inserted(CacheKeys, m, ReplayCapacity), Touch(since, m), ReplayCapacity)
  BY <1>1, <1>4, TracksMiss, ServerAssumption DEF CacheTracks
<1> QED BY <1>5, <1>6 DEF CacheTracks, m

LEMMA NewReplaces ==
    ASSUME NEW S, AboutEnvelopes(S), CacheOf(S), CacheTracks, NEW d \in S,
           cache' = Inserted(cache, d, ReplayCapacity)
    PROVE  \E lost \in SUBSET Range(cache) :
              /\ Range(cache') = (Range(cache) \ lost) \cup {d}
              /\ Cardinality(lost) =
                    IF Cardinality(Range(cache)) < ReplayCapacity THEN 0 ELSE 1
<1>1. \A i, j \in 1..Len(cache) : cache[i] = cache[j] => i = j
  BY IdsDiffer
<1> QED BY <1>1, InsertRange, ServerAssumption DEF CacheOf

(* What is decided and not forgotten is in the cache: after a new entry whose id *)
(* the cache does not hold, if the ids that leave the cache are forgotten.       *)
LEMMA NewIsTrue ==
    ASSUME NEW S, AboutEnvelopes(S), CacheOf(S), CacheTracks, CacheIsTrue,
           NEW d \in S, PositionsOf(d.env) = {},
           cache' = Inserted(cache, d, ReplayCapacity),
           decided' = decided \cup {d},
           forgotten \cup (IdsIn(cache) \ IdsIn(cache')) \subseteq forgotten'
    PROVE  CacheIsTrue'
<1>1. PICK lost \in SUBSET Range(cache) :
         Range(cache') = (Range(cache) \ lost) \cup {d}
  BY NewReplaces
<1>2. \A x \in Range(cache) : x.env.message_id # d.env.message_id
  BY CacheContents DEF PositionsOf
<1>3. ASSUME NEW x \in decided, x.env.message_id \notin forgotten'
      PROVE  x \in Range(cache')
  <2>1. x \in Range(cache) /\ x.env.message_id \in IdsIn(cache')
    BY <1>3 DEF CacheIsTrue, IdsIn
  <2>2. PICK y \in Range(cache') : y.env.message_id = x.env.message_id
    BY <2>1 DEF IdsIn
  <2>3. y \in Range(cache)
    BY <1>1, <1>2, <2>1, <2>2
  <2>4. x = y
    BY <2>1, <2>2, <2>3, CacheContents, IdsDiffer
  <2> QED BY <2>2, <2>4
<1> QED BY <1>1, <1>3 DEF CacheIsTrue

(* After a restart nothing is known, and everything is forgotten. *)
LEMMA RestartIsTrue ==
    ASSUME CacheIsTrue, cache' = <<>>, since' = <<>>, decided' = decided,
           forgotten' = forgotten \cup IdsIn(cache)
    PROVE  CacheIsTrue' /\ CacheTracks'
<1>1. Range(cache') = {}
  BY DEF Range
<1>2. CacheKeys' = <<>>
  BY EmptySeq DEF CacheKeys
<1> QED BY <1>1, <1>2, TracksEmpty, ServerAssumption DEF CacheIsTrue, CacheTracks, IdsIn
-----------------------------------------------------------------------------
(* Facts about single actions that several of the steps below rest on.     *)

LEMMA DecisionCache ==
    ASSUME TypeOK
    PROVE  AboutEnvelopes(Decision) /\ CacheOf(Decision)
BY DEF TypeOK, AboutEnvelopes, CacheOf, Decision

(* Accepting a connection takes it out of the backlog. *)
LEMMA AcceptTakes ==
    ASSUME ConnectionsOK, NEW f \in Range(backlog), Accept(f)
    PROVE  /\ f \in Frame
           /\ f \in InFlight
           /\ backlog' \in Seq(Frame)
           /\ Len(backlog') <= ListenBacklog
           /\ Range(backlog') \subseteq Range(backlog)
           /\ calling = {}
<1>1. backlog \in Seq(Frame) /\ backlog # <<>> /\ Len(backlog) <= ListenBacklog
  BY DEF Accept, Accepting, ConnectionsOK
<1>2. /\ Tail(backlog) \in Seq(Frame)
      /\ Len(Tail(backlog)) = Len(backlog) - 1
      /\ Len(backlog) \in Nat
      /\ Range(Tail(backlog)) \subseteq Range(backlog)
  BY <1>1, HeadTailRange
<1>3. f \in Frame
  BY InFlightType DEF InFlight
<1> QED BY <1>1, <1>2, <1>3, ServerAssumption DEF Accept, Accepting, InFlight

(* A new connection joins the end of the backlog, under a nonce not in use. *)
LEMMA ArrivesAdds ==
    ASSUME ConnectionsOK, NEW e \in Envelopes, NEW n \in Nonces, NEW intact \in BOOLEAN,
           CanConnect, Arrives(e, n, intact)
    PROVE  /\ backlog' \in Seq(Frame)
           /\ Len(backlog') <= ListenBacklog
           /\ \A f \in Range(backlog') :
                 f \in Range(backlog) \/ (f.nonce = n /\ f.env = e)
<1> DEFINE f == [nonce |-> n, env |-> e, intact |-> intact,
                 sent_at_ms |-> Clock(e.source_peer_id)]
<1>1. Clock(e.source_peer_id) \in Int
  <2>1. now \in Int
    BY ClockAssumption DEF ConnectionsOK
  <2>2. ClockOffset[e.source_peer_id] \in Int
    BY ClockAssumption, EnvelopeAssumption DEF ValidEnvelope
  <2> QED BY <2>1, <2>2 DEF Clock
<1>2. f \in Frame
  BY <1>1 DEF Frame
<1>3. backlog \in Seq(Frame) /\ Len(backlog) < ListenBacklog /\ Len(backlog) \in Nat
  BY LenProperties DEF ConnectionsOK, CanConnect
<1>4. backlog' = Append(backlog, f)
  BY DEF Arrives
<1> HIDE DEF f
<1>5. backlog' \in Seq(Frame) /\ Len(backlog') = Len(backlog) + 1
  BY <1>2, <1>3, <1>4, AppendProperties
<1>6. Range(backlog') = Range(backlog) \cup {f}
  BY <1>2, <1>3, <1>4, RangeAppend
<1> QED BY <1>3, <1>5, <1>6, ServerAssumption DEF f

(* The ack of a frame of a provisioned peer has its type, and is only sent to *)
(* the caller of that frame.                                                  *)
LEMMA AnswersAdds ==
    ASSUME TypeOK, NEW f \in Frame, NEW accepted \in BOOLEAN,
           NEW detail \in Details, f.env.source_peer_id \in DOMAIN PeerSecrets,
           Answers(f, accepted, detail)
    PROVE  /\ acks' \in SUBSET AckType
           /\ \A a \in acks' :
                 \/ a \in acks
                 \/ /\ a.request_nonce = f.nonce
                    /\ a.accepted = accepted
                    /\ a.detail = detail
                    /\ a.secret = PeerSecrets[f.env.source_peer_id]
<1> DEFINE a == [request_nonce |-> f.nonce, message_id |-> f.env.message_id,
                 accepted |-> accepted, detail |-> detail, secret |-> SecretFor(f)]
<1>1. SecretFor(f) \in Range(PeerSecrets) /\ f.env.message_id \in Ids
  BY DEF SecretFor, Range, Ids, Frame
<1>2. a \in AckType
  BY <1>1 DEF AckType, Frame
<1>3. acks' = acks \cup {a} \/ acks' = acks
  BY DEF Answers
<1> QED BY <1>2, <1>3 DEF TypeOK, SecretFor

LEMMA IdsInCacheType ==
    ASSUME TypeOK
    PROVE  IdsIn(cache) \subseteq Ids
<1>1. Range(cache) \subseteq Decision
  BY RangeOfSeq DEF TypeOK
<1> QED BY <1>1 DEF IdsIn, Ids, Decision

LEMMA TouchType ==
    ASSUME TypeOK, NEW m \in Ids, since' = Touch(since, m)
    PROVE  /\ DOMAIN since' \subseteq Ids
           /\ \A k \in DOMAIN since' : since'[k] \subseteq Ids
BY DEF TypeOK, Touch

LEMMA ReportMember ==
    ASSUME NEW e \in Envelopes, NEW accepted \in BOOLEAN,
           NEW acknowledged \in BOOLEAN,
           NEW detail \in Details \cup {"failed", "expired", "frame limit"}
    PROVE  [env |-> e, accepted |-> accepted, acknowledged |-> acknowledged,
            detail |-> detail] \in ReportType
BY Zenon DEF ReportType

LEMMA FailedType ==
    ASSUME NEW e \in Envelopes
    PROVE  Failed(e) \in SUBSET ReportType
BY ReportMember DEF Failed

LEMMA CallerType ==
    ASSUME TypeOK, Caller
    PROVE  TypeOK'
<1>1. ASSUME NEW e \in Envelopes, SendExpired(e)
      PROVE  TypeOK'
  <2>1. reports' \in SUBSET ReportType
    BY <1>1, ReportMember DEF SendExpired
  <2> QED BY <1>1, <2>1 DEF SendExpired, serverVars, TypeOK
<1>2. ASSUME NEW e \in Envelopes, SendUnreachable(e)
      PROVE  TypeOK'
  <2>1. reports' \in SUBSET ReportType
    BY <1>2, FailedType DEF SendUnreachable
  <2> QED BY <1>2, <2>1 DEF SendUnreachable, serverVars, TypeOK
<1>3. ASSUME NEW e \in Envelopes, NEW n \in Nonces, SendBroken(e, n)
      PROVE  TypeOK'
  <2>1. backlog' \in Seq(Frame) /\ Len(backlog') <= ListenBacklog
    BY <1>3, Connections, ArrivesAdds DEF SendBroken
  <2>2. reports' \in SUBSET ReportType
    BY <1>3, ReportMember, FailedType DEF SendBroken
  <2> QED BY <1>3, <2>1, <2>2 DEF SendBroken, serverVars, TypeOK
<1>4. ASSUME NEW e \in Envelopes, NEW n \in Nonces, Send(e, n)
      PROVE  TypeOK'
  <2>1. backlog' \in Seq(Frame) /\ Len(backlog') <= ListenBacklog
    BY <1>4, Connections, ArrivesAdds DEF Send
  <2>2. waiting' \in SUBSET Waiter
    BY <1>4 DEF Send, TypeOK, Waiter
  <2> QED BY <1>4, <2>1, <2>2 DEF Send, serverVars, TypeOK
<1>5. ASSUME NEW w \in waiting, NEW r \in SUBSET ReportType, Returns(w, r)
      PROVE  TypeOK'
  BY <1>5 DEF Returns, serverVars, TypeOK
<1>6. ASSUME NEW w \in waiting
      PROVE  Failed(w.env) \in SUBSET ReportType
  BY FailedType DEF TypeOK, Waiter
<1>7. ASSUME NEW w \in waiting, ReceiveAck(w)
      PROVE  TypeOK'
  <2>1. PICK a \in acks :
           Returns(w, IF ValidAck(a, w)
                      THEN {[env |-> w.env, accepted |-> a.accepted,
                             acknowledged |-> TRUE, detail |-> a.detail]}
                      ELSE Failed(w.env))
    BY <1>7 DEF ReceiveAck
  <2>2. {[env |-> w.env, accepted |-> a.accepted,
          acknowledged |-> TRUE, detail |-> a.detail]} \in SUBSET ReportType
    <3>1. w.env \in Envelopes /\ a.accepted \in BOOLEAN /\ a.detail \in Details
      BY DEF TypeOK, Waiter, AckType
    <3> QED BY <3>1, ReportMember
  <2> QED BY <1>5, <1>6, <2>1, <2>2
<1> QED BY <1>1, <1>2, <1>3, <1>4, <1>5, <1>6, <1>7
        DEF Caller, ConnectionLost, TimeOut

LEMMA ServerType ==
    ASSUME TypeOK, CallsAreNew, serve_once
    PROVE  TypeOK'
<1>1. CASE ServeSilently
  BY <1>1, Connections, AcceptTakes DEF ServeSilently, clientVars, memoryVars, TypeOK
<1>2. CASE ServeRefusal
  <2>1. PICK f \in Range(backlog) :
           /\ Accept(f)
           /\ ~Unanswerable(f)
           /\ Answers(f, FALSE, "refused")
    BY <1>2 DEF ServeRefusal
  <2>2. acks' \in SUBSET AckType
    BY <2>1, Connections, AcceptTakes, AnswersAdds DEF Unanswerable, Details
  <2> QED BY <1>2, <2>1, <2>2, Connections, AcceptTakes
          DEF ServeRefusal, clientVars, memoryVars, TypeOK
<1>3. CASE ServeRemembered
  <2>0. PICK f \in Range(backlog) :
           \E i \in PositionsOf(f.env) :
              /\ Accept(f)
              /\ ~Unanswerable(f)
              /\ cache' = Refreshed(cache, i)
              /\ since' = Touch(since, f.env.message_id)
              /\ IF SameContent(cache[i], f)
                 THEN Answers(f, cache[i].accepted, Outcome(cache[i].accepted))
                 ELSE Answers(f, FALSE, "conflict")
    BY <1>3 DEF ServeRemembered
  <2>1. PICK i \in PositionsOf(f.env) :
           /\ Accept(f)
           /\ ~Unanswerable(f)
           /\ cache' = Refreshed(cache, i)
           /\ since' = Touch(since, f.env.message_id)
           /\ IF SameContent(cache[i], f)
              THEN Answers(f, cache[i].accepted, Outcome(cache[i].accepted))
              ELSE Answers(f, FALSE, "conflict")
    BY <2>0
  <2>2. i \in 1..Len(cache) /\ f \in Frame
    BY <2>1, Connections, AcceptTakes DEF PositionsOf
  <2>3. cache[i].accepted \in BOOLEAN
    <3>1. cache[i] \in Decision
      BY <2>2, DecisionCache, CacheContents
    <3> QED BY <3>1 DEF Decision
  <2>4. acks' \in SUBSET AckType
    BY <2>1, <2>2, <2>3, AnswersAdds DEF Unanswerable, Details, Outcome
  <2>5. /\ DOMAIN since' \subseteq Ids
        /\ \A k \in DOMAIN since' : since'[k] \subseteq Ids
    <3>1. f.env.message_id \in Ids
      BY <2>2 DEF Frame, Ids
    <3> QED BY <2>1, <3>1, TouchType
  <2>6. cache' \in Seq(Decision) /\ Len(cache') <= ReplayCapacity
    BY <2>1, <2>2, DecisionCache, HitMoves DEF CacheOf
  <2> QED BY <1>3, <2>1, <2>4, <2>5, <2>6, Connections, AcceptTakes
          DEF ServeRemembered, clientVars, TypeOK
<1>4. CASE ServeNew
  <2>1. PICK f \in Range(backlog) : Accept(f) /\ calling' = {f}
    BY <1>4 DEF ServeNew
  <2> QED BY <1>4, <2>1, Connections, AcceptTakes DEF ServeNew, clientVars, memoryVars, TypeOK
<1>5. ASSUME NEW accepted \in BOOLEAN, ReceiverReturns(accepted)
      PROVE  TypeOK'
  <2> DEFINE d(f) == [env |-> f.env, accepted |-> accepted]
  <2>1. PICK f \in calling :
           /\ calling' = {}
           /\ decided' = decided \cup {d(f)}
           /\ cache' = Remembered(d(f))
           /\ since' = Touch(since, f.env.message_id)
           /\ forgotten' = forgotten \cup
                 ((IdsIn(cache) \cup {f.env.message_id}) \ IdsIn(cache'))
           /\ Answers(f, accepted, Outcome(accepted))
    BY <1>5 DEF ReceiverReturns
  <2>2. f \in Frame /\ d(f) \in Decision /\ f.env.message_id \in Ids
    BY DEF TypeOK, Frame, Decision, Ids
  <2>3. acks' \in SUBSET AckType
    BY <2>1, <2>2, AnswersAdds DEF CallsAreNew, Paired, Outcome, Details
  <2>4. IdsIn(cache) \subseteq Ids
    BY IdsInCacheType
  <2>5. cache' \in Seq(Decision) /\ Len(cache') <= ReplayCapacity
    BY <2>1, <2>2, DecisionCache, NewAdds DEF Remembered, Inserted, CacheOf
  <2>6. /\ DOMAIN since' \subseteq Ids
        /\ \A k \in DOMAIN since' : since'[k] \subseteq Ids
    BY <2>1, <2>2, TouchType
  <2>7. decided' \in SUBSET Decision /\ forgotten' \in SUBSET Ids
    BY <2>1, <2>2, <2>4 DEF TypeOK
  <2> QED BY <1>5, <2>1, <2>3, <2>5, <2>6, <2>7
          DEF ReceiverReturns, clientVars, TypeOK
<1>6. CASE ReceiverRaises
  <2>1. PICK f \in calling : calling' = {} /\ Answers(f, FALSE, "refused")
    BY <1>6 DEF ReceiverRaises
  <2>2. acks' \in SUBSET AckType
    BY <2>1, AnswersAdds DEF TypeOK, CallsAreNew, Paired, Details
  <2> QED BY <1>6, <2>1, <2>2 DEF ReceiverRaises, clientVars, memoryVars, TypeOK
<1> QED BY <1>1, <1>2, <1>3, <1>4, <1>5, <1>6 DEF serve_once

LEMMA EnvironmentType ==
    ASSUME TypeOK, bind \/ close \/ Crash \/ Tick
    PROVE  TypeOK'
<1>1. <<>> \in Seq(Frame) /\ <<>> \in Seq(Decision) /\ Len(<<>>) = 0
  BY EmptySeq
<1>2. CASE bind
  BY <1>2 DEF bind, clientVars, memoryVars, TypeOK
<1>3. CASE close
  <2>1. backlog' \in Seq(Frame) /\ Len(backlog') <= ListenBacklog
    BY <1>1, <1>3, ServerAssumption DEF close
  <2> QED BY <1>3, <2>1 DEF close, clientVars, memoryVars, TypeOK
<1>4. CASE Crash
  <2>1. IdsIn(cache) \subseteq Ids
    BY IdsInCacheType
  <2>2. DOMAIN since' = {}
    BY <1>4 DEF Crash
  <2>3. backlog' \in Seq(Frame) /\ Len(backlog') <= ListenBacklog
    BY <1>1, <1>4, ServerAssumption DEF Crash
  <2>4. cache' \in Seq(Decision) /\ Len(cache') <= ReplayCapacity
    BY <1>1, <1>4, ServerAssumption DEF Crash
  <2>5. forgotten' \in SUBSET Ids
    BY <1>4, <2>1 DEF Crash, TypeOK
  <2> QED BY <1>4, <2>2, <2>3, <2>4, <2>5 DEF Crash, clientVars, TypeOK
<1>5. CASE Tick
  BY <1>5, ClockAssumption DEF Tick, clientVars, serverVars, TypeOK
<1> QED BY <1>2, <1>3, <1>4, <1>5

LEMMA TypeStep == TypeOK /\ CallsAreNew /\ [Next]_vars => TypeOK'
<1> SUFFICES ASSUME TypeOK, CallsAreNew, [Next]_vars PROVE TypeOK'
  OBVIOUS
<1>1. CASE UNCHANGED vars
  BY <1>1 DEF vars, TypeOK
<1> QED BY <1>1, CallerType, ServerType, EnvironmentType DEF Next
-----------------------------------------------------------------------------
(* The cache.                                                              *)

LEMMA TracksStep ==
    ASSUME TypeOK, CallsAreNew, CacheIsTrue, CacheTracks, [Next]_vars
    PROVE  CacheIsTrue' /\ CacheTracks'
<1>1. ASSUME UNCHANGED memoryVars
      PROVE  CacheIsTrue' /\ CacheTracks'
  <2>1. CacheKeys' = CacheKeys
    BY <1>1 DEF memoryVars, CacheKeys
  <2> QED BY <1>1, <2>1 DEF memoryVars, CacheIsTrue, CacheTracks
<1>2. AboutEnvelopes(Decision) /\ CacheOf(Decision)
  BY DecisionCache
<1>3. CASE ServeRemembered
  <2>1. PICK i \in 1..Len(cache) :
           /\ cache' = Refreshed(cache, i)
           /\ since' = Touch(since, cache[i].env.message_id)
           /\ UNCHANGED <<decided, forgotten>>
    BY <1>3 DEF ServeRemembered, PositionsOf
  <2>2. Range(cache') = Range(cache) /\ CacheTracks'
    BY <1>2, <2>1, HitMoves, HitTracks
  <2> QED BY <2>1, <2>2 DEF CacheIsTrue
<1>4. ASSUME NEW accepted \in BOOLEAN, ReceiverReturns(accepted)
      PROVE  CacheIsTrue' /\ CacheTracks'
  <2>1. PICK f \in calling :
           /\ decided' = decided \cup {[env |-> f.env, accepted |-> accepted]}
           /\ cache' = Remembered([env |-> f.env, accepted |-> accepted])
           /\ since' = Touch(since, f.env.message_id)
           /\ forgotten' = forgotten \cup
                 ((IdsIn(cache) \cup {f.env.message_id}) \ IdsIn(cache'))
    BY <1>4 DEF ReceiverReturns
  <2> DEFINE d == [env |-> f.env, accepted |-> accepted]
  <2>2. d \in Decision /\ d.env = f.env /\ PositionsOf(d.env) = {}
    BY DEF TypeOK, Frame, Decision, CallsAreNew
  <2>3. /\ cache' = Inserted(cache, d, ReplayCapacity)
        /\ decided' = decided \cup {d}
        /\ since' = Touch(since, d.env.message_id)
        /\ forgotten \cup (IdsIn(cache) \ IdsIn(cache')) \subseteq forgotten'
    BY <2>1 DEF Remembered, Inserted
  <2> HIDE DEF d
  <2> QED BY <1>2, <2>2, <2>3, NewTracks, NewIsTrue
<1>5. CASE Crash
  BY <1>5, RestartIsTrue DEF Crash
<1>6. CASE Caller
  BY <1>1, <1>6 DEF Caller, SendExpired, SendUnreachable, SendBroken, Send, ReceiveAck,
     ConnectionLost, TimeOut, Returns, serverVars, memoryVars
<1>7. CASE ServeSilently \/ ServeRefusal \/ ServeNew \/ ReceiverRaises
  BY <1>1, <1>7 DEF ServeSilently, ServeRefusal, ServeNew, ReceiverRaises
<1>8. CASE bind \/ close \/ Tick \/ UNCHANGED vars
  BY <1>1, <1>8 DEF bind, close, Tick, vars, memoryVars, serverVars
<1> QED BY <1>3, <1>4, <1>5, <1>6, <1>7, <1>8 DEF Next, serve_once
-----------------------------------------------------------------------------
(* Connections, acks and reports.                                          *)

(* A connection that is accepted leaves nothing new in flight. *)
LEMMA AcceptShrinks ==
    ASSUME ConnectionsOK, NEW f \in Range(backlog), Accept(f), UNCHANGED waiting,
           calling' \subseteq {f}
    PROVE  waiting' \subseteq waiting /\ InFlight' \subseteq InFlight
BY AcceptTakes DEF InFlight

(* Only Send and SendBroken put anything new in flight; every other step at *)
(* most removes callers and frames.                                         *)
LEMMA OthersShrink ==
    ASSUME TypeOK, [Next]_vars,
           ~ \E e \in Envelopes, n \in Nonces : SendBroken(e, n) \/ Send(e, n)
    PROVE  waiting' \subseteq waiting /\ InFlight' \subseteq InFlight
<1>1. CASE \E e \in Envelopes : SendExpired(e) \/ SendUnreachable(e)
  BY <1>1 DEF SendExpired, SendUnreachable, serverVars, InFlight
<1>2. CASE \E w \in waiting : ReceiveAck(w) \/ ConnectionLost(w) \/ TimeOut(w)
  BY <1>2 DEF ReceiveAck, ConnectionLost, TimeOut, Returns, serverVars, InFlight
<1>3. CASE ServeSilently \/ ServeRefusal \/ ServeRemembered \/ ServeNew
  <2>1. ASSUME NEW f \in Range(backlog), Accept(f)
        PROVE  calling = {}
    BY <2>1 DEF Accept, Accepting
  <2> QED BY <1>3, <2>1, Connections, AcceptShrinks
          DEF ServeSilently, ServeRefusal, ServeRemembered, ServeNew, clientVars
<1>4. CASE \E accepted \in BOOLEAN : ReceiverReturns(accepted)
  BY <1>4 DEF ReceiverReturns, clientVars, InFlight
<1>5. CASE ReceiverRaises
  BY <1>5 DEF ReceiverRaises, clientVars, InFlight
<1>6. CASE close \/ Crash
  <2>1. Range(<<>>) = {}
    BY DEF Range
  <2> QED BY <1>6, <2>1 DEF close, Crash, clientVars, InFlight
<1>7. CASE bind \/ Tick \/ UNCHANGED vars
  BY <1>7 DEF bind, Tick, vars, clientVars, serverVars, InFlight
<1> QED BY <1>1, <1>2, <1>3, <1>4, <1>5, <1>6, <1>7 DEF Next, Caller, serve_once

LEMMA FreshNonce ==
    ASSUME NEW n, n \notin NoncesInUse
    PROVE  /\ \A w \in waiting : w.nonce # n
           /\ \A f \in InFlight : f.nonce # n
           /\ \A a \in acks : a.request_nonce # n
BY DEF NoncesInUse, InFlight

(* A new caller, and a new connection, have a nonce of their own. *)
LEMMA SendNonces ==
    ASSUME ConnectionsOK, NoncesAgree, NEW e \in Envelopes, NEW n \in Nonces,
           Send(e, n)
    PROVE  NoncesAgree'
<1> DEFINE new == [nonce |-> n, env |-> e]
<1>1. waiting' = waiting \cup {new} /\ new.nonce = n /\ new.env = e
  BY DEF Send
<1>2. \A f \in InFlight' : f \in InFlight \/ (f.nonce = n /\ f.env = e)
  BY ArrivesAdds DEF Send, InFlight, serverVars
<1>3. /\ \A w \in waiting : w.nonce # n
      /\ \A f \in InFlight : f.nonce # n
  BY FreshNonce DEF Send
<1> HIDE DEF new
<1> QED BY <1>1, <1>2, <1>3 DEF NoncesAgree

LEMMA BrokenNonces ==
    ASSUME ConnectionsOK, NoncesAgree, NEW e \in Envelopes, NEW n \in Nonces,
           CanConnect, n \notin NoncesInUse, Arrives(e, n, FALSE),
           UNCHANGED <<waiting, calling>>
    PROVE  NoncesAgree'
<1>1. \A f \in InFlight' : f \in InFlight \/ (f.nonce = n /\ f.env = e)
  BY ArrivesAdds DEF InFlight
<1>2. \A w \in waiting : w.nonce # n
  BY FreshNonce
<1> QED BY <1>1, <1>2 DEF NoncesAgree

LEMMA FewerNonces ==
    ASSUME NoncesAgree, waiting' \subseteq waiting, InFlight' \subseteq InFlight
    PROVE  NoncesAgree'
BY DEF NoncesAgree

LEMMA NoncesStep ==
    ASSUME TypeOK, NoncesAgree, [Next]_vars
    PROVE  NoncesAgree'
<1>1. ASSUME NEW e \in Envelopes, NEW n \in Nonces, Send(e, n)
      PROVE  NoncesAgree'
  BY <1>1, Connections, SendNonces
<1>2. ASSUME NEW e \in Envelopes, NEW n \in Nonces, SendBroken(e, n)
      PROVE  NoncesAgree'
  BY <1>2, Connections, BrokenNonces DEF SendBroken, serverVars
<1> QED BY <1>1, <1>2, OthersShrink, FewerNonces

(* Only an admitted frame starts a call, and only for an id not in the cache. *)
LEMMA NewCalls ==
    ASSUME ServeNew
    PROVE  CallsAreNew'
<1>1. PICK f \in Range(backlog) :
         /\ ~Unanswerable(f)
         /\ Admits(f)
         /\ PositionsOf(f.env) = {}
         /\ calling' = {f}
         /\ cache' = cache
  BY DEF ServeNew, memoryVars
<1>2. Paired(f.env.source_peer_id) /\ f.env.destination_peer_id = ServerId
  BY <1>1 DEF Unanswerable, Admits, ValidSignature, SecretFor, Paired
<1>3. PositionsOf(f.env)' = {}
  BY <1>1 DEF PositionsOf
<1> QED BY <1>1, <1>2, <1>3 DEF CallsAreNew

LEMMA CallsStep ==
    ASSUME TypeOK, CallsAreNew, [Next]_vars
    PROVE  CallsAreNew'
<1>1. ASSUME calling' = {}
      PROVE  CallsAreNew'
  BY <1>1 DEF CallsAreNew
<1>2. ASSUME UNCHANGED <<calling, cache>>
      PROVE  CallsAreNew'
  BY <1>2 DEF CallsAreNew, PositionsOf
<1>3. CASE ServeNew
  BY <1>3, NewCalls
<1>4. CASE ServeRemembered
  <2>1. calling = {} /\ calling' = calling
    BY <1>4 DEF ServeRemembered, Accept, Accepting
  <2> QED BY <1>1, <2>1
<1>5. CASE (\E accepted \in BOOLEAN : ReceiverReturns(accepted)) \/ ReceiverRaises \/ Crash
  BY <1>1, <1>5 DEF ReceiverReturns, ReceiverRaises, Crash
<1>6. CASE Caller
  BY <1>2, <1>6 DEF Caller, SendExpired, SendUnreachable, SendBroken, Send, ReceiveAck,
     ConnectionLost, TimeOut, Returns, serverVars
<1>7. CASE ServeSilently \/ ServeRefusal
  BY <1>2, <1>7 DEF ServeSilently, ServeRefusal, memoryVars
<1>8. CASE bind \/ close \/ Tick \/ UNCHANGED vars
  BY <1>2, <1>8 DEF bind, close, Tick, vars, serverVars, memoryVars
<1> QED BY <1>3, <1>4, <1>5, <1>6, <1>7, <1>8 DEF Next, serve_once

(* Decisions are never undone, so what a report said stays true. *)
LEMMA DecidedGrows ==
    ASSUME [Next]_vars
    PROVE  /\ decided \subseteq decided'
           /\ \A r : Justified(r) => Justified(r)'
<1>1. decided \subseteq decided'
  <2>1. CASE Caller
    BY <2>1 DEF Caller, SendExpired, SendUnreachable, SendBroken, Send, ReceiveAck,
       ConnectionLost, TimeOut, Returns, serverVars
  <2>2. CASE serve_once
    BY <2>2 DEF serve_once, ServeSilently, ServeRefusal, ServeRemembered, ServeNew,
       ReceiverReturns, ReceiverRaises, memoryVars
  <2>3. CASE bind \/ close \/ Crash \/ Tick \/ UNCHANGED vars
    BY <2>3 DEF bind, close, Crash, Tick, vars, serverVars, memoryVars
  <2> QED BY <2>1, <2>2, <2>3 DEF Next
<1> QED BY <1>1 DEF Justified

(* Reports that make no statement about the receiver. *)
LEMMA FailedIsTrue ==
    ASSUME NEW r, r.accepted = FALSE,
           r.detail \in {"failed", "expired", "frame limit", "refused"}
    PROVE  Justified(r)
BY DEF Justified

(* Answering a frame keeps the acks true if what is answered is true of its *)
(* envelope.                                                                *)
LEMMA AnswersTrue ==
    ASSUME TypeOK, NoncesAgree, AcksAreTrue, [Next]_vars,
           NEW f \in InFlight, f.env.source_peer_id \in DOMAIN PeerSecrets,
           NEW accepted \in BOOLEAN, NEW detail \in Details,
           Answers(f, accepted, detail), UNCHANGED waiting,
           Justified([env |-> f.env, accepted |-> accepted,
                      acknowledged |-> TRUE, detail |-> detail])'
    PROVE  AcksAreTrue'
<1>1. f \in Frame
  BY Connections, InFlightType
<1>2. SUFFICES ASSUME NEW a \in acks', NEW w \in waiting, a.request_nonce = w.nonce
               PROVE  /\ w.env.source_peer_id \in DOMAIN PeerSecrets
                      /\ a.secret = PeerSecrets[w.env.source_peer_id]
                      /\ Justified(AckReport(a, w))'
  BY DEF AcksAreTrue, AckReport, Justified
<1>3. CASE a \in acks
  BY <1>2, <1>3, DecidedGrows DEF AcksAreTrue
<1>4. CASE /\ a.request_nonce = f.nonce
           /\ a.accepted = accepted
           /\ a.detail = detail
           /\ a.secret = PeerSecrets[f.env.source_peer_id]
  <2>1. w.env = f.env
    BY <1>2, <1>4 DEF NoncesAgree
  <2> QED BY <1>4, <2>1 DEF AckReport
<1> QED BY <1>1, <1>3, <1>4, AnswersAdds

(* An answer taken from a decision about the envelope is true. *)
LEMMA OutcomeIsTrue ==
    ASSUME NEW e, NEW b \in BOOLEAN, [env |-> e, accepted |-> b] \in decided
    PROVE  Justified([env |-> e, accepted |-> b,
                      acknowledged |-> TRUE, detail |-> Outcome(b)])
<1>1. CASE b = TRUE
  BY <1>1 DEF Justified, Outcome
<1>2. CASE b = FALSE
  BY <1>2 DEF Justified, Outcome
<1> QED BY <1>1, <1>2

LEMMA AcksStep ==
    ASSUME TypeOK, NoncesAgree, CallsAreNew, CacheIsTrue, AcksAreTrue, [Next]_vars
    PROVE  AcksAreTrue'
<1>1. ASSUME acks' \subseteq acks, waiting' \subseteq waiting
      PROVE  AcksAreTrue'
  BY <1>1, DecidedGrows DEF AcksAreTrue, AckReport
<1>2. ASSUME NEW e \in Envelopes, NEW n \in Nonces, Send(e, n)
      PROVE  AcksAreTrue'
  <2>1. /\ acks' = acks
        /\ \A w \in waiting' : w \in waiting \/ w.nonce = n
        /\ \A a \in acks : a.request_nonce # n
    BY <1>2 DEF Send, NoncesInUse
  <2> QED BY <2>1, DecidedGrows DEF AcksAreTrue, AckReport
<1>3. CASE Caller
  <2>1. CASE \E e \in Envelopes : \/ SendExpired(e)
                                  \/ SendUnreachable(e)
                                  \/ \E n \in Nonces : SendBroken(e, n)
    BY <1>1, <2>1 DEF SendExpired, SendUnreachable, SendBroken
  <2>2. CASE \E w \in waiting : ReceiveAck(w) \/ ConnectionLost(w) \/ TimeOut(w)
    BY <1>1, <2>2 DEF ReceiveAck, ConnectionLost, TimeOut, Returns
  <2> QED BY <1>2, <1>3, <2>1, <2>2 DEF Caller
<1>4. CASE ServeRefusal
  <2>1. PICK f \in Range(backlog) :
           /\ ~Unanswerable(f)
           /\ Answers(f, FALSE, "refused")
    BY <1>4 DEF ServeRefusal
  <2>2. f \in InFlight /\ f.env.source_peer_id \in DOMAIN PeerSecrets
    BY <2>1 DEF InFlight, Unanswerable
  <2>3. Justified([env |-> f.env, accepted |-> FALSE,
                   acknowledged |-> TRUE, detail |-> "refused"])'
    BY DEF Justified
  <2> QED BY <1>4, <2>1, <2>2, <2>3, AnswersTrue DEF ServeRefusal, clientVars, Details
<1>5. CASE ServeRemembered
  <2>1. PICK f \in Range(backlog) :
           \E i \in PositionsOf(f.env) :
              /\ ~Unanswerable(f)
              /\ IF SameContent(cache[i], f)
                 THEN Answers(f, cache[i].accepted, Outcome(cache[i].accepted))
                 ELSE Answers(f, FALSE, "conflict")
              /\ UNCHANGED <<waiting, decided>>
    BY <1>5 DEF ServeRemembered, clientVars
  <2>2. PICK i \in PositionsOf(f.env) :
              /\ ~Unanswerable(f)
              /\ IF SameContent(cache[i], f)
                 THEN Answers(f, cache[i].accepted, Outcome(cache[i].accepted))
                 ELSE Answers(f, FALSE, "conflict")
              /\ UNCHANGED <<waiting, decided>>
    BY <2>1
  <2>3. f \in InFlight /\ f.env.source_peer_id \in DOMAIN PeerSecrets
    BY <2>2 DEF InFlight, Unanswerable
  <2>4. /\ cache[i] \in decided
        /\ cache[i] \in Decision
        /\ cache[i].env.message_id = f.env.message_id
    BY DecisionCache, CacheContents DEF PositionsOf, CacheIsTrue
  <2>5. CASE SameContent(cache[i], f)
    <3>1. cache[i].accepted \in BOOLEAN /\ Outcome(cache[i].accepted) \in Details
      BY <2>4 DEF Decision, Outcome, Details
    <3>2. cache[i] = [env |-> f.env, accepted |-> cache[i].accepted]
      BY <2>4, <2>5 DEF SameContent, Decision
    <3>3. [env |-> f.env, accepted |-> cache[i].accepted] \in decided
      BY <2>4, <3>2, Zenon
    <3>4. PICK b \in BOOLEAN : b = cache[i].accepted
      BY <3>1, Zenon
    <3>5. [env |-> f.env, accepted |-> b] \in decided /\ Outcome(b) \in Details
      BY <3>1, <3>3, <3>4, Zenon
    <3>6. Justified([env |-> f.env, accepted |-> b,
                     acknowledged |-> TRUE, detail |-> Outcome(b)])'
      BY <3>5, OutcomeIsTrue, DecidedGrows
    <3>7. Answers(f, b, Outcome(b)) /\ UNCHANGED waiting
      BY <2>2, <2>5, <3>4, Zenon
    <3> QED BY <2>3, <3>5, <3>6, <3>7, AnswersTrue
  <2>6. CASE ~SameContent(cache[i], f)
    <3>1. Justified([env |-> f.env, accepted |-> FALSE,
                     acknowledged |-> TRUE, detail |-> "conflict"])'
      BY <2>2, <2>4, <2>6 DEF Justified, SameContent
    <3> QED BY <2>2, <2>3, <2>6, <3>1, AnswersTrue DEF Details
  <2> QED BY <2>5, <2>6
<1>6. ASSUME NEW accepted \in BOOLEAN, ReceiverReturns(accepted)
      PROVE  AcksAreTrue'
  <2>1. PICK f \in calling :
           /\ decided' = decided \cup {[env |-> f.env, accepted |-> accepted]}
           /\ Answers(f, accepted, Outcome(accepted))
           /\ UNCHANGED waiting
    BY <1>6 DEF ReceiverReturns, clientVars
  <2>2. f \in InFlight /\ f.env.source_peer_id \in DOMAIN PeerSecrets
    BY DEF InFlight, CallsAreNew, Paired
  <2>3. [env |-> f.env, accepted |-> accepted] \in decided'
    BY <2>1
  <2>4. Justified([env |-> f.env, accepted |-> accepted,
                   acknowledged |-> TRUE, detail |-> Outcome(accepted)])'
    <3>1. CASE accepted = TRUE
      BY <2>3, <3>1 DEF Justified, Outcome
    <3>2. CASE accepted = FALSE
      BY <2>3, <3>2 DEF Justified, Outcome
    <3> QED BY <3>1, <3>2
  <2>5. Outcome(accepted) \in Details
    BY DEF Outcome, Details
  <2> QED BY <2>1, <2>2, <2>4, <2>5, AnswersTrue
<1>7. CASE ReceiverRaises
  <2>1. PICK f \in calling : Answers(f, FALSE, "refused") /\ UNCHANGED waiting
    BY <1>7 DEF ReceiverRaises, clientVars
  <2>2. f \in InFlight /\ f.env.source_peer_id \in DOMAIN PeerSecrets
    BY DEF InFlight, CallsAreNew, Paired
  <2>3. Justified([env |-> f.env, accepted |-> FALSE,
                   acknowledged |-> TRUE, detail |-> "refused"])'
    BY DEF Justified
  <2> QED BY <2>1, <2>2, <2>3, AnswersTrue DEF Details
<1>8. CASE ServeSilently \/ ServeNew
  BY <1>1, <1>8 DEF ServeSilently, ServeNew, clientVars
<1>9. CASE bind \/ close \/ Crash \/ Tick \/ UNCHANGED vars
  BY <1>1, <1>9 DEF bind, close, Crash, Tick, vars, clientVars
<1> QED BY <1>3, <1>4, <1>5, <1>6, <1>7, <1>8, <1>9 DEF Next, serve_once

(* Only a caller's steps write reports, and none of them writes an untrue one. *)
LEMMA ReportsStep ==
    ASSUME TypeOK, AcksAreTrue, ReportsAreTrue, [Next]_vars
    PROVE  ReportsAreTrue'
<1>1. ASSUME UNCHANGED reports
      PROVE  ReportsAreTrue'
  BY <1>1, DecidedGrows DEF ReportsAreTrue
<1>2. ASSUME NEW r, reports' = {r}, Justified(r)
      PROVE  ReportsAreTrue'
  BY <1>2, DecidedGrows DEF ReportsAreTrue
<1>3. ASSUME NEW e, reports' = Failed(e)
      PROVE  ReportsAreTrue'
  BY <1>2, <1>3, FailedIsTrue DEF Failed
<1>4. ASSUME NEW e \in Envelopes, SendExpired(e)
      PROVE  ReportsAreTrue'
  BY <1>2, <1>4, FailedIsTrue DEF SendExpired
<1>5. ASSUME NEW e \in Envelopes, NEW n \in Nonces, SendBroken(e, n)
      PROVE  ReportsAreTrue'
  BY <1>2, <1>3, <1>5, FailedIsTrue DEF SendBroken
<1>6. ASSUME NEW w \in waiting, ReceiveAck(w)
      PROVE  ReportsAreTrue'
  <2>1. PICK a \in acks :
           /\ a.request_nonce = w.nonce
           /\ reports' = {AckReport(a, w)} \/ reports' = Failed(w.env)
    BY <1>6 DEF ReceiveAck, Returns, AckReport
  <2>2. Justified(AckReport(a, w))
    BY <2>1 DEF AcksAreTrue
  <2> QED BY <1>2, <1>3, <2>1, <2>2
<1>7. CASE Caller
  BY <1>1, <1>3, <1>4, <1>5, <1>6, <1>7
     DEF Caller, SendUnreachable, Send, ConnectionLost, TimeOut, Returns
<1>8. CASE serve_once
  BY <1>1, <1>8 DEF serve_once, ServeSilently, ServeRefusal, ServeRemembered, ServeNew,
     ReceiverReturns, ReceiverRaises, clientVars
<1>9. CASE bind \/ close \/ Crash \/ Tick \/ UNCHANGED vars
  BY <1>1, <1>9 DEF bind, close, Crash, Tick, vars, clientVars
<1> QED BY <1>7, <1>8, <1>9 DEF Next

(* A decision needs a call, and a call an admitted frame; an acknowledged report *)
(* needs an ack that validates, and so a secret held on both sides.              *)
LEMMA PairedStep ==
    ASSUME TypeOK, CallsAreNew, AcksAreTrue, PairedPeersOnly, [Next]_vars
    PROVE  PairedPeersOnly'
<1>1. \A d \in decided' : /\ Paired(d.env.source_peer_id)
                          /\ d.env.destination_peer_id = ServerId
  <2>1. CASE UNCHANGED decided
    BY <2>1 DEF PairedPeersOnly
  <2>2. ASSUME NEW accepted \in BOOLEAN, ReceiverReturns(accepted)
        PROVE  \A d \in decided' : /\ Paired(d.env.source_peer_id)
                                   /\ d.env.destination_peer_id = ServerId
    <3>1. PICK f \in calling :
             decided' = decided \cup {[env |-> f.env, accepted |-> accepted]}
      BY <2>2 DEF ReceiverReturns
    <3> QED BY <3>1 DEF CallsAreNew, PairedPeersOnly
  <2>3. CASE Caller
    BY <2>1, <2>3 DEF Caller, SendExpired, SendUnreachable, SendBroken, Send, ReceiveAck,
       ConnectionLost, TimeOut, Returns, serverVars
  <2>4. CASE serve_once
    BY <2>1, <2>2, <2>4 DEF serve_once, ServeSilently, ServeRefusal, ServeRemembered,
       ServeNew, ReceiverRaises, memoryVars
  <2>5. CASE bind \/ close \/ Crash \/ Tick \/ UNCHANGED vars
    BY <2>1, <2>5 DEF bind, close, Crash, Tick, vars, serverVars, memoryVars
  <2> QED BY <2>3, <2>4, <2>5 DEF Next
<1>2. \A r \in reports' : r.acknowledged => Paired(r.env.source_peer_id)
  <2>1. CASE UNCHANGED reports
    BY <2>1 DEF PairedPeersOnly
  <2>2. ASSUME NEW e, reports' = Failed(e)
        PROVE  \A r \in reports' : ~r.acknowledged
    BY <2>2 DEF Failed
  <2>3. ASSUME NEW e \in Envelopes, SendExpired(e)
        PROVE  \A r \in reports' : ~r.acknowledged
    BY <2>3 DEF SendExpired
  <2>4. ASSUME NEW e \in Envelopes, NEW n \in Nonces, SendBroken(e, n)
        PROVE  \A r \in reports' : ~r.acknowledged
    <3>1. CASE Fits(e)
      BY <2>2, <2>4, <3>1 DEF SendBroken
    <3>2. CASE ~Fits(e)
      <4>1. PICK r : r.acknowledged = FALSE /\ reports' = {r}
        BY <2>4, <3>2 DEF SendBroken
      <4> QED BY <4>1
    <3> QED BY <3>1, <3>2
  <2>5. ASSUME NEW w \in waiting, ReceiveAck(w)
        PROVE  \A r \in reports' : r.acknowledged => Paired(r.env.source_peer_id)
    <3>1. PICK a \in acks :
             /\ a.request_nonce = w.nonce
             /\ \/ ValidAck(a, w) /\ reports' = {AckReport(a, w)}
                \/ reports' = Failed(w.env)
      BY <2>5 DEF ReceiveAck, Returns, AckReport
    <3>2. CASE ValidAck(a, w) /\ reports' = {AckReport(a, w)}
      <4>1. /\ w.env.source_peer_id \in DOMAIN PeerSecrets
            /\ a.secret = PeerSecrets[w.env.source_peer_id]
        BY <3>1 DEF AcksAreTrue
      <4>2. Paired(w.env.source_peer_id)
        BY <3>2, <4>1 DEF ValidAck, ValidSignature, Paired
      <4> QED BY <3>2, <4>2 DEF AckReport
    <3> QED BY <2>2, <3>1, <3>2
  <2>6. CASE Caller
    BY <2>1, <2>2, <2>3, <2>4, <2>5, <2>6
       DEF Caller, SendUnreachable, Send, ConnectionLost, TimeOut, Returns
  <2>7. CASE serve_once
    BY <2>1, <2>7 DEF serve_once, ServeSilently, ServeRefusal, ServeRemembered, ServeNew,
       ReceiverReturns, ReceiverRaises, clientVars
  <2>8. CASE bind \/ close \/ Crash \/ Tick \/ UNCHANGED vars
    BY <2>1, <2>8 DEF bind, close, Crash, Tick, vars, clientVars
  <2> QED BY <2>6, <2>7, <2>8 DEF Next
<1> QED BY <1>1, <1>2 DEF PairedPeersOnly, Paired
-----------------------------------------------------------------------------
(* The invariant, and what follows from it.                                *)

LEMMA InitIInv == Init => IInv
<1> SUFFICES ASSUME Init PROVE IInv
  OBVIOUS
<1>1. /\ backlog = <<>> /\ calling = {} /\ waiting = {} /\ acks = {}
      /\ cache = <<>> /\ reports = {} /\ decided = {} /\ since = <<>>
      /\ forgotten = {} /\ listening = FALSE /\ now = StartMs
  BY DEF Init
<1>2. /\ <<>> \in Seq(Frame) /\ <<>> \in Seq(Decision) /\ Len(<<>>) = 0
      /\ Range(<<>>) = {} /\ DOMAIN <<>> = {}
  BY EmptySeq DEF Range
<1>3. TypeOK
  <2>1. now \in StartMs..StopMs
    BY <1>1, ClockAssumption
  <2>2. /\ backlog \in Seq(Frame) /\ Len(backlog) <= ListenBacklog
        /\ cache \in Seq(Decision) /\ Len(cache) <= ReplayCapacity
    BY <1>1, <1>2, ServerAssumption
  <2>3. DOMAIN since = {}
    BY <1>1, <1>2
  <2> QED BY <1>1, <2>1, <2>2, <2>3 DEF TypeOK
<1>4. NoncesAgree /\ CallsAreNew /\ AcksAreTrue /\ ReportsAreTrue /\ PairedPeersOnly
  BY <1>1 DEF NoncesAgree, CallsAreNew, AcksAreTrue, ReportsAreTrue, PairedPeersOnly
<1>5. CacheIsTrue
  BY <1>1, <1>2 DEF CacheIsTrue
<1>6. CacheKeys = <<>>
  BY <1>1, <1>2 DEF CacheKeys
<1>7. CacheTracks
  BY <1>1, <1>6, TracksEmpty, ServerAssumption DEF CacheTracks
<1> QED BY <1>3, <1>4, <1>5, <1>7 DEF IInv

LEMMA NextIInv == IInv /\ [Next]_vars => IInv'
<1> SUFFICES ASSUME IInv, [Next]_vars PROVE IInv'
  OBVIOUS
<1>1. /\ TypeOK /\ NoncesAgree /\ CallsAreNew /\ AcksAreTrue
      /\ CacheIsTrue /\ CacheTracks /\ ReportsAreTrue /\ PairedPeersOnly
  BY DEF IInv
<1>2. TypeOK' /\ NoncesAgree' /\ CallsAreNew'
  BY <1>1, TypeStep, NoncesStep, CallsStep
<1>3. AcksAreTrue' /\ CacheIsTrue' /\ CacheTracks'
  BY <1>1, AcksStep, TracksStep
<1>4. ReportsAreTrue' /\ PairedPeersOnly'
  BY <1>1, ReportsStep, PairedStep
<1> QED BY <1>2, <1>3, <1>4 DEF IInv

(* The invariant holds whatever callers, network, clock and server do. *)
THEOREM Inductive == Spec => []IInv
BY InitIInv, NextIInv, PTL DEF Spec

(* One connection is served at a time, and cache and backlog keep to their *)
(* capacities, whatever the callers, the network and the clock do.         *)
THEOREM TypeCorrect == Spec => []TypeOK
<1>1. IInv => TypeOK
  BY DEF IInv
<1> QED BY <1>1, Inductive, PTL

(* A caller is never told of an acceptance, a rejection or a conflict that the *)
(* receiver's decisions do not bear out.                                       *)
THEOREM ReportsTrue == Spec => []ReportsAreTrue
<1>1. IInv => ReportsAreTrue
  BY DEF IInv
<1> QED BY <1>1, Inductive, PTL

(* No message id is decided twice while its decision is remembered. *)
THEOREM OneDecision == Spec => []OneDecisionPerMessage
<1>1. ASSUME IInv PROVE OneDecisionPerMessage
  <2>1. SUFFICES ASSUME NEW d1 \in decided, NEW d2 \in decided,
                        d1.env.message_id = d2.env.message_id,
                        d1.env.message_id \notin forgotten
                 PROVE  d1 = d2
    BY DEF OneDecisionPerMessage
  <2>2. TypeOK /\ CacheIsTrue /\ CacheTracks
    BY <1>1 DEF IInv
  <2>3. AboutEnvelopes(Decision) /\ CacheOf(Decision)
    BY <2>2, DecisionCache
  <2>4. d1 \in Range(cache) /\ d2 \in Range(cache)
    BY <2>1, <2>2 DEF CacheIsTrue
  <2> QED BY <2>1, <2>2, <2>3, <2>4, CacheContents, IdsDiffer
<1>2. IInv => OneDecisionPerMessage
  BY <1>1
<1> QED BY <1>2, Inductive, PTL

(* Only messages of paired peers, addressed to this server, are decided, and *)
(* only paired peers are answered.                                           *)
THEOREM PairedOnly == Spec => []PairedPeersOnly
<1>1. IInv => PairedPeersOnly
  BY DEF IInv
<1> QED BY <1>1, Inductive, PTL

(* Only ServeNew starts a call to the receiver. *)
LEMMA CallStarts ==
    ASSUME [Next]_vars, NEW f \in calling' \ calling
    PROVE  /\ f \in Range(backlog)
           /\ ~Unanswerable(f)
           /\ Admits(f)
           /\ PositionsOf(f.env) = {}
           /\ now' = now
<1>1. CASE ServeNew
  BY <1>1 DEF ServeNew
<1>2. CASE Caller
  BY <1>2 DEF Caller, SendExpired, SendUnreachable, SendBroken, Send, ReceiveAck,
     ConnectionLost, TimeOut, Returns, serverVars
<1>3. CASE serve_once
  BY <1>1, <1>3 DEF serve_once, ServeSilently, ServeRefusal, ServeRemembered,
     ReceiverReturns, ReceiverRaises
<1>4. CASE bind \/ close \/ Crash \/ Tick \/ UNCHANGED vars
  BY <1>4 DEF bind, close, Crash, Tick, vars, serverVars
<1> QED BY <1>2, <1>3, <1>4 DEF Next

(* The receiver is called again for an id it decided only after a restart, or  *)
(* when ReplayCapacity other ids were used after it; one it raised about has   *)
(* no decision.                                                                *)
THEOREM NoEarlyCall == Spec => NoEarlyRedelivery
<1>1. ASSUME IInv, [Next]_vars, NEW f \in calling' \ calling
      PROVE  ~UsedWithin(since, f.env.message_id, ReplayCapacity)
  <2>1. TypeOK /\ CacheTracks
    BY <1>1 DEF IInv
  <2>2. /\ CacheKeys \in Seq(Ids)
        /\ Len(CacheKeys) = Len(cache)
        /\ \A i \in 1..Len(cache) : CacheKeys[i] = cache[i].env.message_id
    BY <2>1, DecisionCache, KeysType
  <2>3. \A i \in 1..Len(CacheKeys) : CacheKeys[i] # f.env.message_id
    BY <1>1, <2>2, CallStarts DEF PositionsOf
  <2> QED BY <2>1, <2>2, <2>3, TracksWindow, ServerAssumption DEF CacheTracks
<1>2. IInv /\ [Next]_vars =>
         [\A f \in calling' \ calling :
             ~UsedWithin(since, f.env.message_id, ReplayCapacity)]_vars
  BY <1>1
<1> QED BY <1>2, Inductive, PTL DEF Spec, NoEarlyRedelivery

(* When the receiver is called for a frame: within skew and lifetime. *)
InTime(f) ==
    LET source == f.env.source_peer_id
        sentAt == f.sent_at_ms - ClockOffset[source]
        lead == ClockOffset[source] - ClockOffset[ServerId]
    IN  /\ now - sentAt \in (lead - MaxClockSkew)..(lead + MaxClockSkew)
        /\ now + ClockOffset[ServerId] < f.env.created_at_ms + f.env.ttl_ms

(* What is admitted is in time, whatever the two clocks are. *)
LEMMA AdmittedInTime ==
    ASSUME ConnectionsOK, now \in Int, NEW f \in InFlight, Admits(f)
    PROVE  InTime(f)
<1>1. /\ f \in Frame
      /\ f.sent_at_ms \in Int
      /\ f.env \in Envelopes
  BY InFlightType DEF Frame
<1>2. /\ ClockOffset[f.env.source_peer_id] \in Int
      /\ ClockOffset[ServerId] \in Int
      /\ MaxClockSkew \in Int
      /\ f.env.created_at_ms \in Int
      /\ f.env.ttl_ms \in Int
  BY <1>1, EnvelopeAssumption, ServerAssumption, ClockAssumption DEF ValidEnvelope
<1> QED BY <1>1, <1>2 DEF InTime, Admits, WithinSkew, StillAlive, IsExpired, Clock

(* However long a frame waited, the receiver is called within the allowed skew *)
(* of its sending, corrected by the clocks' offsets, and within its lifetime.  *)
THEOREM CallsInTime == Spec => LateDeliveryBounded
<1>1. ASSUME IInv, [Next]_vars, NEW f \in calling' \ calling
      PROVE  InTime(f)
  <2>1. TypeOK /\ ConnectionsOK /\ now \in Int
    BY <1>1, Connections, ClockAssumption DEF IInv, TypeOK
  <2>2. Admits(f) /\ f \in InFlight
    BY <1>1, CallStarts DEF InFlight
  <2> QED BY <2>1, <2>2, AdmittedInTime
<1>2. IInv /\ [Next]_vars => [\A f \in calling' \ calling : InTime(f)]_vars
  BY <1>1
<1> QED BY <1>2, Inductive, PTL DEF Spec, LateDeliveryBounded, InTime
-----------------------------------------------------------------------------
(* The carrier implements the delivery service.                            *)

LEMMA ServiceStutters ==
    ASSUME UNCHANGED <<decided, reports>>, Range(cache') = Range(cache)
    PROVE  UNCHANGED Service!vars
BY DEF Service!vars

(* The service counts as FiniteSets does. *)
LEMMA ServiceCounts ==
    ASSUME NEW S
    PROVE  Service!Cardinality(S) = Cardinality(S)
BY Zenon DEF Service!Cardinality, Cardinality

(* A true report is one the service may give. *)
LEMMA ServiceReports ==
    ASSUME TypeOK', ReportsAreTrue', NEW r, reports' = {r},
           UNCHANGED <<decided, cache>>
    PROVE  Service!Report
<1>1. r \in Service!AnyReport
  <2>1. Details \cup {"failed", "expired", "frame limit"} = Service!Details
    BY DEF Details, Service!Details
  <2>2. ReportType = Service!AnyReport
    BY <2>1, Zenon DEF ReportType, Service!AnyReport
  <2> QED BY <2>2 DEF TypeOK
<1>2. Service!Justified(r)
  <2>1. Justified(r)'
    BY DEF ReportsAreTrue
  <2> QED BY <2>1 DEF Justified, Service!Justified
<1> QED BY <1>1, <1>2 DEF Service!Report

(* A caller's step gives one report, or none. *)
LEMMA CallerSteps ==
    ASSUME TypeOK, Caller
    PROVE  /\ UNCHANGED <<decided, cache>>
           /\ (\E r : reports' = {r}) \/ UNCHANGED reports
<1>1. UNCHANGED <<decided, cache>>
  BY DEF Caller, SendExpired, SendUnreachable, SendBroken, Send, ReceiveAck,
     ConnectionLost, TimeOut, Returns, serverVars
<1>2. ASSUME NEW e, reports' = Failed(e)
      PROVE  \E r : reports' = {r}
  BY <1>2 DEF Failed
<1>3. ASSUME NEW e \in Envelopes, SendExpired(e)
      PROVE  \E r : reports' = {r}
  BY <1>3 DEF SendExpired
<1>4. ASSUME NEW e \in Envelopes, NEW n \in Nonces, SendBroken(e, n)
      PROVE  \E r : reports' = {r}
  <2>1. CASE Fits(e)
    BY <1>2, <1>4, <2>1 DEF SendBroken
  <2>2. CASE ~Fits(e)
    BY <1>4, <2>2 DEF SendBroken
  <2> QED BY <2>1, <2>2
<1>5. ASSUME NEW w \in waiting, ReceiveAck(w)
      PROVE  \E r : reports' = {r}
  <2>1. PICK a \in acks : reports' = {AckReport(a, w)} \/ reports' = Failed(w.env)
    BY <1>5 DEF ReceiveAck, Returns, AckReport
  <2> QED BY <1>2, <2>1
<1> QED BY <1>1, <1>2, <1>3, <1>4, <1>5
        DEF Caller, SendUnreachable, Send, ConnectionLost, TimeOut, Returns

(* A decision of the receiver is a decision of the service: its id is new, and *)
(* only a full memory gives up an answer for it.                               *)
LEMMA ServiceDecides ==
    ASSUME IInv, NEW accepted \in BOOLEAN, ReceiverReturns(accepted)
    PROVE  Service!Decide
<1>1. PICK f \in calling :
         /\ decided' = decided \cup {[env |-> f.env, accepted |-> accepted]}
         /\ cache' = Remembered([env |-> f.env, accepted |-> accepted])
         /\ UNCHANGED reports
  BY DEF ReceiverReturns, clientVars
<1> DEFINE d == [env |-> f.env, accepted |-> accepted]
<1>2. /\ AboutEnvelopes(Decision) /\ CacheOf(Decision) /\ CacheTracks
      /\ f.env \in Envelopes
      /\ d \in Decision
  BY DecisionCache DEF IInv, TypeOK, Frame, Decision
<1>3. cache' = Inserted(cache, d, ReplayCapacity)
  BY <1>1 DEF Remembered, Inserted
<1>4. PICK lost \in SUBSET Range(cache) :
         /\ Range(cache') = (Range(cache) \ lost) \cup {d}
         /\ Cardinality(lost) =
               IF Cardinality(Range(cache)) < ReplayCapacity THEN 0 ELSE 1
  BY <1>2, <1>3, NewReplaces
<1>5. \A r \in Range(cache) : r.env.message_id # f.env.message_id
  BY <1>2, CacheContents DEF IInv, CallsAreNew, PositionsOf
<1>6. /\ UNCHANGED reports
      /\ Range(cache)' = (Range(cache) \ lost) \cup {[env |-> f.env, accepted |-> accepted]}
      /\ decided' = decided \cup {[env |-> f.env, accepted |-> accepted]}
      /\ \A r \in Range(cache) : r.env.message_id # f.env.message_id
      /\ Service!Cardinality(lost) =
            IF Service!Cardinality(Range(cache)) < ReplayCapacity THEN 0 ELSE 1
  BY <1>1, <1>4, <1>5, ServiceCounts
<1> QED BY <1>2, <1>6, Zenon DEF Service!Decide

(* Every other step of the server leaves what the service knows alone. *)
LEMMA ServerStutters ==
    ASSUME TypeOK, serve_once,
           ~ \E accepted \in BOOLEAN : ReceiverReturns(accepted)
    PROVE  UNCHANGED Service!vars
<1>1. CASE ServeRemembered
  <2>1. PICK i \in 1..Len(cache) :
           cache' = Refreshed(cache, i) /\ UNCHANGED decided
    BY <1>1 DEF ServeRemembered, PositionsOf
  <2>2. Range(cache') = Range(cache)
    BY <2>1, DecisionCache, HitMoves
  <2> QED BY <1>1, <2>1, <2>2, ServiceStutters DEF ServeRemembered, clientVars
<1>2. CASE ServeSilently \/ ServeRefusal \/ ServeNew \/ ReceiverRaises
  BY <1>2, ServiceStutters DEF ServeSilently, ServeRefusal, ServeNew,
     ReceiverRaises, clientVars, memoryVars
<1> QED BY <1>1, <1>2 DEF serve_once

LEMMA ServiceStep == IInv /\ [Next]_vars => [Service!Next]_(Service!vars)
<1> SUFFICES ASSUME IInv, [Next]_vars
             PROVE  Service!Next \/ UNCHANGED Service!vars
  OBVIOUS
<1>1. CASE Caller
  <2>1. CASE UNCHANGED reports
    BY <1>1, <2>1, CallerSteps, ServiceStutters DEF IInv
  <2>2. ASSUME NEW r, reports' = {r}
        PROVE  Service!Report
    BY <1>1, <2>2, NextIInv, CallerSteps, ServiceReports DEF IInv
  <2> QED BY <1>1, <2>1, <2>2, CallerSteps DEF IInv, Service!Next
<1>2. CASE serve_once
  <2>1. CASE \E accepted \in BOOLEAN : ReceiverReturns(accepted)
    BY <2>1, ServiceDecides DEF Service!Next
  <2>2. CASE ~ \E accepted \in BOOLEAN : ReceiverReturns(accepted)
    BY <1>2, <2>2, ServerStutters DEF IInv
  <2> QED BY <2>1, <2>2
<1>3. CASE Crash
  <2>1. Range(<<>>) = {}
    BY DEF Range
  <2> QED BY <1>3, <2>1 DEF Crash, clientVars, Service!Restart, Service!Next
<1>4. CASE bind \/ close \/ Tick \/ UNCHANGED vars
  BY <1>4, ServiceStutters DEF bind, close, Tick, vars, clientVars, serverVars, memoryVars
<1> QED BY <1>1, <1>2, <1>3, <1>4 DEF Next

(* Refinement: whatever the callers, the connections, the clocks and the server  *)
(* do, what becomes of decisions, memory and reports is what the delivery        *)
(* service allows; what the service remembers is what the cache holds.           *)
THEOREM ServiceImplemented == Spec => ImplementsDeliveryService
<1>1. Init => Service!Init
  <2>1. Range(<<>>) = {}
    BY DEF Range
  <2> QED BY <2>1 DEF Init, Service!Init
<1> QED BY <1>1, ServiceStep, Inductive, PTL
        DEF Spec, ImplementsDeliveryService, Service!Spec
=============================================================================
