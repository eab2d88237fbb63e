------------------------- MODULE LocalIpRequestProofs -------------------------
(***************************************************************************)
(* The safety properties of LocalIpRequest, and that it implements the     *)
(* delivery service, for every set of peers, envelopes and replies, every  *)
(* limit and every capacity.  What the carrier's proofs say of nonces,     *)
(* connections and the cache is used again here.                           *)
(***************************************************************************)
EXTENDS LocalIpRequest, LocalIpDeliveryProofs

(* What an answer about e says of the receiver, which has given the replies D: *)
(* a reply is the receiver's and about this very envelope, anything else comes *)
(* with no reply, and a conflict is with a reply about another envelope.       *)
AnswerTrue(D, e, detail, reply) ==
    /\ detail \in {"accepted", "rejected"} =>
          /\ [env |-> e, reply |-> reply] \in D
          /\ detail = Outcome(reply.accepted)
    /\ detail \notin {"accepted", "rejected"} => reply = EmptyReply
    /\ detail = "conflict" =>
          \E d \in D : d.env # e /\ d.env.message_id = e.message_id

(* An ack on its way tells its caller the truth. *)
ReplyAcksTrue ==
    \A a \in acks, w \in waiting :
        a.request_nonce = w.nonce => AnswerTrue(decided, w.env, a.detail, a.reply)

(* What a request that no ack answers is reported as. *)
Unanswered == {"failed", "expired", "frame limit"}

(* A report tells the truth as well, and keeps to the caller's reply limit. *)
ReplyReportsTrue ==
    \A r \in reports :
        /\ AnswerTrue(decided, r.env, r.detail, r.reply)
        /\ r.accepted = r.reply.accepted
        /\ r.acknowledged \in BOOLEAN
        /\ r.detail \in Details \cup Unanswered
        /\ r.detail \in {"accepted", "rejected"} =>
              r.acknowledged /\ r.reply.payload_bytes <= AdapterReplyLimit

(* The inductive invariant. *)
RequestIInv ==
    /\ RequestTypeOK
    /\ NoncesAgree
    /\ CallsAreNew
    /\ ReplyAcksTrue
    /\ CacheIsTrue
    /\ CacheTracks
    /\ ReplyReportsTrue
-----------------------------------------------------------------------------
(* The state of the carrier, as its proofs want it.                        *)

(* What the cache may hold. *)
Keepable == {d \in Kept : d.reply.payload_bytes <= ServerReplyLimit}

LEMMA RequestConnections == RequestTypeOK => ConnectionsOK
BY DEF RequestTypeOK, ConnectionsOK

(* A sequence of what may be kept is one of kept entries within the limit. *)
LEMMA KeptIsKeepable ==
    ASSUME NEW s \in Seq(Kept),
           \A i \in 1..Len(s) : s[i].reply.payload_bytes <= ServerReplyLimit
    PROVE  s \in Seq(Keepable)
<1>1. Len(s) \in Nat /\ \A i \in 1..Len(s) : s[i] \in Kept
  BY LenProperties, ElementOfSeq
<1>2. s = [i \in 1..Len(s) |-> s[i]]
  BY LenProperties
<1>3. \A i \in 1..Len(s) : s[i] \in Keepable
  BY <1>1 DEF Keepable
<1> QED BY <1>1, <1>2, <1>3, IsASeq

LEMMA KeepableIsKept ==
    ASSUME NEW s \in Seq(Keepable)
    PROVE  /\ s \in Seq(Kept)
           /\ \A i \in 1..Len(s) : s[i].reply.payload_bytes <= ServerReplyLimit
<1>1. Len(s) \in Nat /\ \A i \in 1..Len(s) : s[i] \in Keepable
  BY LenProperties, ElementOfSeq
<1>2. s = [i \in 1..Len(s) |-> s[i]]
  BY LenProperties
<1>3. \A i \in 1..Len(s) : s[i] \in Kept /\ s[i].reply.payload_bytes <= ServerReplyLimit
  BY <1>1 DEF Keepable
<1> QED BY <1>1, <1>2, <1>3, IsASeq

LEMMA ReplyCache ==
    ASSUME RequestTypeOK
    PROVE  AboutEnvelopes(Keepable) /\ CacheOf(Keepable)
BY KeptIsKeepable DEF RequestTypeOK, AboutEnvelopes, CacheOf, Keepable, Kept

(* A caller's step leaves the server and its memory alone. *)
LEMMA RequestLeaves ==
    ASSUME request
    PROVE  UNCHANGED <<now, serverVars, answered>>
BY DEF request, RequestExpired, RequestUnreachable, RequestBroken, Send,
   ReceiveReply, RequestLost, RequestTimeOut, Returns

(* What the step of a caller does to the connections. *)
LEMMA RequestConnects ==
    ASSUME RequestTypeOK, request
    PROVE  /\ waiting' \in SUBSET Waiter
           /\ backlog' \in Seq(Frame)
           /\ Len(backlog') <= ListenBacklog
           /\ acks' \subseteq acks
<1>1. ConnectionsOK
  BY RequestConnections
<1>2. CASE \E e \in Envelopes : RequestExpired(e) \/ RequestUnreachable(e)
  BY <1>1, <1>2 DEF RequestExpired, RequestUnreachable, ConnectionsOK
<1>3. ASSUME NEW e \in Envelopes, NEW n \in Nonces, RequestBroken(e, n)
      PROVE  /\ waiting' \in SUBSET Waiter
             /\ backlog' \in Seq(Frame)
             /\ Len(backlog') <= ListenBacklog
             /\ acks' \subseteq acks
  <2>1. UNCHANGED <<waiting, acks>> /\ CanConnect /\ Arrives(e, n, FALSE)
    BY <1>3, Zenon DEF RequestBroken
  <2>2. backlog' \in Seq(Frame) /\ Len(backlog') <= ListenBacklog
    BY <1>1, <2>1, ArrivesAdds
  <2> QED BY <1>1, <2>1, <2>2 DEF ConnectionsOK
<1>4. ASSUME NEW e \in Envelopes, NEW n \in Nonces, Send(e, n)
      PROVE  /\ waiting' \in SUBSET Waiter
             /\ backlog' \in Seq(Frame)
             /\ Len(backlog') <= ListenBacklog
             /\ acks' \subseteq acks
  <2>1. backlog' \in Seq(Frame) /\ Len(backlog') <= ListenBacklog
    BY <1>1, <1>4, ArrivesAdds DEF Send
  <2> QED BY <1>1, <1>4, <2>1 DEF Send, ConnectionsOK, Waiter
<1>5. ASSUME NEW w \in waiting, ReceiveReply(w) \/ RequestLost(w) \/ RequestTimeOut(w)
      PROVE  /\ waiting' \in SUBSET Waiter
             /\ backlog' \in Seq(Frame)
             /\ Len(backlog') <= ListenBacklog
             /\ acks' \subseteq acks
  BY <1>1, <1>5
     DEF ReceiveReply, RequestLost, RequestTimeOut, Returns, ConnectionsOK
<1> QED BY <1>2, <1>3, <1>4, <1>5 DEF request

(* What a caller's step reports: nothing, a request without an answer, or the *)
(* answer of a valid ack.                                                     *)
LEMMA RequestReports ==
    ASSUME RequestTypeOK, request
    PROVE  \/ UNCHANGED reports
           \/ \E e \in Envelopes : \E detail \in Unanswered :
                 reports' = NoAnswer(e, detail)
           \/ \E w \in waiting : \E a \in acks :
                 /\ a.request_nonce = w.nonce
                 /\ ValidReplyAck(a, w)
                 /\ reports' = ReportOf(w.env, TRUE, a.detail, a.reply)
<1> DEFINE None(r) == \E e \in Envelopes : \E detail \in Unanswered :
                         r = NoAnswer(e, detail)
           Ack(r) == \E w \in waiting : \E a \in acks :
                        /\ a.request_nonce = w.nonce
                        /\ ValidReplyAck(a, w)
                        /\ r = ReportOf(w.env, TRUE, a.detail, a.reply)
<1>1. "failed" \in Unanswered /\ "expired" \in Unanswered /\ "frame limit" \in Unanswered
  BY Zenon DEF Unanswered
<1>2. ASSUME NEW e \in Envelopes, RequestExpired(e) \/ RequestUnreachable(e)
      PROVE  None(reports')
  BY <1>1, <1>2, Zenon DEF RequestExpired, RequestUnreachable
<1>3. ASSUME NEW e \in Envelopes, NEW n \in Nonces, RequestBroken(e, n)
      PROVE  None(reports')
  BY <1>1, <1>3, Zenon DEF RequestBroken
<1>4. ASSUME NEW w \in waiting, reports' = NoAnswer(w.env, "failed")
      PROVE  None(reports')
  <2>1. w.env \in Envelopes
    BY DEF RequestTypeOK, Waiter
  <2> QED BY <1>1, <1>4, <2>1, Zenon
<1>5. ASSUME NEW w \in waiting, RequestLost(w) \/ RequestTimeOut(w)
      PROVE  None(reports')
  <2>1. reports' = NoAnswer(w.env, "failed")
    BY <1>5, Zenon DEF RequestLost, RequestTimeOut, Returns
  <2> QED BY <1>4, <2>1, Zenon
<1>6. ASSUME NEW w \in waiting, ReceiveReply(w)
      PROVE  None(reports') \/ Ack(reports')
  <2>1. PICK a \in acks :
           /\ a.request_nonce = w.nonce
           /\ reports' = IF ValidReplyAck(a, w)
                         THEN ReportOf(w.env, TRUE, a.detail, a.reply)
                         ELSE NoAnswer(w.env, "failed")
    BY <1>6, Zenon DEF ReceiveReply, Returns
  <2>2. CASE ValidReplyAck(a, w)
    BY <2>1, <2>2, Zenon
  <2>3. CASE ~ValidReplyAck(a, w)
    BY <1>4, <2>1, <2>3, Zenon
  <2> QED BY <2>2, <2>3, Zenon
<1>7. ASSUME NEW e \in Envelopes, NEW n \in Nonces, Send(e, n)
      PROVE  UNCHANGED reports
  BY <1>7, Zenon DEF Send
<1> QED BY <1>2, <1>3, <1>5, <1>6, <1>7, Zenon DEF request
-----------------------------------------------------------------------------
(* Types.                                                                  *)

AckOK(a) ==
    /\ a.request_nonce \in Nonces
    /\ a.message_id \in Ids
    /\ a.reply \in AnyReply
    /\ a.detail \in Details

(* Every reply, the server's own included, has a verdict. *)
LEMMA ReplyVerdict ==
    /\ \A r \in AnyReply : r.accepted \in BOOLEAN
    /\ EmptyReply \in AnyReply
    /\ EmptyReply.accepted = FALSE
    /\ EmptyReply.payload_bytes = 0
<1>1. /\ EmptyReply \in AnyReply
      /\ EmptyReply.accepted = FALSE
      /\ EmptyReply.payload_bytes = 0
  BY DEF EmptyReply, AnyReply
<1>2. ASSUME NEW r \in Replies PROVE r.accepted \in BOOLEAN
  BY ReplyAssumption, Zenon DEF ValidReply
<1>3. ASSUME NEW r \in AnyReply PROVE r.accepted \in BOOLEAN
  <2>1. r \in Replies \/ r = EmptyReply
    BY Zenon DEF AnyReply
  <2>2. FALSE \in BOOLEAN
    OBVIOUS
  <2> QED BY <1>1, <1>2, <2>1, <2>2, Zenon
<1> QED BY <1>1, <1>3, Zenon

(* The ack of a frame, if one is sent. *)
LEMMA ReplyAdds ==
    ASSUME NEW f, NEW reply, NEW detail, AnswersWith(f, reply, detail)
    PROVE  \A a \in acks' :
              \/ a \in acks
              \/ /\ a.request_nonce = f.nonce
                 /\ a.message_id = f.env.message_id
                 /\ a.reply = reply
                 /\ a.detail = detail
<1> DEFINE new == [request_nonce |-> f.nonce, message_id |-> f.env.message_id,
                   accepted |-> reply.accepted, detail |-> detail,
                   secret |-> SecretFor(f), reply |-> reply]
<1>1. acks' = acks \/ acks' = acks \cup {new}
  BY DEF AnswersWith
<1>2. /\ new.request_nonce = f.nonce
      /\ new.message_id = f.env.message_id
      /\ new.reply = reply
      /\ new.detail = detail
  OBVIOUS
<1> HIDE DEF new
<1> QED BY <1>1, <1>2

LEMMA ReplyAcksType ==
    ASSUME RequestTypeOK, NEW f \in Frame, NEW reply \in AnyReply,
           NEW detail \in Details, AnswersWith(f, reply, detail)
    PROVE  \A a \in acks' : AckOK(a)
<1>1. \A a \in acks : AckOK(a)
  BY DEF RequestTypeOK, AckOK
<1>2. f.nonce \in Nonces /\ f.env.message_id \in Ids
  BY DEF Frame, Ids
<1> QED BY <1>1, <1>2, ReplyAdds DEF AckOK

LEMMA TouchIds ==
    ASSUME RequestTypeOK, NEW m \in Ids, since' = Touch(since, m)
    PROVE  DOMAIN since' \subseteq Ids
BY DEF RequestTypeOK, Touch

LEMMA ReportsType ==
    ASSUME RequestTypeOK, request
    PROVE  \A r \in reports' : r.env \in Envelopes /\ r.reply \in AnyReply
<1>1. CASE UNCHANGED reports
  BY <1>1 DEF RequestTypeOK
<1>2. ASSUME NEW e \in Envelopes, NEW acknowledged, NEW detail, NEW reply \in AnyReply,
             reports' = ReportOf(e, acknowledged, detail, reply)
      PROVE  \A r \in reports' : r.env \in Envelopes /\ r.reply \in AnyReply
  BY <1>2 DEF ReportOf
<1>3. ASSUME NEW e \in Envelopes, NEW detail, reports' = NoAnswer(e, detail)
      PROVE  \A r \in reports' : r.env \in Envelopes /\ r.reply \in AnyReply
  BY <1>2, <1>3, ReplyVerdict DEF NoAnswer
<1>4. ASSUME NEW w \in waiting, NEW a \in acks,
             reports' = ReportOf(w.env, TRUE, a.detail, a.reply)
      PROVE  \A r \in reports' : r.env \in Envelopes /\ r.reply \in AnyReply
  <2>1. w.env \in Envelopes /\ a.reply \in AnyReply
    BY DEF RequestTypeOK, Waiter
  <2> QED BY <1>2, <1>4, <2>1
<1> QED BY <1>1, <1>3, <1>4, RequestReports, Zenon

(* The memory a reply of the receiver leaves. *)
LEMMA RepliesMemory ==
    ASSUME RequestTypeOK, NEW reply \in Replies, ReceiverReplies(reply)
    PROVE  \E f \in calling :
              LET d == [env |-> f.env, reply |-> reply] IN
              /\ d \in Keepable
              /\ d.env = f.env
              /\ f \in Frame
              /\ cache' = Inserted(cache, d, ReplayCapacity)
              /\ decided' = decided \cup {d}
              /\ since' = Touch(since, d.env.message_id)
              /\ forgotten' = forgotten \cup (IdsIn(cache) \ IdsIn(cache'))
              /\ answered' = answered \cup {d.env}
              /\ AnswersWith(f, reply, Outcome(reply.accepted))
              /\ calling' = {}
              /\ UNCHANGED <<now, clientVars, listening, backlog>>
<1>1. PICK f \in calling :
         LET d == [env |-> f.env, reply |-> reply] IN
         /\ WithinReplyLimit(reply)
         /\ calling' = {}
         /\ decided' = decided \cup {d}
         /\ answered' = answered \cup {f.env}
         /\ cache' = KeptReply(d)
         /\ since' = Touch(since, f.env.message_id)
         /\ forgotten' = forgotten \cup (IdsIn(cache) \ IdsIn(cache'))
         /\ AnswersWith(f, reply, Outcome(reply.accepted))
         /\ UNCHANGED <<now, clientVars, listening, backlog>>
  BY Zenon DEF ReceiverReplies
<1> DEFINE d == [env |-> f.env, reply |-> reply]
<1>2. f \in Frame
  BY DEF RequestTypeOK
<1>3. d \in Keepable /\ d.env = f.env
  BY <1>1, <1>2 DEF Keepable, Kept, Frame, WithinReplyLimit
<1>4. cache' = Inserted(cache, d, ReplayCapacity)
  BY <1>1, Zenon DEF KeptReply, Inserted
<1> QED BY <1>1, <1>2, <1>3, <1>4, Zenon

LEMMA ServeRequestType ==
    ASSUME RequestTypeOK, ServeRequest
    PROVE  RequestTypeOK'
<1>0. ConnectionsOK /\ AboutEnvelopes(Keepable) /\ CacheOf(Keepable)
  BY RequestConnections, ReplyCache
<1>1. CASE ServeSilently /\ UNCHANGED answered
  BY <1>0, <1>1, AcceptTakes DEF ServeSilently, clientVars, memoryVars, RequestTypeOK
<1>2. CASE RefuseRequest /\ UNCHANGED answered
  <2>1. PICK f \in Range(backlog) : Accept(f) /\ AnswersWith(f, EmptyReply, "refused")
    BY <1>2 DEF RefuseRequest
  <2>2. \A a \in acks' : AckOK(a)
    BY <1>0, <2>1, AcceptTakes, ReplyAcksType, ReplyVerdict DEF Details
  <2> QED BY <1>0, <1>2, <2>1, <2>2, AcceptTakes
          DEF RefuseRequest, clientVars, memoryVars, RequestTypeOK, AckOK
<1>3. CASE AnswerFromCache /\ UNCHANGED answered
  <2>0. PICK f \in Range(backlog) :
           \E i \in PositionsOf(f.env) :
              /\ Accept(f)
              /\ cache' = Refreshed(cache, i)
              /\ since' = Touch(since, f.env.message_id)
              /\ \/ AnswersWith(f, cache[i].reply, Outcome(cache[i].reply.accepted))
                 \/ AnswersWith(f, EmptyReply, "conflict")
    BY <1>3 DEF AnswerFromCache
  <2>1. PICK i \in PositionsOf(f.env) :
           /\ Accept(f)
           /\ cache' = Refreshed(cache, i)
           /\ since' = Touch(since, f.env.message_id)
           /\ \/ AnswersWith(f, cache[i].reply, Outcome(cache[i].reply.accepted))
              \/ AnswersWith(f, EmptyReply, "conflict")
    BY <2>0
  <2>2. i \in 1..Len(cache) /\ f \in Frame /\ f.env.message_id \in Ids
    BY <1>0, <2>1, AcceptTakes DEF PositionsOf, Frame, Ids
  <2>3. cache[i].reply \in AnyReply
    <3>1. cache[i] \in Keepable
      BY <1>0, <2>2, CacheContents
    <3> QED BY <3>1 DEF Keepable, Kept, AnyReply
  <2>4. \A a \in acks' : AckOK(a)
    <3>1. Outcome(cache[i].reply.accepted) \in Details /\ "conflict" \in Details
      BY DEF Outcome, Details
    <3> QED BY <2>1, <2>2, <2>3, <3>1, ReplyAcksType, ReplyVerdict
  <2>5. CacheOf(Keepable)'
    BY <1>0, <2>1, <2>2, HitMoves
  <2>6. /\ cache' \in Seq(Kept)
        /\ Len(cache') <= ReplayCapacity
        /\ \A j \in 1..Len(cache') : cache'[j].reply.payload_bytes <= ServerReplyLimit
    BY <2>5, KeepableIsKept DEF CacheOf
  <2>7. DOMAIN since' \subseteq Ids
    BY <2>1, <2>2, TouchIds
  <2> QED BY <1>0, <1>3, <2>1, <2>4, <2>6, <2>7, AcceptTakes
          DEF AnswerFromCache, clientVars, RequestTypeOK, AckOK
<1>4. CASE ServeNew /\ UNCHANGED answered
  <2>1. PICK f \in Range(backlog) : Accept(f) /\ calling' = {f}
    BY <1>4 DEF ServeNew
  <2> QED BY <1>0, <1>4, <2>1, AcceptTakes
          DEF ServeNew, clientVars, memoryVars, RequestTypeOK
<1>5. ASSUME NEW reply \in Replies, ReceiverReplies(reply)
      PROVE  RequestTypeOK'
  <2> DEFINE d(f) == [env |-> f.env, reply |-> reply]
  <2>1. PICK f \in calling :
           /\ d(f) \in Keepable
           /\ d(f).env = f.env
           /\ f \in Frame
           /\ cache' = Inserted(cache, d(f), ReplayCapacity)
           /\ decided' = decided \cup {d(f)}
           /\ since' = Touch(since, d(f).env.message_id)
           /\ forgotten' = forgotten \cup (IdsIn(cache) \ IdsIn(cache'))
           /\ answered' = answered \cup {d(f).env}
           /\ AnswersWith(f, reply, Outcome(reply.accepted))
           /\ calling' = {}
           /\ UNCHANGED <<now, clientVars, listening, backlog>>
    BY <1>5, RepliesMemory, Zenon
  <2>2. \A a \in acks' : AckOK(a)
    <3>1. Outcome(reply.accepted) \in Details /\ reply \in AnyReply
      BY DEF Outcome, Details, AnyReply
    <3> QED BY <2>1, <3>1, ReplyAcksType
  <2>3. CacheOf(Keepable)'
    BY <1>0, <2>1, NewAdds
  <2>4. /\ cache' \in Seq(Kept)
        /\ Len(cache') <= ReplayCapacity
        /\ \A j \in 1..Len(cache') : cache'[j].reply.payload_bytes <= ServerReplyLimit
    BY <2>3, KeepableIsKept DEF CacheOf
  <2>5. d(f).env \in Envelopes /\ d(f).env.message_id \in Ids /\ d(f) \in Kept
    BY <2>1 DEF Keepable, Kept, Ids
  <2>6. IdsIn(cache) \subseteq Ids
    BY <1>0, CacheContents DEF IdsIn, AboutEnvelopes, Ids
  <2>7. DOMAIN since' \subseteq Ids
    BY <2>1, <2>5, TouchIds
  <2>8. /\ decided' \in SUBSET Kept
        /\ forgotten' \in SUBSET Ids
        /\ answered' \in SUBSET Envelopes
    BY <2>1, <2>5, <2>6 DEF RequestTypeOK
  <2> HIDE DEF d
  <2> QED BY <2>1, <2>2, <2>4, <2>7, <2>8
          DEF clientVars, RequestTypeOK, AckOK
<1>6. ASSUME NEW f \in calling, AnswersWith(f, EmptyReply, "refused")
      PROVE  \A a \in acks' : AckOK(a)
  BY <1>6, ReplyAcksType, ReplyVerdict DEF Details, RequestTypeOK
<1>7. CASE \E reply \in Replies : ReplyTooLarge(reply)
  <2>1. PICK f \in calling :
           /\ calling' = {}
           /\ answered' = answered \cup {f.env}
           /\ AnswersWith(f, EmptyReply, "refused")
           /\ UNCHANGED <<now, clientVars, listening, backlog, memoryVars>>
    BY <1>7 DEF ReplyTooLarge
  <2>2. f.env \in Envelopes
    BY DEF RequestTypeOK, Frame
  <2> QED BY <1>6, <2>1, <2>2 DEF clientVars, memoryVars, RequestTypeOK, AckOK
<1>8. CASE NoReply
  <2>1. PICK f \in calling :
           /\ calling' = {}
           /\ AnswersWith(f, EmptyReply, "refused")
           /\ UNCHANGED <<now, clientVars, listening, backlog, memoryVars, answered>>
    BY <1>8 DEF NoReply
  <2> QED BY <1>6, <2>1 DEF clientVars, memoryVars, RequestTypeOK, AckOK
<1> QED BY <1>1, <1>2, <1>3, <1>4, <1>5, <1>7, <1>8 DEF ServeRequest

LEMMA RequestChangesType ==
    ASSUME RequestTypeOK, RequestServerChanges
    PROVE  RequestTypeOK'
<1>1. <<>> \in Seq(Frame) /\ <<>> \in Seq(Kept) /\ Len(<<>>) = 0
  BY EmptySeq
<1>2. UNCHANGED answered
  BY DEF RequestServerChanges
<1>3. CASE bind
  BY <1>2, <1>3 DEF bind, clientVars, memoryVars, RequestTypeOK
<1>4. CASE close
  <2>1. backlog' \in Seq(Frame) /\ Len(backlog') <= ListenBacklog
    BY <1>1, <1>4, ServerAssumption DEF close
  <2> QED BY <1>2, <1>4, <2>1 DEF close, clientVars, memoryVars, RequestTypeOK
<1>5. CASE Crash
  <2>1. backlog' \in Seq(Frame) /\ Len(backlog') <= ListenBacklog
    BY <1>1, <1>5, ServerAssumption DEF Crash
  <2>2. /\ cache' \in Seq(Kept)
        /\ Len(cache') <= ReplayCapacity
        /\ 1..Len(cache') = {}
    BY <1>1, <1>5, ServerAssumption DEF Crash
  <2>3. IdsIn(cache) \subseteq Ids
    BY ReplyCache, CacheContents DEF IdsIn, AboutEnvelopes, Ids
  <2>4. DOMAIN since' = {}
    BY <1>5 DEF Crash
  <2>5. forgotten' \in SUBSET Ids
    BY <1>5, <2>3 DEF Crash, RequestTypeOK
  <2> QED BY <1>2, <1>5, <2>1, <2>2, <2>4, <2>5 DEF Crash, clientVars, RequestTypeOK
<1>6. CASE Tick
  BY <1>2, <1>6, ClockAssumption DEF Tick, clientVars, serverVars, RequestTypeOK
<1> QED BY <1>3, <1>4, <1>5, <1>6 DEF RequestServerChanges

LEMMA RequestTypeStep == RequestTypeOK /\ [RequestNext]_requestVars => RequestTypeOK'
<1> SUFFICES ASSUME RequestTypeOK, [RequestNext]_requestVars PROVE RequestTypeOK'
  OBVIOUS
<1>1. CASE UNCHANGED requestVars
  BY <1>1 DEF requestVars, vars, RequestTypeOK
<1>2. CASE request
  <2>1. \A a \in acks' : AckOK(a)
    BY <1>2, RequestConnects DEF RequestTypeOK, AckOK
  <2> QED BY <1>2, <2>1, RequestLeaves, RequestConnects, ReportsType
          DEF serverVars, RequestTypeOK, AckOK
<1> QED BY <1>1, <1>2, ServeRequestType, RequestChangesType DEF RequestNext
-----------------------------------------------------------------------------
(* Connections.                                                            *)

LEMMA RequestNonces ==
    ASSUME RequestTypeOK, NoncesAgree, [RequestNext]_requestVars
    PROVE  NoncesAgree'
<1>0. ConnectionsOK
  BY RequestConnections
<1>1. ASSUME NEW e \in Envelopes, NEW n \in Nonces, Send(e, n)
      PROVE  NoncesAgree'
  BY <1>0, <1>1, SendNonces
<1>2. ASSUME NEW e \in Envelopes, NEW n \in Nonces, RequestBroken(e, n)
      PROVE  NoncesAgree'
  <2>1. /\ CanConnect
        /\ n \notin NoncesInUse
        /\ Arrives(e, n, FALSE)
        /\ UNCHANGED <<waiting, calling>>
    BY <1>2, Zenon DEF RequestBroken, serverVars
  <2> QED BY <1>0, <2>1, BrokenNonces
<1>3. ASSUME waiting' \subseteq waiting, InFlight' \subseteq InFlight
      PROVE  NoncesAgree'
  BY <1>3, FewerNonces
<1>4. CASE \E e \in Envelopes : RequestExpired(e) \/ RequestUnreachable(e)
  BY <1>3, <1>4 DEF RequestExpired, RequestUnreachable, serverVars, InFlight
<1>5. CASE \E w \in waiting : ReceiveReply(w) \/ RequestLost(w) \/ RequestTimeOut(w)
  BY <1>3, <1>5 DEF ReceiveReply, RequestLost, RequestTimeOut, Returns, serverVars, InFlight
<1>6. CASE ServeSilently \/ RefuseRequest \/ AnswerFromCache \/ ServeNew
  <2>1. ASSUME NEW f \in Range(backlog), Accept(f)
        PROVE  calling = {}
    BY <2>1 DEF Accept, Accepting
  <2> QED BY <1>0, <1>3, <1>6, <2>1, AcceptShrinks
          DEF ServeSilently, RefuseRequest, AnswerFromCache, ServeNew, clientVars
<1>7. CASE \/ \E reply \in Replies : ReceiverReplies(reply) \/ ReplyTooLarge(reply)
           \/ NoReply
  BY <1>3, <1>7 DEF ReceiverReplies, ReplyTooLarge, NoReply, clientVars, InFlight
<1>8. CASE close \/ Crash
  <2>1. Range(<<>>) = {}
    BY DEF Range
  <2> QED BY <1>3, <1>8, <2>1 DEF close, Crash, clientVars, InFlight
<1>9. CASE bind \/ Tick \/ UNCHANGED requestVars
  BY <1>3, <1>9 DEF bind, Tick, requestVars, vars, clientVars, serverVars, InFlight
<1> QED BY <1>1, <1>2, <1>4, <1>5, <1>6, <1>7, <1>8, <1>9
        DEF RequestNext, request, ServeRequest, RequestServerChanges

LEMMA RequestCalls ==
    ASSUME CallsAreNew, [RequestNext]_requestVars
    PROVE  CallsAreNew'
<1>1. ASSUME calling' = {}
      PROVE  CallsAreNew'
  BY <1>1 DEF CallsAreNew
<1>2. ASSUME UNCHANGED <<calling, cache>>
      PROVE  CallsAreNew'
  BY <1>2 DEF CallsAreNew, PositionsOf
<1>3. CASE AnswerFromCache
  <2>1. calling = {} /\ calling' = calling
    BY <1>3 DEF AnswerFromCache, Accept, Accepting
  <2> QED BY <1>1, <2>1
<1>4. CASE \/ \E reply \in Replies : ReceiverReplies(reply) \/ ReplyTooLarge(reply)
           \/ NoReply \/ Crash
  BY <1>1, <1>4 DEF ReceiverReplies, ReplyTooLarge, NoReply, Crash
<1>5. CASE request
  BY <1>2, <1>5, RequestLeaves DEF serverVars
<1>6. CASE ServeSilently \/ RefuseRequest
  BY <1>2, <1>6 DEF ServeSilently, RefuseRequest, memoryVars
<1>7. CASE bind \/ close \/ Tick \/ UNCHANGED requestVars
  BY <1>2, <1>7 DEF bind, close, Tick, requestVars, vars, serverVars, memoryVars
<1> QED BY <1>3, <1>4, <1>5, <1>6, <1>7, NewCalls
        DEF RequestNext, ServeRequest, RequestServerChanges
-----------------------------------------------------------------------------
(* The cache.                                                              *)

LEMMA RequestMemory ==
    ASSUME RequestTypeOK, CallsAreNew, CacheIsTrue, CacheTracks,
           [RequestNext]_requestVars
    PROVE  CacheIsTrue' /\ CacheTracks'
<1>0. AboutEnvelopes(Keepable) /\ CacheOf(Keepable)
  BY ReplyCache
<1>1. ASSUME UNCHANGED memoryVars
      PROVE  CacheIsTrue' /\ CacheTracks'
  <2>1. CacheKeys' = CacheKeys
    BY <1>1 DEF memoryVars, CacheKeys
  <2> QED BY <1>1, <2>1 DEF memoryVars, CacheIsTrue, CacheTracks
<1>2. CASE AnswerFromCache
  <2>1. PICK i \in 1..Len(cache) :
           /\ cache' = Refreshed(cache, i)
           /\ since' = Touch(since, cache[i].env.message_id)
           /\ UNCHANGED <<decided, forgotten>>
    BY <1>2 DEF AnswerFromCache, PositionsOf
  <2>2. Range(cache') = Range(cache) /\ CacheTracks'
    BY <1>0, <2>1, HitMoves, HitTracks
  <2> QED BY <2>1, <2>2 DEF CacheIsTrue
<1>3. ASSUME NEW reply \in Replies, ReceiverReplies(reply)
      PROVE  CacheIsTrue' /\ CacheTracks'
  <2> DEFINE d(f) == [env |-> f.env, reply |-> reply]
  <2>1. PICK f \in calling :
           /\ d(f) \in Keepable
           /\ d(f).env = f.env
           /\ cache' = Inserted(cache, d(f), ReplayCapacity)
           /\ decided' = decided \cup {d(f)}
           /\ since' = Touch(since, d(f).env.message_id)
           /\ forgotten' = forgotten \cup (IdsIn(cache) \ IdsIn(cache'))
    BY <1>3, RepliesMemory, Zenon
  <2>2. PositionsOf(d(f).env) = {}
    BY <2>1 DEF CallsAreNew
  <2> HIDE DEF d
  <2> QED BY <1>0, <2>1, <2>2, NewTracks, NewIsTrue
<1>4. CASE Crash
  BY <1>4, RestartIsTrue DEF Crash
<1>5. CASE request
  BY <1>1, <1>5, RequestLeaves DEF serverVars, memoryVars
<1>6. CASE \/ ServeSilently \/ RefuseRequest \/ ServeNew \/ NoReply
           \/ \E reply \in Replies : ReplyTooLarge(reply)
  BY <1>1, <1>6 DEF ServeSilently, RefuseRequest, ServeNew, NoReply, ReplyTooLarge
<1>7. CASE bind \/ close \/ Tick \/ UNCHANGED requestVars
  BY <1>1, <1>7 DEF bind, close, Tick, requestVars, vars, memoryVars, serverVars
<1> QED BY <1>2, <1>3, <1>4, <1>5, <1>6, <1>7
        DEF RequestNext, ServeRequest, RequestServerChanges
-----------------------------------------------------------------------------
(* Acks and reports.                                                       *)

(* The receiver's replies are never undone. *)
LEMMA RepliesGrow ==
    ASSUME [RequestNext]_requestVars
    PROVE  decided \subseteq decided'
<1>1. CASE request
  BY <1>1, RequestLeaves DEF serverVars
<1>2. CASE ServeRequest
  BY <1>2 DEF ServeRequest, ServeSilently, RefuseRequest, AnswerFromCache, ServeNew,
     ReceiverReplies, ReplyTooLarge, NoReply, memoryVars
<1>3. CASE RequestServerChanges \/ UNCHANGED requestVars
  BY <1>3 DEF RequestServerChanges, bind, close, Crash, Tick, requestVars, vars,
     memoryVars, serverVars
<1> QED BY <1>1, <1>2, <1>3 DEF RequestNext

LEMMA AnswerStaysTrue ==
    ASSUME NEW D, NEW E, D \subseteq E, NEW e, NEW detail, NEW reply,
           AnswerTrue(D, e, detail, reply)
    PROVE  AnswerTrue(E, e, detail, reply)
BY DEF AnswerTrue

(* A refusal says nothing of the receiver; a reply it gave may be returned. *)
LEMMA RefusalTrue ==
    ASSUME NEW D, NEW e
    PROVE  AnswerTrue(D, e, "refused", EmptyReply)
BY DEF AnswerTrue

LEMMA ReplyTrue ==
    ASSUME NEW D, NEW e, NEW reply, [env |-> e, reply |-> reply] \in D
    PROVE  AnswerTrue(D, e, Outcome(reply.accepted), reply)
BY DEF AnswerTrue, Outcome

(* A true answer keeps the acks true. *)
LEMMA TrueAnswer ==
    ASSUME ReplyAcksTrue, NoncesAgree, decided \subseteq decided',
           NEW f \in InFlight, NEW reply, NEW detail, AnswersWith(f, reply, detail),
           AnswerTrue(decided', f.env, detail, reply), UNCHANGED waiting
    PROVE  ReplyAcksTrue'
<1> SUFFICES ASSUME NEW a \in acks', NEW w \in waiting, a.request_nonce = w.nonce
             PROVE  AnswerTrue(decided', w.env, a.detail, a.reply)
  BY DEF ReplyAcksTrue
<1>1. CASE a \in acks
  BY <1>1, AnswerStaysTrue DEF ReplyAcksTrue
<1>2. CASE a.request_nonce = f.nonce /\ a.reply = reply /\ a.detail = detail
  BY <1>2 DEF NoncesAgree
<1> QED BY <1>1, <1>2, ReplyAdds

LEMMA RequestAcks ==
    ASSUME RequestTypeOK, NoncesAgree, CacheIsTrue, ReplyAcksTrue,
           [RequestNext]_requestVars
    PROVE  ReplyAcksTrue'
<1>0. decided \subseteq decided'
  BY RepliesGrow
<1>1. ASSUME acks' \subseteq acks, waiting' \subseteq waiting
      PROVE  ReplyAcksTrue'
  BY <1>0, <1>1, AnswerStaysTrue DEF ReplyAcksTrue
<1>2. ASSUME NEW e \in Envelopes, NEW n \in Nonces, Send(e, n)
      PROVE  ReplyAcksTrue'
  <2>1. /\ acks' = acks
        /\ \A w \in waiting' : w \in waiting \/ w.nonce = n
        /\ \A a \in acks : a.request_nonce # n
    BY <1>2 DEF Send, NoncesInUse
  <2> QED BY <1>0, <2>1, AnswerStaysTrue DEF ReplyAcksTrue
<1>3. CASE request
  <2>1. CASE \E e \in Envelopes : RequestExpired(e) \/ RequestUnreachable(e)
    BY <1>1, <2>1 DEF RequestExpired, RequestUnreachable
  <2>2. CASE \E e \in Envelopes : \E n \in Nonces : RequestBroken(e, n)
    <3>1. UNCHANGED <<waiting, acks>>
      BY <2>2, Zenon DEF RequestBroken
    <3> QED BY <1>1, <3>1
  <2>3. CASE \E w \in waiting : ReceiveReply(w) \/ RequestLost(w) \/ RequestTimeOut(w)
    BY <1>1, <2>3 DEF ReceiveReply, RequestLost, RequestTimeOut, Returns
  <2> QED BY <1>2, <1>3, <2>1, <2>2, <2>3 DEF request
<1>4. CASE RefuseRequest
  <2>1. PICK f \in Range(backlog) : AnswersWith(f, EmptyReply, "refused")
    BY <1>4 DEF RefuseRequest
  <2> QED BY <1>0, <1>4, <2>1, RefusalTrue, TrueAnswer
          DEF RefuseRequest, clientVars, InFlight
<1>5. CASE AnswerFromCache
  <2>0. PICK f \in Range(backlog) :
           \E i \in PositionsOf(f.env) :
              /\ IF SameContent(cache[i], f)
                 THEN AnswersWith(f, cache[i].reply, Outcome(cache[i].reply.accepted))
                 ELSE AnswersWith(f, EmptyReply, "conflict")
              /\ UNCHANGED <<waiting, decided>>
    BY <1>5 DEF AnswerFromCache, clientVars
  <2>1. PICK i \in PositionsOf(f.env) :
              /\ IF SameContent(cache[i], f)
                 THEN AnswersWith(f, cache[i].reply, Outcome(cache[i].reply.accepted))
                 ELSE AnswersWith(f, EmptyReply, "conflict")
              /\ UNCHANGED <<waiting, decided>>
    BY <2>0
  <2>2. /\ cache[i] \in decided
        /\ cache[i] \in Kept
        /\ cache[i].env.message_id = f.env.message_id
    BY ReplyCache, CacheContents DEF PositionsOf, CacheIsTrue, Keepable
  <2>3. f \in InFlight
    BY DEF InFlight
  <2>4. CASE SameContent(cache[i], f)
    <3>1. cache[i] = [env |-> f.env, reply |-> cache[i].reply]
      BY <2>2, <2>4 DEF SameContent, Kept
    <3>2. [env |-> f.env, reply |-> cache[i].reply] \in decided'
      BY <2>1, <2>2, <3>1, Zenon
    <3> QED BY <1>0, <2>1, <2>3, <2>4, <3>2, ReplyTrue, TrueAnswer
  <2>5. CASE ~SameContent(cache[i], f)
    <3>1. AnswerTrue(decided', f.env, "conflict", EmptyReply)
      BY <2>1, <2>2, <2>5 DEF AnswerTrue, SameContent
    <3> QED BY <1>0, <2>1, <2>3, <2>5, <3>1, TrueAnswer
  <2> QED BY <2>4, <2>5
<1>6. ASSUME NEW reply \in Replies, ReceiverReplies(reply)
      PROVE  ReplyAcksTrue'
  <2>1. PICK f \in calling :
           /\ decided' = decided \cup {[env |-> f.env, reply |-> reply]}
           /\ AnswersWith(f, reply, Outcome(reply.accepted))
           /\ UNCHANGED waiting
    BY <1>6 DEF ReceiverReplies, clientVars
  <2>2. AnswerTrue(decided', f.env, Outcome(reply.accepted), reply)
    BY <2>1, ReplyTrue
  <2>3. f \in InFlight
    BY DEF InFlight
  <2> QED BY <1>0, <2>1, <2>2, <2>3, TrueAnswer
<1>7. CASE (\E reply \in Replies : ReplyTooLarge(reply)) \/ NoReply
  <2>1. PICK f \in calling : AnswersWith(f, EmptyReply, "refused") /\ UNCHANGED waiting
    BY <1>7 DEF ReplyTooLarge, NoReply, clientVars
  <2> QED BY <1>0, <2>1, RefusalTrue, TrueAnswer DEF InFlight
<1>8. CASE ServeSilently \/ ServeNew
  BY <1>1, <1>8 DEF ServeSilently, ServeNew, clientVars
<1>9. CASE bind \/ close \/ Crash \/ Tick \/ UNCHANGED requestVars
  BY <1>1, <1>9 DEF bind, close, Crash, Tick, requestVars, vars, clientVars
<1> QED BY <1>3, <1>4, <1>5, <1>6, <1>7, <1>8, <1>9
        DEF RequestNext, ServeRequest, RequestServerChanges

(* What is reported of a request without an answer. *)
LEMMA NoAnswerIsTrue ==
    ASSUME NEW D, NEW e, NEW detail \in Unanswered
    PROVE  /\ AnswerTrue(D, e, detail, EmptyReply)
           /\ detail \in Details \cup Unanswered
           /\ detail \notin {"accepted", "rejected"}
<1>1. /\ detail \notin {"accepted", "rejected"}
      /\ detail # "conflict"
      /\ detail \in Details \cup Unanswered
  BY Zenon DEF Unanswered
<1> QED BY <1>1, Zenon DEF AnswerTrue

LEMMA RequestReportsTrue ==
    ASSUME RequestTypeOK, ReplyAcksTrue, ReplyReportsTrue, [RequestNext]_requestVars
    PROVE  ReplyReportsTrue'
<1> DEFINE Fine(r) ==
       /\ AnswerTrue(decided', r.env, r.detail, r.reply)
       /\ r.accepted = r.reply.accepted
       /\ r.acknowledged \in BOOLEAN
       /\ r.detail \in Details \cup Unanswered
       /\ r.detail \in {"accepted", "rejected"} =>
             r.acknowledged /\ r.reply.payload_bytes <= AdapterReplyLimit
<1> SUFFICES \A r \in reports' : Fine(r)
  BY Zenon DEF ReplyReportsTrue
<1>0. decided \subseteq decided'
  BY RepliesGrow
<1>1. ASSUME UNCHANGED reports
      PROVE  \A r \in reports' : Fine(r)
  <2>1. \A r \in reports : AnswerTrue(decided', r.env, r.detail, r.reply)
    BY <1>0, AnswerStaysTrue DEF ReplyReportsTrue
  <2> QED BY <1>1, <2>1, Zenon DEF ReplyReportsTrue
<1>2. ASSUME NEW e \in Envelopes, NEW detail \in Unanswered,
             reports' = NoAnswer(e, detail)
      PROVE  \A r \in reports' : Fine(r)
  <2> DEFINE r == [env |-> e, accepted |-> EmptyReply.accepted, acknowledged |-> FALSE,
                   detail |-> detail, reply |-> EmptyReply]
  <2>1. reports' = {r}
    BY <1>2, Zenon DEF NoAnswer, ReportOf
  <2>2. /\ r.env = e
        /\ r.accepted = EmptyReply.accepted
        /\ r.acknowledged = FALSE
        /\ r.detail = detail
        /\ r.reply = EmptyReply
    BY Zenon
  <2> HIDE DEF r
  <2>3. Fine(r)
    BY <2>2, NoAnswerIsTrue, Zenon
  <2> QED BY <2>1, <2>3, Zenon
<1>3. ASSUME NEW w \in waiting, NEW a \in acks, a.request_nonce = w.nonce,
             ValidReplyAck(a, w), reports' = ReportOf(w.env, TRUE, a.detail, a.reply)
      PROVE  \A r \in reports' : Fine(r)
  <2> DEFINE r == [env |-> w.env, accepted |-> a.reply.accepted, acknowledged |-> TRUE,
                   detail |-> a.detail, reply |-> a.reply]
  <2>1. reports' = {r}
    BY <1>3, Zenon DEF ReportOf
  <2>2. /\ r.env = w.env
        /\ r.accepted = a.reply.accepted
        /\ r.acknowledged = TRUE
        /\ r.detail = a.detail
        /\ r.reply = a.reply
    BY Zenon
  <2>3. AnswerTrue(decided', w.env, a.detail, a.reply)
    BY <1>0, <1>3, AnswerStaysTrue DEF ReplyAcksTrue
  <2>4. a.detail \in Details \cup Unanswered
    BY Zenon DEF RequestTypeOK
  <2>5. a.reply.payload_bytes <= AdapterReplyLimit
    BY <1>3 DEF ValidReplyAck
  <2> HIDE DEF r
  <2>6. Fine(r)
    BY <2>2, <2>3, <2>4, <2>5, Zenon
  <2> QED BY <2>1, <2>6, Zenon
<1> HIDE DEF Fine
<1>4. CASE request
  BY <1>1, <1>2, <1>3, <1>4, RequestReports, Zenon
<1>5. CASE ServeRequest
  BY <1>1, <1>5 DEF ServeRequest, ServeSilently, RefuseRequest, AnswerFromCache, ServeNew,
     ReceiverReplies, ReplyTooLarge, NoReply, clientVars
<1>6. CASE RequestServerChanges \/ UNCHANGED requestVars
  BY <1>1, <1>6 DEF RequestServerChanges, bind, close, Crash, Tick, requestVars, vars,
     clientVars
<1> QED BY <1>4, <1>5, <1>6, Zenon DEF RequestNext
-----------------------------------------------------------------------------
(* The invariant, and what follows from it.                                *)

LEMMA InitRequestIInv == RequestInit => RequestIInv
<1> SUFFICES ASSUME RequestInit PROVE RequestIInv
  OBVIOUS
<1>1. /\ backlog = <<>> /\ calling = {} /\ waiting = {} /\ acks = {}
      /\ cache = <<>> /\ reports = {} /\ decided = {} /\ since = <<>>
      /\ forgotten = {} /\ listening = FALSE /\ now = StartMs /\ answered = {}
  BY DEF RequestInit, Init
<1>2. /\ <<>> \in Seq(Frame) /\ <<>> \in Seq(Kept) /\ Len(<<>>) = 0
      /\ Range(<<>>) = {} /\ DOMAIN <<>> = {}
  BY EmptySeq DEF Range
<1>3. RequestTypeOK
  <2>1. now \in StartMs..StopMs
    BY <1>1, ClockAssumption
  <2>2. /\ backlog \in Seq(Frame) /\ Len(backlog) <= ListenBacklog
        /\ cache \in Seq(Kept) /\ Len(cache) <= ReplayCapacity
        /\ 1..Len(cache) = {}
    BY <1>1, <1>2, ServerAssumption
  <2>3. DOMAIN since = {}
    BY <1>1, <1>2
  <2> QED BY <1>1, <2>1, <2>2, <2>3 DEF RequestTypeOK
<1>4. NoncesAgree /\ CallsAreNew /\ ReplyAcksTrue /\ ReplyReportsTrue
  BY <1>1, Zenon DEF NoncesAgree, CallsAreNew, ReplyAcksTrue, ReplyReportsTrue
<1>5. CacheIsTrue
  BY <1>1, <1>2 DEF CacheIsTrue
<1>6. CacheKeys = <<>>
  BY <1>1, <1>2 DEF CacheKeys
<1>7. CacheTracks
  BY <1>1, <1>6, TracksEmpty, ServerAssumption DEF CacheTracks
<1> QED BY <1>3, <1>4, <1>5, <1>7 DEF RequestIInv

LEMMA NextRequestIInv == RequestIInv /\ [RequestNext]_requestVars => RequestIInv'
<1> SUFFICES ASSUME RequestIInv, [RequestNext]_requestVars PROVE RequestIInv'
  OBVIOUS
<1>1. /\ RequestTypeOK /\ NoncesAgree /\ CallsAreNew /\ ReplyAcksTrue
      /\ CacheIsTrue /\ CacheTracks /\ ReplyReportsTrue
  BY DEF RequestIInv
<1>2. RequestTypeOK' /\ NoncesAgree' /\ CallsAreNew'
  BY <1>1, RequestTypeStep, RequestNonces, RequestCalls
<1>3. CacheIsTrue' /\ CacheTracks' /\ ReplyAcksTrue' /\ ReplyReportsTrue'
  BY <1>1, RequestMemory, RequestAcks, RequestReportsTrue
<1> QED BY <1>2, <1>3 DEF RequestIInv

(* The invariant holds whatever callers, network, clock, receiver and server do. *)
THEOREM RequestInductive == RequestSpec => []RequestIInv
BY InitRequestIInv, NextRequestIInv, PTL DEF RequestSpec

(* The state keeps its shape and the cache its capacity, and no reply over the *)
(* server's limit is ever kept.                                                *)
THEOREM RequestTypeCorrect == RequestSpec => []RequestTypeOK
<1>1. RequestIInv => RequestTypeOK
  BY DEF RequestIInv
<1> QED BY <1>1, RequestInductive, PTL

(* A caller is given only replies the receiver returned for its very envelope, *)
(* within the caller's limit, and no payload in any other report.              *)
THEOREM TrueReplies == RequestSpec => []RepliesAreTrue
<1>1. ASSUME RequestIInv, NEW r \in reports
      PROVE  /\ r.detail \in {"accepted", "rejected"} =>
                   /\ [env |-> r.env, reply |-> r.reply] \in decided
                   /\ r.reply.payload_bytes <= AdapterReplyLimit
             /\ r.detail \notin {"accepted", "rejected"} =>
                   ~r.accepted /\ r.reply.payload_bytes = 0
             /\ r.detail = "conflict" =>
                   \E d \in decided :
                       d.env # r.env /\ d.env.message_id = r.env.message_id
  <2>1. /\ AnswerTrue(decided, r.env, r.detail, r.reply)
        /\ r.accepted = r.reply.accepted
        /\ r.detail \in {"accepted", "rejected"} =>
              r.reply.payload_bytes <= AdapterReplyLimit
    BY <1>1, Zenon DEF RequestIInv, ReplyReportsTrue
  <2>2. EmptyReply.accepted = FALSE /\ EmptyReply.payload_bytes = 0
    BY ReplyVerdict
  <2> QED BY <2>1, <2>2, Zenon DEF AnswerTrue
<1>2. RequestIInv => RepliesAreTrue
  BY <1>1, Zenon DEF RepliesAreTrue
<1> QED BY <1>2, RequestInductive, PTL

(* A message id has one reply for as long as that reply is kept. *)
THEOREM OneReply == RequestSpec => []OneReplyPerMessage
<1>1. ASSUME RequestIInv, NEW d1 \in decided, NEW d2 \in decided,
             d1.env.message_id = d2.env.message_id,
             d1.env.message_id \notin forgotten
      PROVE  d1 = d2
  <2>1. RequestTypeOK /\ CacheIsTrue /\ CacheTracks
    BY <1>1 DEF RequestIInv
  <2>2. AboutEnvelopes(Keepable) /\ CacheOf(Keepable)
    BY <2>1, ReplyCache
  <2>3. d1 \in Range(cache) /\ d2 \in Range(cache)
    BY <1>1, <2>1 DEF CacheIsTrue
  <2> QED BY <1>1, <2>1, <2>2, <2>3, CacheContents, IdsDiffer
<1>2. RequestIInv => OneReplyPerMessage
  BY <1>1 DEF OneReplyPerMessage
<1> QED BY <1>2, RequestInductive, PTL

(* As for the carrier, only ServeNew starts a call to the receiver. *)
LEMMA RequestCallStarts ==
    ASSUME [RequestNext]_requestVars, NEW f \in calling' \ calling
    PROVE  f \in Range(backlog) /\ Admits(f) /\ PositionsOf(f.env) = {}
<1>1. CASE ServeNew
  BY <1>1 DEF ServeNew
<1>2. CASE request
  BY <1>2, RequestLeaves DEF serverVars
<1>3. CASE ServeRequest /\ ~ServeNew
  BY <1>3 DEF ServeRequest, ServeSilently, RefuseRequest, AnswerFromCache,
     ReceiverReplies, ReplyTooLarge, NoReply
<1>4. CASE RequestServerChanges \/ UNCHANGED requestVars
  BY <1>4 DEF RequestServerChanges, bind, close, Crash, Tick, requestVars, vars,
     serverVars
<1> QED BY <1>1, <1>2, <1>3, <1>4 DEF RequestNext

(* The receiver runs again for a message id whose reply was kept only after a *)
(* restart, or when ReplayCapacity other ids were used after it.  A run that  *)
(* raised, or whose reply the server refused, kept none: the id may be run    *)
(* again at once.                                                             *)
THEOREM NoEarlyRerun == RequestSpec => NoEarlyRedelivery
<1>1. ASSUME RequestIInv, [RequestNext]_requestVars, NEW f \in calling' \ calling
      PROVE  ~UsedWithin(since, f.env.message_id, ReplayCapacity)
  <2>1. RequestTypeOK /\ CacheTracks
    BY <1>1 DEF RequestIInv
  <2>2. /\ CacheKeys \in Seq(Ids)
        /\ Len(CacheKeys) = Len(cache)
        /\ \A i \in 1..Len(cache) : CacheKeys[i] = cache[i].env.message_id
    BY <2>1, ReplyCache, KeysType
  <2>3. \A i \in 1..Len(CacheKeys) : CacheKeys[i] # f.env.message_id
    BY <1>1, <2>2, RequestCallStarts DEF PositionsOf
  <2> QED BY <2>1, <2>2, <2>3, TracksWindow, ServerAssumption DEF CacheTracks
<1>2. RequestIInv /\ [RequestNext]_requestVars =>
         [\A f \in calling' \ calling :
             ~UsedWithin(since, f.env.message_id, ReplayCapacity)]_vars
  BY <1>1
<1> QED BY <1>2, RequestInductive, PTL DEF RequestSpec, NoEarlyRedelivery

(* A request that waited is not run later than the skew of its sending, corrected *)
(* by the clocks' offsets, or its lifetime allow.                                 *)
THEOREM RequestCallsInTime == RequestSpec => LateDeliveryBounded
<1>1. ASSUME RequestIInv, [RequestNext]_requestVars, NEW f \in calling' \ calling
      PROVE  InTime(f)
  <2>1. ConnectionsOK /\ now \in Int
    BY <1>1, RequestConnections, ClockAssumption DEF RequestIInv, RequestTypeOK
  <2>2. Admits(f) /\ f \in InFlight
    BY <1>1, RequestCallStarts DEF InFlight
  <2> QED BY <2>1, <2>2, AdmittedInTime
<1>2. RequestIInv /\ [RequestNext]_requestVars =>
         [\A f \in calling' \ calling : InTime(f)]_vars
  BY <1>1
<1> QED BY <1>2, RequestInductive, PTL DEF RequestSpec, LateDeliveryBounded, InTime
-----------------------------------------------------------------------------
(* Request and reply implement the delivery service.                       *)

(* What the service sees of a report. *)
Seen(r) == [env |-> r.env, accepted |-> r.accepted,
            acknowledged |-> r.acknowledged, detail |-> r.detail]

LEMMA RequestServiceStutters ==
    ASSUME UNCHANGED <<decided, reports>>, Range(cache') = Range(cache)
    PROVE  UNCHANGED RequestService!vars
BY DEF RequestService!vars

LEMMA RequestServiceCounts ==
    ASSUME NEW S
    PROVE  RequestService!Cardinality(S) = Cardinality(S)
BY Zenon DEF RequestService!Cardinality, Cardinality

(* A true report is one the service may give. *)
LEMMA RequestServiceReports ==
    ASSUME RequestIInv', NEW r, reports' = {r}, UNCHANGED <<decided, cache>>
    PROVE  RequestService!Report
<1>1. /\ AnswerTrue(decided, r.env, r.detail, r.reply)
      /\ r.accepted = r.reply.accepted
      /\ r.acknowledged \in BOOLEAN
      /\ r.detail \in Details \cup Unanswered
      /\ r.detail \in {"accepted", "rejected"} => r.acknowledged
      /\ r.env \in Envelopes
      /\ r.reply \in AnyReply
  BY Zenon DEF RequestIInv, RequestTypeOK, ReplyReportsTrue
<1>2. r.accepted \in BOOLEAN
  BY <1>1, ReplyVerdict
<1>3. Seen(r) \in RequestService!AnyReport
  <2>1. Details \cup Unanswered = RequestService!Details
    BY Zenon DEF Details, Unanswered, RequestService!Details
  <2>2. r.detail \in RequestService!Details
    BY <1>1, <2>1, Zenon
  <2> QED BY <1>1, <1>2, <2>2, Zenon DEF Seen, RequestService!AnyReport
<1>4. RequestService!Justified(Seen(r))
  <2>1. CASE r.detail \in {"accepted", "rejected"}
    <3> DEFINE d == [env |-> r.env, reply |-> r.reply]
    <3>1. /\ d \in decided
          /\ r.detail = Outcome(r.accepted)
          /\ r.acknowledged
      BY <1>1, <2>1 DEF AnswerTrue
    <3>2. Verdict(d) = [env |-> r.env, accepted |-> r.accepted]
      BY <1>1 DEF Verdict
    <3>3. [env |-> r.env, accepted |-> r.accepted] \in {Verdict(x) : x \in decided}
      BY <3>1, <3>2
    <3>4. CASE r.accepted = TRUE
      BY <3>1, <3>3, <3>4 DEF Outcome, Seen, RequestService!Justified
    <3>5. CASE r.accepted = FALSE
      BY <3>1, <3>3, <3>5 DEF Outcome, Seen, RequestService!Justified
    <3> QED BY <1>2, <3>4, <3>5
  <2>2. CASE r.detail \notin {"accepted", "rejected"}
    <3>1. r.accepted = FALSE
      BY <1>1, <2>2, ReplyVerdict DEF AnswerTrue
    <3>2. ASSUME r.detail = "conflict"
          PROVE  \E v \in {Verdict(x) : x \in decided} :
                    /\ v.env # r.env
                    /\ v.env.message_id = r.env.message_id
      <4>1. PICK d \in decided : d.env # r.env /\ d.env.message_id = r.env.message_id
        BY <1>1, <3>2 DEF AnswerTrue
      <4>2. Verdict(d).env = d.env
        BY DEF Verdict
      <4> QED BY <4>1, <4>2
    <3> QED BY <2>2, <3>1, <3>2 DEF Seen, RequestService!Justified
  <2> QED BY <2>1, <2>2
<1>5. {[env |-> x.env, accepted |-> x.accepted, acknowledged |-> x.acknowledged,
        detail |-> x.detail] : x \in reports}' = {Seen(r)}
  BY DEF Seen
<1> QED BY <1>3, <1>4, <1>5 DEF RequestService!Report

(* A reply of the receiver is a decision of the service: the memory gives up at *)
(* most one verdict for it, as the cache gives up at most one reply.            *)
LEMMA RequestServiceDecides ==
    ASSUME RequestIInv, NEW reply \in Replies, ReceiverReplies(reply)
    PROVE  RequestService!Decide
<1> DEFINE d(f) == [env |-> f.env, reply |-> reply]
<1>1. PICK f \in calling :
         /\ d(f) \in Keepable
         /\ d(f).env = f.env
         /\ cache' = Inserted(cache, d(f), ReplayCapacity)
         /\ decided' = decided \cup {d(f)}
         /\ UNCHANGED reports
  <2>1. RequestTypeOK
    BY DEF RequestIInv
  <2> QED BY <2>1, RepliesMemory, Zenon DEF clientVars
<1> DEFINE new == d(f)
           F == [x \in Keepable |-> Verdict(x)]
           V == {Verdict(x) : x \in Keepable}
           vs == Mapped(F, cache)
<1>2. /\ AboutEnvelopes(Keepable) /\ CacheOf(Keepable) /\ CacheTracks
      /\ RequestTypeOK /\ CallsAreNew
      /\ cache \in Seq(Keepable) /\ Len(cache) <= ReplayCapacity
      /\ ReplayCapacity \in Nat \ {0}
  BY ReplyCache, ServerAssumption DEF RequestIInv, CacheOf
<1>3. cache' \in Seq(Keepable)
  BY <1>1, <1>2, NewAdds DEF CacheOf
<1>4. F[new] = Verdict(new) /\ \A x \in Keepable : F[x] = Verdict(x) /\ F[x] \in V
  BY <1>1
<1>5. Verdict(new) = [env |-> f.env, accepted |-> reply.accepted]
  BY DEF Verdict
<1>6. f.env \in Envelopes /\ reply.accepted \in BOOLEAN
  <2>1. f.env \in Envelopes
    BY <1>2 DEF RequestTypeOK, Frame
  <2>2. reply \in AnyReply
    BY Zenon DEF AnyReply
  <2> QED BY <2>1, <2>2, ReplyVerdict
<1>7. /\ \A x \in Range(cache) : x \in Keepable /\ x.env.message_id # f.env.message_id
      /\ \A x \in Range(cache) : Verdict(x).env = x.env
  BY <1>2, CacheContents DEF CallsAreNew, PositionsOf, Verdict
<1> HIDE DEF d, F, V
<1>8. vs \in Seq(V) /\ Len(vs) = Len(cache)
  <2>1. vs \in Seq(V)
    BY <1>2, <1>4, MappedType
  <2>2. Len(vs) = Len(cache)
    BY <1>2, MappedElements
  <2> QED BY <2>1, <2>2
<1>9. ASSUME NEW i \in 1..Len(vs), NEW j \in 1..Len(vs), vs[i] = vs[j]
      PROVE  i = j
  <2>1. i \in 1..Len(cache) /\ j \in 1..Len(cache)
    BY <1>8
  <2>2. /\ cache[i] \in Keepable /\ vs[i] = F[cache[i]]
        /\ cache[j] \in Keepable /\ vs[j] = F[cache[j]]
    BY <1>2, <2>1, MappedElements
  <2>3. Verdict(cache[i]) = Verdict(cache[j])
    BY <1>4, <1>9, <2>2
  <2>4. cache[i].env = cache[j].env
    BY <2>3 DEF Verdict
  <2> QED BY <1>2, <2>1, <2>4, IdsDiffer
<1>10. Mapped(F, cache') = Inserted(vs, F[new], ReplayCapacity)
  BY <1>1, <1>2, MappedInsert
<1>11. /\ Range(vs) = {Verdict(x) : x \in Range(cache)}
       /\ Range(Mapped(F, cache')) = {Verdict(x) : x \in Range(cache')}
  <2>1. /\ Range(vs) = {F[x] : x \in Range(cache)}
        /\ Range(Mapped(F, cache')) = {F[x] : x \in Range(cache')}
    BY <1>2, <1>3, MappedRange
  <2>2. Range(cache) \subseteq Keepable /\ Range(cache') \subseteq Keepable
    BY <1>2, <1>3, RangeOfSeq
  <2> QED BY <1>4, <2>1, <2>2
<1>12. Verdict(new) \in V
  BY <1>1, <1>4
<1> HIDE DEF vs, new
<1>13. PICK lost \in SUBSET Range(vs) :
         /\ Range(Inserted(vs, Verdict(new), ReplayCapacity))
               = (Range(vs) \ lost) \cup {Verdict(new)}
         /\ Cardinality(lost) = IF Cardinality(Range(vs)) < ReplayCapacity THEN 0 ELSE 1
  BY <1>2, <1>8, <1>9, <1>12, InsertRange
<1> DEFINE old == {Verdict(x) : x \in Range(cache)}
<1>14. /\ lost \in SUBSET old
       /\ {Verdict(x) : x \in Range(cache)}'
             = (old \ lost) \cup {[env |-> f.env, accepted |-> reply.accepted]}
       /\ RequestService!Cardinality(lost) =
             IF RequestService!Cardinality(old) < ReplayCapacity THEN 0 ELSE 1
  BY <1>4, <1>5, <1>10, <1>11, <1>13, RequestServiceCounts DEF new
<1>15. {Verdict(x) : x \in decided}'
          = {Verdict(x) : x \in decided}
               \cup {[env |-> f.env, accepted |-> reply.accepted]}
  BY <1>1, <1>5 DEF new
<1>16. \A v \in old : v.env.message_id # f.env.message_id
  BY <1>7
<1>17. {[env |-> x.env, accepted |-> x.accepted, acknowledged |-> x.acknowledged,
         detail |-> x.detail] : x \in reports}'
          = {[env |-> x.env, accepted |-> x.accepted, acknowledged |-> x.acknowledged,
              detail |-> x.detail] : x \in reports}
  BY <1>1
<1> QED BY <1>6, <1>14, <1>15, <1>16, <1>17, Zenon DEF RequestService!Decide

LEMMA RequestServiceStep ==
    RequestIInv /\ [RequestNext]_requestVars
        => [RequestService!Next]_(RequestService!vars)
<1> SUFFICES ASSUME RequestIInv, [RequestNext]_requestVars
             PROVE  RequestService!Next \/ UNCHANGED RequestService!vars
  OBVIOUS
<1>0. RequestTypeOK /\ RequestIInv'
  BY NextRequestIInv DEF RequestIInv
<1>1. CASE request
  <2>1. UNCHANGED <<decided, cache>>
    BY <1>1, RequestLeaves DEF serverVars
  <2>2. CASE UNCHANGED reports
    BY <2>1, <2>2, RequestServiceStutters
  <2>3. ASSUME NEW r, reports' = {r}
        PROVE  RequestService!Next
    BY <1>0, <2>1, <2>3, RequestServiceReports, Zenon DEF RequestService!Next
  <2>4. ASSUME NEW e, NEW acknowledged, NEW detail, NEW reply,
               reports' = ReportOf(e, acknowledged, detail, reply)
        PROVE  RequestService!Next
    BY <2>3, <2>4, Zenon DEF ReportOf
  <2> QED BY <1>0, <1>1, <2>2, <2>4, RequestReports, Zenon DEF NoAnswer
<1>2. CASE \E reply \in Replies : ReceiverReplies(reply)
  BY <1>2, RequestServiceDecides DEF RequestService!Next
<1>3. CASE AnswerFromCache
  <2>1. PICK i \in 1..Len(cache) : cache' = Refreshed(cache, i)
    BY <1>3 DEF AnswerFromCache, PositionsOf
  <2>2. Range(cache') = Range(cache)
    BY <1>0, <2>1, ReplyCache, HitMoves
  <2> QED BY <1>3, <2>2, RequestServiceStutters DEF AnswerFromCache, clientVars
<1>4. CASE \/ ServeSilently \/ RefuseRequest \/ ServeNew \/ NoReply
           \/ \E reply \in Replies : ReplyTooLarge(reply)
  BY <1>4, RequestServiceStutters DEF ServeSilently, RefuseRequest, ServeNew, NoReply,
     ReplyTooLarge, clientVars, memoryVars
<1>5. CASE Crash
  <2>1. cache' = <<>> /\ UNCHANGED <<decided, reports>>
    BY <1>5 DEF Crash, clientVars
  <2>2. Range(cache') = {}
    BY <2>1 DEF Range
  <2> QED BY <2>1, <2>2 DEF RequestService!Restart, RequestService!Next
<1>6. CASE bind \/ close \/ Tick \/ UNCHANGED requestVars
  BY <1>6, RequestServiceStutters
     DEF bind, close, Tick, requestVars, vars, clientVars, serverVars, memoryVars
<1> QED BY <1>1, <1>2, <1>3, <1>4, <1>5, <1>6
        DEF RequestNext, ServeRequest, RequestServerChanges

(* Refinement: with the replies reduced to whether they accept, whatever callers, *)
(* connections, clocks, the receiver and the server do is what the delivery       *)
(* service allows; it remembers the verdicts whose replies the cache holds.       *)
THEOREM RequestServiceImplemented == RequestSpec => RequestsImplementService
<1>1. RequestInit => RequestService!Init
  <2>1. Range(<<>>) = {}
    BY DEF Range
  <2> QED BY <2>1 DEF RequestInit, Init, RequestService!Init
<1> QED BY <1>1, RequestServiceStep, RequestInductive, PTL
        DEF RequestSpec, RequestsImplementService, RequestService!Spec
=============================================================================
