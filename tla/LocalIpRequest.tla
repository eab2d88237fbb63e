---------------------------- MODULE LocalIpRequest ----------------------------
(***************************************************************************)
(* local_ip_rpc.py: request and reply over the frames, the validation and  *)
(* the memory of the local-IP carrier.  The receiver returns a reply, a    *)
(* signed ack carries it back, and the server's cache keeps it, so that a  *)
(* retried request gets the reply of the first one.  cache and decided     *)
(* hold [env, reply] here; everything else is the state of the carrier.    *)
(***************************************************************************)
EXTENDS LocalIpDelivery

CONSTANTS
    Replies,            \* the LocalIpReceiverReplies the receiver may return
    AdapterReplyLimit,  \* max_reply_bytes of the adapters ...
    ServerReplyLimit,   \*   ... and of the server
    AckOverhead         \* bytes of an ack around detail and base64 payload

MAX_REPLY_DETAIL_CHARS == 256

Base64Bytes(n) == 4 * ((n + 2) \div 3)

(* A character of the detail takes up to 12 bytes: ensure_ascii escapes one   *)
(* outside the basic plane as two \uXXXX.  body tells replies apart.          *)
ValidReply(r) ==
    /\ r.accepted \in BOOLEAN
    /\ r.payload_bytes \in Nat
    /\ r.detail_bytes \in 0..(12 * MAX_REPLY_DETAIL_CHARS)

ValidReplyLimit(limit, frameLimit) ==
    /\ limit \in Nat \ {0}
    /\ Base64Bytes(limit) + 2048 < frameLimit

ASSUME ReplyAssumption ==
    /\ \A r \in Replies : ValidReply(r)
    /\ ValidReplyLimit(AdapterReplyLimit, AdapterFrameLimit)
    /\ ValidReplyLimit(ServerReplyLimit, ServerFrameLimit)
    /\ AckOverhead \in 0..1024

VARIABLE answered   \* history: the envelopes the receiver returned a reply about

requestVars == <<vars, answered>>
-----------------------------------------------------------------------------
(* An entry of the cache; env stands for the fingerprint of its content. *)
Kept == [env : Envelopes, reply : Replies]

(* The reply of the server's own, to a conflicting or refused request. *)
EmptyReply ==
    [accepted |-> FALSE, payload_bytes |-> 0, body |-> "none",
     detail_bytes |-> 12 * MAX_REPLY_DETAIL_CHARS]

AckBytes(reply) == AckOverhead + reply.detail_bytes + Base64Bytes(reply.payload_bytes)

RequestInit == Init /\ answered = {}
-----------------------------------------------------------------------------
(* The adapter: request() sends as send() does, and reads a reply.         *)

ReportOf(e, acknowledged, detail, reply) ==
    {[env |-> e, accepted |-> reply.accepted, acknowledged |-> acknowledged,
      detail |-> detail, reply |-> reply]}

NoAnswer(e, detail) == ReportOf(e, FALSE, detail, EmptyReply)

RequestExpired(e) ==
    /\ e.payload_bytes <= AdapterPayloadLimit
    /\ IsExpired(e, Clock(e.source_peer_id))
    /\ reports' = NoAnswer(e, "expired")
    /\ UNCHANGED <<now, waiting, backlog, acks, serverVars>>

RequestUnreachable(e) ==
    /\ Sendable(e)
    /\ reports' = NoAnswer(e, "failed")
    /\ UNCHANGED <<now, waiting, backlog, acks, serverVars>>

RequestBroken(e, n) ==
    /\ Sendable(e)
    /\ CanConnect
    /\ n \notin NoncesInUse
    /\ Arrives(e, n, FALSE)
    /\ reports' = NoAnswer(e, IF Fits(e) THEN "failed" ELSE "frame limit")
    /\ UNCHANGED <<now, waiting, acks, serverVars>>

(* Mutant of ValidReplyAck: the adapter relies on the limit of the server. *)
ValidAckOfAnySize(a, w) == AckBytes(a.reply) <= AdapterFrameLimit /\ ValidAck(a, w)

(* The ack is no longer than the adapter's frame limit and valid, and its reply *)
(* is within the adapter's own limit.                                           *)
ValidReplyAck(a, w) ==
    /\ AckBytes(a.reply) <= AdapterFrameLimit
    /\ ValidAck(a, w)
    /\ a.reply.payload_bytes <= AdapterReplyLimit

ReceiveReply(w) ==
    \E a \in acks :
        /\ a.request_nonce = w.nonce
        /\ Returns(w, IF ValidReplyAck(a, w)
                      THEN ReportOf(w.env, TRUE, a.detail, a.reply)
                      ELSE NoAnswer(w.env, "failed"))

RequestLost(w) ==
    /\ \A f \in Range(backlog) \cup calling : f.nonce # w.nonce
    /\ \A a \in acks : a.request_nonce # w.nonce
    /\ Returns(w, NoAnswer(w.env, "failed"))

RequestTimeOut(w) == Returns(w, NoAnswer(w.env, "failed"))
-----------------------------------------------------------------------------
(* The server.                                                             *)

(* The ack of an answerable frame, lost when it exceeds the server's frame *)
(* limit, and when the caller has gone.                                    *)
AnswersWith(f, reply, detail) ==
    acks' = IF /\ AckBytes(reply) <= ServerFrameLimit
               /\ \E w \in waiting : w.nonce = f.nonce
            THEN acks \cup {[request_nonce |-> f.nonce,
                             message_id |-> f.env.message_id,
                             accepted |-> reply.accepted,
                             detail |-> detail,
                             secret |-> SecretFor(f),
                             reply |-> reply]}
            ELSE acks

RefuseRequest ==
    \E f \in Range(backlog) :
        /\ Accept(f)
        /\ ~Unanswerable(f)
        /\ ~Admits(f)
        /\ AnswersWith(f, EmptyReply, "refused")
        /\ UNCHANGED <<now, clientVars, listening, calling, memoryVars>>

AnswerFromCache ==
    \E f \in Range(backlog) : \E i \in PositionsOf(f.env) :
        /\ Accept(f)
        /\ ~Unanswerable(f)
        /\ Admits(f)
        /\ cache' = Refreshed(cache, i)
        /\ since' = Touch(since, f.env.message_id)
        /\ IF SameContent(cache[i], f)
           THEN AnswersWith(f, cache[i].reply, Outcome(cache[i].reply.accepted))
           ELSE AnswersWith(f, EmptyReply, "conflict")
        /\ UNCHANGED <<now, clientVars, listening, calling, decided, forgotten>>

(* Mutant of WithinReplyLimit: the payload before base64 against the frame. *)
WithinFrameLimit(reply) == reply.payload_bytes <= ServerFrameLimit

WithinReplyLimit(reply) == reply.payload_bytes <= ServerReplyLimit

(* Mutant of KeptReply: rejections are not kept. *)
KeptIfAccepted(d) ==
    IF d.reply.accepted THEN KeepNewest(Append(cache, d), ReplayCapacity) ELSE cache

KeptReply(d) == KeepNewest(Append(cache, d), ReplayCapacity)

ReceiverReplies(reply) ==
    \E f \in calling :
        LET d == [env |-> f.env, reply |-> reply] IN
        /\ WithinReplyLimit(reply)
        /\ calling' = {}
        /\ decided' = decided \cup {d}
        /\ answered' = answered \cup {f.env}
        /\ cache' = KeptReply(d)
        /\ since' = Touch(since, f.env.message_id)
        /\ forgotten' = forgotten \cup (IdsIn(cache) \ IdsIn(cache'))
        /\ AnswersWith(f, reply, Outcome(reply.accepted))
        /\ UNCHANGED <<now, clientVars, listening, backlog>>

(* The receiver has done its work, and nothing is remembered of it. *)
ReplyTooLarge(reply) ==
    \E f \in calling :
        /\ ~WithinReplyLimit(reply)
        /\ calling' = {}
        /\ answered' = answered \cup {f.env}
        /\ AnswersWith(f, EmptyReply, "refused")
        /\ UNCHANGED <<now, clientVars, listening, backlog, memoryVars>>

(* It raised, or what it returned is no LocalIpReceiverReply. *)
NoReply ==
    \E f \in calling :
        /\ calling' = {}
        /\ AnswersWith(f, EmptyReply, "refused")
        /\ UNCHANGED <<now, clientVars, listening, backlog, memoryVars, answered>>

request ==
    /\ \/ \E e \in Envelopes :
             \/ RequestExpired(e)
             \/ RequestUnreachable(e)
             \/ \E n \in Nonces : RequestBroken(e, n) \/ Send(e, n)
       \/ \E w \in waiting : ReceiveReply(w) \/ RequestLost(w) \/ RequestTimeOut(w)
    /\ UNCHANGED answered

ServeRequest ==
    \/ /\ ServeSilently \/ RefuseRequest \/ AnswerFromCache \/ ServeNew
       /\ UNCHANGED answered
    \/ \E r \in Replies : ReceiverReplies(r) \/ ReplyTooLarge(r)
    \/ NoReply

RequestServerChanges == (bind \/ close \/ Crash \/ Tick) /\ UNCHANGED answered

RequestNext == request \/ ServeRequest \/ RequestServerChanges

RequestSpec == RequestInit /\ [][RequestNext]_requestVars

(* As for the carrier: the server serves in a loop, callers read what arrives. *)
RequestFairness ==
    /\ WF_requestVars(ServeRequest)
    /\ \A n \in Nonces :
          WF_requestVars(/\ \E w \in waiting :
                               w.nonce = n /\ (ReceiveReply(w) \/ RequestLost(w))
                         /\ UNCHANGED answered)

RequestFairSpec == RequestSpec /\ RequestFairness
-----------------------------------------------------------------------------
AnyReply == Replies \cup {EmptyReply}

(* The state has its shape, the cache its capacity, and no reply over the *)
(* server's limit is in it.                                               *)
RequestTypeOK ==
    /\ now \in StartMs..StopMs
    /\ listening \in BOOLEAN
    /\ waiting \in SUBSET Waiter
    /\ backlog \in Seq(Frame)
    /\ Len(backlog) <= ListenBacklog
    /\ calling \in SUBSET Frame
    /\ \A f, g \in calling : f = g
    /\ \A a \in acks : /\ a.request_nonce \in Nonces
                       /\ a.message_id \in Ids
                       /\ a.reply \in AnyReply
                       /\ a.detail \in Details
    /\ cache \in Seq(Kept)
    /\ Len(cache) <= ReplayCapacity
    /\ \A i \in 1..Len(cache) : cache[i].reply.payload_bytes <= ServerReplyLimit
    /\ \A r \in reports : r.env \in Envelopes /\ r.reply \in AnyReply
    /\ decided \in SUBSET Kept
    /\ DOMAIN since \subseteq Ids
    /\ forgotten \in SUBSET Ids
    /\ answered \in SUBSET Envelopes

(* A reply a caller is given is one the receiver returned for this very        *)
(* envelope, whatever was retried, lost or answered from the cache in between, *)
(* and is within the caller's limit; the other reports carry no payload, and a *)
(* conflict is reported only against a reply to another envelope.              *)
RepliesAreTrue ==
    \A r \in reports :
        /\ r.detail \in {"accepted", "rejected"} =>
              /\ [env |-> r.env, reply |-> r.reply] \in decided
              /\ r.reply.payload_bytes <= AdapterReplyLimit
        /\ r.detail \notin {"accepted", "rejected"} =>
              ~r.accepted /\ r.reply.payload_bytes = 0
        /\ r.detail = "conflict" =>
              \E d \in decided :
                  d.env # r.env /\ d.env.message_id = r.env.message_id

(* A message id has one reply: another one, of a second run of the receiver,  *)
(* needs the first to have left the cache by eviction or with a restart.      *)
OneReplyPerMessage ==
    \A d1, d2 \in decided :
        d1.env.message_id = d2.env.message_id /\ d1 # d2
            => d1.env.message_id \in forgotten

(* No caller is stuck, whatever is ahead of its connection, and also when the *)
(* reply it waits for is refused by the server or by its own adapter.         *)
EveryRequestReturns == \A n \in Nonces : WaitsOn(n) ~> ~WaitsOn(n)

(* The documentation: a duplicate request with identical content is answered   *)
(* without calling the receiver again, once the receiver has returned a reply, *)
(* as long as the message id was not evicted or lost.                          *)
DuplicateNotCalledAgain ==
    \A f \in calling : f.env \in answered => f.env.message_id \in forgotten

(* The documentation: reply size must fit inside the configured signed frame *)
(* after base64 expansion, so a reply within max_reply_bytes can be sent.    *)
AllowedReplyIsSent ==
    \A d \in decided : AckBytes(d.reply) <= ServerFrameLimit

(* With the replies reduced to whether they accept, request and reply is the *)
(* delivery service.                                                         *)
Verdict(d) == [env |-> d.env, accepted |-> d.reply.accepted]

RequestService ==
    INSTANCE DeliveryService WITH
        decided <- {Verdict(d) : d \in decided},
        remembered <- {Verdict(d) : d \in Range(cache)},
        reports <- {[env |-> r.env, accepted |-> r.accepted,
                     acknowledged |-> r.acknowledged, detail |-> r.detail] :
                       r \in reports}

RequestsImplementService == RequestService!Spec
=============================================================================
