--------------------------- MODULE LocalIpDelivery ---------------------------
(***************************************************************************)
(* local_ip.py: the authenticated local-IP carrier.  Any number of callers *)
(* are inside AuthenticatedLocalIpAdapter.send at once (one TCP connection *)
(* each); one AuthenticatedLocalIpServer answers the connections one at a  *)
(* time, in the order they arrived, and remembers the outcome of the       *)
(* ReplayCapacity message ids used most recently.                          *)
(*                                                                         *)
(* A connection is identified by the fresh nonce of its delivery frame.    *)
(* HMAC is modelled by who holds which secret: a frame or an ack signed    *)
(* with a secret validates exactly under that secret.  The SHA-256 content *)
(* fingerprint is the envelope itself.                                     *)
(***************************************************************************)
EXTENDS RecencyOrder

CONSTANTS
    Peers,               \* ids of the sending peers
    ServerId,            \* the server's local_peer_id
    Envelopes,           \* the V2VEnvelopes callers may send
    Nonces,              \* enough nonces for the connections alive at once
    AdapterSecret,       \* [Peers -> secret]: what each adapter signs with
    PeerSecrets,         \* the server's peer_secrets, a function on a set of peers
    ClockOffset,         \* [Peers \cup {ServerId} -> Int]: local clock - real time
    AdapterFrameLimit,   \* max_frame_bytes and max_payload_bytes of the
    AdapterPayloadLimit, \*   adapters ...
    ServerFrameLimit,    \*   ... and of the server
    ServerPayloadLimit,
    FrameOverhead,       \* bytes of a delivery frame around the base64 payload
    MaxClockSkew,        \* max_clock_skew_ms
    ReplayCapacity,      \* replay_capacity
    ListenBacklog,       \* connections the listening socket queues
    StartMs, StopMs      \* real time runs over StartMs..StopMs (StopMs: a bound)

(* V2VEnvelope.__post_init__; content stands for the payload, its type, the *)
(* priority, ack_required, hop_limit and schema.                            *)
ValidEnvelope(e) ==
    /\ e.source_peer_id \in Peers
    /\ e.payload_bytes \in Nat \ {0}
    /\ e.created_at_ms \in Nat
    /\ e.ttl_ms \in Nat \ {0}

(* _frame_limit and _payload_limit *)
ValidLimits(frameLimit, payloadLimit) ==
    /\ frameLimit \in Nat
    /\ frameLimit >= 4096
    /\ payloadLimit \in 1..(frameLimit - 1)

ASSUME EnvelopeAssumption == \A e \in Envelopes : ValidEnvelope(e)

ASSUME LimitAssumption ==
    /\ ValidLimits(AdapterFrameLimit, AdapterPayloadLimit)
    /\ ValidLimits(ServerFrameLimit, ServerPayloadLimit)
    /\ FrameOverhead \in Nat

(* The checks of AuthenticatedLocalIpServer.__init__. *)
ASSUME ServerAssumption ==
    /\ MaxClockSkew \in Nat \ {0}
    /\ ReplayCapacity \in Nat \ {0}
    /\ ListenBacklog \in Nat \ {0}
    /\ DOMAIN PeerSecrets \subseteq Peers

ASSUME ClockAssumption ==
    /\ ClockOffset \in [Peers \cup {ServerId} -> Int]
    /\ StartMs \in Nat
    /\ StopMs \in Nat
    /\ StartMs <= StopMs

VARIABLES
    now,        \* real time, in milliseconds
    listening,  \* self._listener is not None
    waiting,    \* callers blocked in send: {[nonce, env]}
    backlog,    \* connections not yet accepted, oldest first
    calling,    \* the connection whose receiver call is running: {} or {frame}
    acks,       \* acks on their way to the caller of their connection
    cache,      \* self._delivery_cache, oldest first
    reports,    \* the DeliveryReport returned last: {} or {report}
    decided,    \* history: the answers the receiver gave, [env, accepted]
    since,      \* history: the ids used since each id was, from the last start on
    forgotten   \* history: answered ids that fell out of the cache

vars == <<now, listening, waiting, backlog, calling, acks, cache, reports,
          decided, since, forgotten>>

clientVars == <<waiting, reports>>
serverVars == <<listening, calling, cache, decided, since, forgotten>>
memoryVars == <<cache, decided, since, forgotten>>
-----------------------------------------------------------------------------
Ids == {e.message_id : e \in Envelopes}

(* What crosses a connection.  A frame that is not intact never arrives as a *)
(* whole: its sender failed first.                                           *)
Frame == [nonce : Nonces, env : Envelopes, sent_at_ms : Int, intact : BOOLEAN]
Waiter == [nonce : Nonces, env : Envelopes]
Details == {"accepted", "rejected", "conflict", "refused"}
Decision == [env : Envelopes, accepted : BOOLEAN]

(* The bytes of the canonical JSON frame: base64 turns 3 payload bytes into 4. *)
FrameBytes(e) == FrameOverhead + 4 * ((e.payload_bytes + 2) \div 3)

Clock(p) == now + ClockOffset[p]

IsExpired(e, t) == t >= e.created_at_ms + e.ttl_ms

NoncesInUse ==
    {w.nonce : w \in waiting} \cup {f.nonce : f \in Range(backlog) \cup calling}
        \cup {a.request_nonce : a \in acks}

Init ==
    /\ now = StartMs
    /\ listening = FALSE
    /\ waiting = {}
    /\ backlog = <<>>
    /\ calling = {}
    /\ acks = {}
    /\ cache = <<>>
    /\ reports = {}
    /\ decided = {}
    /\ since = <<>>
    /\ forgotten = {}
(* _validate_signed_frame: signed with one secret, validated with another. *)
ValidSignature(signedWith, secret) == signedWith = secret
-----------------------------------------------------------------------------
(* The adapter.                                                            *)

Failed(e) ==
    {[env |-> e, accepted |-> FALSE, acknowledged |-> FALSE, detail |-> "failed"]}

(* send raises ValueError above the payload limit, before anything happens. *)
Sendable(e) ==
    /\ e.payload_bytes <= AdapterPayloadLimit
    /\ ~IsExpired(e, Clock(e.source_peer_id))

Fits(e) == FrameBytes(e) <= AdapterFrameLimit

CanConnect == listening /\ Len(backlog) < ListenBacklog

SendExpired(e) ==
    /\ e.payload_bytes <= AdapterPayloadLimit
    /\ IsExpired(e, Clock(e.source_peer_id))
    /\ reports' = {[env |-> e, accepted |-> FALSE, acknowledged |-> FALSE,
                    detail |-> "expired"]}
    /\ UNCHANGED <<now, waiting, backlog, acks, serverVars>>

(* Connection refused, host unreachable or backlog full: the network may fail *)
(* a connect at any time.                                                     *)
SendUnreachable(e) ==
    /\ Sendable(e)
    /\ reports' = Failed(e)
    /\ UNCHANGED <<now, waiting, backlog, acks, serverVars>>

Arrives(e, n, intact) ==
    backlog' = Append(backlog,
                   [nonce |-> n, env |-> e, intact |-> intact,
                    sent_at_ms |-> Clock(e.source_peer_id)])

(* _send_frame refuses the frame, or the connection breaks or times out while *)
(* it is being sent: the server gets a connection without a whole frame.      *)
SendBroken(e, n) ==
    /\ Sendable(e)
    /\ CanConnect
    /\ n \notin NoncesInUse
    /\ Arrives(e, n, FALSE)
    /\ reports' =
          IF Fits(e)
          THEN Failed(e)
          ELSE {[env |-> e, accepted |-> FALSE, acknowledged |-> FALSE,
                 detail |-> "frame limit"]}
    /\ UNCHANGED <<now, waiting, acks, serverVars>>

Send(e, n) ==
    /\ Sendable(e)
    /\ Fits(e)
    /\ CanConnect
    /\ n \notin NoncesInUse
    /\ Arrives(e, n, TRUE)
    /\ waiting' = waiting \cup {[nonce |-> n, env |-> e]}
    /\ UNCHANGED <<now, acks, reports, serverVars>>

(* The caller's connection ends: no ack can reach it any more. *)
Returns(w, report) ==
    /\ waiting' = waiting \ {w}
    /\ acks' = {a \in acks : a.request_nonce # w.nonce}
    /\ reports' = report
    /\ UNCHANGED <<now, backlog, serverVars>>

(* _validate_ack: the ack is signed with the adapter's secret and names the *)
(* message and the nonce of the request.                                    *)
ValidAck(a, w) ==
    /\ ValidSignature(a.secret, AdapterSecret[w.env.source_peer_id])
    /\ a.message_id = w.env.message_id
    /\ a.request_nonce = w.nonce

ReceiveAck(w) ==
    \E a \in acks :
        /\ a.request_nonce = w.nonce
        /\ Returns(w, IF ValidAck(a, w)
                      THEN {[env |-> w.env, accepted |-> a.accepted,
                             acknowledged |-> TRUE, detail |-> a.detail]}
                      ELSE Failed(w.env))

(* The server's end closed, or was reset, without an ack. *)
ConnectionLost(w) ==
    /\ \A f \in Range(backlog) \cup calling : f.nonce # w.nonce
    /\ \A a \in acks : a.request_nonce # w.nonce
    /\ Returns(w, Failed(w.env))

(* The receive timeout: whatever the server does with the frame comes too late. *)
TimeOut(w) == Returns(w, Failed(w.env))
-----------------------------------------------------------------------------
(* The server: serve_once.  It handles one connection from accept to ack   *)
(* before it accepts the next; only the receiver call in the middle takes  *)
(* time, so serve_once is one action, or two around that call.             *)

Accepting == listening /\ backlog # <<>> /\ calling = {}

SecretFor(f) == PeerSecrets[f.env.source_peer_id]

(* No frame, or none whose sender has a secret here: nothing can be signed. *)
Unanswerable(f) ==
    \/ ~f.intact
    \/ FrameBytes(f.env) > ServerFrameLimit
    \/ f.env.source_peer_id \notin DOMAIN PeerSecrets

(* Mutants of WithinSkew and StillAlive: frames from a clock behind are never *)
(* too old; the lifetime is checked on the clock of the sender.               *)
NotTooFarAhead(f) == f.sent_at_ms - Clock(ServerId) <= MaxClockSkew
AliveWhenSent(f) == ~IsExpired(f.env, f.sent_at_ms)

(* abs(_now_ms() - sent_at_ms) <= max_clock_skew_ms *)
WithinSkew(f) ==
    /\ Clock(ServerId) - f.sent_at_ms <= MaxClockSkew
    /\ f.sent_at_ms - Clock(ServerId) <= MaxClockSkew

StillAlive(f) == ~IsExpired(f.env, Clock(ServerId))

(* Mutant of Admits: the signature is not compared. *)
AdmitsUnsigned(f) ==
    /\ f.sent_at_ms >= 0
    /\ WithinSkew(f)
    /\ f.env.destination_peer_id = ServerId
    /\ f.env.payload_bytes <= ServerPayloadLimit
    /\ StillAlive(f)

(* _validate_delivery; conforming adapters satisfy its other checks. *)
Admits(f) ==
    /\ ValidSignature(AdapterSecret[f.env.source_peer_id], SecretFor(f))
    /\ f.sent_at_ms >= 0
    /\ WithinSkew(f)
    /\ f.env.destination_peer_id = ServerId
    /\ f.env.payload_bytes <= ServerPayloadLimit
    /\ StillAlive(f)

(* Mutant of PositionsOf: the cache is looked up by peer and id. *)
PositionsOfSender(e) ==
    {i \in 1..Len(cache) : /\ cache[i].env.message_id = e.message_id
                           /\ cache[i].env.source_peer_id = e.source_peer_id}

(* Where e's message id is in the cache: the id alone is the key. *)
PositionsOf(e) ==
    {i \in 1..Len(cache) : cache[i].env.message_id = e.message_id}

(* The ack reaches the caller if it still waits; sending it to a caller that *)
(* has gone fails without effect.                                            *)
Answers(f, accepted, detail) ==
    acks' = IF \E w \in waiting : w.nonce = f.nonce
            THEN acks \cup {[request_nonce |-> f.nonce,
                             message_id |-> f.env.message_id,
                             accepted |-> accepted,
                             detail |-> detail,
                             secret |-> SecretFor(f)]}
            ELSE acks

Accept(f) ==
    /\ Accepting
    /\ f = Head(backlog)
    /\ backlog' = Tail(backlog)

(* Mutant of ServeSilently: the connection stays at the head of the backlog. *)
ServeSilentlyAgain ==
    /\ Accepting
    /\ Unanswerable(Head(backlog))
    /\ UNCHANGED <<now, clientVars, listening, backlog, calling, acks, memoryVars>>

ServeSilently ==
    \E f \in Range(backlog) :
        /\ Accept(f)
        /\ Unanswerable(f)
        /\ UNCHANGED <<now, clientVars, listening, calling, acks, memoryVars>>

ServeRefusal ==
    \E f \in Range(backlog) :
        /\ Accept(f)
        /\ ~Unanswerable(f)
        /\ ~Admits(f)
        /\ Answers(f, FALSE, "refused")
        /\ UNCHANGED <<now, clientVars, listening, calling, memoryVars>>

Outcome(accepted) == IF accepted THEN "accepted" ELSE "rejected"

(* Mutant of Refreshed: a cache hit leaves the order alone. *)
NotRefreshed(s, i) == s

(* move_to_end on a hit, and on a conflicting reuse as well. *)
Refreshed(s, i) == MoveToEnd(s, i)

(* Mutant of SameContent: the fingerprint is not compared. *)
AnyContent(entry, f) == TRUE

SameContent(entry, f) == entry.env = f.env

ServeRemembered ==
    \E f \in Range(backlog) : \E i \in PositionsOf(f.env) :
        /\ Accept(f)
        /\ ~Unanswerable(f)
        /\ Admits(f)
        /\ cache' = Refreshed(cache, i)
        /\ since' = Touch(since, f.env.message_id)
        /\ IF SameContent(cache[i], f)
           THEN Answers(f, cache[i].accepted, Outcome(cache[i].accepted))
           ELSE Answers(f, FALSE, "conflict")
        /\ UNCHANGED <<now, clientVars, listening, calling, decided, forgotten>>

(* A message id the cache does not hold: the receiver is called. *)
ServeNew ==
    \E f \in Range(backlog) :
        /\ Accept(f)
        /\ ~Unanswerable(f)
        /\ Admits(f)
        /\ PositionsOf(f.env) = {}
        /\ calling' = {f}
        /\ UNCHANGED <<now, clientVars, listening, acks, memoryVars>>

(* Mutant of Remembered: rejections are not kept. *)
RememberedIfAccepted(d) ==
    IF d.accepted THEN KeepNewest(Append(cache, d), ReplayCapacity) ELSE cache

Remembered(d) == KeepNewest(Append(cache, d), ReplayCapacity)

IdsIn(s) == {d.env.message_id : d \in Range(s)}

ReceiverReturns(accepted) ==
    \E f \in calling :
        LET d == [env |-> f.env, accepted |-> accepted] IN
        /\ calling' = {}
        /\ decided' = decided \cup {d}
        /\ cache' = Remembered(d)
        /\ since' = Touch(since, f.env.message_id)
        /\ forgotten' = forgotten \cup
              ((IdsIn(cache) \cup {f.env.message_id}) \ IdsIn(cache'))
        /\ Answers(f, accepted, Outcome(accepted))
        /\ UNCHANGED <<now, clientVars, listening, backlog>>

(* Nothing is remembered of a receiver that raised: a retry calls it again. *)
ReceiverRaises ==
    \E f \in calling :
        /\ calling' = {}
        /\ Answers(f, FALSE, "refused")
        /\ UNCHANGED <<now, clientVars, listening, backlog, memoryVars>>

bind ==
    /\ ~listening
    /\ listening' = TRUE
    /\ UNCHANGED <<now, clientVars, backlog, calling, acks, memoryVars>>

(* Connections not yet accepted are reset; the one being served, and the *)
(* cache, stay: the same server object may be bound again.               *)
close ==
    /\ listening
    /\ listening' = FALSE
    /\ backlog' = <<>>
    /\ UNCHANGED <<now, clientVars, calling, acks, memoryVars>>

(* The server process dies, and with it everything it remembered. *)
Crash ==
    /\ listening' = FALSE
    /\ backlog' = <<>>
    /\ calling' = {}
    /\ cache' = <<>>
    /\ since' = <<>>
    /\ forgotten' = forgotten \cup IdsIn(cache)
    /\ UNCHANGED <<now, clientVars, acks, decided>>

Tick ==
    /\ now < StopMs
    /\ now' = now + 1
    /\ UNCHANGED <<clientVars, backlog, acks, serverVars>>

Caller ==
    \/ \E e \in Envelopes :
          \/ SendExpired(e)
          \/ SendUnreachable(e)
          \/ \E n \in Nonces : SendBroken(e, n) \/ Send(e, n)
    \/ \E w \in waiting : ReceiveAck(w) \/ ConnectionLost(w) \/ TimeOut(w)

serve_once ==
    \/ ServeSilently
    \/ ServeRefusal
    \/ ServeRemembered
    \/ ServeNew
    \/ \E accepted \in BOOLEAN : ReceiverReturns(accepted)
    \/ ReceiverRaises

Next == Caller \/ serve_once \/ bind \/ close \/ Crash \/ Tick

Spec == Init /\ [][Next]_vars
-----------------------------------------------------------------------------
(* Fairness: serve_once runs in a loop and the receiver it calls returns or *)
(* raises; a caller reads its ack, or sees its connection end.  The receive *)
(* timeout is not relied upon.                                              *)
WaitsOn(n) == \E w \in waiting : w.nonce = n

Fairness ==
    /\ WF_vars(serve_once)
    /\ \A n \in Nonces :
          WF_vars(\E w \in waiting :
                     w.nonce = n /\ (ReceiveAck(w) \/ ConnectionLost(w)))

FairSpec == Spec /\ Fairness
-----------------------------------------------------------------------------
AckType == [request_nonce : Nonces, message_id : Ids, accepted : BOOLEAN,
            detail : Details, secret : Range(PeerSecrets)]

ReportType == [env : Envelopes, accepted : BOOLEAN, acknowledged : BOOLEAN,
               detail : Details \cup {"failed", "expired", "frame limit"}]

(* The state has its shape: one connection is served at a time, and the cache *)
(* and the backlog stay within their capacities.                              *)
TypeOK ==
    /\ now \in StartMs..StopMs
    /\ listening \in BOOLEAN
    /\ waiting \in SUBSET Waiter
    /\ backlog \in Seq(Frame)
    /\ Len(backlog) <= ListenBacklog
    /\ calling \in SUBSET Frame
    /\ \A f, g \in calling : f = g
    /\ acks \in SUBSET AckType
    /\ cache \in Seq(Decision)
    /\ Len(cache) <= ReplayCapacity
    /\ reports \in SUBSET ReportType
    /\ decided \in SUBSET Decision
    /\ DOMAIN since \subseteq Ids
    /\ \A m \in DOMAIN since : since[m] \subseteq Ids
    /\ forgotten \in SUBSET Ids

Justified(r) ==
    /\ r.accepted => r.acknowledged /\ r.detail = "accepted"
    /\ r.detail = "accepted" => [env |-> r.env, accepted |-> TRUE] \in decided
    /\ r.detail = "rejected" => [env |-> r.env, accepted |-> FALSE] \in decided
    /\ r.detail = "conflict" =>
          \E d \in decided :
              /\ d.env # r.env
              /\ d.env.message_id = r.env.message_id

(* Whatever was retried, timed out, queued behind a lost caller or answered   *)
(* from the cache: a report that speaks of the receiver tells what the        *)
(* receiver decided about this very envelope, and a conflict is reported only *)
(* when another envelope was decided under the same message id.               *)
ReportsAreTrue == \A r \in reports : Justified(r)

(* The receiver decides a message id once, whichever peers use it and however  *)
(* often it is retried: two decisions need the first to have left the cache by *)
(* eviction or with a restart.                                                 *)
OneDecisionPerMessage ==
    \A d1, d2 \in decided :
        d1.env.message_id = d2.env.message_id /\ d1 # d2
            => d1.env.message_id \in forgotten

(* An id whose outcome was remembered is handed to the receiver again only     *)
(* when ReplayCapacity other ids were used after it, cache hits and conflicts  *)
(* counting as uses, or after a restart.  A receiver that raised has left no   *)
(* outcome to remember, and a retry calls it again at once.                    *)
NoEarlyRedelivery ==
    [][\A f \in calling' \ calling :
          ~UsedWithin(since, f.env.message_id, ReplayCapacity)]_vars

Paired(p) == p \in DOMAIN PeerSecrets /\ PeerSecrets[p] = AdapterSecret[p]

(* Only peers that share their secret with the server get an authenticated   *)
(* answer, and only their messages, addressed to this server, are decided.   *)
PairedPeersOnly ==
    /\ \A d \in decided : /\ Paired(d.env.source_peer_id)
                          /\ d.env.destination_peer_id = ServerId
    /\ \A r \in reports : r.acknowledged => Paired(r.env.source_peer_id)

(* In real time: however long a frame waited behind others, and whether or not *)
(* its caller still waits, the receiver is called no later than the allowed    *)
(* skew, corrected by the two clocks' offsets, after the frame was sent, and   *)
(* before the message's lifetime ends on the server's clock.                   *)
LateDeliveryBounded ==
    [][\A f \in calling' \ calling :
          LET source == f.env.source_peer_id
              sentAt == f.sent_at_ms - ClockOffset[source]
              lead == ClockOffset[source] - ClockOffset[ServerId]
          IN  /\ now - sentAt \in (lead - MaxClockSkew)..(lead + MaxClockSkew)
              /\ now + ClockOffset[ServerId] < f.env.created_at_ms + f.env.ttl_ms]_vars

(* No caller is stuck: whatever is ahead of its connection in the backlog, a   *)
(* broken frame, a caller that has gone, or one whose receiver call is         *)
(* running, and also when the server is silent, closes or dies, its send ends  *)
(* without the help of the timeout.                                            *)
EverySendReturns == \A n \in Nonces : WaitsOn(n) ~> ~WaitsOn(n)

(* The documentation's reading of the offer: a payload within the advertised *)
(* max_payload_bytes is accepted by the carrier, so size is no reason for a  *)
(* send to fail.                                                             *)
OfferedPayloadIsCarried ==
    \A r \in reports :
        r.detail = "frame limit" => r.env.payload_bytes > AdapterPayloadLimit

(* The carrier implements the delivery service; what the service remembers is *)
(* what the cache holds.                                                      *)
Service == INSTANCE DeliveryService WITH remembered <- Range(cache)

ImplementsDeliveryService == Service!Spec
=============================================================================
