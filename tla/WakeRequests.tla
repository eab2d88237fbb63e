----------------------------- MODULE WakeRequests -----------------------------
(***************************************************************************)
(* wake.py: bounded requests to wake a sleeping body.  A node makes a      *)
(* request and wraps it into an envelope; carriers delay, repeat or lose   *)
(* it, and nodes that saw its payload may wrap that again; the power       *)
(* supervisor unwraps what reaches it and lets a ReplayGuard suppress the  *)
(* repetitions (docs/node_wake_requests.md; it is no part of this code).   *)
(***************************************************************************)
EXTENDS RecencyOrder

CONSTANTS
    Nodes,              \* the requesting peers
    Drafts,             \* the arguments new_wake_request is called with; the
                        \* request_id is the caller's, and may be used already
    OtherIds,           \* message ids that callers give to build_wake_envelope
    Lifetimes,          \* ttl_ms of envelopes that nodes wrap again
    Claims,             \* the fields that could claim authority
    GuardCapacity,      \* capacity of the supervisor's ReplayGuard
    ClockOffset,        \* [Nodes \cup {"supervisor"} -> Int]: clock - real time
    Moments,            \* the instants of real time at which things happen
    MaxRequests,        \* bound: how many envelopes nodes make of their requests
    MaxWakes            \* bound: how often the supervisor wakes the body

MAX_WAKE_REQUEST_TTL_MS == 5 * 60 * 1000
MAX_WAKE_EVIDENCE_REFS == 8
MAX_WAKE_EVIDENCE_REF_CHARS == 160
MAX_WAKE_SUMMARY_CHARS == 256
MAX_WAKE_PAYLOAD_BYTES == 4096

(* _evidence_refs: printable ASCII, of which the JSON escapes quote and    *)
(* backslash; each reference has its quotes and a comma.                   *)
ValidRefBytes(n) ==
    n \in 0..(MAX_WAKE_EVIDENCE_REFS * (2 * MAX_WAKE_EVIDENCE_REF_CHARS + 3))

(* _summary: a character beyond the basic plane is escaped as 12 bytes. *)
ValidSummaryBytes(n) == n \in 0..(12 * MAX_WAKE_SUMMARY_CHARS)

ASSUME WakeAssumption ==
    /\ \A d \in Drafts :
          /\ d.source_peer_id \in Nodes
          /\ d.ttl_ms \in Int
          /\ ValidRefBytes(d.ref_bytes)
          /\ ValidSummaryBytes(d.summary_bytes)
    /\ GuardCapacity \in Nat \ {0}
    /\ ClockOffset \in [Nodes \cup {"supervisor"} -> Int]
    /\ Moments \subseteq Int
    /\ {MaxRequests, MaxWakes} \subseteq Nat

VARIABLES
    now,        \* real time, in milliseconds
    carried,    \* the envelopes build_wake_envelope has made
    seen, verdict, since,   \* the supervisor's ReplayGuard
    woken,      \* history: [request, at_ms], in order
    result      \* how the last call failed: {} or {[outcome, env]}

vars == <<now, carried, seen, verdict, since, woken, result>>

Ids == {d.request_id : d \in Drafts} \cup OtherIds

Guard == INSTANCE ReplayGuard WITH Capacity <- GuardCapacity

Clock(p) == now + ClockOffset[p]

Init ==
    /\ now \in Moments
    /\ carried = {}
    /\ Guard!Init
    /\ woken = <<>>
    /\ result = {}
-----------------------------------------------------------------------------
(* The requesting node.                                                    *)

(* WakeRequest.__post_init__ *)
ValidRequest(r) ==
    /\ r.observed_at_ms >= 0
    /\ r.expires_at_ms - r.observed_at_ms \in 1..MAX_WAKE_REQUEST_TTL_MS
    /\ ValidRefBytes(r.ref_bytes)
    /\ ValidSummaryBytes(r.summary_bytes)

(* new_wake_request: what the node observes now, by its clock. *)
RequestOf(d) ==
    [request_id |-> d.request_id,
     source_peer_id |-> d.source_peer_id,
     severity |-> d.severity,
     observed_at_ms |-> Clock(d.source_peer_id),
     expires_at_ms |-> Clock(d.source_peer_id) + d.ttl_ms,
     ref_bytes |-> d.ref_bytes,
     summary_bytes |-> d.summary_bytes]

IsExpired(r, t) == t >= r.expires_at_ms

(* The canonical JSON: at most 752 bytes with the longest identifiers, and *)
(* the text.                                                               *)
PayloadBytes(r) == 752 + r.ref_bytes + r.summary_bytes

(* Mutant of WithinPayloadLimit: a payload for constrained radio. *)
WithinSmallPayload(r) == PayloadBytes(r) <= 2048

WithinPayloadLimit(r) == PayloadBytes(r) <= MAX_WAKE_PAYLOAD_BYTES

(* build_wake_envelope; hop_limit and ack_required are fixed. *)
EnvelopeOf(r, messageId) ==
    [message_id |-> messageId,
     source_peer_id |-> r.source_peer_id,
     created_at_ms |-> r.observed_at_ms,
     ttl_ms |-> r.expires_at_ms - r.observed_at_ms,
     priority |-> IF r.severity = "attention" THEN "important" ELSE "urgent",
     payload |-> [request |-> r, claims |-> {}]]

MakeRequest(d, messageId) ==
    /\ Cardinality(carried) < MaxRequests
    /\ ValidRequest(RequestOf(d))
    /\ WithinPayloadLimit(RequestOf(d))
    /\ carried' = carried \cup {EnvelopeOf(RequestOf(d), messageId)}
    /\ result' = {}
    /\ UNCHANGED <<now, seen, verdict, since, woken>>

(* to_payload raises, after the request was made. *)
RequestTooLarge(d) ==
    /\ ValidRequest(RequestOf(d))
    /\ ~WithinPayloadLimit(RequestOf(d))
    /\ result' = {[outcome |-> "too large", env |-> EnvelopeOf(RequestOf(d), d.request_id)]}
    /\ UNCHANGED <<now, carried, seen, verdict, since, woken>>
-----------------------------------------------------------------------------
(* The supervisor.                                                         *)

(* What a node may make of an envelope it saw.  The carrier authenticates the *)
(* node, so source_peer_id is its own; everything else is the node's choice.  *)
Rewrap(e, m, p, ttl, c) ==
    [e EXCEPT !.message_id = m, !.source_peer_id = p, !.ttl_ms = ttl,
              !.payload.claims = c]

WrappedAgain ==
    {Rewrap(e, m, p, ttl, c) :
        e \in carried, m \in Ids, p \in Nodes, ttl \in Lifetimes,
        c \in SUBSET Claims}

(* WakeRequest.from_payload *)
ValidPayload(payload) ==
    /\ WithinPayloadLimit(payload.request)
    /\ payload.claims = {}
    /\ ValidRequest(payload.request)

(* Mutants of Unwraps: no comparison of the ids; the lifetime of the envelope  *)
(* counts; a request at the size limit is refused.                             *)
UnwrapsUnderAnyId(env, t) ==
    /\ ValidPayload(env.payload)
    /\ env.payload.request.source_peer_id = env.source_peer_id
    /\ ~IsExpired(env.payload.request, t)
UnwrapsByEnvelope(env, t) ==
    /\ ValidPayload(env.payload)
    /\ env.payload.request.source_peer_id = env.source_peer_id
    /\ env.payload.request.request_id = env.message_id
    /\ t < env.created_at_ms + env.ttl_ms
UnwrapsBelowLimit(env, t) ==
    /\ ValidPayload(env.payload)
    /\ PayloadBytes(env.payload.request) < MAX_WAKE_PAYLOAD_BYTES
    /\ env.payload.request.source_peer_id = env.source_peer_id
    /\ env.payload.request.request_id = env.message_id
    /\ ~IsExpired(env.payload.request, t)

(* wake_request_from_envelope(env, now_ms=t) returns the request, not ValueError. *)
Unwraps(env, t) ==
    /\ ValidPayload(env.payload)
    /\ env.payload.request.source_peer_id = env.source_peer_id
    /\ env.payload.request.request_id = env.message_id
    /\ ~IsExpired(env.payload.request, t)

(* ValueError.  What another node made of the envelope can be refused as well, *)
(* which changes nothing.                                                      *)
Refuse(env) ==
    /\ ~Unwraps(env, Clock("supervisor"))
    /\ result' = {[outcome |-> "refused", env |-> env]}
    /\ UNCHANGED <<now, carried, seen, verdict, since, woken>>

Suppress(env) ==
    /\ Unwraps(env, Clock("supervisor"))
    /\ Guard!Suppress(env.message_id)
    /\ result' = {[outcome |-> "duplicate", env |-> env]}
    /\ UNCHANGED <<now, carried, woken>>

Wake(env) ==
    /\ Unwraps(env, Clock("supervisor"))
    /\ Len(woken) < MaxWakes
    /\ Guard!LetThrough(env.message_id)
    /\ woken' = Append(woken, [request |-> env.payload.request,
                               at_ms |-> now])
    /\ result' = {}
    /\ UNCHANGED <<now, carried>>

TimePasses ==
    /\ now' \in {t \in Moments : t > now}
    /\ UNCHANGED <<carried, seen, verdict, since, woken, result>>

Next ==
    \/ \E d \in Drafts :
          \/ \E m \in {d.request_id} \cup OtherIds : MakeRequest(d, m)
          \/ RequestTooLarge(d)
    \/ \E env \in carried : Refuse(env)
    \/ \E env \in carried \cup WrappedAgain : Suppress(env) \/ Wake(env)
    \/ TimePasses

Spec == Init /\ [][Next]_vars
-----------------------------------------------------------------------------
(* The state has its shape. *)
TypeOK ==
    /\ now \in Moments
    /\ \A e \in carried : ValidRequest(e.payload.request) /\ ValidPayload(e.payload)
    /\ Guard!TypeOK
    /\ Len(woken) <= MaxWakes

(* In real time, however long carriers held the envelope and whatever lifetime  *)
(* it was wrapped with: the body is woken before the request's expiry on the    *)
(* supervisor's clock, so at most five minutes, corrected by the two clocks,    *)
(* after the observation.                                                       *)
WokenInTime ==
    \A w \in Range(woken) :
        LET r == w.request
            observedAt == r.observed_at_ms - ClockOffset[r.source_peer_id]
            lead == ClockOffset[r.source_peer_id] - ClockOffset["supervisor"]
        IN  /\ w.at_ms + ClockOffset["supervisor"] < r.expires_at_ms
            /\ w.at_ms - observedAt \in 0..(MAX_WAKE_REQUEST_TTL_MS + lead - 1)

(* A request wakes the body again only after GuardCapacity other ids were let *)
(* through or suppressed: no wrapping gives it a second id the guard has not  *)
(* seen.                                                                      *)
WokenOncePerWindow ==
    [][woken' # woken =>
          LET w == woken'[Len(woken')] IN
              (\E v \in Range(woken) : v.request = w.request)
                  => ~UsedWithin(since, w.request.request_id, GuardCapacity)]_vars

(* A request is ignored for a reason: as a duplicate only if a request of its   *)
(* id woke the body, and as its node sent it only if it has expired on the      *)
(* supervisor's clock or its caller gave the envelope another id.  The id is    *)
(* all the guard sees: a second request that its caller gives a used id, or one *)
(* of another node, is suppressed although the body was not woken for it.       *)
IgnoredForAReason ==
    \A x \in result :
        LET r == x.env.payload.request IN
        /\ x.outcome = "duplicate" =>
              \E w \in Range(woken) : w.request.request_id = r.request_id
        /\ x.outcome = "refused" /\ x.env \in carried
              => IsExpired(r, Clock("supervisor")) \/ x.env.message_id # r.request_id

(* The limits fit together: a request is too large for its payload only if the *)
(* summary is more than plain ASCII text.                                      *)
PlainTextFits ==
    \A x \in result :
        x.outcome = "too large" =>
            x.env.payload.request.summary_bytes > 2 * MAX_WAKE_SUMMARY_CHARS
=============================================================================
