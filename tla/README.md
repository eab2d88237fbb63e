# Velvet Communications in TLA+

A model of `velvet-communications`: the authenticated local-IP carrier with its
request/reply form and the threads around its server, wake requests, the duplicate
suppressor, the store-and-forward queue and transport selection, as TLA+ modules checked
with TLC on small instances, with proofs checked by TLAPS for every instance. Paths
below are relative to `src/velvet_communications/`.

## The system

| Component | State | Operations | Hard behaviour | What makes it correct |
|---|---|---|---|---|
| Local-IP delivery, `local_ip.py` | adapter: none; server: listener, cache of the outcomes of the last `replay_capacity` message ids | `send`; `bind`, `serve_once`, `close` | concurrent callers; several serving threads without a lock, and one that closes; timeouts and retries; connections that break at any byte; crash of the server; two clocks; message ids used twice | reports tell the truth; one decision per id while it is remembered; only paired peers; late frames bounded; every `send` returns; every connection is taken although `accept` may end a loop; `close` ends all loops |
| Replay guard, `replay.py` | ordered set of ids | `accept` | which id a full memory gives up | exactly the recently used ids are suppressed |
| Store-and-forward queue, `queueing.py` | deque | `enqueue`, `prune`, `pop_next` | lifetimes out of order, clock set back, full queue | nothing alive is lost, order kept, never handed over expired |
| Transport selection, `routing.py` | none | `select` | carriers go up and down between calls | the plan is for a carrier that suits, and stays with it |
| Emergency fallback, `emergency.py` | none | `validate_public_beacon`, `select` | order of the two attempts | nothing unprotected unless allowed; a protected path always taken |
| Request/reply, `local_ip_rpc.py` | as local-IP delivery, with replies | `request`; `serve_once` | as above; a receiver that ran but whose reply is refused | a request is executed once, its duplicate gets its reply |
| Wake requests, `wake.py` | none | `build_wake_envelope`, `wake_request_from_envelope` | identities and lifetimes through two encodings, three clocks, payloads wrapped again by other nodes | the body is woken in time and once, and a request is ignored only for a reason |
| Contracts, `contracts.py` | none (frozen records) | `is_expired`, `payload_bytes` | | |
| Adapter protocol, exports, secret files | none | | | |

How they meet: a caller makes a `V2VEnvelope`, asks a selector for a plan over
the `TransportOffer`s of its adapters, hands the envelope to the adapter's `send`
or queues it; the local-IP adapter opens one TCP connection per `send`, writes
one signed frame and reads one signed ack; the server's `serve_once`, called in a
loop, accepts one connection, validates the frame, asks its cache or else its
`receiver` callback, and acks. No code of the repository joins queue, selector and
adapter; `ReplayGuard` is for carriers without the server's cache.

## Modules

| Module | Models |
|---|---|
| `LocalIpDelivery` | the carrier: all callers, the network, the server, its process, time |
| `DeliveryService` | what the carrier promises, as a specification of its own |
| `LocalIpRequest` | `local_ip_rpc.py`, on top of `LocalIpDelivery` |
| `ServingLoop` | the server again, several threads, one step per shared access |
| `WakeRequests` | `wake.py`, the nodes that use it, and the supervisor |
| `RecencyOrder` | the bounded `OrderedDict` used as least-recently-used memory, and the record of use it is judged by |
| `ReplayGuard` | `ReplayGuard.accept` |
| `StoreAndForwardQueue` | the queue |
| `TransportSelection` | both selectors over a changing set of carriers |
| `RecencyOrderProofs`, `ReplayGuardProofs`, `LocalIpDeliveryProofs`, `LocalIpRequestProofs`, `StoreAndForwardQueueProofs`, `TransportSelectionProofs`, `ServingLoopProofs`, `WakeRequestsProofs` | theorems |
| `MC...` | instances for TLC |

### LocalIpDelivery and the code

State: `waiting` is the set of callers blocked in `send`; `backlog` the kernel's
queue of connections with the frame each carries; `calling` the connection whose
receiver call is running; `acks` the acks written and not read; `cache` is
`_delivery_cache` oldest first, an entry being envelope and outcome; `listening`
is `_listener is not None`; `now` is real time, and each process reads it through
its `ClockOffset`. `reports` is the report returned last. `decided`, `since` and
`forgotten` are history and are read by properties only.

Caller actions follow the exits of `send`: expired on the own clock
(`SendExpired`), no connection (`SendUnreachable`), a connection but no whole
frame, by the frame limit or a failure (`SendBroken`), a frame sent (`Send`); then
an ack read and validated or not (`ReceiveAck`), the connection closed by the
other end (`ConnectionLost`), or the receive timeout (`TimeOut`), which may fire at any
time. The size check that raises `ValueError` first is in `Sendable`.

`serve_once` is one action where it does not call the receiver and two around the
call where it does, because only the callback takes time of its own: frames that
cannot be answered (`ServeSilently`: incomplete, over the server's frame limit, or
of a peer without a secret), frames refused with an ack (`ServeRefusal`), cache hits
and conflicts (`ServeRemembered`), the start of a call (`ServeNew`) and its two ends
(`ReceiverReturns`, `ReceiverRaises`). Callers time out, retry and leave, and
`close`, `Crash` and the clock happen, between the two. `close` leaves the cache and
the running call alone, as the code does; a crash loses everything.

Abstractions. A frame is signed with its sender's secret and validates under an
equal one (`ValidSignature`); the SHA-256 fingerprint is the envelope. A connection
is named by the nonce of its frame: nonces are fresh among the connections alive.
The frame's length is `FrameOverhead + 4 * ceil(payload / 3)`, the overhead being a
constant because ids and numbers have bounded length. An ack is at most 3.5 KiB,
below the smallest frame limit of 4096, so its own limit never fails. The
validation reads the clock twice, taken as one instant. The frame checks that only a
program other than the adapter can fail are left out. Message ids key the cache
alone, without the peer: two peers that use one id meet in a conflict, and the model
says so.

### LocalIpRequest

`local_ip_rpc.py` imports frames, validation and cache of `local_ip.py`, and the
module EXTENDS `LocalIpDelivery` in the same way: `Send`, `ServeSilently`, `ServeNew`,
`bind`, `close`, `Crash` and `Tick` are taken over, the steps that make or read an ack
are its own. A reply is its verdict, the length of its payload, and the length its
detail has in the ack once JSON has escaped it; `body` tells the receiver's replies
from the server's own empty one. The conditions in which the two modules differ are
the point of it: a reply above `max_reply_bytes` raises after the receiver has run
and before the cache is written (`ReplyTooLarge`), as does something that is no
`LocalIpReceiverReply` (`NoReply`); an ack above the frame limit is lost when it is
sent, after the reply was cached (`AnswersWith`); a reply above the adapter's own limit is
a failed request (`ValidReplyAck`). `answered` is history. With a reply reduced to its
verdict the module implements `DeliveryService` as the carrier does.

### ServingLoop

`LocalIpDelivery` has one serving thread, whose `serve_once` nobody interferes with. The
class does not say that only one may run, a server is closed by another thread than the
one that waits in `accept`, and there is no lock. `ServingLoop` therefore splits
`serve_once` at every access to what threads share: `_listener` is read twice, once for
the check and once for `accept`; the cache is looked up, refreshed, written, moved,
measured and popped in separate steps, each of which may meet what another worker left.
`thread[w]` is the step a worker is at with its local variables. A `KeyError` inside the
cache is answered as a refusal; an exception that leaves `serve_once` (`RuntimeError` of
the check, `AttributeError` of `None.accept`, an `OSError` of `accept`) ends the loop;
`StartLoop` begins it again. Only `socket.timeout` is caught around `accept`, so
`AcceptFails` may happen on a closed socket and on an open one, with the connection it
was about to take lost or still queued: a loop may end while the server stays bound.
`close` is two steps, the attribute and the socket. Clients send a frame in any number
of pieces, or stop. Frames are valid, since what the others do is in `LocalIpDelivery`
already. The server of `local_ip_rpc.py` has the same structure (lines 251-335). What
two workers can do to the memory is bounded, not excluded: an id may be decided twice
(`RepeatedOnlyIfOverlapping`), and as both may measure the cache before either pops it,
entries may go that should stay. `poppers`, a history, is the most workers that were
ever popping at once; `OverEvictionBounded` says that the memory lacks at most one entry
for each of them but the first, and nothing while one pops at a time.
`NoEarlyRedelivery` is claimed for one worker only.

### WakeRequests

Nodes make requests from drafts at their own clock and wrap them, under the request's id
or, since `build_wake_envelope` takes one, another. The id of a request is its draft's:
`new_wake_request` takes the caller's and does not look whether it was used, so two
nodes may use one id, and one node may use its own again at a later instant. An envelope
may be unwrapped never, once or again, at any later instant. The nodes it passed may
wrap its payload again under any id, any lifetime and with fields that claim authority
(`WrappedAgain`), but only as themselves: the carrier authenticates the source. The
supervisor is not in this repository; it is taken from `docs/node_wake_requests.md`: it
unwraps, suppresses repeated ids with a `ReplayGuard` (the module is instantiated), and
wakes the body. A request is its ids, its times, and the lengths of its texts as
canonical JSON, from which its payload size follows.

### The other modules

`StoreAndForwardQueue` gives every call its own clock reading from `Readings`, in any
order, since `now_ms` is the caller's wall clock. Accepted messages are numbered
(`accepted`, `place`), so that order and loss can be stated. `TransportSelection`
reads offers in the order of `Carriers`, an offer that goes up and down being one
carrier; a raised exception is an empty plan; the flag `public` of a message stands
for the checks of `validate_public_beacon` other than its size. In `RecencyOrder`,
`Touch` maintains, beside the code, the set of other ids used since each id was
used; `UsedWithin` says from it what a memory of n entries ought to hold, without
reference to any order.

## Runs

| Run | Checks | Instance |
|---|---|---|
| `replay_window` | `RemembersTheWindow`, `SuppressesTheWindow` | 5 ids, memory of 3; 651 states |
| `queue` | `NoLiveMessageLost`, `HandedOverInOrderAlive`, `FullOnlyOfLiveMessages` | capacity 2, 4 accepted messages, 3 lifetimes, 3 readings; 105 101 states |
| `selection` | `UnprotectedOnlyAsAllowed`, `BeaconKeepsProtectedPath`, `PlansMoveForAReason` | 6 carriers, 6 messages; 98 368 states |
| `delivery_reuse` | `ReportsAreTrue`, `OneDecisionPerMessage` | 2 callers, 3 envelopes on 2 ids and 2 peers, cache of 1; 1.5 million states up to symmetry |
| `delivery_window` | `NoEarlyRedelivery`, `ImplementsDeliveryService` | 1 connection at a time, 3 ids and a conflict, cache of 2; 2.1 million states |
| `delivery_clocks` | `PairedPeersOnly`, `LateDeliveryBounded`, `EverySendReturns` | 2 callers, backlog of 2, 3 instants, skew 1, 5 envelopes that each meet another hurdle; 523 796 states |
| `delivery_offer` | `OfferedPayloadIsCarried`, violated | default limits |
| `requests` | `RepliesAreTrue`, `OneReplyPerMessage`, `EveryRequestReturns`, `RequestsImplementService` | 2 callers, 2 contents of one id, one of which expires, 3 replies on both sides of the limits, cache of 1; 303 880 states |
| `request_duplicate` | `DuplicateNotCalledAgain`, violated | as `requests` |
| `request_long_detail` | `AllowedReplyIsSent`, violated | a payload and a detail, each of the greatest length allowed |
| `wake` | `WokenInTime`, `IgnoredForAReason`, `PlainTextFits`, `WokenOncePerWindow` | 2 nodes, 5 drafts at the limits of lifetime and size, two of them with one id, 3 envelopes made, 3 clocks, 4 instants, guard of 1; 506 103 states |
| `serving_loop` | `OverEvictionBounded`, `AnswersAreTrue`, `RepeatedOnlyIfOverlapping`, `EveryConnectionIsLeft`, `CloseEndsEveryLoop`, `EveryConnectionIsTaken` | 2 workers, 3 connections, 3 envelopes on 2 ids, cache of 1; 377 532 states |

Each `TypeOK` is checked with the first run of its module. `wake` and `serving_loop`
switch deadlock checking off, as their behaviours may end: instants and wakes run out
in the one, binds and connections in the other, once every loop has ended.

Bounds. `Nonces` bounds the connections alive at once, not how many there are in a
behaviour: a nonce whose connection is over is free again, so retries are unbounded. Two
are enough for one caller to meet another's frame, call, entry or ack. In
`delivery_clocks` and `requests`, the runs with liveness, a backlog of two lets one
connection wait behind another's broken frame, a caller that has gone, or a running
call. `StopMs` bounds time; where time plays no part in the question it stands still,
and expiry and skew are met at their boundaries in `delivery_clocks`, where a caller's
clock is one behind and the server's reaches the lifetime of two messages and passes the skew of
every frame sent at the first instant. No reply of `requests` makes an ack above the
frame limit, the subject of `request_long_detail`; with it as a fourth reply the
liveness check takes too long. To the caller it is a connection that ends without an
ack, as `close` and `Crash` also make. A cache of two and three ids are the smallest
where hits and evictions compete. `ListenBacklog` is 1 or 2 instead of 8, so that a full
backlog happens. `MaxAccepted` bounds the length of a queue's history at twice its
capacity. `MaxConnections` of three is the least with which a connection waits behind
two that occupy both workers; `Receives` of two lets a client be slow. A cache of one is
the least that two workers can pop empty. `MaxRequests` of three lets an id be used
three times, or twice with another between; `MaxWakes` of three lets a body be woken
again for an id its guard has lost. The symmetry of `delivery_reuse` and
`delivery_offer` permutes nonces only, which the module compares and never orders.

Fairness, in `FairSpec` of `LocalIpDelivery` and `RequestFairSpec`: weak fairness of
`serve_once`, which the documentation's and the tests' servers call in a loop, and whose
receiver is assumed to return or raise; weak fairness of a caller's reading of its ack
or of the end of its connection. There is none of `TimeOut`, `Send`, `bind`, `close` or
`Crash`: the run shows that nobody needs the timeout to return. Fairness of `serve_once`
says that the loop goes on: one that an error of `accept` ended is started again, as
`ServingLoop` has it. A caller whose connection waits while the server is closed or dead
is returned by the reset of its connection.

Fairness, in `FairSpec` of `ServingLoop`: weak fairness of each worker's `serve_once`,
since `accept` and each `recv` have a timeout, the receiver is assumed to return or
raise, and all else is computation; and of the second half of a `close` that has begun.
There is none of clients, of `close` itself, or of starting a loop. Loops that are
started again and whose `accept` fails each time can leave a connection waiting for ever,
so `EveryConnectionIsTaken` is about behaviours in which `accept` fails finitely often, or
every loop has ended. It is enough for
`EveryConnectionIsLeft`, as every `recv` that gets something makes the frame
shorter, and not for a bound in time: a client that sends one byte per timeout
holds its worker for the frame's length times the timeout.

`delivery_offer`: `offer()` advertises `max_payload_bytes` (`local_ip.py:96`), and
`docs/V2V_COMMUNICATION_ARCHITECTURE.md:59` reads it as the "maximum accepted payload
size". With the defaults, 192 KiB of payload are exactly 256 KiB of base64, which
with any JSON around them exceed the frame limit (`local_ip.py:515`): the carrier
never accepts the size it advertises.

`request_duplicate`: `docs/local_ip_request_reply.md:27` says that a "duplicate
request with identical content returns the cached original reply without calling the
receiver again". A receiver that ran and returned too large a reply
(`local_ip_rpc.py:289`) leaves no entry, and the duplicate runs it again.

`request_long_detail`: line 23 of the same file says that the "reply size must fit
inside the configured signed frame after base64 expansion". The constructor's check
(`local_ip_rpc.py:393`) reserves 2048 bytes for all but the payload, and a detail of 256
characters outside the basic plane alone takes 3072: a reply the server admits and
caches makes an ack it cannot send, at every retry.

What "true" means in `ReportsAreTrue`: acceptance, rejection and conflict are
statements about the receiver and are checked against its decisions. A report
"refused" (a failed validation or a receiver that raised) or "failed" makes none: a
retry that expired on the server's clock is refused although the first attempt may
have been accepted.

## Proofs

For every set of peers, ids and envelopes, any limits, clocks and capacities:

- `ReplayGuardProofs`: `TypeCorrect`, `WindowRemembered`, `WindowSuppressed`.
- `LocalIpDeliveryProofs`: `TypeCorrect`, `ReportsTrue`, `OneDecision`, `PairedOnly`,
  `NoEarlyCall`, `CallsInTime`, and `ServiceImplemented`: the carrier implements
  `DeliveryService`.
- `LocalIpRequestProofs`: `RequestTypeCorrect`, `TrueReplies`, `OneReply`,
  `NoEarlyRerun` and `RequestCallsInTime` (the carrier's `NoEarlyRedelivery` and
  `LateDeliveryBounded`), and `RequestServiceImplemented`: so does request/reply.
- `StoreAndForwardQueueProofs`: `TypeCorrect`, `LiveMessagesKept`, `HandedOverRight`,
  `FullOfLiveMessages`.
- `TransportSelectionProofs`: `AnswersRight` (what the two selectors return),
  `TypeCorrect`, `UnprotectedAsAllowed`, `BeaconKeepsPath`, `PlansMoveRight`.
- `ServingLoopProofs`: `TypeCorrect`, `EvictionsBounded`, `AnswersTrue`,
  `RepeatsExplained`, for any number of workers.
- `WakeRequestsProofs`: `TypeCorrect`, `InTime`, `Explained`, `PlainFits`,
  `OncePerWindow`, for any number of nodes, drafts and clocks.

Each is `Spec` (`RequestSpec` for request/reply) implying the property of the same
subject; `AnswersRight`, `QueueInvariant`, `Inductive` and `RequestInductive` have an
inductive invariant for their subject. No theorem uses fairness.

The assumptions are the named ASSUMEs of the modules: the ranges the constructors
check.

What is said of the guard, of both caches and of repeated wakes rests on `Tracks`
(`RecencyOrder`): the keys of the memory are
distinct, the keys used since a remembered key are exactly those after it, and a
forgotten key was followed by at least n others. A window property is not inductive
without it, since it does not say which entry is evicted next. `RecencyOrderProofs`
shows what `MoveToEnd` and an insertion do to a sequence position by position, and
from this that a hit and a miss keep `Tracks` (`TracksHit`, `TracksMiss`; the counting
is `FollowersCount`), and that `Tracks` makes the memory the window (`TracksWindow`).

The carrier's inductive invariant `IInv` adds: a nonce belongs to one caller and one
envelope (`NoncesAgree`), else an ack could be read by another caller; a running
call is of an admitted frame and its id is in no cache entry (`CallsAreNew`), since
`ReceiverReturns` inserts without looking again; acks in transit already tell the
truth (`AcksAreTrue`), since decisions only grow; the cache holds decisions, and
every decision not in it is forgotten (`CacheIsTrue`, with `CacheTracks`). The step
proofs have one step per action; the action properties then follow from `IInv` and
the guards of `ServeNew`, the only action that starts a call. What a hit, an
insertion and a restart do to the cache is proved for any entries that are about
envelopes (`HitMoves`, `NewTracks`, `NewIsTrue` and the lemmas next to them), so that the
two servers, whose outcomes differ, share it.

Request/reply has the same invariant with replies for outcomes (`RequestIInv`). An
ack in transit and a report are held to one standard, `AnswerTrue`: accepted
or rejected needs a decision with this very reply to this very envelope, a conflict needs
one about another envelope of the id, and any other answer carries no reply. A report
also keeps to the caller's own limit, as `ValidReplyAck` lets no other ack through; the
server's limit is part of what may enter the cache at all (`Keepable`).

The refinements (`ServiceImplemented`, `RequestServiceImplemented`) follow the steps.
The service's memory is the set of the cache's entries: a hit reorders the sequence and
leaves the set alone (`MoveToEndRange`), an insertion adds its entry and gives up one
exactly if the memory was full (`InsertRange`). A step that makes a report is a
report of the service, since `AcksAreTrue` makes the ack one the service may give; the
other steps of network, callers and clock are stutters. For request/reply the mapping
reduces every entry to its verdict, which forgets no entry and joins no two, as the ids
of the entries are distinct; `MappedInsert` says that verdicts of an insertion are an
insertion of the verdict.

The wake invariant says that an envelope made by a node names that node and its
observation is past (`MadeByItsNode`), and that the guard remembers only ids that woke
the body (`SeenWereWoken`) in the order of their use (`SeenTracks`). The first gives
`WokenInTime`, the second `IgnoredForAReason`, which can say no more than that some
request of the id woke the body, since ids may be shared; the last gives
`WokenOncePerWindow` by `TracksWindow`, as a wake is an id the guard did not hold.

The queue's invariant (`QueueInvariant`) says where every accepted message is: still
queued, handed over, or seen expired by some call; the places handed over come
before those queued, both in order. It needs to know what a prune leaves, which is
computed item by item: that it is the live items in their order is proved by least
counterexample (`PruneKeepsTheLive`), since the library's induction cannot be cited.

The selection's invariant (`AnswersRight`) says that the carrier of every answer is the
first, by preference, name and place, of those the call may choose from. There is
one first element in a non-empty set, so that two answers to one message differ only
if a carrier went or came (`FirstMovesForAReason`).

The serving loops need five invariants beside the types. `LoopInv`: `_listener` is the
open socket or `None`, and a closed socket has no connections. `TruthInv`: what a worker carries from the cache
or the receiver to its answer is a decision. `RepeatInv`: for an id that neither
overlapped nor was evicted there is one asker at most, it has not decided while it
calls, and a decision is in the cache or on the way there. `CapacityInv`, for the
length of the cache: an entry beyond the capacity is owed to a worker that is trimming,
or to the one that has just stored it and still finds it; the movers are
counted by their ids, for two of them may share an entry, and a worker whose entry was
evicted by another leaves without trimming. `EvictionInv`, for the other side: a worker
starts to pop only when the cache is above its capacity, and `poppers` counts it among
those that pop then; a pop costs one entry and ends one popping, so that entries less
workers popping stay above the capacity less `poppers`.

Only model-checked: liveness (`EverySendReturns`, `EveryRequestReturns`,
`EveryConnectionIsLeft`, `CloseEndsEveryLoop`, `EveryConnectionIsTaken`), which is
outside the prover's reach. Every invariant and action property the passing runs
check is a theorem.

## Not modelled

`load_secret_file` (file-system checks without state), the rejection of malformed
frames, `__init__` type checks beyond the ranges above, `adapters.py` (an interface) and
`__init__.py`. Queue, selector and adapter are not composed, since no code of the
repository does it: what a stale offer costs, or a message popped and then not sent,
depends on a caller that does not exist yet. Time
spent receiving a frame byte by byte is not measured. A crash of the process between
two steps of one worker is in `LocalIpDelivery` only.

## Plan

1. The promises of `DeliveryService` (one decision per remembered id, a memory within
   its capacity) proved of the service itself, and carried over to both carriers by
   the refinements.
2. `ServingLoop` with one worker against `LocalIpDelivery`: the early eviction and the
   second decision need two.
