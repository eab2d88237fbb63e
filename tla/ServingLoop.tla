------------------------------ MODULE ServingLoop ------------------------------
(***************************************************************************)
(* local_ip.py: the threads around AuthenticatedLocalIpServer.  Workers    *)
(* call serve_once in a loop, which ends when an exception leaves the      *)
(* call; another thread binds and closes the same server.  The server has  *)
(* no lock: serve_once is here one step per access to what threads share.  *)
(* Frames are valid; what LocalIpDelivery says of the others is not        *)
(* repeated.                                                               *)
(***************************************************************************)
EXTENDS RecencyOrder

CONSTANTS
    Workers,            \* the threads that call serve_once
    Envelopes,          \* what they carry: [message_id, content]
    Receives,           \* the most recv calls a whole frame takes
    ReplayCapacity,     \* replay_capacity
    ListenBacklog,      \* connections the listening socket queues
    MaxBinds,           \* bound: how often the server is bound
    MaxConnections      \* bound: how many connections are ever made

ASSUME LoopAssumption ==
    /\ IsFiniteSet(Workers)
    /\ {Receives, ReplayCapacity, ListenBacklog} \subseteq Nat \ {0}
    /\ {MaxBinds, MaxConnections} \subseteq Nat

VARIABLES
    listener,   \* self._listener: 0 for None, or the number of its bind
    open,       \* the listening socket that is open: 0 or the number of its bind
    binds,      \* history: how often the server was bound
    made,       \* history: how many connections were made
    backlog,    \* connections not yet accepted: [number, env], oldest first
    cache,      \* self._delivery_cache: [env, accepted], oldest first
    thread,     \* [Workers -> the step a worker is at, and its local variables]
    decided,    \* history: what the receiver decided, [env, accepted]
    decisions,  \* history: how often it decided about each id
    overlapped, \* history: ids two workers asked the receiver about at once
    forgotten,  \* history: ids that fell out of the cache
    poppers     \* history: the most workers that were popping at once

socketVars == <<listener, open, binds, made, backlog>>
history == <<decided, decisions, overlapped, forgotten, poppers>>
vars == <<socketVars, cache, thread, history>>

Ids == {e.message_id : e \in Envelopes}

At(w, steps) == thread[w].at \in steps

(* The loop calls serve_once again; an exception has left it. *)
Return(w) == thread' = [thread EXCEPT ![w] = [at |-> "check"]]
Raise(w) == thread' = [thread EXCEPT ![w] = [at |-> "ended"]]

Init ==
    /\ listener = 0
    /\ open = 0
    /\ binds = 0
    /\ made = 0
    /\ backlog = <<>>
    /\ cache = <<>>
    /\ thread = [w \in Workers |-> [at |-> "new"]]
    /\ decided = {}
    /\ decisions = [m \in Ids |-> 0]
    /\ overlapped = {}
    /\ forgotten = {}
    /\ poppers = 0
-----------------------------------------------------------------------------
(* The thread that owns the server, and the clients.                       *)

bind ==
    /\ listener = 0 /\ open = 0
    /\ binds < MaxBinds
    /\ binds' = binds + 1
    /\ listener' = binds'
    /\ open' = binds'
    /\ UNCHANGED <<made, backlog, cache, thread, history>>

(* close: the attribute is cleared first ... *)
Detach ==
    /\ listener # 0
    /\ listener' = 0
    /\ UNCHANGED <<open, binds, made, backlog, cache, thread, history>>

(* ... then the socket is closed, which resets the connections it queues. *)
CloseSocket ==
    /\ listener = 0 /\ open # 0
    /\ open' = 0
    /\ backlog' = <<>>
    /\ UNCHANGED <<listener, binds, made, cache, thread, history>>

StartLoop(w) ==
    /\ listener # 0
    /\ At(w, {"new", "ended"})
    /\ Return(w)
    /\ UNCHANGED <<socketVars, cache, history>>

Connect(e) ==
    /\ open # 0
    /\ made < MaxConnections
    /\ Len(backlog) < ListenBacklog
    /\ made' = made + 1
    /\ backlog' = Append(backlog, [number |-> made', env |-> e])
    /\ UNCHANGED <<listener, open, binds, cache, thread, history>>
-----------------------------------------------------------------------------
(* serve_once: accept.                                                     *)

CheckBound(w) ==
    /\ At(w, {"check"})
    /\ listener # 0
    /\ thread' = [thread EXCEPT ![w] = [at |-> "read"]]
    /\ UNCHANGED <<socketVars, cache, history>>

(* Mutant of NotBound: serve_once returns False instead of raising. *)
NotBoundFalse(w) ==
    /\ At(w, {"check"})
    /\ listener = 0
    /\ Return(w)
    /\ UNCHANGED <<socketVars, cache, history>>

(* RuntimeError *)
NotBound(w) ==
    /\ At(w, {"check"})
    /\ listener = 0
    /\ Raise(w)
    /\ UNCHANGED <<socketVars, cache, history>>

(* self._listener is read a second time: AttributeError if it has gone. *)
ReadListener(w) ==
    /\ At(w, {"read"})
    /\ IF listener = 0
       THEN Raise(w)
       ELSE thread' = [thread EXCEPT ![w] = [at |-> "accept", socket |-> listener]]
    /\ UNCHANGED <<socketVars, cache, history>>

AcceptConnection(w) ==
    /\ At(w, {"accept"})
    /\ thread[w].socket = open
    /\ backlog # <<>>
    /\ backlog' = Tail(backlog)
    /\ thread' = [thread EXCEPT ![w] =
                     [at |-> "receive", env |-> Head(backlog).env, left |-> Receives]]
    /\ UNCHANGED <<listener, open, binds, made, cache, history>>

(* No connection in time; the socket may have been closed meanwhile. *)
AcceptTimesOut(w) ==
    /\ At(w, {"accept"})
    /\ thread[w].socket = open => backlog = <<>>
    /\ Return(w)
    /\ UNCHANGED <<socketVars, cache, history>>

(* Any other OSError: the socket was closed, no descriptor is left, or the *)
(* connection was aborted before it could be taken.                        *)
AcceptFails(w) ==
    /\ At(w, {"accept"})
    /\ \/ UNCHANGED backlog
       \/ /\ thread[w].socket = open
          /\ backlog # <<>>
          /\ backlog' = Tail(backlog)
    /\ Raise(w)
    /\ UNCHANGED <<listener, open, binds, made, cache, history>>

(* Mutant of ReceiveSome: what was received is not counted. *)
ReceiveAgain(w) ==
    /\ At(w, {"receive"})
    /\ \E left \in 0..Receives :
          thread' = [thread EXCEPT ![w] =
                        IF left = 0
                        THEN [at |-> "lookup", env |-> @.env]
                        ELSE [at |-> "receive", env |-> @.env, left |-> left]]
    /\ UNCHANGED <<socketVars, cache, history>>

(* recv gives any part of what is left, however slow the client is. *)
ReceiveSome(w) ==
    /\ At(w, {"receive"})
    /\ \E left \in 0..(thread[w].left - 1) :
          thread' = [thread EXCEPT ![w] =
                        IF left = 0
                        THEN [at |-> "lookup", env |-> @.env]
                        ELSE [at |-> "receive", env |-> @.env, left |-> left]]
    /\ UNCHANGED <<socketVars, cache, history>>

(* The client closed, or was silent for the timeout of one recv. *)
ReceiveFails(w) ==
    /\ At(w, {"receive"})
    /\ Return(w)
    /\ UNCHANGED <<socketVars, cache, history>>
-----------------------------------------------------------------------------
(* serve_once: the cache and the receiver.                                 *)

Position(e) ==
    {i \in 1..Len(cache) : cache[i].env.message_id = e.message_id}

Answering(w, accepted, detail) ==
    thread' = [thread EXCEPT ![w] =
                  [at |-> "ack", env |-> @.env, accepted |-> accepted, detail |-> detail]]

Outcome(accepted) == IF accepted THEN "accepted" ELSE "rejected"

(* Past the receiver's decision. *)
Storing(w, step) ==
    thread' = [thread EXCEPT ![w] =
                  [at |-> step, env |-> @.env, accepted |-> @.accepted]]

(* An exception after the frame was received. *)
Refuse(w) == Answering(w, FALSE, "refused")

AskingAbout(v, e) == At(v, {"call", "store"}) /\ thread[v].env.message_id = e.message_id

LookUp(w) ==
    /\ At(w, {"lookup"})
    /\ LET e == thread[w].env IN
          IF Position(e) = {}
          THEN /\ thread' = [thread EXCEPT ![w] = [at |-> "call", env |-> e]]
               /\ overlapped' = overlapped \cup
                     {m \in {e.message_id} : \E v \in Workers : AskingAbout(v, e)}
          ELSE /\ \E i \in Position(e) :
                     thread' = [thread EXCEPT ![w] =
                                   [at |-> "refresh", env |-> e, cached |-> cache[i]]]
               /\ UNCHANGED overlapped
    /\ UNCHANGED <<socketVars, cache, decided, decisions, forgotten, poppers>>

(* Mutant of SameContent: the fingerprint is not compared. *)
AnyContent(entry, e) == TRUE

SameContent(entry, e) == entry.env = e

(* move_to_end raises KeyError when another worker evicted the id meanwhile; *)
(* the outcome is the one read before.                                       *)
Refresh(w) ==
    /\ At(w, {"refresh"})
    /\ LET t == thread[w] IN
          IF Position(t.env) = {}
          THEN Refuse(w) /\ UNCHANGED cache
          ELSE /\ \E i \in Position(t.env) : cache' = MoveToEnd(cache, i)
               /\ IF SameContent(t.cached, t.env)
                  THEN Answering(w, t.cached.accepted, Outcome(t.cached.accepted))
                  ELSE Answering(w, FALSE, "conflict")
    /\ UNCHANGED <<socketVars, history>>

ReceiverReturns(w, accepted) ==
    /\ At(w, {"call"})
    /\ LET e == thread[w].env IN
          /\ thread' = [thread EXCEPT ![w] =
                           [at |-> "store", env |-> e, accepted |-> accepted]]
          /\ decided' = decided \cup {[env |-> e, accepted |-> accepted]}
          /\ decisions' = [decisions EXCEPT ![e.message_id] = @ + 1]
    /\ UNCHANGED <<socketVars, cache, overlapped, forgotten, poppers>>

ReceiverRaises(w) ==
    /\ At(w, {"call"})
    /\ Refuse(w)
    /\ UNCHANGED <<socketVars, cache, history>>

(* Mutant of Stored: rejections are not kept. *)
StoredIfAccepted(d) ==
    IF d.accepted /\ Position(d.env) = {} THEN Append(cache, d) ELSE cache

(* cache[message_id] = ...: an id that is there keeps its place. *)
Stored(d) ==
    IF Position(d.env) = {}
    THEN Append(cache, d)
    ELSE [i \in 1..Len(cache) |-> IF i \in Position(d.env) THEN d ELSE cache[i]]

Store(w) ==
    /\ At(w, {"store"})
    /\ cache' = Stored([env |-> thread[w].env, accepted |-> thread[w].accepted])
    /\ Storing(w, "move")
    /\ UNCHANGED <<socketVars, history>>

(* KeyError when another worker, trimming, evicted the id just stored. *)
MoveStored(w) ==
    /\ At(w, {"move"})
    /\ IF Position(thread[w].env) = {}
       THEN Refuse(w) /\ UNCHANGED cache
       ELSE /\ \E i \in Position(thread[w].env) : cache' = MoveToEnd(cache, i)
            /\ Storing(w, "trim")
    /\ UNCHANGED <<socketVars, history>>

(* Mutants of Overfull: one entry more than the capacity, and one less. *)
OverfullByTwo == Len(cache) > ReplayCapacity + 1
FullAlready == Len(cache) >= ReplayCapacity

Overfull == Len(cache) > ReplayCapacity

Popping == {w \in Workers : At(w, {"pop"})}

CheckSize(w) ==
    /\ At(w, {"trim"})
    /\ IF Overfull
       THEN /\ Storing(w, "pop")
            /\ poppers' = IF Cardinality(Popping) < poppers
                          THEN poppers ELSE Cardinality(Popping) + 1
       ELSE /\ Answering(w, thread[w].accepted, Outcome(thread[w].accepted))
            /\ UNCHANGED poppers
    /\ UNCHANGED <<socketVars, cache, decided, decisions, overlapped, forgotten>>

(* The size was checked before: another worker may have popped in between. *)
PopOldest(w) ==
    /\ At(w, {"pop"})
    /\ IF cache = <<>>
       THEN Refuse(w) /\ UNCHANGED <<cache, forgotten>>
       ELSE /\ cache' = Tail(cache)
            /\ forgotten' = forgotten \cup {Head(cache).env.message_id}
            /\ Storing(w, "trim")
    /\ UNCHANGED <<socketVars, decided, decisions, overlapped, poppers>>

(* The ack is sent; a failing send is caught. *)
Ack(w) ==
    /\ At(w, {"ack"})
    /\ Return(w)
    /\ UNCHANGED <<socketVars, cache, history>>

serve_once(w) ==
    \/ CheckBound(w) \/ NotBound(w) \/ ReadListener(w)
    \/ AcceptConnection(w) \/ AcceptTimesOut(w) \/ AcceptFails(w)
    \/ ReceiveSome(w) \/ ReceiveFails(w)
    \/ LookUp(w) \/ Refresh(w)
    \/ \E accepted \in BOOLEAN : ReceiverReturns(w, accepted)
    \/ ReceiverRaises(w)
    \/ Store(w) \/ MoveStored(w) \/ CheckSize(w) \/ PopOldest(w)
    \/ Ack(w)

Next ==
    \/ bind \/ Detach \/ CloseSocket
    \/ \E e \in Envelopes : Connect(e)
    \/ \E w \in Workers : StartLoop(w) \/ serve_once(w)

Spec == Init /\ [][Next]_vars

(* A running worker takes its next step: accept and recv have timeouts, the *)
(* receiver returns or raises; close runs to its end.                       *)
Fairness ==
    /\ WF_vars(CloseSocket)
    /\ \A w \in Workers : WF_vars(serve_once(w))

FairSpec == Spec /\ Fairness
-----------------------------------------------------------------------------
Trimming == {w \in Workers : At(w, {"move", "trim", "pop"})}

(* The state has its shape.  However the trimming of several workers mixes, the *)
(* cache exceeds its capacity by no more than the entries being added.          *)
TypeOK ==
    /\ listener \in {0, open}
    /\ open \in 0..binds
    /\ Len(backlog) <= ListenBacklog
    /\ open = 0 => backlog = <<>>
    /\ \A i, j \in 1..Len(cache) :
          cache[i].env.message_id = cache[j].env.message_id => i = j
    /\ Len(cache) <= ReplayCapacity + Cardinality(Trimming)

(* A worker measures the cache and pops in two steps, so workers that measured  *)
(* the same cache each pop it, and the memory may end below its capacity.  It   *)
(* never lacks more than the race explains: nothing while one worker pops at a  *)
(* time, and one id for each further worker that ever popped beside it.         *)
OverEvictionBounded ==
    forgotten # {} \/ Popping # {} =>
        Len(cache) + poppers > ReplayCapacity + Cardinality(Popping)

(* With several workers in the cache at once the answer one of them sends is  *)
(* still never for another envelope: it is a decision about this one, or a     *)
(* refusal or conflict that says the receiver did not accept it.               *)
AnswersAreTrue ==
    \A w \in Workers : At(w, {"ack"}) =>
        LET a == thread[w] IN
        /\ a.detail \in {"accepted", "rejected"}
              => [env |-> a.env, accepted |-> a.accepted] \in decided
        /\ a.detail \notin {"accepted", "rejected"} => ~a.accepted
        /\ a.detail = "conflict" =>
              \E d \in decided :
                  d.env # a.env /\ d.env.message_id = a.env.message_id

(* The receiver decides an id a second time only when its outcome was evicted, *)
(* or two workers had both missed it in the cache before either stored it.     *)
RepeatedOnlyIfOverlapping ==
    \A m \in Ids : decisions[m] > 1 => m \in overlapped \cup forgotten

(* No client holds a worker for ever, however slowly it sends. *)
EveryConnectionIsLeft ==
    \A w \in Workers : At(w, {"receive"}) ~> At(w, {"check", "ended"})

(* Once the server is closed for good, every serving loop ends. *)
CloseEndsEveryLoop ==
    <>[](listener = 0) => <>[](\A w \in Workers : At(w, {"new", "ended"}))

(* A connection does not wait for ever while a loop runs, whoever is ahead of *)
(* it: however slow their clients, and though accept may fail and end a loop, *)
(* the workers come to it or close resets it.  Only an accept that goes on    *)
(* failing, in loops that are started again and again, can leave it waiting.  *)
EveryConnectionIsTaken ==
    <>[][\A w \in Workers : ~AcceptFails(w)]_vars =>
        \A c \in 1..MaxConnections :
            (\E i \in 1..Len(backlog) : backlog[i].number = c)
                ~> \/ \A i \in 1..Len(backlog) : backlog[i].number # c
                   \/ \A w \in Workers : At(w, {"new", "ended"})
=============================================================================
