--------------------------- MODULE ServingLoopProofs ---------------------------
(***************************************************************************)
(* The safety of the serving loops, for any number of workers, envelopes,  *)
(* connections and binds.  LoopInv says what a worker may find of the      *)
(* listener, ThreadsTrue what its local variables say of the receiver's    *)
(* decisions, RepeatInv who may be asking about an id, CapacityInv which   *)
(* workers a cache entry beyond the capacity is owed to, and EvictionInv   *)
(* which of them an entry that is missing.                                 *)
(***************************************************************************)
EXTENDS ServingLoop, RecencyOrderProofs

Decision == [env : Envelopes, accepted : BOOLEAN]
Connection == [number : Nat, env : Envelopes]

Past(w) == At(w, {"store", "move", "trim", "pop"})

ThreadsTyped ==
    /\ DOMAIN thread = Workers
    /\ \A w \in Workers :
          /\ At(w, {"receive", "lookup", "refresh", "call", "ack"}) \/ Past(w) =>
                thread[w].env \in Envelopes
          /\ At(w, {"ack"}) \/ Past(w) => thread[w].accepted \in BOOLEAN
          /\ At(w, {"refresh"}) => thread[w].cached \in Decision

TypeInv ==
    /\ binds \in Nat
    /\ made \in Nat
    /\ backlog \in Seq(Connection)
    /\ cache \in Seq(Decision)
    /\ decisions \in [Ids -> Nat]
    /\ ThreadsTyped

(* What the listener and its queue look like between any two steps. *)
LoopInv ==
    /\ open \in {0, binds}
    /\ listener \in {0, open}
    /\ Len(backlog) <= ListenBacklog
    /\ open = 0 => backlog = <<>>

(* What an answer says of the receiver has happened. *)
AnswerTrue(D, e, accepted, detail) ==
    /\ detail \in {"accepted", "rejected"} => [env |-> e, accepted |-> accepted] \in D
    /\ detail \notin {"accepted", "rejected"} => ~accepted
    /\ detail = "conflict" =>
          \E d \in D : d.env # e /\ d.env.message_id = e.message_id

(* What a worker has in its local variables is true of the receiver. *)
WorkerTrue(w) ==
    /\ At(w, {"refresh"}) =>
          /\ thread[w].cached \in decided
          /\ thread[w].cached.env.message_id = thread[w].env.message_id
    /\ Past(w) => [env |-> thread[w].env, accepted |-> thread[w].accepted] \in decided
    /\ At(w, {"ack"}) =>
          AnswerTrue(decided, thread[w].env, thread[w].accepted, thread[w].detail)

TruthInv ==
    /\ \A i \in 1..Len(cache) : cache[i] \in decided
    /\ \A w \in Workers : WorkerTrue(w)

InCache(m) == \E i \in 1..Len(cache) : cache[i].env.message_id = m

Of(w, steps, m) == At(w, steps) /\ thread[w].env.message_id = m

(* While an id was asked about by one worker at a time and never fell out of the *)
(* cache: who is calling has not decided yet, and a decision is in the cache or  *)
(* about to be stored.                                                           *)
DecidedOnce(m) ==
    /\ \A v, w \in Workers :
          Of(v, {"call", "store"}, m) /\ Of(w, {"call", "store"}, m) => v = w
    /\ \A w \in Workers : Of(w, {"call"}, m) => decisions[m] = 0
    /\ decisions[m] <= 1
    /\ decisions[m] = 1 => InCache(m) \/ \E w \in Workers : Of(w, {"store"}, m)

RepeatInv == \A m \in Ids : m \in overlapped \cup forgotten \/ DecidedOnce(m)

Trimmers == {w \in Workers : At(w, {"trim", "pop"})}
MovingIds == {m \in Ids : InCache(m) /\ \E w \in Workers : Of(w, {"move"}, m)}

(* An entry beyond the capacity is owed to a worker that is trimming, or to the *)
(* worker that just stored it: a worker at "move" whose entry another one has   *)
(* evicted leaves without trimming, and so does not count.                      *)
CapacityInv ==
    /\ \A i, j \in 1..Len(cache) :
          cache[i].env.message_id = cache[j].env.message_id => i = j
    /\ Len(cache) <= ReplayCapacity + Cardinality(MovingIds) + Cardinality(Trimmers)
-----------------------------------------------------------------------------
(* Facts about the cache.                                                  *)

LEMMA MoveKeeps ==
    ASSUME NEW i \in 1..Len(cache), cache \in Seq(Decision), cache' = MoveToEnd(cache, i)
    PROVE  /\ cache' \in Seq(Decision)
           /\ Len(cache') = Len(cache)
           /\ Len(cache) \in Nat
           /\ \A j \in 1..Len(cache) : cache'[j] =
                 IF j < i THEN cache[j]
                 ELSE IF j < Len(cache) THEN cache[j + 1] ELSE cache[i]
BY MoveToEndProperties, LenProperties

LEMMA StoredShape ==
    ASSUME NEW d \in Decision, cache \in Seq(Decision), cache' = Stored(d)
    PROVE  /\ cache' \in Seq(Decision)
           /\ Len(cache) \in Nat
           /\ Len(cache') = IF Position(d.env) = {} THEN Len(cache) + 1 ELSE Len(cache)
           /\ \A j \in 1..Len(cache') : cache'[j] =
                 IF j \in Position(d.env) \/ j > Len(cache) THEN d ELSE cache[j]
<1>1. Len(cache) \in Nat /\ \A j \in 1..Len(cache) : cache[j] \in Decision
  BY LenProperties
<1>2. CASE Position(d.env) = {}
  BY <1>1, <1>2, AppendProperties DEF Stored
<1>3. CASE Position(d.env) # {}
  <2> DEFINE t == [i \in 1..Len(cache) |-> IF i \in Position(d.env) THEN d ELSE cache[i]]
  <2>1. cache' = t
    BY <1>3 DEF Stored
  <2>2. t \in [1..Len(cache) -> Decision]
    BY <1>1
  <2>3. t \in Seq(Decision) /\ Len(t) = Len(cache)
    BY <1>1, <2>2
  <2>4. \A j \in 1..Len(cache) :
           cache'[j] = IF j \in Position(d.env) THEN d ELSE cache[j]
    BY <2>1
  <2>5. cache' \in Seq(Decision) /\ Len(cache') = Len(cache)
    BY <2>1, <2>3
  <2> HIDE DEF t
  <2> QED BY <1>1, <1>3, <2>4, <2>5
<1> QED BY <1>2, <1>3

LEMMA TailShape ==
    ASSUME cache \in Seq(Decision), cache # <<>>
    PROVE  /\ Tail(cache) \in Seq(Decision)
           /\ Head(cache) = cache[1]
           /\ Head(cache) \in Decision
           /\ Len(cache) \in Nat \ {0}
           /\ Len(Tail(cache)) = Len(cache) - 1
           /\ \A j \in 1..(Len(cache) - 1) : Tail(cache)[j] = cache[j + 1]
BY HeadTailProperties, LenProperties, EmptySeq
-----------------------------------------------------------------------------
(* The two ways a worker leaves the cache. *)
LEMMA AnsweringTyped ==
    ASSUME ThreadsTyped, NEW w \in Workers, NEW accepted \in BOOLEAN, NEW detail,
           thread[w].env \in Envelopes, Answering(w, accepted, detail)
    PROVE  ThreadsTyped'
BY DEF ThreadsTyped, Answering, Past, At

LEMMA StoringTyped ==
    ASSUME ThreadsTyped, NEW w \in Workers, NEW step \in {"move", "trim", "pop"},
           Past(w), Storing(w, step)
    PROVE  ThreadsTyped'
BY DEF ThreadsTyped, Storing, Past, At

LEMMA TypeStep == TypeInv /\ [Next]_vars => TypeInv'
<1> SUFFICES ASSUME TypeInv, [Next]_vars PROVE TypeInv'
  OBVIOUS
<1> USE DEF TypeInv, ThreadsTyped, Past, At
<1>1. CASE bind
  BY <1>1 DEF bind, history
<1>2. CASE Detach
  BY <1>2 DEF Detach, history
<1>3. CASE CloseSocket
  BY <1>3, EmptySeq DEF CloseSocket, history
<1>4. ASSUME NEW e \in Envelopes, Connect(e) PROVE TypeInv'
  <2>1. [number |-> made', env |-> e] \in Connection /\ made' \in Nat
    BY <1>4 DEF Connect, Connection
  <2>2. backlog' \in Seq(Connection)
    BY <1>4, <2>1, AppendProperties DEF Connect
  <2> QED BY <1>4, <2>1, <2>2 DEF Connect, history
<1>5. ASSUME NEW w \in Workers, StartLoop(w) PROVE TypeInv'
  BY <1>5 DEF StartLoop, Return, socketVars, history
<1>6. ASSUME NEW w \in Workers, CheckBound(w) \/ NotBound(w) \/ ReadListener(w)
                                \/ AcceptTimesOut(w) \/ ReceiveFails(w)
      PROVE  TypeInv'
  BY <1>6 DEF CheckBound, NotBound, ReadListener, AcceptTimesOut, ReceiveFails,
              Return, Raise, socketVars, history
<1>7. ASSUME NEW w \in Workers, AcceptConnection(w) PROVE TypeInv'
  <2>1. Head(backlog) \in Connection /\ Tail(backlog) \in Seq(Connection)
    BY <1>7, HeadTailProperties DEF AcceptConnection
  <2> QED BY <1>7, <2>1 DEF AcceptConnection, Connection, history
<1>8. ASSUME NEW w \in Workers, AcceptFails(w) PROVE TypeInv'
  <2>1. backlog' \in Seq(Connection)
    BY <1>8, HeadTailProperties DEF AcceptFails
  <2>2. ThreadsTyped'
    BY <1>8 DEF AcceptFails, Raise
  <2> QED BY <1>8, <2>1, <2>2 DEF AcceptFails, history
<1>9. ASSUME NEW w \in Workers, ReceiveSome(w) PROVE TypeInv'
  BY <1>9 DEF ReceiveSome, socketVars, history
<1>10. ASSUME NEW w \in Workers, LookUp(w) PROVE TypeInv'
  <2>1. \A i \in Position(thread[w].env) : cache[i] \in Decision
    BY LenProperties DEF Position
  <2> QED BY <1>10, <2>1 DEF LookUp, socketVars
<1>11. ASSUME NEW w \in Workers, Refresh(w) PROVE TypeInv'
  <2>1. cache' \in Seq(Decision)
    BY <1>11, MoveKeeps DEF Refresh, Position
  <2>2. thread[w].env \in Envelopes /\ thread[w].cached.accepted \in BOOLEAN
    BY <1>11 DEF Refresh, Decision
  <2>3. ThreadsTyped'
    BY <1>11, <2>2, AnsweringTyped DEF Refresh, Refuse
  <2> QED BY <1>11, <2>1, <2>3 DEF Refresh, socketVars, history
<1>12. ASSUME NEW w \in Workers, NEW accepted \in BOOLEAN, ReceiverReturns(w, accepted)
       PROVE  TypeInv'
  <2>1. thread[w].env.message_id \in Ids
    BY <1>12 DEF ReceiverReturns, Ids
  <2>2. decisions' \in [Ids -> Nat]
    BY <1>12, <2>1 DEF ReceiverReturns
  <2> QED BY <1>12, <2>2 DEF ReceiverReturns, socketVars
<1>13. ASSUME NEW w \in Workers, ReceiverRaises(w) PROVE TypeInv'
  BY <1>13 DEF ReceiverRaises, Refuse, Answering, socketVars, history
<1>14. ASSUME NEW w \in Workers, Store(w) PROVE TypeInv'
  <2>1. [env |-> thread[w].env, accepted |-> thread[w].accepted] \in Decision
    BY <1>14 DEF Store, Decision
  <2>2. cache' \in Seq(Decision)
    BY <1>14, <2>1, StoredShape DEF Store
  <2>3. ThreadsTyped'
    BY <1>14, StoringTyped DEF Store
  <2> QED BY <1>14, <2>2, <2>3 DEF Store, socketVars, history
<1>15. ASSUME NEW w \in Workers, MoveStored(w) PROVE TypeInv'
  <2>1. cache' \in Seq(Decision)
    BY <1>15, MoveKeeps DEF MoveStored, Position
  <2>2. ThreadsTyped'
    BY <1>15, AnsweringTyped, StoringTyped DEF MoveStored, Refuse
  <2> QED BY <1>15, <2>1, <2>2 DEF MoveStored, socketVars, history
<1>16. ASSUME NEW w \in Workers, CheckSize(w) PROVE TypeInv'
  <2>1. ThreadsTyped'
    BY <1>16, AnsweringTyped, StoringTyped DEF CheckSize
  <2> QED BY <1>16, <2>1 DEF CheckSize, socketVars, history
<1>17. ASSUME NEW w \in Workers, PopOldest(w) PROVE TypeInv'
  <2>1. cache' \in Seq(Decision)
    BY <1>17, TailShape DEF PopOldest
  <2>2. UNCHANGED <<binds, made, backlog, decisions>>
    BY <1>17 DEF PopOldest, socketVars
  <2>3. ThreadsTyped'
    BY <1>17, AnsweringTyped, StoringTyped DEF PopOldest, Refuse
  <2> QED BY <2>1, <2>2, <2>3
<1>18. ASSUME NEW w \in Workers, Ack(w) PROVE TypeInv'
  BY <1>18 DEF Ack, Return, socketVars, history
<1>19. CASE UNCHANGED vars
  BY <1>19 DEF vars, socketVars, history
<1> QED
  BY <1>1, <1>2, <1>3, <1>4, <1>5, <1>6, <1>7, <1>8, <1>9, <1>10, <1>11, <1>12, <1>13, <1>14,
     <1>15, <1>16, <1>17, <1>18, <1>19 DEF Next, serve_once

LEMMA LoopStep == TypeInv /\ LoopInv /\ [Next]_vars => LoopInv'
<1> SUFFICES ASSUME TypeInv, LoopInv, [Next]_vars PROVE LoopInv'
  OBVIOUS
<1> USE DEF LoopInv
<1>0. /\ binds \in Nat
      /\ ListenBacklog \in Nat
  BY LoopAssumption DEF TypeInv
<1>1. CASE bind
  BY <1>0, <1>1 DEF bind
<1>2. CASE Detach
  BY <1>2 DEF Detach
<1>3. CASE CloseSocket
  BY <1>0, <1>3, EmptySeq DEF CloseSocket
<1>4. ASSUME NEW e \in Envelopes, Connect(e) PROVE LoopInv'
  <2>1. [number |-> made', env |-> e] \in Connection
    BY <1>4 DEF Connect, Connection, TypeInv
  <2>2. Len(backlog') = Len(backlog) + 1 /\ Len(backlog) \in Nat
    BY <1>4, <2>1, AppendProperties, LenProperties DEF Connect, TypeInv
  <2>3. Len(backlog') <= ListenBacklog /\ open # 0
    BY <1>0, <1>4, <2>2 DEF Connect
  <2> QED BY <1>4, <2>3 DEF Connect
<1>5. ASSUME UNCHANGED socketVars PROVE LoopInv'
  BY <1>5 DEF socketVars
<1>6. ASSUME backlog # <<>>, backlog' = Tail(backlog),
             UNCHANGED <<listener, open, binds, made>>
      PROVE  LoopInv'
  <2>1. Len(backlog') = Len(backlog) - 1 /\ Len(backlog) \in Nat
    BY <1>6, HeadTailProperties, LenProperties DEF TypeInv
  <2> QED BY <1>0, <1>6, <2>1
<1>7. ASSUME NEW w \in Workers, AcceptConnection(w) \/ AcceptFails(w) PROVE LoopInv'
  BY <1>5, <1>6, <1>7 DEF AcceptConnection, AcceptFails, socketVars
<1>8. ASSUME NEW w \in Workers, StartLoop(w) \/ CheckBound(w) \/ NotBound(w)
                \/ ReadListener(w) \/ AcceptTimesOut(w) \/ ReceiveSome(w) \/ ReceiveFails(w)
                \/ LookUp(w) \/ Refresh(w) \/ ReceiverRaises(w) \/ Store(w)
                \/ MoveStored(w) \/ CheckSize(w) \/ PopOldest(w) \/ Ack(w)
                \/ \E accepted \in BOOLEAN : ReceiverReturns(w, accepted)
      PROVE  LoopInv'
  BY <1>5, <1>8 DEF StartLoop, CheckBound, NotBound, ReadListener, AcceptTimesOut,
     ReceiveSome, ReceiveFails, LookUp, Refresh, ReceiverRaises, Store, MoveStored,
     CheckSize, PopOldest, Ack, ReceiverReturns
<1>9. CASE UNCHANGED vars
  BY <1>5, <1>9 DEF vars
<1> QED
  BY <1>1, <1>2, <1>3, <1>4, <1>7, <1>8, <1>9 DEF Next, serve_once

LEMMA LoopInit == Init => TypeInv /\ LoopInv
<1> SUFFICES ASSUME Init PROVE TypeInv /\ LoopInv
  OBVIOUS
<1>1. <<>> \in Seq(Connection) /\ <<>> \in Seq(Decision) /\ Len(<<>>) = 0
  BY EmptySeq
<1> QED BY <1>1, LoopAssumption DEF Init, TypeInv, ThreadsTyped, LoopInv, At, Past
-----------------------------------------------------------------------------
(* Decisions only grow in number, and so a true answer stays true. *)
LEMMA AnswersStayTrue ==
    ASSUME NEW D, NEW E, D \subseteq E
    PROVE  \A e, accepted, detail :
              AnswerTrue(D, e, accepted, detail) => AnswerTrue(E, e, accepted, detail)
BY DEF AnswerTrue

(* A step of one worker that decides nothing, keeps the cache to what it held *)
(* and leaves the worker with nothing false to say.                           *)
LEMMA TruthKept ==
    ASSUME TruthInv, TypeInv, NEW w \in Workers, NEW t,
           thread' = [thread EXCEPT ![w] = t],
           UNCHANGED decided,
           \A i \in 1..Len(cache') : cache'[i] \in decided,
           t.at = "refresh" => /\ t.cached \in decided
                               /\ t.cached.env.message_id = t.env.message_id,
           t.at \in {"store", "move", "trim", "pop"} =>
              [env |-> t.env, accepted |-> t.accepted] \in decided,
           t.at = "ack" => AnswerTrue(decided, t.env, t.accepted, t.detail)
    PROVE  TruthInv'
<1>1. /\ thread'[w] = t
      /\ \A v \in Workers \ {w} : thread'[v] = thread[v]
  BY DEF TypeInv, ThreadsTyped
<1>2. \A e, accepted, detail :
         AnswerTrue(decided, e, accepted, detail) => AnswerTrue(decided', e, accepted, detail)
  BY AnswersStayTrue
<1>3. ASSUME NEW v \in Workers
      PROVE  WorkerTrue(v)'
  <2>1. CASE v = w
    BY <1>1, <1>2, <2>1 DEF At, Past, WorkerTrue
  <2>2. CASE v # w
    BY <1>1, <1>2, <2>2 DEF At, Past, TruthInv, WorkerTrue
  <2> QED BY <2>1, <2>2
<1> QED BY <1>3 DEF TruthInv

LEMMA TruthStep == TypeInv /\ TruthInv /\ [Next]_vars => TruthInv'
<1> SUFFICES ASSUME TypeInv, TruthInv, [Next]_vars PROVE TruthInv'
  OBVIOUS
<1>0. /\ \A i \in 1..Len(cache) : cache[i] \in decided
      /\ DOMAIN thread = Workers
      /\ cache \in Seq(Decision)
  BY DEF TruthInv, TypeInv, ThreadsTyped
<1>1. ASSUME UNCHANGED <<cache, thread, decided>> PROVE TruthInv'
  BY <1>1 DEF TruthInv, WorkerTrue, AnswerTrue, Past, At
<1>2. CASE bind \/ Detach \/ CloseSocket \/ \E e \in Envelopes : Connect(e)
  BY <1>1, <1>2 DEF bind, Detach, CloseSocket, Connect, history
<1>3. ASSUME NEW w \in Workers, NEW t, thread' = [thread EXCEPT ![w] = t],
             UNCHANGED <<cache, decided>>,
             t.at \notin {"refresh", "store", "move", "trim", "pop", "ack"}
      PROVE  TruthInv'
  BY <1>0, <1>3, TruthKept
<1>4. ASSUME NEW w \in Workers, StartLoop(w) \/ CheckBound(w) \/ NotBound(w)
                \/ ReadListener(w) \/ AcceptTimesOut(w) \/ AcceptFails(w) \/ ReceiveFails(w)
                \/ Ack(w)
      PROVE  TruthInv'
  <2>1. /\ UNCHANGED <<cache, decided>>
        /\ \/ thread' = [thread EXCEPT ![w] = [at |-> "check"]]
           \/ thread' = [thread EXCEPT ![w] = [at |-> "read"]]
           \/ thread' = [thread EXCEPT ![w] = [at |-> "ended"]]
           \/ thread' = [thread EXCEPT ![w] = [at |-> "accept", socket |-> listener]]
    BY <1>4 DEF StartLoop, CheckBound, NotBound, ReadListener, AcceptTimesOut,
                AcceptFails, ReceiveFails, Ack, Return, Raise, history
  <2> QED BY <1>3, <2>1
<1>5. ASSUME NEW w \in Workers, AcceptConnection(w) PROVE TruthInv'
  BY <1>3, <1>5 DEF AcceptConnection, history
<1>6. ASSUME NEW w \in Workers, ReceiveSome(w) PROVE TruthInv'
  <2>1. \E left \in 0..(thread[w].left - 1) :
           thread' = [thread EXCEPT ![w] =
                         IF left = 0
                         THEN [at |-> "lookup", env |-> thread[w].env]
                         ELSE [at |-> "receive", env |-> thread[w].env, left |-> left]]
    BY <1>6 DEF ReceiveSome
  <2> QED BY <1>3, <1>6, <2>1 DEF ReceiveSome, history
<1>7. ASSUME NEW w \in Workers, LookUp(w) PROVE TruthInv'
  <2>1. UNCHANGED <<cache, decided>>
    BY <1>7 DEF LookUp
  <2>2. CASE thread' = [thread EXCEPT ![w] = [at |-> "call", env |-> thread[w].env]]
    BY <1>3, <2>1, <2>2
  <2>3. ASSUME NEW i \in Position(thread[w].env),
               thread' = [thread EXCEPT ![w] = [at |-> "refresh", env |-> thread[w].env,
                                                cached |-> cache[i]]]
        PROVE  TruthInv'
    <3>1. /\ cache[i] \in decided
          /\ cache[i].env.message_id = thread[w].env.message_id
      BY <1>0 DEF Position
    <3> QED BY <1>0, <2>1, <2>3, <3>1, TruthKept
  <2> QED BY <1>7, <2>2, <2>3 DEF LookUp
<1>8. ASSUME NEW w \in Workers, NEW accepted, NEW detail, Answering(w, accepted, detail),
             UNCHANGED decided,
             \A i \in 1..Len(cache') : cache'[i] \in decided,
             AnswerTrue(decided, thread[w].env, accepted, detail)
      PROVE  TruthInv'
  <2> DEFINE t == [at |-> "ack", env |-> thread[w].env, accepted |-> accepted,
                   detail |-> detail]
  <2>1. thread' = [thread EXCEPT ![w] = t]
    BY <1>8 DEF Answering
  <2>2. /\ t.at = "ack" /\ t.env = thread[w].env
        /\ t.accepted = accepted /\ t.detail = detail
    OBVIOUS
  <2> HIDE DEF t
  <2> QED BY <1>8, <2>1, <2>2, TruthKept
<1>9. ASSUME NEW w \in Workers, Refuse(w), UNCHANGED decided,
             \A i \in 1..Len(cache') : cache'[i] \in decided
      PROVE  TruthInv'
  <2>1. AnswerTrue(decided, thread[w].env, FALSE, "refused")
    BY DEF AnswerTrue
  <2> QED BY <1>8, <1>9, <2>1 DEF Refuse
<1>10. ASSUME NEW i \in 1..Len(cache), cache' = MoveToEnd(cache, i)
       PROVE  \A j \in 1..Len(cache') : cache'[j] \in decided
  BY <1>0, <1>10, MoveKeeps
<1>11. ASSUME NEW w \in Workers, Refresh(w) PROVE TruthInv'
  <2>1. UNCHANGED decided
    BY <1>11 DEF Refresh, history
  <2>2. CASE Position(thread[w].env) = {}
    BY <1>0, <1>9, <1>11, <2>1, <2>2 DEF Refresh
  <2>3. CASE Position(thread[w].env) # {}
    <3>1. \A j \in 1..Len(cache') : cache'[j] \in decided
      BY <1>10, <1>11, <2>3 DEF Refresh, Position
    <3>2. /\ thread[w].cached \in decided
          /\ thread[w].cached \in Decision
          /\ thread[w].cached.env.message_id = thread[w].env.message_id
      BY <1>11 DEF Refresh, TruthInv, WorkerTrue, TypeInv, ThreadsTyped
    <3>3. CASE SameContent(thread[w].cached, thread[w].env)
      <4>1. [env |-> thread[w].env, accepted |-> thread[w].cached.accepted] \in decided
        BY <3>2, <3>3 DEF SameContent, Decision
      <4>2. AnswerTrue(decided, thread[w].env, thread[w].cached.accepted,
                       Outcome(thread[w].cached.accepted))
        BY <4>1 DEF AnswerTrue, Outcome
      <4> QED BY <1>8, <1>11, <2>1, <2>3, <3>1, <3>3, <4>2 DEF Refresh
    <3>4. CASE ~ SameContent(thread[w].cached, thread[w].env)
      <4>1. AnswerTrue(decided, thread[w].env, FALSE, "conflict")
        BY <3>2, <3>4 DEF AnswerTrue, SameContent
      <4> QED BY <1>8, <1>11, <2>1, <2>3, <3>1, <3>4, <4>1 DEF Refresh
    <3> QED BY <3>3, <3>4
  <2> QED BY <2>2, <2>3
<1>12. ASSUME NEW w \in Workers, NEW accepted \in BOOLEAN, ReceiverReturns(w, accepted)
       PROVE  TruthInv'
  <2> DEFINE e == thread[w].env
             d == [env |-> e, accepted |-> accepted]
  <2>1. /\ thread' = [thread EXCEPT ![w] =
                         [at |-> "store", env |-> e, accepted |-> accepted]]
        /\ decided' = decided \cup {d}
        /\ UNCHANGED cache
    BY <1>12 DEF ReceiverReturns
  <2>2. \A x, a, o : AnswerTrue(decided, x, a, o) => AnswerTrue(decided', x, a, o)
    BY <2>1, AnswersStayTrue
  <2>3. \A v \in Workers \ {w} : thread'[v] = thread[v]
    BY <1>0, <2>1
  <2>4. thread'[w] = [at |-> "store", env |-> e, accepted |-> accepted]
    BY <1>0, <2>1
  <2>5. ASSUME NEW v \in Workers \ {w}
        PROVE  WorkerTrue(v)'
    <3>1. thread'[v] = thread[v] /\ decided \subseteq decided'
      BY <2>1, <2>3
    <3>2. At(v, {"ack"}) =>
             AnswerTrue(decided, thread[v].env, thread[v].accepted, thread[v].detail)
      BY DEF TruthInv, WorkerTrue
    <3>3. At(v, {"ack"}) =>
             AnswerTrue(decided', thread[v].env, thread[v].accepted, thread[v].detail)
      BY <2>2, <3>2
    <3>4. At(v, {"refresh"}) =>
             /\ thread[v].cached \in decided
             /\ thread[v].cached.env.message_id = thread[v].env.message_id
      BY DEF TruthInv, WorkerTrue
    <3>5. Past(v) => [env |-> thread[v].env, accepted |-> thread[v].accepted] \in decided
      BY DEF TruthInv, WorkerTrue
    <3> QED BY <3>1, <3>3, <3>4, <3>5 DEF At, Past, WorkerTrue
  <2>6. WorkerTrue(w)'
    BY <2>1, <2>4 DEF At, WorkerTrue
  <2>7. \A i \in 1..Len(cache') : cache'[i] \in decided'
    BY <1>0, <2>1
  <2> QED BY <2>5, <2>6, <2>7 DEF TruthInv
<1>13. ASSUME NEW w \in Workers, ReceiverRaises(w) PROVE TruthInv'
  BY <1>0, <1>9, <1>13 DEF ReceiverRaises, history
<1>14. ASSUME NEW w \in Workers, NEW step \in {"move", "trim", "pop"}, Past(w),
              Storing(w, step), UNCHANGED decided,
              \A i \in 1..Len(cache') : cache'[i] \in decided
       PROVE  TruthInv'
  <2> DEFINE t == [at |-> step, env |-> thread[w].env, accepted |-> thread[w].accepted]
  <2>1. thread' = [thread EXCEPT ![w] = t]
    BY <1>14 DEF Storing
  <2>2. /\ t.at \notin {"refresh", "ack"}
        /\ [env |-> t.env, accepted |-> t.accepted] \in decided
    BY <1>14 DEF TruthInv, WorkerTrue
  <2> HIDE DEF t
  <2> QED BY <1>14, <2>1, <2>2, TruthKept
<1>15. ASSUME NEW w \in Workers, Store(w) PROVE TruthInv'
  <2> DEFINE d == [env |-> thread[w].env, accepted |-> thread[w].accepted]
  <2>1. Past(w) /\ d \in decided /\ d \in Decision
    BY <1>15 DEF Store, TruthInv, WorkerTrue, TypeInv, ThreadsTyped, Past, At, Decision
  <2>2. cache' = Stored(d)
    BY <1>15 DEF Store
  <2> HIDE DEF d
  <2>3. \A i \in 1..Len(cache') : cache'[i] \in decided
    BY <1>0, <2>1, <2>2, StoredShape
  <2> QED BY <1>14, <1>15, <2>1, <2>3 DEF Store, history
<1>16. ASSUME NEW w \in Workers, MoveStored(w) PROVE TruthInv'
  <2>1. UNCHANGED decided /\ Past(w)
    BY <1>16 DEF MoveStored, history, Past, At
  <2>2. CASE Position(thread[w].env) = {}
    BY <1>0, <1>9, <1>16, <2>1, <2>2 DEF MoveStored
  <2>3. CASE Position(thread[w].env) # {}
    <3>1. \A j \in 1..Len(cache') : cache'[j] \in decided
      BY <1>10, <1>16, <2>3 DEF MoveStored, Position
    <3> QED BY <1>14, <1>16, <2>1, <2>3, <3>1 DEF MoveStored
  <2> QED BY <2>2, <2>3
<1>17. ASSUME NEW w \in Workers, CheckSize(w) PROVE TruthInv'
  <2>1. UNCHANGED <<cache, decided>> /\ Past(w)
    BY <1>17 DEF CheckSize, history, Past, At
  <2>2. AnswerTrue(decided, thread[w].env, thread[w].accepted, Outcome(thread[w].accepted))
    BY <2>1 DEF TruthInv, WorkerTrue, AnswerTrue, Outcome
  <2> QED BY <1>0, <1>8, <1>14, <1>17, <2>1, <2>2 DEF CheckSize
<1>18. ASSUME NEW w \in Workers, PopOldest(w) PROVE TruthInv'
  <2>1. UNCHANGED decided /\ Past(w)
    BY <1>18 DEF PopOldest, Past, At
  <2>2. CASE cache = <<>>
    BY <1>0, <1>9, <1>18, <2>1, <2>2 DEF PopOldest
  <2>3. CASE cache # <<>>
    <3>1. cache' = Tail(cache) /\ Storing(w, "trim")
      BY <1>18, <2>3 DEF PopOldest
    <3>2. \A j \in 1..Len(cache') : cache'[j] \in decided
      BY <1>0, <2>3, <3>1, TailShape
    <3> QED BY <1>14, <2>1, <3>1, <3>2
  <2> QED BY <2>2, <2>3
<1>19. CASE UNCHANGED vars
  BY <1>1, <1>19 DEF vars, history
<1> QED
  BY <1>2, <1>4, <1>5, <1>6, <1>7, <1>11, <1>12, <1>13, <1>15, <1>16, <1>17, <1>18,
     <1>19 DEF Next, serve_once

(* With any number of workers in the cache at once, every answer is a decision *)
(* about its own envelope, or a refusal or conflict that claims no acceptance. *)
THEOREM AnswersTrue == Spec => []AnswersAreTrue
<1>1. Init => TypeInv /\ TruthInv
  <2> SUFFICES ASSUME Init PROVE TypeInv /\ TruthInv
    OBVIOUS
  <2>1. Len(<<>>) = 0
    BY EmptySeq
  <2> QED BY <2>1, LoopInit DEF Init, TruthInv, WorkerTrue, Past, At
<1>2. TypeInv /\ TruthInv /\ [Next]_vars => (TypeInv /\ TruthInv)'
  BY TypeStep, TruthStep
<1>3. TruthInv => AnswersAreTrue
  BY DEF TruthInv, WorkerTrue, AnswerTrue, AnswersAreTrue
<1> QED BY <1>1, <1>2, <1>3, PTL DEF Spec
-----------------------------------------------------------------------------
(* What happens to the ids in the cache. *)
LEMMA MoveKeepsIds ==
    ASSUME NEW i \in 1..Len(cache), cache \in Seq(Decision), cache' = MoveToEnd(cache, i)
    PROVE  \A m : InCache(m)' <=> InCache(m)
<1>1. /\ Len(cache') = Len(cache) /\ Len(cache) \in Nat
      /\ \A j \in 1..Len(cache) : cache'[j] =
            IF j < i THEN cache[j] ELSE IF j < Len(cache) THEN cache[j + 1] ELSE cache[i]
  BY MoveKeeps
<1>2. ASSUME NEW m, NEW j \in 1..Len(cache), cache[j].env.message_id = m
      PROVE  InCache(m)'
  <2> DEFINE k == IF j < i THEN j ELSE IF j = i THEN Len(cache) ELSE j - 1
  <2>1. k \in 1..Len(cache') /\ cache'[k] = cache[j]
    BY <1>1
  <2> HIDE DEF k
  <2> QED BY <1>2, <2>1 DEF InCache
<1>3. ASSUME NEW m, NEW j \in 1..Len(cache'), cache'[j].env.message_id = m
      PROVE  InCache(m)
  <2> DEFINE k == IF j < i THEN j ELSE IF j < Len(cache) THEN j + 1 ELSE i
  <2>1. k \in 1..Len(cache) /\ cache[k] = cache'[j]
    BY <1>1
  <2> HIDE DEF k
  <2> QED BY <1>3, <2>1 DEF InCache
<1> QED BY <1>2, <1>3 DEF InCache

LEMMA StoredAddsId ==
    ASSUME NEW d \in Decision, cache \in Seq(Decision), cache' = Stored(d)
    PROVE  \A m : InCache(m)' <=> InCache(m) \/ m = d.env.message_id
<1>1. /\ Len(cache) \in Nat
      /\ Len(cache') = IF Position(d.env) = {} THEN Len(cache) + 1 ELSE Len(cache)
      /\ \A j \in 1..Len(cache') : cache'[j] =
            IF j \in Position(d.env) \/ j > Len(cache) THEN d ELSE cache[j]
  BY StoredShape
<1>2. ASSUME NEW m, InCache(m) PROVE InCache(m)'
  <2>1. PICK j \in 1..Len(cache) : cache[j].env.message_id = m
    BY <1>2 DEF InCache
  <2>2. j \in 1..Len(cache') /\ cache'[j].env.message_id = m
    BY <1>1, <2>1 DEF Position
  <2> QED BY <2>2 DEF InCache
<1>3. ASSUME NEW m, InCache(m)' PROVE InCache(m) \/ m = d.env.message_id
  BY <1>1, <1>3 DEF InCache
<1>4. InCache(d.env.message_id)'
  <2>1. CASE Position(d.env) = {}
    <3>1. Len(cache) + 1 \in 1..Len(cache') /\ cache'[Len(cache) + 1] = d
      BY <1>1, <2>1
    <3> QED BY <3>1 DEF InCache
  <2>2. CASE Position(d.env) # {}
    <3>1. PICK j : j \in Position(d.env)
      BY <2>2
    <3>2. j \in 1..Len(cache') /\ cache'[j] = d
      BY <1>1, <2>2, <3>1 DEF Position
    <3> QED BY <3>2 DEF InCache
  <2> QED BY <2>1, <2>2
<1> QED BY <1>2, <1>3, <1>4

LEMMA TailDropsId ==
    ASSUME cache \in Seq(Decision), cache # <<>>, cache' = Tail(cache)
    PROVE  /\ \A m : InCache(m) => InCache(m)' \/ m = Head(cache).env.message_id
           /\ \A m : InCache(m)' => InCache(m)
<1>1. /\ Head(cache) = cache[1]
      /\ Len(cache) \in Nat \ {0}
      /\ Len(cache') = Len(cache) - 1
      /\ \A j \in 1..(Len(cache) - 1) : cache'[j] = cache[j + 1]
  BY TailShape
<1>2. ASSUME NEW m, InCache(m), m # Head(cache).env.message_id PROVE InCache(m)'
  <2>1. PICK j \in 1..Len(cache) : cache[j].env.message_id = m
    BY <1>2 DEF InCache
  <2>2. j - 1 \in 1..Len(cache') /\ cache'[j - 1] = cache[j]
    BY <1>1, <1>2, <2>1
  <2> QED BY <2>1, <2>2 DEF InCache
<1>3. ASSUME NEW m, InCache(m)' PROVE InCache(m)
  <2>1. PICK j \in 1..Len(cache') : cache'[j].env.message_id = m
    BY <1>3 DEF InCache
  <2>2. j + 1 \in 1..Len(cache) /\ cache[j + 1] = cache'[j]
    BY <1>1, <2>1
  <2> QED BY <2>1, <2>2 DEF InCache
<1> QED BY <1>2, <1>3
-----------------------------------------------------------------------------
(* A step that decides nothing, starts no call and forgets only what it says. *)
LEMMA RepeatKept ==
    ASSUME TypeInv, RepeatInv, UNCHANGED decisions,
           overlapped \subseteq overlapped', forgotten \subseteq forgotten',
           \A m \in Ids : InCache(m) => InCache(m)' \/ m \in forgotten',
           \A m \in Ids, w \in Workers :
              Of(w, {"call"}, m)' => Of(w, {"call"}, m),
           \A m \in Ids, w \in Workers :
              Of(w, {"store"}, m)' => Of(w, {"store"}, m),
           \A m \in Ids, w \in Workers :
              Of(w, {"store"}, m) => Of(w, {"store"}, m)' \/ InCache(m)'
    PROVE  RepeatInv'
<1> SUFFICES ASSUME NEW m \in Ids, m \notin overlapped' \cup forgotten'
             PROVE  DecidedOnce(m)'
  BY DEF RepeatInv
<1>1. DecidedOnce(m)
  BY DEF RepeatInv
<1>2. \A w \in Workers : Of(w, {"call", "store"}, m)' => Of(w, {"call", "store"}, m)
  BY DEF Of, At
<1> QED BY <1>1, <1>2 DEF DecidedOnce

(* Such a step of one worker that keeps the cache and is not about the receiver. *)
LEMMA RepeatAside ==
    ASSUME TypeInv, RepeatInv, NEW w \in Workers, NEW t,
           thread' = [thread EXCEPT ![w] = t],
           UNCHANGED <<decisions, overlapped, forgotten>>,
           \A m \in Ids : InCache(m) => InCache(m)',
           t.at \notin {"call", "store"},
           ~ At(w, {"store"})
    PROVE  RepeatInv'
<1>1. /\ thread'[w] = t
      /\ \A v \in Workers \ {w} : thread'[v] = thread[v]
  BY DEF TypeInv, ThreadsTyped
<1>2. \A m \in Ids, v \in Workers : Of(v, {"call"}, m)' => Of(v, {"call"}, m)
  BY <1>1 DEF Of, At
<1>3. \A m \in Ids, v \in Workers : Of(v, {"store"}, m)' <=> Of(v, {"store"}, m)
  BY <1>1 DEF Of, At
<1> QED BY <1>2, <1>3, RepeatKept

LEMMA RepeatStep == TypeInv /\ RepeatInv /\ [Next]_vars => RepeatInv'
<1> SUFFICES ASSUME TypeInv, RepeatInv, [Next]_vars PROVE RepeatInv'
  OBVIOUS
<1>0. /\ DOMAIN thread = Workers
      /\ cache \in Seq(Decision)
      /\ decisions \in [Ids -> Nat]
  BY DEF TypeInv, ThreadsTyped
<1>1. ASSUME UNCHANGED <<cache, thread, decisions, overlapped, forgotten>> PROVE RepeatInv'
  BY <1>1 DEF RepeatInv, DecidedOnce, InCache, Of, At
<1>2. CASE bind \/ Detach \/ CloseSocket \/ \E e \in Envelopes : Connect(e)
  BY <1>1, <1>2 DEF bind, Detach, CloseSocket, Connect, history
<1>3. ASSUME UNCHANGED cache PROVE \A m \in Ids : InCache(m) => InCache(m)'
  BY <1>3 DEF InCache
<1>4. ASSUME NEW w \in Workers, NEW accepted, NEW detail, Answering(w, accepted, detail),
             UNCHANGED <<decisions, overlapped, forgotten>>,
             \A m \in Ids : InCache(m) => InCache(m)',
             ~ At(w, {"store"})
      PROVE  RepeatInv'
  <2> DEFINE t == [at |-> "ack", env |-> thread[w].env, accepted |-> accepted,
                   detail |-> detail]
  <2>1. thread' = [thread EXCEPT ![w] = t] /\ t.at \notin {"call", "store"}
    BY <1>4 DEF Answering
  <2> HIDE DEF t
  <2> QED BY <1>4, <2>1, RepeatAside
<1>5. ASSUME NEW w \in Workers, NEW step \in {"move", "trim", "pop"}, Storing(w, step),
             UNCHANGED <<decisions, overlapped, forgotten>>,
             \A m \in Ids : InCache(m) => InCache(m)',
             ~ At(w, {"store"})
      PROVE  RepeatInv'
  <2> DEFINE t == [at |-> step, env |-> thread[w].env, accepted |-> thread[w].accepted]
  <2>1. thread' = [thread EXCEPT ![w] = t] /\ t.at \notin {"call", "store"}
    BY <1>5 DEF Storing
  <2> HIDE DEF t
  <2> QED BY <1>5, <2>1, RepeatAside
<1>6. ASSUME NEW w \in Workers, StartLoop(w) \/ CheckBound(w) \/ NotBound(w)
                \/ ReadListener(w) \/ AcceptTimesOut(w) \/ AcceptFails(w)
                \/ ReceiveFails(w) \/ Ack(w)
      PROVE  RepeatInv'
  <2>1. /\ UNCHANGED <<cache, decisions, overlapped, forgotten>>
        /\ ~ At(w, {"store"})
        /\ \/ thread' = [thread EXCEPT ![w] = [at |-> "check"]]
           \/ thread' = [thread EXCEPT ![w] = [at |-> "read"]]
           \/ thread' = [thread EXCEPT ![w] = [at |-> "ended"]]
           \/ thread' = [thread EXCEPT ![w] = [at |-> "accept", socket |-> listener]]
    BY <1>6 DEF StartLoop, CheckBound, NotBound, ReadListener, AcceptTimesOut,
                AcceptFails, ReceiveFails, Ack, Return, Raise, history, At
  <2> QED BY <1>3, <2>1, RepeatAside
<1>7. ASSUME NEW w \in Workers, AcceptConnection(w) PROVE RepeatInv'
  <2>1. /\ UNCHANGED <<cache, decisions, overlapped, forgotten>>
        /\ ~ At(w, {"store"})
    BY <1>7 DEF AcceptConnection, history, At
  <2> QED BY <1>3, <1>7, <2>1, RepeatAside DEF AcceptConnection
<1>8. ASSUME NEW w \in Workers, ReceiveSome(w) PROVE RepeatInv'
  <2>1. /\ UNCHANGED <<cache, decisions, overlapped, forgotten>>
        /\ ~ At(w, {"store"})
        /\ \E left \in 0..(thread[w].left - 1) :
              thread' = [thread EXCEPT ![w] =
                            IF left = 0
                            THEN [at |-> "lookup", env |-> thread[w].env]
                            ELSE [at |-> "receive", env |-> thread[w].env, left |-> left]]
    BY <1>8 DEF ReceiveSome, history, At
  <2> QED BY <1>3, <2>1, RepeatAside
<1>9. ASSUME NEW w \in Workers, LookUp(w) PROVE RepeatInv'
  <2> DEFINE e == thread[w].env
  <2>1. UNCHANGED <<cache, decisions, forgotten>> /\ At(w, {"lookup"})
    BY <1>9 DEF LookUp
  <2>2. ~ At(w, {"store"}) /\ ~ At(w, {"call"})
    BY <2>1 DEF At
  <2>3. ASSUME NEW i, thread' = [thread EXCEPT ![w] =
                                    [at |-> "refresh", env |-> e, cached |-> cache[i]]],
               UNCHANGED overlapped
        PROVE  RepeatInv'
    BY <1>3, <2>1, <2>2, <2>3, RepeatAside
  <2>4. CASE /\ Position(e) = {}
             /\ thread' = [thread EXCEPT ![w] = [at |-> "call", env |-> e]]
             /\ overlapped' = overlapped \cup
                   {m \in {e.message_id} : \E v \in Workers : AskingAbout(v, e)}
    <3>1. /\ thread'[w] = [at |-> "call", env |-> e]
          /\ \A v \in Workers \ {w} : thread'[v] = thread[v]
      BY <1>0, <2>4
    <3> SUFFICES ASSUME NEW m \in Ids, m \notin overlapped' \cup forgotten'
                 PROVE  DecidedOnce(m)'
      BY DEF RepeatInv
    <3>2. DecidedOnce(m)
      BY <2>1, <2>4 DEF RepeatInv
    <3>3. InCache(m)' <=> InCache(m)
      BY <2>1 DEF InCache
    <3>4. \A v \in Workers \ {w} : \A steps : Of(v, steps, m)' <=> Of(v, steps, m)
      BY <3>1 DEF Of, At
    <3>5. /\ ~ Of(w, {"store"}, m) /\ ~ Of(w, {"call"}, m)
          /\ ~ Of(w, {"call", "store"}, m) /\ ~ Of(w, {"store"}, m)'
      BY <2>1, <3>1 DEF Of, At
    <3>6. CASE m = e.message_id
      <4>1. \A v \in Workers : ~ Of(v, {"call", "store"}, m)
        BY <2>4, <3>6 DEF AskingAbout, Of
      <4>2. \A v \in Workers : ~ Of(v, {"call"}, m) /\ ~ Of(v, {"store"}, m)
        BY <4>1 DEF Of, At
      <4>3. ~ InCache(m)
        BY <2>4, <3>6 DEF Position, InCache
      <4>4. decisions[m] = 0
        BY <1>0, <3>2, <4>2, <4>3 DEF DecidedOnce
      <4> QED BY <2>1, <3>4, <3>5, <4>1, <4>2, <4>4 DEF DecidedOnce
    <3>7. CASE m # e.message_id
      <4>1. ~ Of(w, {"call"}, m)' /\ ~ Of(w, {"call", "store"}, m)'
        BY <3>1, <3>7 DEF Of
      <4> QED BY <2>1, <3>2, <3>3, <3>4, <3>5, <4>1 DEF DecidedOnce
    <3> QED BY <3>6, <3>7
  <2> QED BY <1>9, <2>3, <2>4 DEF LookUp
<1>10. ASSUME NEW w \in Workers, Refresh(w) PROVE RepeatInv'
  <2>1. UNCHANGED <<decisions, overlapped, forgotten>> /\ ~ At(w, {"store"})
    BY <1>10 DEF Refresh, history, At
  <2>2. \A m \in Ids : InCache(m) => InCache(m)'
    <3>1. CASE UNCHANGED cache
      BY <1>3, <3>1
    <3>2. CASE \E i \in Position(thread[w].env) : cache' = MoveToEnd(cache, i)
      BY <1>0, <3>2, MoveKeepsIds DEF Position
    <3> QED BY <1>10, <3>1, <3>2 DEF Refresh
  <2> QED BY <1>4, <1>10, <2>1, <2>2 DEF Refresh, Refuse
<1>11. ASSUME NEW w \in Workers, NEW accepted \in BOOLEAN, ReceiverReturns(w, accepted)
       PROVE  RepeatInv'
  <2> DEFINE k == thread[w].env.message_id
  <2>1. /\ At(w, {"call"})
        /\ thread'[w] = [at |-> "store", env |-> thread[w].env, accepted |-> accepted]
        /\ \A v \in Workers \ {w} : thread'[v] = thread[v]
        /\ decisions' = [decisions EXCEPT ![k] = @ + 1]
        /\ UNCHANGED <<cache, overlapped, forgotten>>
    BY <1>0, <1>11 DEF ReceiverReturns
  <2>2. k \in Ids
    BY <2>1 DEF TypeInv, ThreadsTyped, At, Ids
  <2> SUFFICES ASSUME NEW m \in Ids, m \notin overlapped' \cup forgotten'
               PROVE  DecidedOnce(m)'
    BY DEF RepeatInv
  <2>3. DecidedOnce(m)
    BY <2>1 DEF RepeatInv
  <2>4. InCache(m)' <=> InCache(m)
    BY <2>1 DEF InCache
  <2>5. \A v \in Workers \ {w} : \A steps : Of(v, steps, m)' <=> Of(v, steps, m)
    BY <2>1 DEF Of, At
  <2>6. CASE m = k
    <3>1. /\ Of(w, {"call"}, m) /\ Of(w, {"call", "store"}, m)
          /\ Of(w, {"store"}, m)' /\ ~ Of(w, {"call"}, m)'
      BY <2>1, <2>6 DEF Of, At
    <3>2. \A v \in Workers \ {w} : ~ Of(v, {"call", "store"}, m) /\ ~ Of(v, {"call"}, m)
      BY <2>3, <3>1 DEF DecidedOnce, Of, At
    <3>3. decisions[m] = 0
      BY <2>3, <3>1 DEF DecidedOnce
    <3>4. decisions'[m] = 1
      BY <1>0, <2>1, <2>2, <2>6, <3>3
    <3>5. \A v \in Workers : Of(v, {"call", "store"}, m)' => v = w
      BY <2>5, <3>2
    <3>6. \A v \in Workers : ~ Of(v, {"call"}, m)'
      BY <2>5, <3>1, <3>2
    <3> QED BY <3>1, <3>4, <3>5, <3>6 DEF DecidedOnce
  <2>7. CASE m # k
    <3>1. \A steps : ~ Of(w, steps, m) /\ ~ Of(w, steps, m)'
      BY <2>1, <2>7 DEF Of
    <3>2. decisions'[m] = decisions[m]
      BY <1>0, <2>1, <2>7
    <3> QED BY <2>3, <2>4, <2>5, <3>1, <3>2 DEF DecidedOnce
  <2> QED BY <2>6, <2>7
<1>12. ASSUME NEW w \in Workers, ReceiverRaises(w) PROVE RepeatInv'
  <2>1. UNCHANGED <<cache, decisions, overlapped, forgotten>> /\ ~ At(w, {"store"})
    BY <1>12 DEF ReceiverRaises, history, At
  <2> QED BY <1>3, <1>4, <1>12, <2>1 DEF ReceiverRaises, Refuse
<1>13. ASSUME NEW w \in Workers, Store(w) PROVE RepeatInv'
  <2> DEFINE d == [env |-> thread[w].env, accepted |-> thread[w].accepted]
  <2>1. At(w, {"store"}) /\ d \in Decision /\ cache' = Stored(d)
    BY <1>13 DEF Store, TypeInv, ThreadsTyped, Past, At, Decision
  <2>2. \A m : InCache(m)' <=> InCache(m) \/ m = thread[w].env.message_id
    <3>1. d.env = thread[w].env
      OBVIOUS
    <3> HIDE DEF d
    <3> QED BY <1>0, <2>1, <3>1, StoredAddsId
  <2>3. /\ thread'[w] = [at |-> "move", env |-> thread[w].env,
                         accepted |-> thread[w].accepted]
        /\ \A v \in Workers \ {w} : thread'[v] = thread[v]
        /\ UNCHANGED <<decisions, overlapped, forgotten>>
    BY <1>0, <1>13 DEF Store, Storing, history
  <2>4. \A m, v : v \in Workers => (Of(v, {"call"}, m)' => Of(v, {"call"}, m))
    BY <2>3 DEF Of, At
  <2>5. \A m, v : v \in Workers => (Of(v, {"store"}, m)' => Of(v, {"store"}, m))
    BY <2>3 DEF Of, At
  <2>6. \A m, v : v \in Workers =>
           (Of(v, {"store"}, m) => Of(v, {"store"}, m)' \/ InCache(m)')
    BY <2>2, <2>3 DEF Of, At
  <2> QED BY <2>2, <2>3, <2>4, <2>5, <2>6, RepeatKept
<1>14. ASSUME NEW w \in Workers, MoveStored(w) PROVE RepeatInv'
  <2>1. UNCHANGED <<decisions, overlapped, forgotten>> /\ ~ At(w, {"store"})
    BY <1>14 DEF MoveStored, history, At
  <2>2. \A m \in Ids : InCache(m) => InCache(m)'
    <3>1. CASE UNCHANGED cache
      BY <1>3, <3>1
    <3>2. CASE \E i \in Position(thread[w].env) : cache' = MoveToEnd(cache, i)
      BY <1>0, <3>2, MoveKeepsIds DEF Position
    <3> QED BY <1>14, <3>1, <3>2 DEF MoveStored
  <2> QED BY <1>4, <1>5, <1>14, <2>1, <2>2 DEF MoveStored, Refuse
<1>15. ASSUME NEW w \in Workers, CheckSize(w) PROVE RepeatInv'
  <2>1. UNCHANGED <<cache, decisions, overlapped, forgotten>> /\ ~ At(w, {"store"})
    BY <1>15 DEF CheckSize, history, At
  <2> QED BY <1>3, <1>4, <1>5, <1>15, <2>1 DEF CheckSize
<1>16. ASSUME NEW w \in Workers, PopOldest(w) PROVE RepeatInv'
  <2>1. UNCHANGED <<decisions, overlapped>> /\ At(w, {"pop"})
    BY <1>16 DEF PopOldest
  <2>2. CASE cache = <<>>
    <3>1. UNCHANGED <<cache, forgotten>> /\ Refuse(w) /\ ~ At(w, {"store"})
      BY <1>16, <2>1, <2>2 DEF PopOldest, At
    <3> QED BY <1>3, <1>4, <2>1, <3>1 DEF Refuse
  <2>3. CASE cache # <<>>
    <3>1. /\ cache' = Tail(cache)
          /\ forgotten' = forgotten \cup {Head(cache).env.message_id}
          /\ thread'[w] = [at |-> "trim", env |-> thread[w].env,
                           accepted |-> thread[w].accepted]
          /\ \A v \in Workers \ {w} : thread'[v] = thread[v]
      BY <1>0, <1>16, <2>3 DEF PopOldest, Storing
    <3>2. \A m : InCache(m) => InCache(m)' \/ m \in forgotten'
      BY <1>0, <2>3, <3>1, TailDropsId
    <3>3. \A m, v : v \in Workers => (Of(v, {"call"}, m)' => Of(v, {"call"}, m))
      BY <3>1 DEF Of, At
    <3>4. \A m, v : v \in Workers => (Of(v, {"store"}, m)' <=> Of(v, {"store"}, m))
      BY <2>1, <3>1 DEF Of, At
    <3>5. forgotten \subseteq forgotten'
      BY <3>1
    <3> QED BY <2>1, <3>2, <3>3, <3>4, <3>5, RepeatKept
  <2> QED BY <2>2, <2>3
<1>17. CASE UNCHANGED vars
  BY <1>1, <1>17 DEF vars, history
<1> QED
  BY <1>2, <1>6, <1>7, <1>8, <1>9, <1>10, <1>11, <1>12, <1>13, <1>14, <1>15, <1>16,
     <1>17 DEF Next, serve_once

(* Without a lock around the cache, the receiver decides an id again only after *)
(* its outcome fell out, or when two workers had asked about it at once.        *)
THEOREM RepeatsExplained == Spec => []RepeatedOnlyIfOverlapping
<1>1. Init => TypeInv /\ RepeatInv
  <2> SUFFICES ASSUME Init PROVE TypeInv /\ RepeatInv
    OBVIOUS
  <2>1. TypeInv
    BY LoopInit
  <2>2. ASSUME NEW m \in Ids PROVE DecidedOnce(m)
    BY DEF Init, DecidedOnce, Of, At
  <2> QED BY <2>1, <2>2 DEF RepeatInv
<1>2. TypeInv /\ RepeatInv /\ [Next]_vars => (TypeInv /\ RepeatInv)'
  BY TypeStep, RepeatStep
<1>3. TypeInv /\ RepeatInv => RepeatedOnlyIfOverlapping
  BY DEF TypeInv, RepeatInv, DecidedOnce, RepeatedOnlyIfOverlapping
<1> QED BY <1>1, <1>2, <1>3, PTL DEF Spec
-----------------------------------------------------------------------------
LEMMA TrimmersFinite == IsFiniteSet(Trimmers) /\ Cardinality(Trimmers) \in Nat
<1>1. Trimmers \in SUBSET Workers
  BY DEF Trimmers
<1> QED BY <1>1, LoopAssumption, FS_Subset, FS_CardinalityType

(* Each id in MovingIds has a mover of its own. *)
LEMMA MoversBound ==
    LET Movers == {w \in Workers : At(w, {"move"})}
    IN  /\ IsFiniteSet(MovingIds) /\ Cardinality(MovingIds) \in Nat
        /\ IsFiniteSet(Movers) /\ Cardinality(Movers) \in Nat
        /\ Cardinality(MovingIds) <= Cardinality(Movers)
<1> DEFINE Movers == {w \in Workers : At(w, {"move"})}
           M == {w \in Movers : thread[w].env.message_id \in MovingIds}
           f == [w \in M |-> thread[w].env.message_id]
<1>1. Movers \in SUBSET Workers /\ M \in SUBSET Movers
  OBVIOUS
<1>2. IsFiniteSet(Movers) /\ Cardinality(Movers) \in Nat
  BY <1>1, LoopAssumption, FS_Subset, FS_CardinalityType
<1>3. IsFiniteSet(M) /\ Cardinality(M) \in Nat /\ Cardinality(M) <= Cardinality(Movers)
  BY <1>1, <1>2, FS_Subset, FS_CardinalityType
<1>4. f \in Surjection(M, MovingIds)
  <2>1. f \in [M -> MovingIds]
    OBVIOUS
  <2>2. ASSUME NEW m \in MovingIds PROVE \E w \in M : f[w] = m
    BY DEF MovingIds, Of
  <2> QED BY <2>1, <2>2 DEF Surjection
<1>5. IsFiniteSet(MovingIds) /\ Cardinality(MovingIds) <= Cardinality(M)
  BY <1>3, <1>4, FS_Surjection
<1> QED BY <1>2, <1>3, <1>5, FS_CardinalityType

LEMMA MoversFinite == IsFiniteSet(MovingIds) /\ Cardinality(MovingIds) \in Nat
BY MoversBound

(* A set that loses at most one element. *)
LEMMA LosesOne ==
    ASSUME NEW S, NEW T, NEW x, IsFiniteSet(S), IsFiniteSet(T), S \ {x} \subseteq T
    PROVE  Cardinality(T) >= Cardinality(S) - 1
<1>1. /\ IsFiniteSet(S \ {x})
      /\ Cardinality(S \ {x}) = IF x \in S THEN Cardinality(S) - 1 ELSE Cardinality(S)
  BY FS_RemoveElement
<1>2. Cardinality(S \ {x}) <= Cardinality(T)
  BY FS_Subset
<1>3. Cardinality(S) \in Nat /\ Cardinality(T) \in Nat /\ Cardinality(S \ {x}) \in Nat
  BY <1>1, FS_CardinalityType
<1> QED BY <1>1, <1>2, <1>3

(* A step of one worker that keeps the cache and is not in the trimming. *)
LEMMA CapacityAside ==
    ASSUME TypeInv, CapacityInv, NEW w \in Workers, NEW t,
           thread' = [thread EXCEPT ![w] = t], UNCHANGED cache,
           ~ At(w, {"move", "trim", "pop"}), t.at \notin {"move", "trim", "pop"}
    PROVE  CapacityInv'
<1>1. /\ thread'[w] = t
      /\ \A v \in Workers \ {w} : thread'[v] = thread[v]
  BY DEF TypeInv, ThreadsTyped
<1>2. Trimmers' = Trimmers
  BY <1>1 DEF Trimmers, At
<1>3. \A v \in Workers : \A m : Of(v, {"move"}, m)' <=> Of(v, {"move"}, m)
  BY <1>1 DEF Of, At
<1>4. MovingIds' = MovingIds
  BY <1>3 DEF MovingIds, InCache
<1> QED BY <1>2, <1>4 DEF CapacityInv

(* The cache is as long as before and holds the same ids. *)
LEMMA DistinctAfterMove ==
    ASSUME CapacityInv, cache \in Seq(Decision), NEW i \in 1..Len(cache),
           cache' = MoveToEnd(cache, i)
    PROVE  \A j, k \in 1..Len(cache') :
              cache'[j].env.message_id = cache'[k].env.message_id => j = k
<1> DEFINE at(j) == IF j < i THEN j ELSE IF j < Len(cache) THEN j + 1 ELSE i
<1>1. /\ Len(cache') = Len(cache) /\ Len(cache) \in Nat
      /\ \A j \in 1..Len(cache) : cache'[j] = cache[at(j)]
  BY MoveKeeps
<1>2. /\ \A j \in 1..Len(cache) : at(j) \in 1..Len(cache)
      /\ \A j, k \in 1..Len(cache) : at(j) = at(k) => j = k
  BY <1>1
<1> HIDE DEF at
<1>3. \A j, k \in 1..Len(cache) :
         cache[j].env.message_id = cache[k].env.message_id => j = k
  BY DEF CapacityInv
<1> SUFFICES ASSUME NEW j \in 1..Len(cache), NEW k \in 1..Len(cache),
                    cache'[j].env.message_id = cache'[k].env.message_id
             PROVE  j = k
  BY <1>1
<1>4. cache[at(j)].env.message_id = cache[at(k)].env.message_id
  BY <1>1
<1>5. at(j) = at(k)
  BY <1>2, <1>3, <1>4
<1> QED BY <1>2, <1>5

LEMMA DistinctAfterStore ==
    ASSUME CapacityInv, cache \in Seq(Decision), NEW d \in Decision, cache' = Stored(d)
    PROVE  \A j, k \in 1..Len(cache') :
              cache'[j].env.message_id = cache'[k].env.message_id => j = k
<1>1. /\ Len(cache) \in Nat
      /\ Len(cache') = IF Position(d.env) = {} THEN Len(cache) + 1 ELSE Len(cache)
      /\ \A j \in 1..Len(cache') : cache'[j] =
            IF j \in Position(d.env) \/ j > Len(cache) THEN d ELSE cache[j]
  BY StoredShape
<1>2. CASE Position(d.env) = {}
  <2>1. \A j \in 1..Len(cache) : cache[j].env.message_id # d.env.message_id
    BY <1>2 DEF Position
  <2> QED BY <1>1, <1>2, <2>1 DEF CapacityInv
<1>3. CASE Position(d.env) # {}
  <2>1. \A j \in 1..Len(cache) :
           cache'[j].env.message_id = cache[j].env.message_id
    BY <1>1, <1>3 DEF Position
  <2> QED BY <1>1, <1>3, <2>1 DEF CapacityInv
<1> QED BY <1>2, <1>3

LEMMA CapacityStep == TypeInv /\ CapacityInv /\ [Next]_vars => CapacityInv'
<1> SUFFICES ASSUME TypeInv, CapacityInv, [Next]_vars PROVE CapacityInv'
  OBVIOUS
<1>0. /\ DOMAIN thread = Workers
      /\ cache \in Seq(Decision)
      /\ Len(cache) \in Nat
      /\ ReplayCapacity \in Nat
      /\ Len(cache) <= ReplayCapacity + Cardinality(MovingIds) + Cardinality(Trimmers)
      /\ Cardinality(MovingIds) \in Nat /\ IsFiniteSet(MovingIds)
      /\ Cardinality(Trimmers) \in Nat /\ IsFiniteSet(Trimmers)
  BY LenProperties, LoopAssumption, MoversFinite, TrimmersFinite
     DEF TypeInv, ThreadsTyped, CapacityInv
<1>00. /\ Cardinality(MovingIds') \in Nat /\ IsFiniteSet(MovingIds')
       /\ Cardinality(Trimmers') \in Nat /\ IsFiniteSet(Trimmers')
  <2>1. Trimmers' \in SUBSET Workers
    BY DEF Trimmers
  <2>2. IsFiniteSet(Trimmers') /\ Cardinality(Trimmers') \in Nat
    BY <2>1, LoopAssumption, FS_Subset, FS_CardinalityType
  <2> DEFINE M == {w \in Workers : At(w, {"move"})' /\ thread'[w].env.message_id \in MovingIds'}
             f == [w \in M |-> thread'[w].env.message_id]
  <2>3. M \in SUBSET Workers
    OBVIOUS
  <2>4. f \in [M -> MovingIds'] /\ \A m \in MovingIds' : \E w \in M : f[w] = m
    BY DEF MovingIds, Of
  <2>5. f \in Surjection(M, MovingIds')
    BY <2>4 DEF Surjection
  <2>6. IsFiniteSet(M)
    BY <2>3, LoopAssumption, FS_Subset
  <2>7. IsFiniteSet(MovingIds')
    BY <2>5, <2>6, FS_Surjection
  <2> QED BY <2>2, <2>7, FS_CardinalityType
<1>1. ASSUME UNCHANGED <<cache, thread>> PROVE CapacityInv'
  BY <1>1 DEF CapacityInv, MovingIds, Trimmers, InCache, Of, At
<1>2. CASE bind \/ Detach \/ CloseSocket \/ \E e \in Envelopes : Connect(e)
  BY <1>1, <1>2 DEF bind, Detach, CloseSocket, Connect
<1>3. ASSUME NEW w \in Workers, StartLoop(w) \/ CheckBound(w) \/ NotBound(w)
                \/ ReadListener(w) \/ AcceptTimesOut(w) \/ AcceptFails(w)
                \/ ReceiveFails(w) \/ Ack(w)
      PROVE  CapacityInv'
  <2>1. /\ UNCHANGED cache
        /\ ~ At(w, {"move", "trim", "pop"})
        /\ \/ thread' = [thread EXCEPT ![w] = [at |-> "check"]]
           \/ thread' = [thread EXCEPT ![w] = [at |-> "read"]]
           \/ thread' = [thread EXCEPT ![w] = [at |-> "ended"]]
           \/ thread' = [thread EXCEPT ![w] = [at |-> "accept", socket |-> listener]]
    BY <1>3 DEF StartLoop, CheckBound, NotBound, ReadListener, AcceptTimesOut,
                AcceptFails, ReceiveFails, Ack, Return, Raise, At
  <2> QED BY <2>1, CapacityAside
<1>4. ASSUME NEW w \in Workers, AcceptConnection(w) PROVE CapacityInv'
  <2>1. UNCHANGED cache /\ ~ At(w, {"move", "trim", "pop"})
    BY <1>4 DEF AcceptConnection, At
  <2> QED BY <1>4, <2>1, CapacityAside DEF AcceptConnection
<1>5. ASSUME NEW w \in Workers, ReceiveSome(w) PROVE CapacityInv'
  <2>1. /\ UNCHANGED cache
        /\ ~ At(w, {"move", "trim", "pop"})
        /\ \E left \in 0..(thread[w].left - 1) :
              thread' = [thread EXCEPT ![w] =
                            IF left = 0
                            THEN [at |-> "lookup", env |-> thread[w].env]
                            ELSE [at |-> "receive", env |-> thread[w].env, left |-> left]]
    BY <1>5 DEF ReceiveSome, At
  <2> QED BY <2>1, CapacityAside
<1>6. ASSUME NEW w \in Workers, LookUp(w) PROVE CapacityInv'
  <2>1. UNCHANGED cache /\ ~ At(w, {"move", "trim", "pop"})
    BY <1>6 DEF LookUp, At
  <2>2. \/ thread' = [thread EXCEPT ![w] = [at |-> "call", env |-> thread[w].env]]
        \/ \E i : thread' = [thread EXCEPT ![w] = [at |-> "refresh", env |-> thread[w].env,
                                                  cached |-> cache[i]]]
    BY <1>6 DEF LookUp
  <2> QED BY <2>1, <2>2, CapacityAside
<1>7. ASSUME NEW w \in Workers, NEW accepted \in BOOLEAN, ReceiverReturns(w, accepted)
      PROVE  CapacityInv'
  <2>1. UNCHANGED cache /\ ~ At(w, {"move", "trim", "pop"})
    BY <1>7 DEF ReceiverReturns, At
  <2> QED BY <1>7, <2>1, CapacityAside DEF ReceiverReturns
<1>8. ASSUME NEW w \in Workers, NEW accepted, NEW detail, Answering(w, accepted, detail)
      PROVE  /\ thread'[w].at = "ack"
             /\ \A v \in Workers \ {w} : thread'[v] = thread[v]
  BY <1>0, <1>8 DEF Answering
<1>9. ASSUME NEW w \in Workers, NEW step \in {"move", "trim", "pop"}, Storing(w, step)
      PROVE  /\ thread'[w].at = step
             /\ thread'[w].env = thread[w].env
             /\ \A v \in Workers \ {w} : thread'[v] = thread[v]
  BY <1>0, <1>9 DEF Storing
<1>10. ASSUME NEW w \in Workers, NEW accepted, NEW detail, Answering(w, accepted, detail),
              ~ At(w, {"trim", "pop"})
       PROVE  Trimmers' = Trimmers
  BY <1>8, <1>10 DEF Trimmers, At
<1>11. ASSUME NEW w \in Workers, NEW accepted, NEW detail, Answering(w, accepted, detail),
              \A m : InCache(m)' <=> InCache(m),
              ~ At(w, {"move"}) \/ ~ InCache(thread[w].env.message_id)
       PROVE  MovingIds' = MovingIds
  <2>1. \A v \in Workers : \A m : InCache(m) =>
           (Of(v, {"move"}, m)' <=> Of(v, {"move"}, m))
    BY <1>8, <1>11 DEF Of, At
  <2> QED BY <1>11, <2>1 DEF MovingIds
<1>12. ASSUME NEW w \in Workers, ReceiverRaises(w) PROVE CapacityInv'
  <2>1. UNCHANGED cache /\ ~ At(w, {"trim", "pop"}) /\ ~ At(w, {"move"})
    BY <1>12 DEF ReceiverRaises, At
  <2>2. Answering(w, FALSE, "refused") /\ \A m : InCache(m)' <=> InCache(m)
    BY <1>12, <2>1 DEF ReceiverRaises, Refuse, InCache
  <2>3. MovingIds' = MovingIds /\ Trimmers' = Trimmers
    BY <1>10, <1>11, <2>1, <2>2
  <2> QED BY <2>1, <2>3 DEF CapacityInv
<1>13. ASSUME NEW w \in Workers, Refresh(w) PROVE CapacityInv'
  <2>1. ~ At(w, {"trim", "pop"}) /\ ~ At(w, {"move"})
    BY <1>13 DEF Refresh, At
  <2>2. PICK accepted, detail : Answering(w, accepted, detail)
    BY <1>13 DEF Refresh, Refuse
  <2>3. Trimmers' = Trimmers
    BY <1>10, <2>1, <2>2
  <2>4. CASE UNCHANGED cache
    <3>1. MovingIds' = MovingIds
      BY <1>11, <2>1, <2>2, <2>4 DEF InCache
    <3> QED BY <2>3, <2>4, <3>1 DEF CapacityInv
  <2>5. CASE \E i \in 1..Len(cache) : cache' = MoveToEnd(cache, i)
    <3>1. /\ Len(cache') = Len(cache)
          /\ \A m : InCache(m)' <=> InCache(m)
          /\ \A j, k \in 1..Len(cache') :
                cache'[j].env.message_id = cache'[k].env.message_id => j = k
      BY <1>0, <2>5, MoveKeeps, MoveKeepsIds, DistinctAfterMove
    <3>2. MovingIds' = MovingIds
      BY <1>11, <2>1, <2>2, <3>1
    <3> QED BY <1>0, <2>3, <3>1, <3>2 DEF CapacityInv
  <2> QED BY <1>13, <2>4, <2>5 DEF Refresh, Position
<1>14. ASSUME NEW w \in Workers, Store(w) PROVE CapacityInv'
  <2> DEFINE d == [env |-> thread[w].env, accepted |-> thread[w].accepted]
             k == thread[w].env.message_id
  <2>1. At(w, {"store"}) /\ Storing(w, "move") /\ cache' = Stored(d)
    BY <1>14 DEF Store
  <2>2. d \in Decision /\ d.env = thread[w].env /\ k \in Ids
    BY <2>1 DEF TypeInv, ThreadsTyped, Past, At, Decision, Ids
  <2> HIDE DEF d
  <2>3. /\ Len(cache') = IF Position(thread[w].env) = {} THEN Len(cache) + 1 ELSE Len(cache)
        /\ \A m : InCache(m)' <=> InCache(m) \/ m = k
        /\ \A i, j \in 1..Len(cache') :
              cache'[i].env.message_id = cache'[j].env.message_id => i = j
    BY <1>0, <2>1, <2>2, StoredShape, StoredAddsId, DistinctAfterStore
  <2>4. Trimmers' = Trimmers
    BY <1>9, <2>1 DEF Trimmers, At
  <2>5. \A m : \A v \in Workers : Of(v, {"move"}, m)' <=>
                                    Of(v, {"move"}, m) \/ (v = w /\ m = k)
    BY <1>9, <2>1 DEF Of, At
  <2>6. MovingIds \cup {k} \subseteq MovingIds'
    BY <2>2, <2>3, <2>5 DEF MovingIds
  <2>7. Cardinality(MovingIds \cup {k}) <= Cardinality(MovingIds')
    BY <1>00, <2>6, FS_Subset
  <2>8. Cardinality(MovingIds \cup {k}) =
           IF k \in MovingIds THEN Cardinality(MovingIds) ELSE Cardinality(MovingIds) + 1
    BY <1>0, FS_AddElement
  <2>9. Position(thread[w].env) = {} => k \notin MovingIds
    BY DEF Position, MovingIds, InCache
  <2>10. Len(cache') <= ReplayCapacity + Cardinality(MovingIds') + Cardinality(Trimmers')
    BY <1>0, <1>00, <2>3, <2>4, <2>7, <2>8, <2>9
  <2> QED BY <2>3, <2>10 DEF CapacityInv
<1>15. ASSUME NEW w \in Workers, MoveStored(w) PROVE CapacityInv'
  <2> DEFINE k == thread[w].env.message_id
  <2>1. At(w, {"move"}) /\ ~ At(w, {"trim", "pop"})
    BY <1>15 DEF MoveStored, At
  <2>2. CASE Position(thread[w].env) = {}
    <3>1. UNCHANGED cache /\ Answering(w, FALSE, "refused")
      BY <1>15, <2>2 DEF MoveStored, Refuse
    <3>2. ~ InCache(k)
      BY <2>2 DEF Position, InCache
    <3>3. \A m : InCache(m)' <=> InCache(m)
      BY <3>1 DEF InCache
    <3>4. MovingIds' = MovingIds /\ Trimmers' = Trimmers
      BY <1>10, <1>11, <2>1, <3>1, <3>2, <3>3
    <3> QED BY <3>1, <3>4 DEF CapacityInv
  <2>3. CASE Position(thread[w].env) # {}
    <3>1. Storing(w, "trim") /\ \E i \in 1..Len(cache) : cache' = MoveToEnd(cache, i)
      BY <1>15, <2>3 DEF MoveStored, Position
    <3>2. /\ Len(cache') = Len(cache)
          /\ \A m : InCache(m)' <=> InCache(m)
          /\ \A i, j \in 1..Len(cache') :
                cache'[i].env.message_id = cache'[j].env.message_id => i = j
      BY <1>0, <3>1, MoveKeeps, MoveKeepsIds, DistinctAfterMove
    <3>3. Trimmers' = Trimmers \cup {w} /\ w \notin Trimmers
      BY <1>9, <2>1, <3>1 DEF Trimmers, At
    <3>4. Cardinality(Trimmers') = Cardinality(Trimmers) + 1
      BY <1>0, <3>3, FS_AddElement
    <3>5. \A m : m # k => \A v \in Workers : Of(v, {"move"}, m) => Of(v, {"move"}, m)'
      BY <1>9, <3>1 DEF Of, At
    <3>6. MovingIds \ {k} \subseteq MovingIds'
      BY <3>2, <3>5 DEF MovingIds
    <3>7. Cardinality(MovingIds') >= Cardinality(MovingIds) - 1
      BY <1>0, <1>00, <3>6, LosesOne
    <3>8. Len(cache') <= ReplayCapacity + Cardinality(MovingIds') + Cardinality(Trimmers')
      BY <1>0, <1>00, <3>2, <3>4, <3>7
    <3> QED BY <3>2, <3>8 DEF CapacityInv
  <2> QED BY <2>2, <2>3
<1>16. ASSUME NEW w \in Workers, CheckSize(w) PROVE CapacityInv'
  <2>1. UNCHANGED cache /\ At(w, {"trim"})
    BY <1>16 DEF CheckSize
  <2>2. CASE Overfull
    <3>1. Storing(w, "pop")
      BY <1>16, <2>2 DEF CheckSize
    <3>2. Trimmers' = Trimmers
      BY <1>9, <2>1, <3>1 DEF Trimmers, At
    <3>3. \A m : \A v \in Workers : Of(v, {"move"}, m)' <=> Of(v, {"move"}, m)
      BY <1>9, <2>1, <3>1 DEF Of, At
    <3>4. MovingIds' = MovingIds
      BY <2>1, <3>3 DEF MovingIds, InCache
    <3> QED BY <2>1, <3>2, <3>4 DEF CapacityInv
  <2>3. CASE ~ Overfull
    <3>1. Len(cache') <= ReplayCapacity + Cardinality(MovingIds') + Cardinality(Trimmers')
      BY <1>0, <1>00, <2>1, <2>3 DEF Overfull
    <3> QED BY <2>1, <3>1 DEF CapacityInv
  <2> QED BY <2>2, <2>3
<1>17. ASSUME NEW w \in Workers, PopOldest(w) PROVE CapacityInv'
  <2>1. At(w, {"pop"})
    BY <1>17 DEF PopOldest
  <2>2. CASE cache = <<>>
    <3>1. cache' = <<>> /\ Len(<<>>) = 0
      BY <1>17, <2>2, EmptySeq DEF PopOldest
    <3>2. Len(cache') <= ReplayCapacity + Cardinality(MovingIds') + Cardinality(Trimmers')
      BY <1>0, <1>00, <3>1
    <3> QED BY <3>1, <3>2 DEF CapacityInv
  <2>3. CASE cache # <<>>
    <3> DEFINE k == Head(cache).env.message_id
    <3>1. cache' = Tail(cache) /\ Storing(w, "trim")
      BY <1>17, <2>3 DEF PopOldest
    <3>2. /\ Len(cache') = Len(cache) - 1
          /\ \A j \in 1..(Len(cache) - 1) : cache'[j] = cache[j + 1]
      BY <1>0, <2>3, <3>1, TailShape
    <3>3. \A i, j \in 1..Len(cache') :
             cache'[i].env.message_id = cache'[j].env.message_id => i = j
      <4> SUFFICES ASSUME NEW i \in 1..Len(cache'), NEW j \in 1..Len(cache'),
                          cache'[i].env.message_id = cache'[j].env.message_id
                   PROVE  i = j
        OBVIOUS
      <4>1. i + 1 \in 1..Len(cache) /\ j + 1 \in 1..Len(cache)
        BY <1>0, <3>2
      <4>2. cache'[i] = cache[i + 1] /\ cache'[j] = cache[j + 1]
        BY <3>2
      <4>3. i + 1 = j + 1
        BY <4>1, <4>2 DEF CapacityInv
      <4> QED BY <4>3
    <3>4. \A m : InCache(m) => InCache(m)' \/ m = k
      BY <1>0, <2>3, <3>1, TailDropsId
    <3>5. Trimmers' = Trimmers
      BY <1>9, <2>1, <3>1 DEF Trimmers, At
    <3>6. \A m : \A v \in Workers : Of(v, {"move"}, m) => Of(v, {"move"}, m)'
      BY <1>9, <2>1, <3>1 DEF Of, At
    <3>7. MovingIds \ {k} \subseteq MovingIds'
      BY <3>4, <3>6 DEF MovingIds
    <3>8. Cardinality(MovingIds') >= Cardinality(MovingIds) - 1
      BY <1>0, <1>00, <3>7, LosesOne
    <3>9. Len(cache') <= ReplayCapacity + Cardinality(MovingIds') + Cardinality(Trimmers')
      BY <1>0, <1>00, <3>2, <3>5, <3>8
    <3> QED BY <3>3, <3>9 DEF CapacityInv
  <2> QED BY <2>2, <2>3
<1>18. CASE UNCHANGED vars
  BY <1>1, <1>18 DEF vars
<1> QED
  BY <1>2, <1>3, <1>4, <1>5, <1>6, <1>7, <1>12, <1>13, <1>14, <1>15, <1>16, <1>17, <1>18
     DEF Next, serve_once

(* The state keeps its shape; above all the cache never exceeds its capacity by *)
(* more than one entry for each worker that is adding or trimming.              *)
THEOREM TypeCorrect == Spec => []TypeOK
<1>1. Init => TypeInv /\ LoopInv /\ CapacityInv
  <2> SUFFICES ASSUME Init PROVE TypeInv /\ LoopInv /\ CapacityInv
    OBVIOUS
  <2>1. cache = <<>> /\ Len(<<>>) = 0
    BY EmptySeq DEF Init
  <2>2. Len(cache) <= ReplayCapacity + Cardinality(MovingIds) + Cardinality(Trimmers)
    BY <2>1, MoversFinite, TrimmersFinite, LoopAssumption
  <2> QED BY <2>1, <2>2, LoopInit DEF CapacityInv
<1>2. TypeInv /\ LoopInv /\ CapacityInv /\ [Next]_vars
         => (TypeInv /\ LoopInv /\ CapacityInv)'
  BY TypeStep, LoopStep, CapacityStep
<1>3. TypeInv /\ LoopInv /\ CapacityInv => TypeOK
  <2> SUFFICES ASSUME TypeInv, LoopInv, CapacityInv PROVE TypeOK
    OBVIOUS
  <2> DEFINE Movers == {w \in Workers : At(w, {"move"})}
  <2>1. Trimming = Movers \cup Trimmers /\ Movers \cap Trimmers = {}
    BY DEF Trimming, Trimmers, At
  <2>2. /\ IsFiniteSet(Movers) /\ Cardinality(Movers) \in Nat
        /\ Cardinality(MovingIds) \in Nat
        /\ Cardinality(MovingIds) <= Cardinality(Movers)
    BY MoversBound
  <2> HIDE DEF Movers
  <2>3. Cardinality(Trimming) = Cardinality(Movers) + Cardinality(Trimmers)
    <3>1. Cardinality(Movers \cup Trimmers) =
             Cardinality(Movers) + Cardinality(Trimmers) - Cardinality(Movers \cap Trimmers)
      BY <2>2, TrimmersFinite, FS_Union
    <3>2. Cardinality(Movers \cap Trimmers) = 0
      BY <2>1, FS_EmptySet
    <3> QED BY <2>1, <2>2, <3>1, <3>2, TrimmersFinite
  <2>4. Len(cache) \in Nat /\ ReplayCapacity \in Nat
    BY LenProperties, LoopAssumption DEF TypeInv
  <2>5. Len(cache) <= ReplayCapacity + Cardinality(Trimming)
    BY <2>2, <2>3, <2>4, TrimmersFinite DEF CapacityInv
  <2>6. open \in 0..binds
    BY DEF TypeInv, LoopInv
  <2> QED BY <2>5, <2>6 DEF TypeOK, LoopInv, CapacityInv
<1> QED BY <1>1, <1>2, <1>3, PTL DEF Spec
-----------------------------------------------------------------------------
(* Why no pop takes more than it should: a worker enters Popping when the cache *)
(* is over its capacity, and poppers counts it; every pop takes one entry and   *)
(* one worker.                                                                  *)
EvictionInv ==
    /\ poppers \in Nat
    /\ Cardinality(Popping) <= poppers
    /\ OverEvictionBounded

LEMMA PoppingFinite ==
    /\ IsFiniteSet(Popping) /\ Cardinality(Popping) \in Nat
    /\ Popping # {} => Cardinality(Popping) >= 1
<1>1. Popping \in SUBSET Workers
  BY DEF Popping
<1>2. IsFiniteSet(Popping) /\ Cardinality(Popping) \in Nat
  BY <1>1, LoopAssumption, FS_Subset, FS_CardinalityType
<1> QED BY <1>2, FS_EmptySet

(* A step of one worker that keeps the cache and neither pops nor prepares to. *)
LEMMA EvictionAside ==
    ASSUME TypeInv, EvictionInv, NEW w \in Workers, NEW t,
           thread' = [thread EXCEPT ![w] = t],
           UNCHANGED <<cache, forgotten, poppers>>,
           ~ At(w, {"pop"}), t.at \notin {"pop"}
    PROVE  EvictionInv'
<1>1. /\ thread'[w] = t
      /\ \A v \in Workers \ {w} : thread'[v] = thread[v]
  BY DEF TypeInv, ThreadsTyped
<1>2. Popping' = Popping
  BY <1>1 DEF Popping, At
<1> QED BY <1>2 DEF EvictionInv, OverEvictionBounded

LEMMA EvictionStep == TypeInv /\ EvictionInv /\ [Next]_vars => EvictionInv'
<1> SUFFICES ASSUME TypeInv, EvictionInv, [Next]_vars PROVE EvictionInv'
  OBVIOUS
<1>0. /\ DOMAIN thread = Workers
      /\ cache \in Seq(Decision)
      /\ Len(cache) \in Nat
      /\ ReplayCapacity \in Nat
      /\ poppers \in Nat
      /\ IsFiniteSet(Popping) /\ Cardinality(Popping) \in Nat
      /\ Cardinality(Popping) <= poppers
      /\ Popping # {} => Cardinality(Popping) >= 1
      /\ forgotten # {} \/ Popping # {} =>
            Len(cache) + poppers > ReplayCapacity + Cardinality(Popping)
  BY LenProperties, LoopAssumption, PoppingFinite
     DEF TypeInv, ThreadsTyped, EvictionInv, OverEvictionBounded
(* The steps that neither pop nor prepare to. *)
<1>1. ASSUME NEW n \in Nat, Len(cache') = n, n >= Len(cache), Popping' = Popping,
             UNCHANGED <<forgotten, poppers>>
      PROVE  EvictionInv'
  BY <1>0, <1>1 DEF EvictionInv, OverEvictionBounded
<1>2. ASSUME UNCHANGED <<cache, forgotten, poppers>>, Popping' = Popping
      PROVE  EvictionInv'
  BY <1>0, <1>2 DEF EvictionInv, OverEvictionBounded
<1>3. ASSUME UNCHANGED <<thread, cache, forgotten, poppers>> PROVE EvictionInv'
  BY <1>2, <1>3 DEF Popping, At
<1>4. CASE bind \/ Detach \/ CloseSocket \/ (\E e \in Envelopes : Connect(e)) \/ UNCHANGED vars
  BY <1>3, <1>4 DEF bind, Detach, CloseSocket, Connect, vars, history
<1>5. ASSUME NEW w \in Workers, StartLoop(w) \/ CheckBound(w) \/ NotBound(w)
                \/ ReadListener(w) \/ AcceptTimesOut(w) \/ AcceptFails(w)
                \/ ReceiveFails(w) \/ Ack(w)
      PROVE  EvictionInv'
  <2>1. /\ UNCHANGED <<cache, forgotten, poppers>>
        /\ ~ At(w, {"pop"})
        /\ \/ thread' = [thread EXCEPT ![w] = [at |-> "check"]]
           \/ thread' = [thread EXCEPT ![w] = [at |-> "read"]]
           \/ thread' = [thread EXCEPT ![w] = [at |-> "ended"]]
           \/ thread' = [thread EXCEPT ![w] = [at |-> "accept", socket |-> listener]]
    BY <1>5 DEF StartLoop, CheckBound, NotBound, ReadListener, AcceptTimesOut,
                AcceptFails, ReceiveFails, Ack, Return, Raise, history, At
  <2> QED BY <2>1, EvictionAside
<1>6. ASSUME NEW w \in Workers, AcceptConnection(w) PROVE EvictionInv'
  <2>1. UNCHANGED <<cache, forgotten, poppers>> /\ ~ At(w, {"pop"})
    BY <1>6 DEF AcceptConnection, history, At
  <2> QED BY <1>6, <2>1, EvictionAside DEF AcceptConnection
<1>7. ASSUME NEW w \in Workers, ReceiveSome(w) PROVE EvictionInv'
  <2>1. /\ UNCHANGED <<cache, forgotten, poppers>>
        /\ ~ At(w, {"pop"})
        /\ \E left \in 0..(thread[w].left - 1) :
              thread' = [thread EXCEPT ![w] =
                            IF left = 0
                            THEN [at |-> "lookup", env |-> thread[w].env]
                            ELSE [at |-> "receive", env |-> thread[w].env, left |-> left]]
    BY <1>7 DEF ReceiveSome, history, At
  <2> QED BY <2>1, EvictionAside
<1>8. ASSUME NEW w \in Workers, LookUp(w) PROVE EvictionInv'
  <2>1. UNCHANGED <<cache, forgotten, poppers>> /\ ~ At(w, {"pop"})
    BY <1>8 DEF LookUp, At
  <2>2. \/ thread' = [thread EXCEPT ![w] = [at |-> "call", env |-> thread[w].env]]
        \/ \E i : thread' = [thread EXCEPT ![w] = [at |-> "refresh", env |-> thread[w].env,
                                                  cached |-> cache[i]]]
    BY <1>8 DEF LookUp
  <2> QED BY <2>1, <2>2, EvictionAside
<1>9. ASSUME NEW w \in Workers, NEW accepted, NEW detail, Answering(w, accepted, detail)
      PROVE  Popping' = Popping \ {w}
  BY <1>0, <1>9 DEF Answering, Popping, At
<1>10. ASSUME NEW w \in Workers, NEW step \in {"move", "trim"}, Storing(w, step)
       PROVE  Popping' = Popping \ {w}
  BY <1>0, <1>10 DEF Storing, Popping, At
<1>11. ASSUME NEW w \in Workers, ~ At(w, {"pop"}) PROVE Popping \ {w} = Popping
  BY <1>11 DEF Popping
<1>12. ASSUME NEW i \in 1..Len(cache), cache' = MoveToEnd(cache, i)
       PROVE  Len(cache') = Len(cache)
  BY <1>0, <1>12, MoveKeeps
<1>13. ASSUME NEW w \in Workers, Refresh(w) PROVE EvictionInv'
  <2>1. UNCHANGED <<forgotten, poppers>> /\ ~ At(w, {"pop"})
    BY <1>13 DEF Refresh, history, At
  <2>2. Len(cache') = Len(cache)
    BY <1>12, <1>13 DEF Refresh, Position
  <2>3. \E accepted, detail : Answering(w, accepted, detail)
    BY <1>13 DEF Refresh, Refuse
  <2>4. Popping' = Popping
    BY <1>9, <1>11, <2>1, <2>3
  <2> QED BY <1>0, <1>1, <2>1, <2>2, <2>4
<1>14. ASSUME NEW w \in Workers, NEW accepted \in BOOLEAN, ReceiverReturns(w, accepted)
       PROVE  EvictionInv'
  <2>1. UNCHANGED <<cache, forgotten, poppers>> /\ ~ At(w, {"pop"})
    BY <1>14 DEF ReceiverReturns, At
  <2> QED BY <1>14, <2>1, EvictionAside DEF ReceiverReturns
<1>15. ASSUME NEW w \in Workers, ReceiverRaises(w) PROVE EvictionInv'
  <2>1. UNCHANGED <<cache, forgotten, poppers>> /\ ~ At(w, {"pop"})
    BY <1>15 DEF ReceiverRaises, history, At
  <2>2. Popping' = Popping
    BY <1>9, <1>11, <1>15, <2>1 DEF ReceiverRaises, Refuse
  <2> QED BY <1>2, <2>1, <2>2
<1>16. ASSUME NEW w \in Workers, Store(w) PROVE EvictionInv'
  <2> DEFINE d == [env |-> thread[w].env, accepted |-> thread[w].accepted]
  <2>1. /\ UNCHANGED <<forgotten, poppers>> /\ ~ At(w, {"pop"})
        /\ cache' = Stored(d) /\ Storing(w, "move")
    BY <1>16 DEF Store, history, At
  <2>2. d \in Decision
    BY <1>16 DEF Store, TypeInv, ThreadsTyped, Past, At, Decision
  <2> HIDE DEF d
  <2>3. Len(cache') = IF Position(d.env) = {} THEN Len(cache) + 1 ELSE Len(cache)
    BY <1>0, <2>1, <2>2, StoredShape
  <2>4. Popping' = Popping
    BY <1>10, <1>11, <2>1
  <2> QED BY <1>0, <1>1, <2>1, <2>3, <2>4
<1>17. ASSUME NEW w \in Workers, MoveStored(w) PROVE EvictionInv'
  <2>1. UNCHANGED <<forgotten, poppers>> /\ ~ At(w, {"pop"})
    BY <1>17 DEF MoveStored, history, At
  <2>2. Len(cache') = Len(cache)
    BY <1>12, <1>17 DEF MoveStored, Position
  <2>3. Popping' = Popping
    BY <1>9, <1>10, <1>11, <1>17, <2>1 DEF MoveStored, Refuse
  <2> QED BY <1>0, <1>1, <2>1, <2>2, <2>3
(* The two steps of the race. *)
<1>18. ASSUME NEW w \in Workers, CheckSize(w) PROVE EvictionInv'
  <2>1. UNCHANGED <<cache, forgotten>> /\ ~ At(w, {"pop"}) /\ w \notin Popping
    BY <1>18 DEF CheckSize, At, Popping
  <2>2. CASE Overfull
    <3>1. /\ Storing(w, "pop")
          /\ poppers' = IF Cardinality(Popping) < poppers
                        THEN poppers ELSE Cardinality(Popping) + 1
      BY <1>18, <2>2 DEF CheckSize
    <3>2. Popping' = Popping \cup {w}
      BY <1>0, <3>1 DEF Storing, Popping, At
    <3>3. Cardinality(Popping') = Cardinality(Popping) + 1
      BY <1>0, <2>1, <3>2, FS_AddElement
    <3>4. poppers' \in Nat /\ Cardinality(Popping') <= poppers'
      BY <1>0, <3>1, <3>3
    <3>5. Len(cache') > ReplayCapacity
      BY <2>1, <2>2 DEF Overfull
    <3>6. Len(cache') + poppers' > ReplayCapacity + Cardinality(Popping')
      BY <1>0, <2>1, <3>3, <3>4, <3>5
    <3> QED BY <3>4, <3>6 DEF EvictionInv, OverEvictionBounded
  <2>3. CASE ~ Overfull
    <3>1. Popping' = Popping /\ UNCHANGED poppers
      BY <1>9, <1>11, <1>18, <2>1, <2>3 DEF CheckSize
    <3> QED BY <1>2, <2>1, <3>1
  <2> QED BY <2>2, <2>3
<1>19. ASSUME NEW w \in Workers, PopOldest(w) PROVE EvictionInv'
  <2>1. UNCHANGED poppers /\ w \in Popping
    BY <1>19 DEF PopOldest, Popping
  <2>2. Popping' = Popping \ {w}
    BY <1>9, <1>10, <1>19 DEF PopOldest, Refuse
  <2>3. Cardinality(Popping') = Cardinality(Popping) - 1
    BY <1>0, <2>1, <2>2, FS_RemoveElement
  <2>4. Len(cache) + poppers > ReplayCapacity + Cardinality(Popping)
    BY <1>0, <2>1
  <2>5. Len(cache') \in Nat /\ Len(cache') >= Len(cache) - 1
    <3>1. CASE cache = <<>>
      BY <1>0, <1>19, <3>1 DEF PopOldest
    <3>2. CASE cache # <<>>
      BY <1>0, <1>19, <3>2, TailShape DEF PopOldest
    <3> QED BY <3>1, <3>2
  <2>6. /\ poppers' \in Nat
        /\ Cardinality(Popping') <= poppers'
        /\ Len(cache') + poppers' > ReplayCapacity + Cardinality(Popping')
    BY <1>0, <2>1, <2>3, <2>4, <2>5
  <2> QED BY <2>6 DEF EvictionInv, OverEvictionBounded
<1> QED
  BY <1>4, <1>5, <1>6, <1>7, <1>8, <1>13, <1>14, <1>15, <1>16, <1>17, <1>18, <1>19
     DEF Next, serve_once

(* However many workers measured the cache before the first of them popped it, *)
(* the memory lacks at most one id for each that popped beside another.        *)
THEOREM EvictionsBounded == Spec => []OverEvictionBounded
<1>1. Init => TypeInv /\ EvictionInv
  <2> SUFFICES ASSUME Init PROVE TypeInv /\ EvictionInv
    OBVIOUS
  <2>1. Popping = {} /\ forgotten = {} /\ poppers = 0
    BY DEF Init, Popping, At
  <2>2. Cardinality(Popping) = 0
    BY <2>1, FS_EmptySet
  <2> QED BY <2>1, <2>2, LoopInit DEF EvictionInv, OverEvictionBounded
<1>2. TypeInv /\ EvictionInv /\ [Next]_vars => (TypeInv /\ EvictionInv)'
  BY TypeStep, EvictionStep
<1>3. EvictionInv => OverEvictionBounded
  BY DEF EvictionInv
<1> QED BY <1>1, <1>2, <1>3, PTL DEF Spec
=============================================================================
