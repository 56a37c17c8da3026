-------------------------- MODULE MediaSessionProofs --------------------------
(***************************************************************************)
(* Theorems about MediaSession for any number of peers, rooms, workers and  *)
(* objects.  The proofs take from RouterPoolProofs what holds of the pool.  *)
(***************************************************************************)
EXTENDS MediaSession, TLAPS

PoolProofs == INSTANCE RouterPoolProofs

\* The assumption of RouterPool holds of the constants this module passes on.
LEMMA PoolAssumed == PoolProofs!PoolAssumption
  BY SessionAssumption DEF PoolProofs!PoolAssumption

\* The operators of the two instances of RouterPool are the same.
LEMMA SameTypes == Pool!TypeOK <=> PoolProofs!TypeOK
  BY DEF Pool!TypeOK, PoolProofs!TypeOK, Pool!WorkerIds, PoolProofs!WorkerIds,
         Pool!NaN, PoolProofs!NaN, Pool!Router, PoolProofs!Router,
         Pool!Creation, PoolProofs!Creation

LEMMA SameNext == [Pool!Next]_poolVars => [PoolProofs!Next]_(PoolProofs!poolVars)
  <1>1. /\ Pool!WorkerIds = PoolProofs!WorkerIds /\ Pool!NaN = PoolProofs!NaN
        /\ Pool!FreshRouters = PoolProofs!FreshRouters
    BY DEF Pool!WorkerIds, PoolProofs!WorkerIds, Pool!NaN, PoolProofs!NaN,
           Pool!FreshRouters, PoolProofs!FreshRouters
  <1>2. /\ \A r : Pool!Unserved(r) <=> PoolProofs!Unserved(r)
        /\ Pool!IndexInArray <=> PoolProofs!IndexInArray
        /\ Pool!AdvancedIndex = PoolProofs!AdvancedIndex
    BY <1>1 DEF Pool!Unserved, PoolProofs!Unserved, Pool!IndexInArray,
           PoolProofs!IndexInArray, Pool!AdvancedIndex, PoolProofs!AdvancedIndex
  <1>3. Pool!WorkerStarted => PoolProofs!WorkerStarted
    BY <1>1, <1>2 DEF Pool!WorkerStarted, PoolProofs!WorkerStarted
  <1>4. \A w : Pool!WorkerDied(w) => PoolProofs!WorkerDied(w)
    BY <1>1, <1>2 DEF Pool!WorkerDied, PoolProofs!WorkerDied
  <1>5. \A k, r : Pool!RequestRouter(k, r) => PoolProofs!RequestRouter(k, r)
    BY <1>1, <1>2 DEF Pool!RequestRouter, PoolProofs!RequestRouter,
           Pool!Cardinality, PoolProofs!Cardinality
  <1>6. \A r : Pool!RequestThrows(r) => PoolProofs!RequestThrows(r)
    BY <1>1, <1>2 DEF Pool!RequestThrows, PoolProofs!RequestThrows
  <1>7. \A c, x : Pool!RouterCreated(c, x) => PoolProofs!RouterCreated(c, x)
    BY <1>1, <1>2 DEF Pool!RouterCreated, PoolProofs!RouterCreated
  <1>8. \A c : Pool!RouterRefused(c) => PoolProofs!RouterRefused(c)
    BY <1>1, <1>2 DEF Pool!RouterRefused, PoolProofs!RouterRefused
  <1>9. Pool!ProcessExit => PoolProofs!ProcessExit
    BY <1>1, <1>2 DEF Pool!ProcessExit, PoolProofs!ProcessExit
  <1> QED
    BY <1>1, <1>2, <1>3, <1>4, <1>5, <1>6, <1>7, <1>8, <1>9
       DEF Pool!Next, PoolProofs!Next, poolVars, PoolProofs!poolVars

-----------------------------------------------------------------------------
(* Types.                                                                  *)

\* What a waiting handler keeps, by what it waits for.
LEMMA WaitFields ==
    ASSUME NEW c \in Waiting
    PROVE  /\ c.peer \in Peers /\ c.call \in Calls
           /\ c.op = "join" => c.room \in Rooms
           /\ c.op \in {"route", "open"} => c.dir \in {"send", "recv"}
           /\ c.op = "open" => c.router \in RouterIds
           /\ c.op \in {"produce", "trace", "consume"} => c.transport \in Transport
           /\ c.op = "consume" => c.producer \in Producer
           /\ c.op = "resume" => c.consumer \in Consumer
  BY DEF Waiting

\* Every step of the session is, for the pool, a step of RouterPool or none.
LEMMA PoolStep == TypeOK /\ [Next]_vars => [Pool!Next]_poolVars
  <1> SUFFICES ASSUME TypeOK, Next PROVE [Pool!Next]_poolVars
    BY DEF vars, poolVars
  <1> USE DEF TypeOK, PeerTypes
  <1>1. ASSUME NEW p \in Peers, NEW k \in Calls, NEW r \in Rooms, JoinWaits(k, p, r)
        PROVE  Pool!Next
    BY <1>1 DEF JoinWaits, Pool!Next, RoomKeys
  <1>2. ASSUME NEW p \in Peers, NEW r \in Rooms, JoinThrows(p, r)
        PROVE  Pool!Next
    BY <1>2 DEF JoinThrows, Pool!Next, RoomKeys
  <1>3. ASSUME NEW p \in Peers, NEW k \in Calls, NEW dir, CreateTransportWaits(k, p, dir)
        PROVE  Pool!Next
    BY <1>3 DEF CreateTransportWaits, Pool!Next
  <1>4. ASSUME NEW p \in Peers, RouterThrows(p)
        PROVE  Pool!Next
    BY <1>4 DEF RouterThrows, Pool!Next
  <1>5. ASSUME NEW p \in Peers, NEW k \in Calls, NEW t, ConsumeWaits(k, p, t)
        PROVE  Pool!Next
    BY <1>5 DEF ConsumeWaits, Pool!Next
  <1>6. ASSUME NEW c \in inflight, RouterAnswered(c)
        PROVE  Pool!Next
    BY <1>6 DEF RouterAnswered, RouterFailed, JoinReady, TransportRouterReady,
                ConsumeRouterReady, Pool!Next
  <1>7. CASE WorkerStarted
    BY <1>7 DEF WorkerStarted, Pool!Next
  <1>8. ASSUME NEW w \in alive, WorkerDied(w)
        PROVE  Pool!Next
    <2>1. w \in Pool!WorkerIds
      BY SessionAssumption DEF Pool!TypeOK, Pool!WorkerIds
    <2> QED
      BY <1>8, <2>1 DEF WorkerDied, Pool!Next
  <1>9. CASE Restart
    BY <1>9 DEF Restart, Pool!Next
  <1> QED
    BY <1>1, <1>2, <1>3, <1>4, <1>5, <1>6, <1>7, <1>8, <1>9
       DEF Next, Connect, Disconnect, JoinServed, CreateTransportServed, ConnectTransport,
           DtlsClosed, Produce, ConsumeServed, Resume, WorkerAnswered, TransportReady,
           TraceAnswered, ProduceReady, ConsumeReady, WorkerCallFailed, ResumeAnswered,
           ProducerCloseNotice, WorkerStartFails, ResumeRejected, UnawaitedRejected

\* Steps that change no socket, record, map or object: handlers begin, wait on, or end
\* without an object, and workers start.
Quiet ==
    /\ UNCHANGED <<sock, peerVars, mapVars, openVars, transports, producers, consumers,
                   clientVars>>
    /\ dtls' \subseteq dtls \cup openTransports
    /\ resumed' \subseteq resumed \cup {c.consumer : c \in {d \in inflight : d.op = "resume"}}

\* The steps of the session that are not quiet.
LEMMA StepKinds ==
    ASSUME [Next]_vars
    PROVE  \/ Restart
           \/ \E p \in Peers : Connect(p)
           \/ \E p \in Peers : Disconnect(p)
           \/ \E p \in Peers, r \in Rooms :
                 JoinServed(p, r) \/ JoinThrows(p, r) \/ \E k \in Calls : JoinWaits(k, p, r)
           \/ \E c \in inflight, d \in creating, x \in RouterIds : JoinReady(c, d, x)
           \/ \E c \in inflight, i \in FreshIds(TransportIds, transports) : TransportReady(c, i)
           \/ \E c \in inflight, i \in FreshIds(ProducerIds, producers) : ProduceReady(c, i)
           \/ \E c \in inflight, i \in FreshIds(ConsumerIds, consumers) : ConsumeReady(c, i)
           \/ \E s \in openConsumers : ProducerCloseNotice(s)
           \/ \E t \in dtls : DtlsClosed(t)
           \/ \E w \in alive : WorkerDied(w)
           \/ Quiet
  <1>1. ASSUME NEW p \in Peers, NEW k \in Calls, NEW dir \in {"send", "recv"},
               CreateTransportWaits(k, p, dir)
               \/ \E x \in RouterIds : CreateTransportServed(k, p, dir, x)
        PROVE  Quiet
    BY <1>1 DEF CreateTransportWaits, CreateTransportServed, Quiet, objectVars
  <1>2. ASSUME NEW p \in Peers, NEW t \in held[p],
               ConnectTransport(p, t) \/ \E k \in Calls :
                  Produce(k, p, t) \/ ConsumeWaits(k, p, t)
                  \/ \E q \in KnownTo(p) : ConsumeServed(k, p, t, q)
        PROVE  Quiet
    BY <1>2 DEF ConnectTransport, Produce, ConsumeWaits, ConsumeServed, Quiet, objectVars
  <1>3. ASSUME NEW p \in Peers, RouterThrows(p)
               \/ \E k \in Calls, s \in consumed[p] : Resume(k, p, s)
        PROVE  Quiet
    BY <1>3 DEF RouterThrows, Resume, Quiet, objectVars
  <1>4. ASSUME NEW c \in inflight, NEW d \in creating,
               RouterFailed(c, d) \/ \E x \in RouterIds :
                  TransportRouterReady(c, d, x) \/ ConsumeRouterReady(c, d, x)
        PROVE  Quiet
    BY <1>4 DEF RouterFailed, TransportRouterReady, ConsumeRouterReady, Quiet, objectVars
  <1>5. ASSUME NEW c \in inflight,
               TraceAnswered(c) \/ WorkerCallFailed(c) \/ ResumeAnswered(c)
        PROVE  Quiet
    BY <1>5 DEF TraceAnswered, WorkerCallFailed, ResumeAnswered, Quiet, objectVars
  <1>6. WorkerStarted => Quiet
    BY DEF WorkerStarted, Quiet, objectVars
  <1>7. UNCHANGED vars => Quiet
    BY DEF vars, Quiet, objectVars
  <1> QED
    BY <1>1, <1>2, <1>3, <1>4, <1>5, <1>6, <1>7
       DEF Next, RouterAnswered, WorkerAnswered, WorkerStartFails, ResumeRejected,
           UnawaitedRejected

LEMMA PeerTypesStep == TypeOK /\ [Next]_vars => PeerTypes'
  <1> SUFFICES ASSUME TypeOK, [Next]_vars PROVE PeerTypes'
    OBVIOUS
  <1> USE DEF TypeOK, PeerTypes
  <1>1. ASSUME NEW p \in Peers, Connect(p) \/ Disconnect(p) PROVE PeerTypes'
    BY <1>1 DEF Connect, Disconnect, DropRecord, peerVars, clientVars, RoomKeys
  <1>2. ASSUME NEW p \in Peers, NEW r \in Rooms,
               JoinServed(p, r) \/ JoinThrows(p, r) \/ \E k \in Calls : JoinWaits(k, p, r)
        PROVE  PeerTypes'
    BY <1>2 DEF JoinServed, JoinThrows, JoinWaits, EnterRoom, CreatePeer, ReplyToJoin,
                clientVars, RoomKeys
  <1>3. ASSUME NEW c \in inflight, NEW d, NEW x, JoinReady(c, d, x) PROVE PeerTypes'
    <2>1. c.peer \in Peers /\ c.room \in Rooms
      BY <1>3, WaitFields DEF JoinReady, WaitTypes
    <2> QED
      BY <1>3, <2>1 DEF JoinReady, ReplyToJoin, peerVars, clientVars
  <1>4. CASE Restart
    BY <1>4 DEF Restart, Nothing, RoomKeys
  <1>5. CASE UNCHANGED <<sock, peerVars, joined>>
    BY <1>5 DEF peerVars
  <1> QED
    BY <1>1, <1>2, <1>3, <1>4, <1>5, StepKinds
       DEF Quiet, clientVars, TransportReady, ProduceReady, ConsumeReady,
           ProducerCloseNotice, DtlsClosed, WorkerDied

\* What the answer to createWebRtcTransport adds.
LEMMA NewTransport ==
    ASSUME TypeOK, NEW c \in inflight, NEW i \in FreshIds(TransportIds, transports),
           TransportReady(c, i)
    PROVE  \E t \in Transport :
             /\ c.op = "open" /\ t \notin transports
             /\ t.peer = c.peer /\ t.router = c.router /\ (t.listed <=> c.peer \in registered)
             /\ transports' = transports \cup {t}
             /\ openTransports' = openTransports \cup {t}
             /\ held' = IF c.peer \in registered
                        THEN [held EXCEPT ![c.peer] = @ \cup {t}] ELSE held
             /\ UNCHANGED <<sock, peerVars, produced, consumed, openProducers, openConsumers,
                            dtls, producers, consumers, resumed, clientVars>>
  <1> DEFINE t == [id |-> i, peer |-> c.peer, dir |-> c.dir, router |-> c.router,
                   listed |-> c.peer \in registered]
  <1>1. c.op = "open"
    BY DEF TransportReady
  <1>2. c.peer \in Peers /\ c.dir \in {"send", "recv"} /\ c.router \in RouterIds
    BY <1>1, WaitFields DEF TypeOK, WaitTypes
  <1>3. i \in TransportIds /\ (c.peer \in registered) \in BOOLEAN
    BY DEF FreshIds
  <1>4. t \in Transport
    BY <1>2, <1>3, Zenon DEF Transport
  <1>5. t \notin transports
    BY DEF FreshIds
  <1>6. t.listed <=> c.peer \in registered
    BY Zenon
  <1>7. t.peer = c.peer /\ t.router = c.router
    OBVIOUS
  <1>8. /\ transports' = transports \cup {t}
        /\ openTransports' = openTransports \cup {t}
        /\ held' = IF c.peer \in registered
                   THEN [held EXCEPT ![c.peer] = @ \cup {t}] ELSE held
        /\ UNCHANGED <<sock, peerVars, produced, consumed, openProducers, openConsumers,
                       dtls, producers, consumers, resumed, clientVars>>
    BY DEF TransportReady
  <1> HIDE DEF t
  <1> QED
    BY <1>1, <1>4, <1>5, <1>6, <1>7, <1>8

\* What the answer to produce adds, and whom it is announced to.
LEMMA NewProducer ==
    ASSUME TypeOK, NEW c \in inflight, NEW i \in FreshIds(ProducerIds, producers),
           ProduceReady(c, i)
    PROVE  \E q \in Producer :
             /\ c.op = "produce" /\ q \notin producers
             /\ q.peer = c.peer /\ q.transport = c.transport
             /\ q.onWorker <=> c.transport \in openTransports
             /\ producers' = producers \cup {q}
             /\ openProducers' = openProducers \cup {q}
             /\ produced' = IF c.peer \in registered
                            THEN [produced EXCEPT ![c.peer] = @ \cup {q}] ELSE produced
             /\ told' = [b \in Peers |-> IF b # c.peer /\ dataRoom[c.peer] \in sio[b]
                                         THEN told[b] \cup {q} ELSE told[b]]
             /\ UNCHANGED <<sock, peerVars, held, consumed, openTransports, openConsumers,
                            transports, dtls, consumers, resumed, joined>>
  <1> DEFINE q == [id |-> i, peer |-> c.peer, transport |-> c.transport,
                   onWorker |-> c.transport \in openTransports]
  <1>1. c.op = "produce"
    BY DEF ProduceReady
  <1>2. c.peer \in Peers /\ c.transport \in Transport
    BY <1>1, WaitFields DEF TypeOK, WaitTypes
  <1>3. i \in ProducerIds /\ (c.transport \in openTransports) \in BOOLEAN
    BY DEF FreshIds
  <1>4. q \in Producer
    BY <1>2, <1>3, Zenon DEF Producer
  <1>5. q \notin producers
    BY DEF FreshIds
  <1>6. q.onWorker <=> c.transport \in openTransports
    BY Zenon
  <1>7. q.peer = c.peer /\ q.transport = c.transport
    OBVIOUS
  <1>8. /\ producers' = producers \cup {q}
        /\ openProducers' = openProducers \cup {q}
        /\ produced' = IF c.peer \in registered
                       THEN [produced EXCEPT ![c.peer] = @ \cup {q}] ELSE produced
        /\ told' = [b \in Peers |-> IF b # c.peer /\ dataRoom[c.peer] \in sio[b]
                                    THEN told[b] \cup {q} ELSE told[b]]
        /\ UNCHANGED <<sock, peerVars, held, consumed, openTransports, openConsumers,
                       transports, dtls, consumers, resumed, joined>>
    BY DEF ProduceReady
  <1> HIDE DEF q
  <1> QED
    BY <1>1, <1>4, <1>5, <1>6, <1>7, <1>8

\* What the answer to consume adds.
LEMMA NewConsumer ==
    ASSUME TypeOK, NEW c \in inflight, NEW i \in FreshIds(ConsumerIds, consumers),
           ConsumeReady(c, i)
    PROVE  \E s \in Consumer :
             /\ c.op = "consume" /\ s \notin consumers
             /\ s.peer = c.peer /\ s.transport = c.transport
             /\ s.onWorker <=> c.transport \in openTransports
             /\ consumers' = consumers \cup {s}
             /\ openConsumers' = openConsumers \cup {s}
             /\ consumed' = IF c.peer \in registered
                            THEN [consumed EXCEPT ![c.peer] = @ \cup {s}] ELSE consumed
             /\ UNCHANGED <<sock, peerVars, held, produced, openTransports, openProducers,
                            transports, dtls, producers, resumed, clientVars>>
  <1> DEFINE s == [id |-> i, peer |-> c.peer, transport |-> c.transport,
                   producer |-> c.producer, onWorker |-> c.transport \in openTransports]
  <1>1. c.op = "consume"
    BY DEF ConsumeReady
  <1>2. c.peer \in Peers /\ c.transport \in Transport /\ c.producer \in Producer
    BY <1>1, WaitFields DEF TypeOK, WaitTypes
  <1>3. i \in ConsumerIds /\ (c.transport \in openTransports) \in BOOLEAN
    BY DEF FreshIds
  <1>4. s \in Consumer
    BY <1>2, <1>3, Zenon DEF Consumer
  <1>5. s \notin consumers
    BY DEF FreshIds
  <1>6. s.onWorker <=> c.transport \in openTransports
    BY Zenon
  <1>7. s.peer = c.peer /\ s.transport = c.transport
    OBVIOUS
  <1>8. /\ consumers' = consumers \cup {s}
        /\ openConsumers' = openConsumers \cup {s}
        /\ consumed' = IF c.peer \in registered
                       THEN [consumed EXCEPT ![c.peer] = @ \cup {s}] ELSE consumed
        /\ UNCHANGED <<sock, peerVars, held, produced, openTransports, openProducers,
                       transports, dtls, producers, resumed, clientVars>>
    BY DEF ConsumeReady
  <1> HIDE DEF s
  <1> QED
    BY <1>1, <1>4, <1>5, <1>6, <1>7, <1>8

LEMMA ObjectTypesStep == TypeOK /\ [Next]_vars => ObjectTypes'
  <1> SUFFICES ASSUME TypeOK, [Next]_vars PROVE ObjectTypes'
    OBVIOUS
  <1>1. CASE Restart
    BY <1>1 DEF Restart, ObjectTypes
  <1>2. CASE UNCHANGED <<transports, producers, consumers>>
    BY <1>2 DEF ObjectTypes, TypeOK
  <1>3. ASSUME NEW c \in inflight, NEW i \in FreshIds(TransportIds, transports),
               TransportReady(c, i)
        PROVE  ObjectTypes'
    BY <1>3, NewTransport DEF TypeOK, ObjectTypes
  <1>4. ASSUME NEW c \in inflight, NEW i \in FreshIds(ProducerIds, producers),
               ProduceReady(c, i)
        PROVE  ObjectTypes'
    BY <1>4, NewProducer DEF TypeOK, ObjectTypes
  <1>5. ASSUME NEW c \in inflight, NEW i \in FreshIds(ConsumerIds, consumers),
               ConsumeReady(c, i)
        PROVE  ObjectTypes'
    BY <1>5, NewConsumer DEF TypeOK, ObjectTypes
  <1> QED
    BY <1>1, <1>2, <1>3, <1>4, <1>5, StepKinds
       DEF Quiet, objectVars, Connect, Disconnect, JoinServed, JoinThrows, JoinWaits,
           JoinReady, ProducerCloseNotice, DtlsClosed, WorkerDied

LEMMA MapTypesStep == TypeOK /\ [Next]_vars => MapTypes'
  <1> SUFFICES ASSUME TypeOK, [Next]_vars PROVE MapTypes'
    OBVIOUS
  <1> USE DEF TypeOK, MapTypes
  <1>1. ASSUME NEW p \in Peers, Connect(p) PROVE MapTypes'
    BY <1>1 DEF Connect, mapVars, openVars, objectVars, clientVars
  <1>2. ASSUME NEW p \in Peers, Disconnect(p) PROVE MapTypes'
    BY <1>2 DEF Disconnect, CloseRecord, DropRecord, objectVars, clientVars
  <1>3. \A r : ProducersByRoom(r) \subseteq producers
    BY DEF ProducersByRoom, PeerTypes
  <1>4. ASSUME NEW p \in Peers, NEW r \in Rooms,
               JoinServed(p, r) \/ JoinThrows(p, r) \/ \E k \in Calls : JoinWaits(k, p, r)
        PROVE  MapTypes'
    BY <1>3, <1>4 DEF JoinServed, JoinThrows, JoinWaits, ReplyToJoin, mapVars, openVars,
                      objectVars, clientVars
  <1>5. ASSUME NEW c \in inflight, NEW d \in creating, NEW x \in RouterIds, JoinReady(c, d, x)
        PROVE  MapTypes'
    BY <1>3, <1>5 DEF JoinReady, ReplyToJoin, mapVars, openVars, objectVars, clientVars
  <1>6. ASSUME NEW c \in inflight, NEW i \in FreshIds(TransportIds, transports),
               TransportReady(c, i)
        PROVE  MapTypes'
    BY <1>6, NewTransport DEF clientVars
  <1>7. ASSUME NEW c \in inflight, NEW i \in FreshIds(ProducerIds, producers),
               ProduceReady(c, i)
        PROVE  MapTypes'
    BY <1>7, NewProducer
  <1>8. ASSUME NEW c \in inflight, NEW i \in FreshIds(ConsumerIds, consumers),
               ConsumeReady(c, i)
        PROVE  MapTypes'
    BY <1>8, NewConsumer DEF clientVars
  <1>9. ASSUME NEW s \in openConsumers, ProducerCloseNotice(s) PROVE MapTypes'
    BY <1>9 DEF ProducerCloseNotice, objectVars, clientVars
  <1>10. ASSUME NEW t \in dtls, DtlsClosed(t) PROVE MapTypes'
    BY <1>10 DEF DtlsClosed, CloseTransports, objectVars, clientVars
  <1>11. ASSUME NEW w \in alive, WorkerDied(w) PROVE MapTypes'
    BY <1>11 DEF WorkerDied, CloseTransports, objectVars, clientVars
  <1>12. CASE Restart
    BY <1>12 DEF Restart, Nothing
  <1>13. CASE Quiet
    <2>1. resumed' \subseteq Consumer
      BY <1>13, WaitFields DEF Quiet, WaitTypes
    <2> QED
      BY <1>13, <2>1 DEF Quiet, mapVars, openVars, clientVars
  <1> QED
    BY <1>1, <1>2, <1>4, <1>5, <1>6, <1>7, <1>8, <1>9, <1>10, <1>11, <1>12, <1>13, StepKinds

LEMMA WaitTypesStep == TypeOK /\ [Next]_vars => WaitTypes'
  <1> SUFFICES ASSUME TypeOK, [Next]_vars PROVE WaitTypes'
    OBVIOUS
  <1> USE DEF TypeOK, WaitTypes
  <1>1. CASE inflight' \subseteq inflight
    BY <1>1
  <1>2. ASSUME NEW p \in Peers, NEW r \in Rooms, NEW k \in Calls, JoinWaits(k, p, r)
        PROVE  WaitTypes'
    BY <1>2 DEF JoinWaits, Waiting
  <1>3. ASSUME NEW p \in Peers, NEW k \in Calls, NEW dir \in {"send", "recv"},
               CreateTransportWaits(k, p, dir)
        PROVE  WaitTypes'
    BY <1>3 DEF CreateTransportWaits, Waiting
  <1>4. ASSUME NEW p \in Peers, NEW k \in Calls, NEW dir \in {"send", "recv"},
               NEW x \in RouterIds, CreateTransportServed(k, p, dir, x)
        PROVE  WaitTypes'
    BY <1>4 DEF CreateTransportServed, Waiting
  <1>5. ASSUME NEW p \in Peers, NEW k \in Calls, NEW t \in held[p], Produce(k, p, t)
        PROVE  WaitTypes'
    <2>1. t \in Transport
      BY DEF MapTypes, ObjectTypes
    <2> QED
      BY <1>5, <2>1 DEF Produce, Waiting
  <1>6. ASSUME NEW p \in Peers, NEW k \in Calls, NEW t \in held[p], NEW q \in KnownTo(p),
               ConsumeServed(k, p, t, q)
        PROVE  WaitTypes'
    <2>1. t \in Transport /\ q \in Producer
      BY DEF MapTypes, ObjectTypes, KnownTo
    <2> QED
      BY <1>6, <2>1 DEF ConsumeServed, Waiting
  <1>7. ASSUME NEW p \in Peers, NEW k \in Calls, NEW t \in held[p], ConsumeWaits(k, p, t)
        PROVE  WaitTypes'
    BY <1>7 DEF ConsumeWaits, Waiting
  <1>8. ASSUME NEW p \in Peers, NEW k \in Calls, NEW s \in consumed[p], Resume(k, p, s)
        PROVE  WaitTypes'
    <2>1. s \in Consumer
      BY DEF MapTypes, ObjectTypes
    <2> QED
      BY <1>8, <2>1 DEF Resume, Waiting
  <1>9. ASSUME NEW c \in inflight, NEW d \in creating, NEW x \in RouterIds,
               TransportRouterReady(c, d, x)
        PROVE  WaitTypes'
    <2>1. c.peer \in Peers /\ c.call \in Calls /\ c.dir \in {"send", "recv"}
      BY <1>9, WaitFields DEF TransportRouterReady
    <2> QED
      BY <1>9, <2>1 DEF TransportRouterReady, Waiting
  <1>10. ASSUME NEW c \in inflight, NEW i \in FreshIds(TransportIds, transports),
                TransportReady(c, i)
         PROVE  WaitTypes'
    <2> DEFINE t == [id |-> i, peer |-> c.peer, dir |-> c.dir, router |-> c.router,
                     listed |-> c.peer \in registered]
    <2>1. c.peer \in Peers /\ c.call \in Calls /\ c.dir \in {"send", "recv"}
          /\ c.router \in RouterIds
      BY <1>10, WaitFields DEF TransportReady
    <2>2. i \in TransportIds /\ (c.peer \in registered) \in BOOLEAN
      BY DEF FreshIds
    <2>3. t \in Transport
      BY <2>1, <2>2, Zenon DEF Transport
    <2>4. inflight' \subseteq inflight \cup
            {[op |-> "trace", call |-> c.call, peer |-> c.peer, transport |-> t]}
      BY <1>10 DEF TransportReady
    <2> HIDE DEF t
    <2> QED
      BY <2>1, <2>3, <2>4 DEF Waiting
  <1> QED
    BY <1>1, <1>2, <1>3, <1>4, <1>5, <1>6, <1>7, <1>8, <1>9, <1>10
       DEF Next, vars, Connect, Disconnect, JoinServed, JoinThrows, RouterThrows,
           ConnectTransport, DtlsClosed, RouterAnswered, RouterFailed, JoinReady,
           ConsumeRouterReady, WorkerAnswered, TraceAnswered, ProduceReady, ConsumeReady,
           WorkerCallFailed, ResumeAnswered, ProducerCloseNotice, WorkerStarted, WorkerDied,
           WorkerStartFails, ResumeRejected, UnawaitedRejected, Restart

LEMMA TypeStep == TypeOK /\ [Next]_vars => TypeOK'
  <1> SUFFICES ASSUME TypeOK, [Next]_vars PROVE TypeOK'
    OBVIOUS
  <1>1. [PoolProofs!Next]_(PoolProofs!poolVars) /\ PoolProofs!TypeOK
    BY PoolStep, SameNext, SameTypes DEF TypeOK
  <1>2. PoolProofs!TypeOK'
    BY <1>1, PoolAssumed, PoolProofs!TypeStep
  <1>3. Pool!TypeOK'
    BY <1>2, SameTypes, PTL
  <1> QED
    BY <1>3, PeerTypesStep, ObjectTypesStep, MapTypesStep, WaitTypesStep DEF TypeOK

\* Every variable of the session keeps its type.
THEOREM Typing == Spec => []TypeOK
  <1>1. Init => TypeOK
    <2> SUFFICES ASSUME Init PROVE TypeOK
      OBVIOUS
    <2>1. Pool!TypeOK
      BY SessionAssumption DEF Init, Pool!Init, Pool!TypeOK, Pool!WorkerIds, Pool!NaN
    <2> QED
      BY <2>1 DEF Init, TypeOK, PeerTypes, ObjectTypes, MapTypes, WaitTypes, Nothing, RoomKeys
  <1> QED
    BY <1>1, TypeStep, PTL DEF Spec

\* Seen from the pool, a behaviour of the session is a behaviour of RouterPool.
THEOREM PoolRefined == Spec => PoolProofs!Spec
  <1>1. Init => PoolProofs!Init
    BY DEF Init, Pool!Init, PoolProofs!Init, Pool!WorkerIds, PoolProofs!WorkerIds
  <1>2. TypeOK /\ [Next]_vars => [PoolProofs!Next]_(PoolProofs!poolVars)
    BY PoolStep, SameNext
  <1> QED
    BY <1>1, <1>2, Typing, PTL DEF Spec, PoolProofs!Spec

-----------------------------------------------------------------------------
(* What handlers begin to wait for.                                        *)

LEMMA NewWaits ==
    ASSUME TypeOK, [Next]_vars, NEW c \in inflight' \ inflight
    PROVE  /\ c.op = "join" => sock[c.peer] = "open" /\ c.room \in sio'[c.peer]
           /\ c.op \in {"produce", "consume"} =>
                 c.peer \in registered /\ c.transport \in held[c.peer]
           /\ c.op = "route" => Pool!RequestRouter(c.call, dataRoom[c.peer])
           /\ c.op = "open" =>
                 \/ Pool!Serves(dataRoom[c.peer], c.router) /\ UNCHANGED poolVars
                 \/ \E b \in inflight, d \in creating :
                       /\ b.op = "route" /\ b.peer = c.peer /\ b.call = d.call
                       /\ Pool!RouterCreated(d, c.router)
  <1> DEFINE Goal ==
         /\ c.op = "join" => sock[c.peer] = "open" /\ c.room \in sio'[c.peer]
         /\ c.op \in {"produce", "consume"} =>
               c.peer \in registered /\ c.transport \in held[c.peer]
         /\ c.op = "route" => Pool!RequestRouter(c.call, dataRoom[c.peer])
         /\ c.op = "open" =>
               \/ Pool!Serves(dataRoom[c.peer], c.router) /\ UNCHANGED poolVars
               \/ \E b \in inflight, d \in creating :
                     /\ b.op = "route" /\ b.peer = c.peer /\ b.call = d.call
                     /\ Pool!RouterCreated(d, c.router)
  <1>1. ASSUME NEW p \in Peers, NEW r \in Rooms, NEW k \in Calls, JoinWaits(k, p, r)
        PROVE  Goal
    BY <1>1 DEF JoinWaits, EnterRoom, TypeOK, PeerTypes
  <1>2. ASSUME NEW p \in Peers, NEW k \in Calls, NEW dir \in {"send", "recv"},
               CreateTransportWaits(k, p, dir)
        PROVE  Goal
    BY <1>2 DEF CreateTransportWaits
  <1>3. ASSUME NEW p \in Peers, NEW k \in Calls, NEW dir \in {"send", "recv"},
               NEW x \in RouterIds, CreateTransportServed(k, p, dir, x)
        PROVE  Goal
    BY <1>3 DEF CreateTransportServed
  <1>4. ASSUME NEW p \in Peers, NEW k \in Calls, NEW t \in held[p],
               Produce(k, p, t) \/ \E q \in KnownTo(p) : ConsumeServed(k, p, t, q)
        PROVE  Goal
    BY <1>4 DEF Produce, ConsumeServed
  <1>5. ASSUME NEW p \in Peers, NEW k \in Calls,
               \/ \E t \in held[p] : ConsumeWaits(k, p, t)
               \/ \E s \in consumed[p] : Resume(k, p, s)
        PROVE  Goal
    BY <1>5 DEF ConsumeWaits, Resume
  <1>6. ASSUME NEW b \in inflight, NEW d \in creating, NEW x \in RouterIds,
               TransportRouterReady(b, d, x)
        PROVE  Goal
    BY <1>6 DEF TransportRouterReady
  <1>7. ASSUME NEW b \in inflight, NEW i, TransportReady(b, i)
        PROVE  Goal
    BY <1>7 DEF TransportReady
  <1>8. ~(inflight' \subseteq inflight)
    OBVIOUS
  <1> HIDE DEF Goal
  <1>9. Goal
    BY <1>1, <1>2, <1>3, <1>4, <1>5, <1>6, <1>7, <1>8
       DEF Next, vars, Connect, Disconnect, JoinServed, JoinThrows, RouterThrows,
           ConnectTransport, DtlsClosed, RouterAnswered, RouterFailed, JoinReady,
           ConsumeRouterReady, WorkerAnswered, TraceAnswered, ProduceReady, ConsumeReady,
           WorkerCallFailed, ResumeAnswered, ProducerCloseNotice, WorkerStarted, WorkerDied,
           WorkerStartFails, ResumeRejected, UnawaitedRejected, Restart
  <1> QED
    BY <1>9 DEF Goal

-----------------------------------------------------------------------------
(* Sockets and records.                                                    *)

\* A peer without a record is in no room, and what its record held is gone.
Blank ==
    \A p \in Peers \ registered :
        sio[p] = {} /\ held[p] = {} /\ produced[p] = {} /\ consumed[p] = {}

\* A connection that is still to be made has no room.
NewRoomless == \A p \in Peers : sock[p] = "new" => dataRoom[p] = NoRoom

SocketInv == RecordsMatchSockets /\ Blank /\ NewRoomless

LEMMA InitSockets == Init => SocketInv
  BY DEF Init, Nothing, SocketInv, RecordsMatchSockets, Blank, NewRoomless

LEMMA SocketStep == TypeOK /\ SocketInv /\ [Next]_vars => SocketInv'
  <1> SUFFICES ASSUME TypeOK, SocketInv, [Next]_vars PROVE SocketInv'
    OBVIOUS
  <1> USE DEF SocketInv, RecordsMatchSockets, Blank, NewRoomless, TypeOK, PeerTypes
  <1>1. ASSUME NEW p \in Peers, Connect(p) PROVE SocketInv'
    BY <1>1 DEF Connect, peerVars, mapVars
  <1>2. ASSUME NEW p \in Peers, Disconnect(p) PROVE SocketInv'
    BY <1>2 DEF Disconnect, DropRecord, MapTypes
  <1>3. ASSUME NEW p \in Peers, NEW r \in Rooms,
               JoinServed(p, r) \/ JoinThrows(p, r) \/ \E k \in Calls : JoinWaits(k, p, r)
        PROVE  SocketInv'
    <2>1. /\ sock[p] = "open" /\ EnterRoom(p, r)
          /\ UNCHANGED <<sock, mapVars>>
      BY <1>3 DEF JoinServed, JoinThrows, JoinWaits
    <2> QED
      BY <2>1, SessionAssumption DEF EnterRoom, CreatePeer, mapVars, RoomKeys
  <1>4. CASE Restart
    BY <1>4 DEF Restart, Nothing
  <1>5. ASSUME NEW c \in inflight, NEW i \in FreshIds(TransportIds, transports),
               TransportReady(c, i)
        PROVE  SocketInv'
    BY <1>5, NewTransport DEF peerVars, MapTypes
  <1>6. ASSUME NEW c \in inflight, NEW i \in FreshIds(ProducerIds, producers),
               ProduceReady(c, i)
        PROVE  SocketInv'
    BY <1>6, NewProducer DEF peerVars, MapTypes
  <1>7. ASSUME NEW c \in inflight, NEW i \in FreshIds(ConsumerIds, consumers),
               ConsumeReady(c, i)
        PROVE  SocketInv'
    BY <1>7, NewConsumer DEF peerVars, MapTypes
  <1>8. CASE /\ UNCHANGED <<sock, peerVars>>
             /\ held' \in [Peers -> SUBSET transports]
             /\ produced' \in [Peers -> SUBSET producers]
             /\ consumed' \in [Peers -> SUBSET consumers]
             /\ \A p \in Peers : /\ held'[p] \subseteq held[p]
                                 /\ produced'[p] \subseteq produced[p]
                                 /\ consumed'[p] \subseteq consumed[p]
    BY <1>8 DEF peerVars
  <1>9. ASSUME NEW s \in openConsumers, ProducerCloseNotice(s) PROVE SocketInv'
    BY <1>8, <1>9 DEF ProducerCloseNotice, MapTypes
  <1>10. ASSUME NEW t \in dtls, DtlsClosed(t) PROVE SocketInv'
    BY <1>8, <1>10 DEF DtlsClosed, CloseTransports, MapTypes
  <1>11. ASSUME NEW w \in alive, WorkerDied(w) PROVE SocketInv'
    BY <1>8, <1>11 DEF WorkerDied, CloseTransports, MapTypes
  <1>12. CASE UNCHANGED <<sock, peerVars, mapVars>>
    BY <1>12 DEF peerVars, mapVars
  <1> QED
    BY <1>1, <1>2, <1>3, <1>4, <1>5, <1>6, <1>7, <1>9, <1>10, <1>11, <1>12, StepKinds
       DEF Quiet, JoinReady

-----------------------------------------------------------------------------
(* Maps and objects.                                                       *)

Settled(p) == p \in registered \/ sock[p] = "closed"

\* What a peer's maps hold was made for it, and producers and consumers are open.
MapsOwn ==
    \A p \in Peers :
        /\ \A t \in held[p] : t.peer = p /\ t.listed
        /\ \A q \in produced[p] : q.peer = p /\ q \in openProducers
        /\ \A s \in consumed[p] : s.peer = p /\ s \in openConsumers

\* An open transport that was given to its peer is in the peer's maps.
TransportsHeld ==
    \A t \in openTransports : t.listed => t.peer \in registered /\ t \in held[t.peer]

\* An open producer is in its peer's map, unless the peer has left; if the worker has
\* it, its transport is open.
ProducersHeld ==
    \A q \in openProducers :
        /\ Settled(q.peer)
        /\ q.peer \in registered => q \in produced[q.peer]
        /\ q.transport.peer = q.peer /\ q.transport.listed
        /\ q.onWorker => q.transport \in openTransports

ConsumersHeld ==
    \A s \in openConsumers :
        /\ Settled(s.peer)
        /\ s.peer \in registered => s \in consumed[s.peer]
        /\ s.transport.peer = s.peer /\ s.transport.listed
        /\ s.onWorker => s.transport \in openTransports

\* Who waits for a producer or consumer asked for it on a transport of its own.
WaitsOwn ==
    \A c \in inflight : c.op \in {"produce", "consume"} =>
        Settled(c.peer) /\ c.transport.peer = c.peer /\ c.transport.listed

MapInv == MapsOwn /\ TransportsHeld /\ ProducersHeld /\ ConsumersHeld /\ WaitsOwn

\* A peer that left does not come back in this life of the process.
LEMMA SettledStays ==
    ASSUME TypeOK, SocketInv, [Next]_vars, NEW p \in Peers, Settled(p)
    PROVE  Settled(p)' \/ Restart
  <1> USE DEF Settled, SocketInv, RecordsMatchSockets, TypeOK, PeerTypes
  <1>1. ASSUME NEW a \in Peers, Connect(a) \/ Disconnect(a) PROVE Settled(p)'
    BY <1>1 DEF Connect, Disconnect, DropRecord, peerVars
  <1>2. ASSUME NEW a \in Peers, NEW r \in Rooms,
               JoinServed(a, r) \/ JoinThrows(a, r) \/ \E k \in Calls : JoinWaits(k, a, r)
        PROVE  Settled(p)'
    BY <1>2 DEF JoinServed, JoinThrows, JoinWaits, EnterRoom, CreatePeer
  <1>3. CASE UNCHANGED <<sock, peerVars>>
    BY <1>3 DEF peerVars
  <1> QED
    BY <1>1, <1>2, <1>3, StepKinds
       DEF Quiet, JoinReady, TransportReady, ProduceReady, ConsumeReady,
           ProducerCloseNotice, DtlsClosed, WorkerDied

\* A connection only leaves its rooms when it closes.
LEMMA RoomsStay ==
    ASSUME TypeOK, [Next]_vars, NEW p \in Peers
    PROVE  \/ Restart
           \/ sock'[p] = "closed"
           \/ /\ sock[p] # "closed" /\ sio[p] \subseteq sio'[p]
              /\ sock'[p] = sock[p] \/ sock[p] = "new"
  <1> DEFINE Goal ==
         \/ sock'[p] = "closed"
         \/ /\ sock[p] # "closed" /\ sio[p] \subseteq sio'[p]
            /\ sock'[p] = sock[p] \/ sock[p] = "new"
  <1> USE DEF TypeOK, PeerTypes
  <1>1. ASSUME NEW a \in Peers, Connect(a) \/ Disconnect(a) PROVE Goal
    BY <1>1 DEF Connect, Disconnect, DropRecord, peerVars
  <1>2. ASSUME NEW a \in Peers, NEW r \in Rooms,
               JoinServed(a, r) \/ JoinThrows(a, r) \/ \E k \in Calls : JoinWaits(k, a, r)
        PROVE  Goal
    BY <1>2 DEF JoinServed, JoinThrows, JoinWaits, EnterRoom, CreatePeer
  <1>3. UNCHANGED <<sock, peerVars>> => Goal
    BY DEF peerVars
  <1> HIDE DEF Goal
  <1>4. Restart \/ Goal
    BY <1>1, <1>2, <1>3, StepKinds
       DEF Quiet, JoinReady, TransportReady, ProduceReady, ConsumeReady,
           ProducerCloseNotice, DtlsClosed, WorkerDied
  <1> QED
    BY <1>4 DEF Goal

LEMMA WaitsOwnStep == TypeOK /\ SocketInv /\ MapInv /\ [Next]_vars => WaitsOwn'
  <1> SUFFICES ASSUME TypeOK, SocketInv, MapInv, [Next]_vars PROVE WaitsOwn'
    OBVIOUS
  <1>1. CASE Restart
    BY <1>1 DEF Restart, WaitsOwn
  <1>2. ASSUME ~Restart, NEW c \in inflight', c.op \in {"produce", "consume"}
        PROVE  Settled(c.peer)' /\ c.transport.peer = c.peer /\ c.transport.listed
    <2>1. c.peer \in Peers
      BY TypeStep, <1>2, WaitFields DEF TypeOK, WaitTypes
    <2>2. CASE c \in inflight
      BY <2>1, <2>2, <1>2, SettledStays DEF MapInv, WaitsOwn
    <2>3. CASE c \notin inflight
      <3>1. c.peer \in registered /\ c.transport \in held[c.peer]
        BY <2>3, <1>2, NewWaits
      <3> QED
        BY <2>1, <3>1, <1>2, SettledStays DEF MapInv, MapsOwn, Settled
    <2> QED
      BY <2>2, <2>3
  <1> QED
    BY <1>1, <1>2 DEF WaitsOwn

\* Closing transports keeps maps and objects together, also if the transports leave
\* the maps (routerclose) or stay (dtlsstatechange).
LEMMA ClosingTransports ==
    ASSUME TypeOK, MapInv, NEW T \in SUBSET openTransports, CloseTransports(T),
           UNCHANGED <<sock, registered>>,
           held' = held \/ held' = [p \in Peers |-> held[p] \ T]
    PROVE  (MapsOwn /\ TransportsHeld /\ ProducersHeld /\ ConsumersHeld)'
  <1> USE DEF TypeOK, ObjectTypes, MapTypes, MapInv, Settled, CloseTransports
  <1>1. MapsOwn'
    BY DEF MapsOwn
  <1>2. TransportsHeld'
    BY DEF TransportsHeld, Transport
  <1>3. ProducersHeld'
    BY DEF ProducersHeld, ProducersOn, Producer
  <1>4. ConsumersHeld'
    BY DEF ConsumersHeld, ConsumersOn, Consumer
  <1> QED
    BY <1>1, <1>2, <1>3, <1>4

LEMMA MapStep == TypeOK /\ SocketInv /\ MapInv /\ [Next]_vars => MapInv'
  <1> SUFFICES ASSUME TypeOK, SocketInv, MapInv, [Next]_vars PROVE MapInv'
    OBVIOUS
  <1> DEFINE Goal == MapsOwn' /\ TransportsHeld' /\ ProducersHeld' /\ ConsumersHeld'
  <1> USE DEF TypeOK, PeerTypes, MapTypes, Settled
  <1>1. ASSUME NEW p \in Peers, Connect(p) PROVE Goal
    <2>1. p \notin registered /\ UNCHANGED <<registered, mapVars, openVars>>
          /\ sock' = [sock EXCEPT ![p] = "open"] /\ sock[p] = "new"
      BY <1>1 DEF Connect, peerVars, SocketInv, RecordsMatchSockets
    <2> QED
      BY <2>1 DEF MapInv, MapsOwn, TransportsHeld, ProducersHeld, ConsumersHeld,
                  mapVars, openVars
  <1>2. ASSUME NEW p \in Peers, Disconnect(p) PROVE Goal
    <2> USE <1>2 DEF Disconnect, CloseRecord, DropRecord, MapInv, MapsOwn
    <2>1. MapsOwn'
      BY DEF ProducersHeld, ConsumersHeld, ProducersOn, ConsumersOn
    <2>2. TransportsHeld'
      BY DEF TransportsHeld
    <2>3. ProducersHeld'
      BY DEF ProducersHeld, ProducersOn
    <2>4. ConsumersHeld'
      BY DEF ConsumersHeld, ConsumersOn
    <2> QED
      BY <2>1, <2>2, <2>3, <2>4
  <1>3. ASSUME NEW p \in Peers, NEW r \in Rooms,
               JoinServed(p, r) \/ JoinThrows(p, r) \/ \E k \in Calls : JoinWaits(k, p, r)
        PROVE  Goal
    <2>1. /\ sock[p] = "open" /\ registered' = registered \cup {p}
          /\ UNCHANGED <<sock, mapVars, openVars>>
      BY <1>3 DEF JoinServed, JoinThrows, JoinWaits, EnterRoom, CreatePeer
    <2> QED
      BY <2>1 DEF MapInv, MapsOwn, TransportsHeld, ProducersHeld, ConsumersHeld,
                  mapVars, openVars
  <1>4. ASSUME Restart PROVE Goal
    BY <1>4 DEF Restart, Nothing, MapsOwn, TransportsHeld, ProducersHeld, ConsumersHeld
  <1>5. ASSUME NEW c \in inflight, NEW i \in FreshIds(TransportIds, transports),
               TransportReady(c, i)
        PROVE  Goal
    BY <1>5, NewTransport, WaitFields
       DEF WaitTypes, MapInv, MapsOwn, TransportsHeld, ProducersHeld, ConsumersHeld, peerVars
  <1>6. ASSUME NEW c \in inflight, NEW i \in FreshIds(ProducerIds, producers),
               ProduceReady(c, i)
        PROVE  Goal
    BY <1>6, NewProducer, WaitFields
       DEF WaitTypes, MapInv, MapsOwn, TransportsHeld, ProducersHeld, ConsumersHeld,
           WaitsOwn, peerVars
  <1>7. ASSUME NEW c \in inflight, NEW i \in FreshIds(ConsumerIds, consumers),
               ConsumeReady(c, i)
        PROVE  Goal
    BY <1>7, NewConsumer, WaitFields
       DEF WaitTypes, MapInv, MapsOwn, TransportsHeld, ProducersHeld, ConsumersHeld,
           WaitsOwn, peerVars
  <1>8. ASSUME NEW s \in openConsumers, ProducerCloseNotice(s) PROVE Goal
    BY <1>8 DEF ProducerCloseNotice, peerVars, MapInv, MapsOwn, TransportsHeld,
                ProducersHeld, ConsumersHeld
  <1>9. ASSUME NEW t \in dtls, DtlsClosed(t) PROVE Goal
    BY <1>9, ClosingTransports DEF DtlsClosed, peerVars
  <1>10. ASSUME NEW w \in alive, WorkerDied(w) PROVE Goal
    BY <1>10, ClosingTransports DEF WorkerDied, peerVars
  <1>11. ASSUME UNCHANGED <<sock, peerVars, mapVars, openVars>> PROVE Goal
    BY <1>11 DEF peerVars, mapVars, openVars, MapInv, MapsOwn, TransportsHeld,
                 ProducersHeld, ConsumersHeld
  <1> HIDE DEF Goal
  <1>12. Goal
    BY <1>1, <1>2, <1>3, <1>4, <1>5, <1>6, <1>7, <1>8, <1>9, <1>10, <1>11, StepKinds
       DEF Quiet, JoinReady
  <1> QED
    BY <1>12, WaitsOwnStep DEF Goal, MapInv

\* Records, and what they hold, follow the sockets.
LEMMA SessionInvariant == Spec => [](TypeOK /\ SocketInv /\ MapInv)
  <1>1. Init => SocketInv /\ MapInv
    BY InitSockets
       DEF Init, Nothing, MapInv, MapsOwn, TransportsHeld, ProducersHeld, ConsumersHeld,
           WaitsOwn
  <1>2. TypeOK /\ SocketInv /\ MapInv /\ [Next]_vars => (SocketInv /\ MapInv)'
    BY SocketStep, MapStep
  <1> QED
    BY <1>1, <1>2, Typing, PTL DEF Spec

\* The peer map of TransportService and the sockets of the gateway agree.
THEOREM Records == Spec => []RecordsMatchSockets
  BY SessionInvariant, PTL DEF SocketInv

\* A registered peer's maps hold exactly what it has open.
THEOREM Exactness == Spec => []MapsExact
  <1>1. TypeOK /\ MapInv => MapsExact
    BY DEF MapInv, MapsOwn, TransportsHeld, ProducersHeld, ConsumersHeld, MapsExact,
           TypeOK, PeerTypes
  <1> QED
    BY <1>1, SessionInvariant, PTL

\* handleDisconnect releases everything a worker forwards for the peer, now and later.
THEOREM Release == Spec => []LeaverReleased
  <1>1. TypeOK /\ MapInv => LeaverReleased
    BY DEF MapInv, TransportsHeld, ProducersHeld, ConsumersHeld, LeaverReleased
  <1> QED
    BY <1>1, SessionInvariant, PTL

-----------------------------------------------------------------------------
(* Announcements.                                                          *)

JoinedInRoom == \A p \in Peers : sock[p] = "closed" \/ joined[p] \subseteq sio[p]

JoinsInRoom ==
    \A c \in inflight : c.op = "join" =>
        sock[c.peer] = "closed" \/ c.room \in sio[c.peer]

JoinInv == JoinedInRoom /\ JoinsInRoom /\ NoMissedProducer

LEMMA JoinsInRoomStep == TypeOK /\ JoinsInRoom /\ [Next]_vars => JoinsInRoom'
  <1> SUFFICES ASSUME TypeOK, JoinsInRoom, [Next]_vars PROVE JoinsInRoom'
    OBVIOUS
  <1>1. CASE Restart
    BY <1>1 DEF Restart, JoinsInRoom
  <1>2. ASSUME ~Restart, NEW c \in inflight', c.op = "join"
        PROVE  sock'[c.peer] = "closed" \/ c.room \in sio'[c.peer]
    <2>1. c.peer \in Peers
      BY TypeStep, WaitFields DEF TypeOK, WaitTypes
    <2> QED
      BY <1>2, <2>1, NewWaits, RoomsStay DEF JoinsInRoom
  <1> QED
    BY <1>1, <1>2 DEF JoinsInRoom

\* The reply to joinroom tells of the producers of the room, and of one more room.
LEMMA ReplyKeeps ==
    ASSUME TypeOK, SocketInv, JoinInv, NEW p \in Peers, NEW r \in Rooms, ReplyToJoin(p, r),
           UNCHANGED <<sock, produced>>,
           \/ UNCHANGED peerVars /\ (sock[p] = "closed" \/ r \in sio[p])
           \/ EnterRoom(p, r) /\ sock[p] = "open"
    PROVE  JoinedInRoom' /\ NoMissedProducer'
  <1> USE DEF TypeOK, PeerTypes, MapTypes, SocketInv, RecordsMatchSockets, Blank, JoinInv,
              EnterRoom, CreatePeer, ReplyToJoin, peerVars, clientVars
  <1>1. JoinedInRoom'
    BY DEF JoinedInRoom
  <1>2. ASSUME NEW a \in registered', NEW b \in registered', a # b, InOneRoom(a)',
               peerRoom'[a] \in joined'[b]
        PROVE  produced'[a] \subseteq told'[b]
    <2>1. produced[a] = {} \/ (a \in registered /\ InOneRoom(a) /\ peerRoom'[a] = peerRoom[a])
      BY <1>2 DEF InOneRoom
    <2>2. \/ b = p /\ sock[p] = "open" /\ peerRoom'[a] = r
          \/ peerRoom'[a] \in joined[b]
      BY <1>2
    <2>3. told[b] \subseteq told'[b]
      BY <1>2
    <2>4. ASSUME peerRoom'[a] \in joined[b] PROVE b \in registered
      BY <1>2, <2>4 DEF JoinedInRoom
    <2>5. CASE b = p /\ sock[p] = "open" /\ peerRoom'[a] = r /\ a \in registered
               /\ peerRoom'[a] = peerRoom[a]
      BY <2>5 DEF ProducersByRoom
    <2> QED
      BY <1>2, <2>1, <2>2, <2>3, <2>4, <2>5 DEF NoMissedProducer
  <1> QED
    BY <1>1, <1>2 DEF NoMissedProducer

LEMMA JoinStep == TypeOK /\ SocketInv /\ JoinInv /\ [Next]_vars => JoinInv'
  <1> SUFFICES ASSUME TypeOK, SocketInv, JoinInv, [Next]_vars PROVE JoinInv'
    OBVIOUS
  <1> DEFINE Goal == JoinedInRoom' /\ NoMissedProducer'
  <1> USE DEF TypeOK, PeerTypes, MapTypes, JoinInv
  <1>1. ASSUME NEW p \in Peers, Connect(p) PROVE Goal
    BY <1>1 DEF Connect, peerVars, mapVars, clientVars, JoinedInRoom, NoMissedProducer,
                InOneRoom
  <1>2. ASSUME NEW p \in Peers, Disconnect(p) PROVE Goal
    BY <1>2 DEF Disconnect, DropRecord, clientVars, JoinedInRoom, NoMissedProducer, InOneRoom
  <1>3. ASSUME NEW p \in Peers, NEW r \in Rooms, JoinServed(p, r) PROVE Goal
    BY <1>3, ReplyKeeps DEF JoinServed, mapVars
  <1>4. ASSUME NEW p \in Peers, NEW r \in Rooms,
               JoinThrows(p, r) \/ \E k \in Calls : JoinWaits(k, p, r)
        PROVE  Goal
    BY <1>4 DEF JoinThrows, JoinWaits, EnterRoom, CreatePeer, mapVars, clientVars,
                JoinedInRoom, NoMissedProducer, InOneRoom, SocketInv, RecordsMatchSockets,
                Blank
  <1>5. ASSUME NEW c \in inflight, NEW d \in creating, NEW x \in RouterIds, JoinReady(c, d, x)
        PROVE  Goal
    BY <1>5, ReplyKeeps, WaitFields DEF JoinReady, WaitTypes, JoinsInRoom, mapVars
  <1>6. ASSUME NEW c \in inflight, NEW i \in FreshIds(TransportIds, transports),
               TransportReady(c, i)
        PROVE  Goal
    BY <1>6, NewTransport DEF peerVars, clientVars, JoinedInRoom, NoMissedProducer, InOneRoom
  <1>7. ASSUME NEW c \in inflight, NEW i \in FreshIds(ProducerIds, producers),
               ProduceReady(c, i)
        PROVE  Goal
    BY <1>7, NewProducer, WaitFields
       DEF WaitTypes, peerVars, JoinedInRoom, NoMissedProducer, InOneRoom, SocketInv,
           RecordsMatchSockets
  <1>8. ASSUME /\ UNCHANGED <<sock, peerVars, clientVars>>
               /\ \A p \in Peers : produced'[p] \subseteq produced[p]
        PROVE  Goal
    BY <1>8 DEF peerVars, clientVars, JoinedInRoom, NoMissedProducer, InOneRoom
  <1>9. ASSUME NEW c \in inflight, NEW i \in FreshIds(ConsumerIds, consumers),
               ConsumeReady(c, i)
        PROVE  Goal
    BY <1>8, <1>9, NewConsumer
  <1>10. ASSUME NEW s \in openConsumers, ProducerCloseNotice(s) PROVE Goal
    BY <1>8, <1>10 DEF ProducerCloseNotice
  <1>11. ASSUME NEW t \in dtls, DtlsClosed(t) PROVE Goal
    BY <1>8, <1>11 DEF DtlsClosed, CloseTransports
  <1>12. ASSUME NEW w \in alive, WorkerDied(w) PROVE Goal
    BY <1>8, <1>12 DEF WorkerDied, CloseTransports
  <1>13. ASSUME Restart PROVE Goal
    BY <1>13 DEF Restart, Nothing, JoinedInRoom, NoMissedProducer
  <1>14. ASSUME Quiet PROVE Goal
    BY <1>8, <1>14 DEF Quiet, mapVars
  <1> HIDE DEF Goal
  <1>15. Goal
    BY <1>1, <1>2, <1>3, <1>4, <1>5, <1>6, <1>7, <1>9, <1>10, <1>11, <1>12, <1>13, <1>14,
       StepKinds
  <1> QED
    BY <1>15, JoinsInRoomStep DEF Goal

\* No client misses a producer, in whatever order the handlers of two peers interleave.
THEOREM Announcements == Spec => []NoMissedProducer
  <1>1. Init => JoinInv
    BY DEF Init, Nothing, JoinInv, JoinedInRoom, JoinsInRoom, NoMissedProducer
  <1> QED
    BY <1>1, JoinStep, SessionInvariant, PTL DEF Spec, JoinInv

-----------------------------------------------------------------------------
(* The board.                                                              *)

\* Peers enter rooms: for the board, a peer finds its home or loses it.
LEMMA WalkOfRoom ==
    ASSUME TypeOK, SocketInv, JoinInv, NEW p \in Peers, NEW r \in Rooms,
           EnterRoom(p, r), sock[p] = "open", UNCHANGED <<sock, produced>>
    PROVE  \E to \in Rooms \cup {NoRoom} : Board!Walk(p, to)
  <1> USE DEF TypeOK, PeerTypes, MapTypes, SocketInv, RecordsMatchSockets, Blank, EnterRoom,
              CreatePeer, InOneRoom
  <1> DEFINE to == IF InOneRoom(p)' THEN peerRoom'[p] ELSE NoRoom
  <1>1. to \in Rooms \cup {NoRoom}
    BY DEF RoomKeys
  <1>2. \A b \in Peers \ {p} : (InOneRoom(b)' <=> InOneRoom(b)) /\ peerRoom'[b] = peerRoom[b]
    OBVIOUS
  <1>3. Home' = [Home EXCEPT ![p] = to]
    BY <1>2 DEF Home
  <1>4. p \notin registered => Home[p] = NoRoom /\ produced[p] = {}
    BY DEF Home
  <1>5. p \in registered => to = Home[p] \/ to = NoRoom
    BY DEF Home
  <1> QED
    BY <1>1, <1>3, <1>4, <1>5 DEF Board!Walk

\* Whoever is open and has joined a room has a record.
LEMMA JoinedRegistered ==
    ASSUME TypeOK, SocketInv, JoinInv
    PROVE  \A p \in Peers \ registered : sock[p] # "closed" => joined[p] = {}
  BY DEF TypeOK, PeerTypes, SocketInv, Blank, JoinInv, JoinedInRoom

\* The reply to joinroom is a look at the board, or reaches nobody.
LEMMA ReplyEnters ==
    ASSUME TypeOK, SocketInv, JoinInv, NEW p \in Peers, NEW r \in Rooms, ReplyToJoin(p, r),
           UNCHANGED <<sock, produced>>,
           \/ UNCHANGED peerVars /\ (sock[p] = "closed" \/ r \in sio[p])
           \/ EnterRoom(p, r) /\ sock[p] = "open"
    PROVE  [Board!Next]_(Board!boardVars)
  <1> USE DEF TypeOK, PeerTypes, MapTypes
  <1>1. CASE sock[p] # "open"
    BY <1>1 DEF ReplyToJoin, clientVars, peerVars, Home, Entered, InOneRoom, Board!boardVars,
                SocketInv, RecordsMatchSockets, Blank
  <1>2. CASE sock[p] = "open"
    <2>1. \E to \in Rooms \cup {NoRoom} : Board!Walk(p, to)
      <3>1. CASE UNCHANGED peerVars
        <4>1. Home' = Home /\ Home \in [Peers -> Rooms \cup {NoRoom}]
          BY <3>1 DEF peerVars, Home, InOneRoom, RoomKeys
        <4> QED
          BY <4>1 DEF Board!Walk
      <3> QED
        BY <1>2, <3>1, WalkOfRoom
    <2> DEFINE A == {a \in registered : peerRoom[a] = r}
    <2>2. A \in SUBSET Peers /\ {a \in Peers : Home[a] = r} \subseteq A
      BY SessionAssumption DEF Home, InOneRoom
    <2>3. p \in registered' /\ \A b \in Peers \ {p} : b \in registered' <=> b \in registered
      BY <1>2 DEF EnterRoom, CreatePeer, peerVars, SocketInv, Blank
    <2>4. Entered' = [Entered EXCEPT ![p] = @ \cup {r}]
      BY <1>2, <2>3, JoinedRegistered DEF Entered, ReplyToJoin
    <2>5. told' = [told EXCEPT ![p] = @ \cup UNION {produced[a] : a \in A}]
      BY <1>2 DEF ReplyToJoin, ProducersByRoom
    <2> HIDE DEF A
    <2> QED
      BY <2>1, <2>2, <2>4, <2>5 DEF Board!Enter, Board!Next
  <1> QED
    BY <1>1, <1>2

\* newProducer reaches everybody who has entered the room of a peer that stayed in it.
LEMMA AnnouncementPublishes ==
    ASSUME TypeOK, SocketInv, JoinInv, NEW c \in inflight,
           NEW i \in FreshIds(ProducerIds, producers), ProduceReady(c, i)
    PROVE  [Board!Next]_(Board!boardVars)
  <1> USE DEF TypeOK, PeerTypes, MapTypes
  <1>1. c.peer \in Peers
    BY WaitFields DEF WaitTypes
  <1> DEFINE A == {b \in Peers \ {c.peer} : dataRoom[c.peer] \in sio[b]}
  <1>2. PICK q \in Producer :
          /\ produced' = IF c.peer \in registered
                         THEN [produced EXCEPT ![c.peer] = @ \cup {q}] ELSE produced
          /\ told' = [b \in Peers |-> IF b # c.peer /\ dataRoom[c.peer] \in sio[b]
                                      THEN told[b] \cup {q} ELSE told[b]]
          /\ UNCHANGED <<sock, peerVars, joined>>
    BY NewProducer
  <1>3. Home' = Home /\ Entered' = Entered
    BY <1>2 DEF Home, Entered, InOneRoom, peerVars
  <1>4. told' = [b \in Peers |-> IF b \in A THEN told[b] \cup {q} ELSE told[b]]
    BY <1>2
  <1>5. Board!CallOut(q, A)
    BY <1>4 DEF Board!CallOut
  <1>6. CASE c.peer \in registered
    <2>1. Board!Readers(c.peer) \subseteq A
      <3> SUFFICES ASSUME NEW b \in Board!Readers(c.peer) PROVE b \in A
        OBVIOUS
      <3>1. b \in registered /\ b # c.peer /\ Home[c.peer] \in joined[b]
        BY <1>1 DEF Board!Readers, Entered
      <3>2. Home[c.peer] = dataRoom[c.peer]
        BY <1>1, <1>6, <3>1, SessionAssumption
           DEF Home, InOneRoom, SocketInv, RecordsMatchSockets
      <3> QED
        BY <1>1, <3>1, <3>2 DEF SocketInv, RecordsMatchSockets, JoinInv, JoinedInRoom
    <2>2. q \in produced'[c.peer] /\ produced' = [produced EXCEPT ![c.peer] = @ \cup {q}]
      BY <1>1, <1>2, <1>6
    <2>3. Board!Publish(c.peer, A)
      BY <1>3, <1>5, <2>1, <2>2 DEF Board!Publish
    <2> QED
      BY <1>1, <2>3 DEF Board!Next
  <1>7. CASE c.peer \notin registered /\ A # {}
    <2>1. q \in UNION {told'[b] : b \in A}
      BY <1>4, <1>7
    <2>2. Board!CallOutLate(A)
      BY <1>2, <1>3, <1>5, <1>7, <2>1 DEF Board!CallOutLate
    <2> QED
      BY <2>2 DEF Board!Next
  <1>8. CASE c.peer \notin registered /\ A = {}
    <2>1. told' = told
      BY <1>4, <1>8
    <2> QED
      BY <1>2, <1>3, <1>8, <2>1 DEF Board!boardVars
  <1> QED
    BY <1>6, <1>7, <1>8

LEMMA BoardStep == TypeOK /\ SocketInv /\ JoinInv /\ [Next]_vars => [Board!Next]_(Board!boardVars)
  <1> SUFFICES ASSUME TypeOK, SocketInv, JoinInv, [Next]_vars
               PROVE  [Board!Next]_(Board!boardVars)
    OBVIOUS
  <1> DEFINE Goal == [Board!Next]_(Board!boardVars)
  <1> USE DEF TypeOK, PeerTypes, MapTypes
  <1>1. ASSUME UNCHANGED <<peerVars, clientVars, produced>> PROVE Goal
    BY <1>1 DEF peerVars, clientVars, Home, Entered, InOneRoom, Board!boardVars
  <1>2. ASSUME NEW T, CloseTransports(T), UNCHANGED <<peerVars, clientVars>> PROVE Goal
    <2> DEFINE Q == ProducersOn(T) \cap UNION {produced[p] : p \in Peers}
    <2>1. produced' = [p \in Peers |-> produced[p] \ Q]
      BY <1>2 DEF CloseTransports
    <2>2. Home' = Home /\ Entered' = Entered /\ told' = told
      BY <1>2 DEF peerVars, clientVars, Home, Entered, InOneRoom
    <2>3. Q \in SUBSET UNION {produced[p] : p \in Peers}
      OBVIOUS
    <2> HIDE DEF Q
    <2>4. Board!Withdraw(Q)
      BY <2>1, <2>2 DEF Board!Withdraw
    <2> QED
      BY <2>3, <2>4 DEF Board!Next
  <1>3. ASSUME NEW p \in Peers, Connect(p) PROVE Goal
    BY <1>1, <1>3 DEF Connect, mapVars
  <1>4. ASSUME NEW p \in Peers, Disconnect(p) PROVE Goal
    <2>1. \A b \in Peers \ {p} : (InOneRoom(b)' <=> InOneRoom(b)) /\ peerRoom'[b] = peerRoom[b]
      BY <1>4 DEF Disconnect, DropRecord, InOneRoom
    <2>2. Home' = [Home EXCEPT ![p] = NoRoom]
      BY <1>4, <2>1 DEF Home, InOneRoom, Disconnect, DropRecord
    <2>3. Entered' = [Entered EXCEPT ![p] = {}]
      BY <1>4 DEF Entered, Disconnect, DropRecord, clientVars
    <2>4. produced' = [produced EXCEPT ![p] = {}] /\ told' = told
      BY <1>4 DEF Disconnect, DropRecord, clientVars
    <2>5. Board!Leave(p)
      BY <2>2, <2>3, <2>4 DEF Board!Leave
    <2> QED
      BY <2>5 DEF Board!Next
  <1>5. ASSUME NEW p \in Peers, NEW r \in Rooms, JoinServed(p, r) PROVE Goal
    BY <1>5, ReplyEnters DEF JoinServed, mapVars
  <1>6. ASSUME NEW p \in Peers, NEW r \in Rooms,
               JoinThrows(p, r) \/ \E k \in Calls : JoinWaits(k, p, r)
        PROVE  Goal
    <2>1. EnterRoom(p, r) /\ sock[p] = "open" /\ UNCHANGED <<sock, produced, clientVars>>
      BY <1>6 DEF JoinThrows, JoinWaits, mapVars
    <2>2. Entered' = Entered
      BY <2>1, JoinedRegistered DEF Entered, EnterRoom, CreatePeer, clientVars
    <2> QED
      BY <2>1, <2>2, WalkOfRoom DEF clientVars, Board!Move, Board!Next
  <1>7. ASSUME NEW c \in inflight, NEW d \in creating, NEW x \in RouterIds, JoinReady(c, d, x)
        PROVE  Goal
    BY <1>7, ReplyEnters, WaitFields DEF JoinReady, WaitTypes, JoinInv, JoinsInRoom, mapVars
  <1>8. ASSUME NEW c \in inflight, NEW i \in FreshIds(TransportIds, transports),
               TransportReady(c, i)
        PROVE  Goal
    BY <1>1, <1>8, NewTransport
  <1>9. ASSUME NEW c \in inflight, NEW i \in FreshIds(ProducerIds, producers),
               ProduceReady(c, i)
        PROVE  Goal
    BY <1>9, AnnouncementPublishes
  <1>10. ASSUME NEW c \in inflight, NEW i \in FreshIds(ConsumerIds, consumers),
               ConsumeReady(c, i)
        PROVE  Goal
    BY <1>1, <1>10, NewConsumer
  <1>11. ASSUME NEW s \in openConsumers, ProducerCloseNotice(s) PROVE Goal
    BY <1>1, <1>11 DEF ProducerCloseNotice
  <1>12. ASSUME NEW t \in dtls, DtlsClosed(t) PROVE Goal
    BY <1>2, <1>12 DEF DtlsClosed
  <1>13. ASSUME NEW w \in alive, WorkerDied(w) PROVE Goal
    BY <1>2, <1>13 DEF WorkerDied
  <1>14. ASSUME Restart PROVE Goal
    <2>1. Board!Clear
      BY <1>14 DEF Restart, Nothing, Home, Entered, InOneRoom, Board!Clear
    <2> QED
      BY <2>1 DEF Board!Next
  <1>15. ASSUME Quiet PROVE Goal
    BY <1>1, <1>15 DEF Quiet, mapVars
  <1> HIDE DEF Goal
  <1>16. Goal
    BY <1>3, <1>4, <1>5, <1>6, <1>7, <1>8, <1>9, <1>10, <1>11, <1>12, <1>13, <1>14, <1>15,
       StepKinds
  <1> QED
    BY <1>16 DEF Goal

\* Seen from the clients, the handlers of the namespace are one complete board: the session
\* implements ProducerBoard.
THEOREM BoardImplemented == Spec => ImplementsBoard
  <1>1. Init => Board!Init
    BY DEF Init, Nothing, Home, Entered, InOneRoom, Board!Init
  <1>2. Init => JoinInv
    BY DEF Init, Nothing, JoinInv, JoinedInRoom, JoinsInRoom, NoMissedProducer
  <1> QED
    BY <1>1, <1>2, BoardStep, JoinStep, SessionInvariant, PTL
       DEF Spec, JoinInv, ImplementsBoard, Board!Spec

-----------------------------------------------------------------------------
(* Routers.                                                                *)

\* The router was created for a room of the peer, or for no room.
HomeRoom(p, x) == \E r \in sio[p] \cup {NoRoom} : Pool!BuiltFor(r, x)

HeldAtHome == \A p \in Peers : \A t \in held[p] : HomeRoom(p, t.router)

OpensAtHome ==
    \A c \in inflight : c.op = "open" =>
        sock[c.peer] = "closed" \/ HomeRoom(c.peer, c.router)

RoutesHome ==
    \A c \in inflight : c.op = "route" =>
        \/ sock[c.peer] = "closed"
        \/ \A d \in creating : d.call = c.call => d.room \in sio[c.peer] \cup {NoRoom}

RouterInv == HeldAtHome /\ OpensAtHome /\ RoutesHome

LEMMA SameTable == Pool!TableSound <=> PoolProofs!TableSound
  <1>1. Pool!WorkerIds = PoolProofs!WorkerIds
    BY DEF Pool!WorkerIds, PoolProofs!WorkerIds
  <1>2. \A r, x : Pool!Serves(r, x) <=> PoolProofs!Serves(r, x)
    BY <1>1 DEF Pool!Serves, PoolProofs!Serves, Pool!ServedBy, PoolProofs!ServedBy
  <1> QED
    BY <1>1, <1>2 DEF Pool!TableSound, PoolProofs!TableSound

\* No handler waits with the identity of a new creation.
LEMMA NewCreations ==
    ASSUME TypeOK, [Next]_vars, ~Restart, NEW d \in creating' \ creating
    PROVE  /\ \A c \in inflight : c.call # d.call
           /\ \E k \in Calls, r \in RoomKeys :
                 Pool!RequestRouter(k, r) /\ d = [call |-> k, room |-> r, worker |-> nextWorkerIndex]
  <1> DEFINE Goal ==
         /\ \A c \in inflight : c.call # d.call
         /\ \E k \in Calls, r \in RoomKeys :
               Pool!RequestRouter(k, r) /\ d = [call |-> k, room |-> r, worker |-> nextWorkerIndex]
  <1>1. ASSUME NEW k \in Calls, NEW r \in RoomKeys, Idle(k), Pool!RequestRouter(k, r)
        PROVE  Goal
    <2>1. d = [call |-> k, room |-> r, worker |-> nextWorkerIndex]
      BY <1>1 DEF Pool!RequestRouter
    <2>2. \A c \in inflight : c.call # d.call
      BY <1>1, <2>1 DEF Idle
    <2> QED
      BY <1>1, <2>1, <2>2
  <1>2. ASSUME NEW p \in Peers, NEW k \in Calls,
               \/ \E r \in Rooms : JoinWaits(k, p, r)
               \/ \E dir \in {"send", "recv"} : CreateTransportWaits(k, p, dir)
               \/ \E t \in held[p] : ConsumeWaits(k, p, t)
        PROVE  Goal
    BY <1>1, <1>2 DEF JoinWaits, CreateTransportWaits, ConsumeWaits, RoomKeys, TypeOK,
                      PeerTypes
  <1>3. ~(creating' \subseteq creating)
    OBVIOUS
  <1>4. UNCHANGED poolVars => UNCHANGED creating
    BY DEF poolVars
  <1> HIDE DEF Goal
  <1>5. ASSUME NEW c \in inflight, RouterAnswered(c) PROVE creating' \subseteq creating
    BY <1>5 DEF RouterAnswered, RouterFailed, JoinReady, TransportRouterReady,
                ConsumeRouterReady, Pool!RouterRefused, Pool!RouterCreated
  <1>6. ASSUME NEW p, Pool!RequestThrows(p) PROVE creating' = creating
    BY <1>6 DEF Pool!RequestThrows
  <1>7. ASSUME NEW w, Pool!WorkerDied(w) PROVE creating' \subseteq creating
    BY <1>7 DEF Pool!WorkerDied
  <1>8. Pool!WorkerStarted => creating' = creating
    BY DEF Pool!WorkerStarted
  <1>9. Goal
    BY <1>2, <1>3, <1>4, <1>5, <1>6, <1>7, <1>8
       DEF Next, vars, Connect, Disconnect, JoinServed, JoinThrows, RouterThrows,
           ConnectTransport, DtlsClosed, CreateTransportServed, Produce, ConsumeServed, Resume,
           TransportReady, WorkerAnswered, TraceAnswered, ProduceReady, ConsumeReady,
           WorkerCallFailed, ResumeAnswered, ProducerCloseNotice, WorkerStarted, WorkerDied,
           WorkerStartFails, ResumeRejected, UnawaitedRejected
  <1> QED
    BY <1>9 DEF Goal

\* Routers are not forgotten while the process lives.
LEMMA BuiltGrows == ASSUME TypeOK, [Next]_vars, ~Restart PROVE built \subseteq built'
  <1>1. ASSUME NEW k, NEW r, Pool!RequestRouter(k, r) PROVE built' = built
    BY <1>1 DEF Pool!RequestRouter
  <1>2. ASSUME NEW r, Pool!RequestThrows(r) PROVE built' = built
    BY <1>2 DEF Pool!RequestThrows
  <1>3. ASSUME NEW c \in inflight, RouterAnswered(c) PROVE built \subseteq built'
    BY <1>3 DEF RouterAnswered, RouterFailed, JoinReady, TransportRouterReady,
                ConsumeRouterReady, Pool!RouterRefused, Pool!RouterCreated
  <1>4. ASSUME NEW w, Pool!WorkerDied(w) PROVE built' = built
    BY <1>4 DEF Pool!WorkerDied
  <1>5. Pool!WorkerStarted => built' = built
    BY DEF Pool!WorkerStarted
  <1>6. UNCHANGED poolVars => UNCHANGED built
    BY DEF poolVars
  <1> QED
    BY <1>1, <1>2, <1>3, <1>4, <1>5, <1>6
       DEF Next, vars, Connect, Disconnect, JoinServed, JoinWaits, JoinThrows, RouterThrows,
           CreateTransportWaits, ConsumeWaits,
           ConnectTransport, DtlsClosed, CreateTransportServed, Produce, ConsumeServed, Resume,
           TransportReady, WorkerAnswered, TraceAnswered, ProduceReady, ConsumeReady,
           WorkerCallFailed, ResumeAnswered, ProducerCloseNotice, WorkerStarted, WorkerDied,
           WorkerStartFails, ResumeRejected, UnawaitedRejected

LEMMA HomeStays ==
    ASSUME TypeOK, [Next]_vars, ~Restart, NEW p \in Peers, NEW x, HomeRoom(p, x)
    PROVE  sock'[p] = "closed" \/ HomeRoom(p, x)'
  BY RoomsStay, BuiltGrows DEF HomeRoom, Pool!BuiltFor

\* The only transport a step adds to a map is the one a worker answered with.
LEMMA HeldGrows ==
    ASSUME TypeOK, [Next]_vars, NEW p \in Peers, NEW t \in held'[p], t \notin held[p]
    PROVE  \E c \in inflight :
              c.op = "open" /\ c.peer = p /\ c.router = t.router /\ p \in registered
              /\ UNCHANGED <<sock, sio>>
  <1> USE DEF TypeOK, PeerTypes, MapTypes
  <1>1. ASSUME NEW c \in inflight, NEW i \in FreshIds(TransportIds, transports),
               TransportReady(c, i)
        PROVE  c.op = "open" /\ c.peer = p /\ c.router = t.router /\ p \in registered
               /\ UNCHANGED <<sock, sio>>
    BY <1>1, NewTransport DEF peerVars
  <1>2. ~(\A a \in Peers : held'[a] \subseteq held[a])
    OBVIOUS
  <1>3. ASSUME NEW a \in Peers, Disconnect(a) PROVE \A b \in Peers : held'[b] \subseteq held[b]
    BY <1>3 DEF Disconnect, DropRecord
  <1>4. Restart => \A b \in Peers : held'[b] \subseteq held[b]
    BY DEF Restart, Nothing
  <1>5. ASSUME NEW w \in alive, WorkerDied(w) PROVE \A b \in Peers : held'[b] \subseteq held[b]
    BY <1>5 DEF WorkerDied
  <1>6. UNCHANGED mapVars \/ UNCHANGED held => \A b \in Peers : held'[b] \subseteq held[b]
    BY DEF mapVars
  <1> QED
    BY <1>1, <1>2, <1>3, <1>4, <1>5, <1>6, StepKinds
       DEF Quiet, Connect, JoinServed, JoinThrows, JoinWaits, JoinReady, ProduceReady,
           ConsumeReady, ProducerCloseNotice, DtlsClosed

LEMMA RouterStep ==
    TypeOK /\ SocketInv /\ Pool!TableSound /\ RouterInv /\ [Next]_vars => RouterInv'
  <1> SUFFICES ASSUME TypeOK, SocketInv, Pool!TableSound, RouterInv, [Next]_vars
               PROVE  RouterInv'
    OBVIOUS
  <1>1. CASE Restart
    BY <1>1 DEF Restart, Nothing, RouterInv, HeldAtHome, OpensAtHome, RoutesHome
  <1>2. CASE ~Restart
    <2>1. ASSUME NEW p \in Peers, NEW t \in held'[p] PROVE HomeRoom(p, t.router)'
      <3>1. sock'[p] # "closed"
        <4>1. p \in registered'
          BY <2>1, SocketStep DEF SocketInv, Blank
        <4> QED
          BY <4>1, SocketStep DEF SocketInv, RecordsMatchSockets
      <3>2. CASE t \in held[p]
        BY <1>2, <3>1, <3>2, HomeStays DEF RouterInv, HeldAtHome
      <3>3. CASE t \notin held[p]
        <4>1. HomeRoom(p, t.router)
          BY <2>1, <3>3, HeldGrows
             DEF RouterInv, OpensAtHome, SocketInv, RecordsMatchSockets
        <4> QED
          BY <1>2, <3>1, <4>1, HomeStays
      <3> QED
        BY <3>2, <3>3
    <2>2. ASSUME NEW c \in inflight', c.op = "open"
          PROVE  sock'[c.peer] = "closed" \/ HomeRoom(c.peer, c.router)'
      <3>0. c.peer \in Peers
        BY <2>2, TypeStep, WaitFields DEF TypeOK, WaitTypes
      <3>1. CASE c \in inflight
        BY <1>2, <2>2, <3>0, <3>1, HomeStays, RoomsStay DEF RouterInv, OpensAtHome
      <3>2. CASE Pool!Serves(dataRoom[c.peer], c.router)
        <4>1. Pool!BuiltFor(dataRoom[c.peer], c.router)
          <5>1. dataRoom[c.peer] \in RoomKeys
            BY <3>0 DEF TypeOK, PeerTypes
          <5> QED
            BY <3>2, <5>1 DEF Pool!TableSound, Pool!Serves, Pool!ServedBy, Pool!BuiltFor
        <4>2. sock[c.peer] = "closed" \/ dataRoom[c.peer] \in sio[c.peer] \cup {NoRoom}
          BY <3>0 DEF SocketInv, RecordsMatchSockets, NewRoomless, TypeOK, PeerTypes
        <4> QED
          BY <1>2, <3>0, <4>1, <4>2, HomeStays, RoomsStay DEF HomeRoom
      <3>3. ASSUME NEW b \in inflight, NEW d \in creating,
                   b.op = "route", b.peer = c.peer, b.call = d.call,
                   Pool!RouterCreated(d, c.router)
            PROVE  sock'[c.peer] = "closed" \/ HomeRoom(c.peer, c.router)'
        <4>1. sock[c.peer] = "closed" \/ d.room \in sio[c.peer] \cup {NoRoom}
          BY <3>3 DEF RouterInv, RoutesHome
        <4> DEFINE n == [router |-> c.router, worker |-> d.worker, room |-> d.room]
        <4>2. n \in built' /\ n.router = c.router /\ n.room = d.room
          BY <3>3 DEF Pool!RouterCreated
        <4> HIDE DEF n
        <4>3. sock'[c.peer] = "closed" \/ d.room \in sio'[c.peer] \cup {NoRoom}
          BY <1>2, <3>0, <4>1, RoomsStay
        <4> QED
          BY <4>2, <4>3 DEF HomeRoom, Pool!BuiltFor
      <3> QED
        BY <2>2, <3>1, <3>2, <3>3, NewWaits
    <2>3. ASSUME NEW c \in inflight', c.op = "route", NEW d \in creating', d.call = c.call
          PROVE  sock'[c.peer] = "closed" \/ d.room \in sio'[c.peer] \cup {NoRoom}
      <3>0. c.peer \in Peers
        BY <2>3, TypeStep, WaitFields DEF TypeOK, WaitTypes
      <3>1. CASE c \in inflight
        <4>1. d \in creating
          BY <1>2, <2>3, <3>1, NewCreations
        <4> QED
          BY <1>2, <2>3, <3>0, <3>1, <4>1, RoomsStay DEF RouterInv, RoutesHome
      <3>2. CASE c \notin inflight
        <4>1. Pool!RequestRouter(c.call, dataRoom[c.peer])
          BY <2>3, <3>2, NewWaits
        <4>2. d.room = dataRoom[c.peer]
          BY <2>3, <4>1 DEF Pool!RequestRouter
        <4>3. sock[c.peer] = "closed" \/ dataRoom[c.peer] \in sio[c.peer] \cup {NoRoom}
          BY <3>0 DEF SocketInv, RecordsMatchSockets, NewRoomless, TypeOK, PeerTypes
        <4> QED
          BY <1>2, <3>0, <4>2, <4>3, RoomsStay
      <3> QED
        BY <3>1, <3>2
    <2> QED
      BY <2>1, <2>2, <2>3 DEF RouterInv, HeldAtHome, OpensAtHome, RoutesHome
  <1> QED
    BY <1>1, <1>2

\* The transports of a peer that stayed in its room are on the room's one router, also
\* while workers die and other rooms come and go, unless its creation was overlapped.
THEOREM RoomRouter == Spec => []HeldOnRoomRouter
  <1>1. Init => RouterInv
    BY DEF Init, Nothing, RouterInv, HeldAtHome, OpensAtHome, RoutesHome
  <1>2. Spec => []Pool!TableSound
    BY PoolRefined, PoolAssumed, PoolProofs!Soundness, SameTable, PTL
  <1>3. Spec => []RouterInv
    BY <1>1, <1>2, RouterStep, SessionInvariant, PTL DEF Spec
  <1>4. TypeOK /\ Pool!TableSound /\ RouterInv => HeldOnRoomRouter
    <2> SUFFICES ASSUME TypeOK, Pool!TableSound, RouterInv,
                        NEW p \in Peers, InOneRoom(p), peerRoom[p] \notin overlapped,
                        NEW t \in held[p]
                 PROVE  Pool!Serves(peerRoom[p], t.router) \/ Pool!BuiltFor(NoRoom, t.router)
      BY DEF HeldOnRoomRouter
    <2>1. Pool!BuiltFor(peerRoom[p], t.router) \/ Pool!BuiltFor(NoRoom, t.router)
      BY DEF RouterInv, HeldAtHome, HomeRoom, InOneRoom
    <2> QED
      BY <2>1 DEF Pool!BuiltFor, Pool!TableSound
  <1> QED
    BY <1>2, <1>3, <1>4, Typing, PTL
=============================================================================
