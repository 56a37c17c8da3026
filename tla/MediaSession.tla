----------------------------- MODULE MediaSession -----------------------------
(***************************************************************************)
(* MediasoupGateway and TransportService: the sockets of the /mediasoup    *)
(* namespace, the in-memory peer records, and the transports, producers    *)
(* and consumers the handlers create on the room's router.  MediasoupService*)
(* is module RouterPool, whose variables this module shares.               *)
(*                                                                         *)
(* The program is one Node.js thread.  A handler runs from one await that  *)
(* really waits to the next in one step; what is left of it is a record of *)
(* inflight until the answer comes.  mediasoup objects are records that    *)
(* never change, as the handlers hold references to them; what changes is  *)
(* which are open and which maps hold them.                                *)
(*                                                                         *)
(* The mediasoup library and its worker processes are external.  A worker  *)
(* handles the requests it is sent in order, so a produce or consume       *)
(* request that was sent before its transport closed is still answered:    *)
(* the handler then holds an object the worker no longer has (onWorker is  *)
(* FALSE), and no event will ever report that it closed.                   *)
(***************************************************************************)
EXTENDS Integers, FiniteSets

CONSTANTS
    Peers,        \* connections of the namespace; each gets its own peerId
    Rooms,        \* room ids clients join
    NoRoom,       \* client.data.roomId before the first joinroom: undefined
    TransportIds, ProducerIds, ConsumerIds,   \* ids the library may hand out
    RouterIds, Calls, NoRouter, NumWorkers, MaxWorkers   \* see RouterPool

RoomKeys == Rooms \cup {NoRoom}

ASSUME SessionAssumption ==
    /\ NumWorkers \in Nat \ {0}
    /\ MaxWorkers \in Nat /\ MaxWorkers >= NumWorkers
    /\ NoRouter \notin RouterIds
    /\ NoRoom \notin Rooms

VARIABLES
    size, alive, spawning, nextWorkerIndex, routers, built, creating, overlapped,
    sock,           \* state of each connection
    dataRoom,       \* client.data.roomId
    sio,            \* socket.io rooms of the socket
    registered,     \* peerIds with a record in TransportService.peers
    peerRoom,       \* roomId of the record
    held,           \* sendTransport and recvTransport of the record
    produced,       \* producers of the record
    consumed,       \* consumers of the record
    transports,     \* every transport created so far
    openTransports, \* those not closed
    dtls,           \* transports whose connect was answered
    producers, openProducers,
    consumers, openConsumers,
    resumed,        \* consumers that are no longer paused
    told,           \* history: producers each client was told of
    joined,         \* history: rooms whose joinroom reply the client received
    inflight        \* handlers waiting for an answer

Pool == INSTANCE RouterPool

poolVars == <<size, alive, spawning, nextWorkerIndex, routers, built, creating, overlapped>>
peerVars == <<dataRoom, sio, registered, peerRoom>>
mapVars == <<held, produced, consumed>>
openVars == <<openTransports, openProducers, openConsumers>>
objectVars == <<transports, dtls, producers, consumers, resumed>>
clientVars == <<told, joined>>
vars == <<poolVars, sock, peerVars, mapVars, openVars, objectVars, clientVars, inflight>>

Transport == [id : TransportIds, peer : Peers, dir : {"send", "recv"},
              router : RouterIds, listed : BOOLEAN]

Producer == [id : ProducerIds, peer : Peers, transport : Transport, onWorker : BOOLEAN]

Consumer == [id : ConsumerIds, peer : Peers, transport : Transport,
             producer : Producer, onWorker : BOOLEAN]

\* What is left of a handler: the two kinds of wait are for a router to be
\* created (join, route, look) and for an answer about an object.  Nothing
\* awaits trace (enableTraceEvent) and resume.
Waiting ==
    [op : {"join"}, call : Calls, peer : Peers, room : Rooms]
    \cup [op : {"route"}, call : Calls, peer : Peers, dir : {"send", "recv"}]
    \cup [op : {"look"}, call : Calls, peer : Peers]
    \cup [op : {"open"}, call : Calls, peer : Peers, dir : {"send", "recv"},
          router : RouterIds]
    \cup [op : {"produce", "trace"}, call : Calls, peer : Peers, transport : Transport]
    \cup [op : {"consume"}, call : Calls, peer : Peers, transport : Transport,
          producer : Producer]
    \cup [op : {"resume"}, call : Calls, peer : Peers, consumer : Consumer]

-----------------------------------------------------------------------------
(* Helpers.                                                                *)

\* No peer has anything in the map.
Nothing == [p \in Peers |-> {}]

Idle(k) == \A c \in inflight : c.call # k

\* Bound: a request is let in only if an id is left for its object.
Spare(ids, objects, ops) ==
    Cardinality(objects) + Cardinality({c \in inflight : c.op \in ops})
        < Cardinality(ids)

FreshIds(ids, objects) == ids \ {o.id : o \in objects}

\* Faulty variant: the ids of the peers are collected, not those of their producers.
PeersByRoom(r) == {a \in registered : peerRoom[a] = r}

\* getProducersByRoom(r), as handleJoinRoom calls it: without excludePeerId.
ProducersByRoom(r) == UNION {produced[p] : p \in {a \in registered : peerRoom[a] = r}}

\* router.canConsume: the router is open and has the producer in its map.
CanConsume(x, q) ==
    Pool!RouterOpen(x) /\ q \in openProducers /\ q.transport.router = x

\* The worker process has the consumer.
WorkerHas(c) == c.onWorker /\ c \in openConsumers /\ c.producer \in openProducers

\* The worker whose answer a handler is waiting for, once it has a router.
RouterOfWait(c) ==
    CASE c.op = "open" -> c.router
      [] c.op \in {"produce", "trace", "consume"} -> c.transport.router
      [] c.op = "resume" -> c.consumer.transport.router

RoutersOn(w) == {b.router : b \in {d \in built : d.worker = w}}

\* The handlers that a worker owes an answer to.
OwedBy(w) ==
    {c \in inflight :
        \/ \E d \in creating : d.worker = w /\ d.call = c.call
        \/ c.op \notin {"join", "route", "look"} /\ RouterOfWait(c) \in RoutersOn(w)}

ProducersOn(T) == {q \in openProducers : q.onWorker /\ q.transport \in T}
ConsumersOn(T) == {c \in openConsumers : c.onWorker /\ c.transport \in T}

\* Faulty variant: the transportclose listener of producers is missing.
CloseTransportsKeepProduced(T) ==
    /\ openTransports' = openTransports \ T
    /\ openProducers' = openProducers \ ProducersOn(T)
    /\ openConsumers' = openConsumers \ ConsumersOn(T)
    /\ produced' = produced
    /\ consumed' = [p \in Peers |-> consumed[p] \ ConsumersOn(T)]

\* Faulty variant: the transportclose listener of consumers is missing.
CloseTransportsKeepConsumed(T) ==
    /\ openTransports' = openTransports \ T
    /\ openProducers' = openProducers \ ProducersOn(T)
    /\ openConsumers' = openConsumers \ ConsumersOn(T)
    /\ produced' = [p \in Peers |-> produced[p] \ ProducersOn(T)]
    /\ consumed' = consumed

\* transport.close() on the open transports of T: their producers and consumers
\* close with them, and the transportclose listeners take them out of the maps.
CloseTransports(T) ==
    /\ openTransports' = openTransports \ T
    /\ openProducers' = openProducers \ ProducersOn(T)
    /\ openConsumers' = openConsumers \ ConsumersOn(T)
    /\ produced' = [p \in Peers |-> produced[p] \ ProducersOn(T)]
    /\ consumed' = [p \in Peers |-> consumed[p] \ ConsumersOn(T)]

\* createPeer returns at once if the peer is known: its roomId stays.
CreatePeer(p, r) ==
    /\ registered' = registered \cup {p}
    /\ peerRoom' = IF p \in registered THEN peerRoom ELSE [peerRoom EXCEPT ![p] = r]

\* Faulty variant: the socket leaves the rooms it was in, the record stays in its own.
EnterRoomLeavingOld(p, r) ==
    /\ sio' = [sio EXCEPT ![p] = {r}]
    /\ dataRoom' = [dataRoom EXCEPT ![p] = r]
    /\ CreatePeer(p, r)

\* Faulty variant: a peer moves to the room with what it produces, unannounced.
EnterRoomMoving(p, r) ==
    /\ sio' = [sio EXCEPT ![p] = {r}]
    /\ dataRoom' = [dataRoom EXCEPT ![p] = r]
    /\ registered' = registered \cup {p}
    /\ peerRoom' = [peerRoom EXCEPT ![p] = r]

\* handleJoinRoom up to its await.
EnterRoom(p, r) ==
    /\ sio' = [sio EXCEPT ![p] = @ \cup {r}]
    /\ dataRoom' = [dataRoom EXCEPT ![p] = r]
    /\ CreatePeer(p, r)

\* Faulty variant: the reply lists no producers.
ReplyToJoinUnlisted(p, r) ==
    /\ joined' = IF sock[p] = "open" THEN [joined EXCEPT ![p] = @ \cup {r}] ELSE joined
    /\ UNCHANGED told

\* handleJoinRoom after its await.  A socket that is gone gets no reply.
ReplyToJoin(p, r) ==
    IF sock[p] = "open"
    THEN /\ told' = [told EXCEPT ![p] = @ \cup ProducersByRoom(r)]
         /\ joined' = [joined EXCEPT ![p] = @ \cup {r}]
    ELSE UNCHANGED clientVars

-----------------------------------------------------------------------------
Init ==
    /\ Pool!Init
    /\ sock = [p \in Peers |-> "new"]
    /\ dataRoom = [p \in Peers |-> NoRoom]
    /\ sio = Nothing
    /\ registered = {}
    /\ peerRoom = [p \in Peers |-> NoRoom]
    /\ held = Nothing
    /\ produced = Nothing
    /\ consumed = Nothing
    /\ transports = {} /\ openTransports = {} /\ dtls = {}
    /\ producers = {} /\ openProducers = {}
    /\ consumers = {} /\ openConsumers = {} /\ resumed = {}
    /\ told = Nothing
    /\ joined = Nothing
    /\ inflight = {}

\* The process ends and is started again: every map is empty and every
\* connection is a new one.
Restart ==
    /\ Pool!ProcessExit
    /\ sock' = [p \in Peers |-> "new"]
    /\ dataRoom' = [p \in Peers |-> NoRoom]
    /\ sio' = Nothing
    /\ registered' = {}
    /\ peerRoom' = [p \in Peers |-> NoRoom]
    /\ held' = Nothing
    /\ produced' = Nothing
    /\ consumed' = Nothing
    /\ transports' = {} /\ openTransports' = {} /\ dtls' = {}
    /\ producers' = {} /\ openProducers' = {}
    /\ consumers' = {} /\ openConsumers' = {} /\ resumed' = {}
    /\ told' = Nothing
    /\ joined' = Nothing
    /\ inflight' = {}

-----------------------------------------------------------------------------
(* Connections.                                                            *)

Connect(p) ==
    /\ sock[p] = "new"
    /\ sock' = [sock EXCEPT ![p] = "open"]
    /\ UNCHANGED <<poolVars, peerVars, mapVars, openVars, objectVars, clientVars, inflight>>

\* Faulty variant: only the send transports are closed.
CloseRecordSendOnly(p) ==
    LET T == {t \in held[p] : t.dir = "send"} IN
    /\ openTransports' = openTransports \ T
    /\ openProducers' = openProducers \ (ProducersOn(T) \cup produced[p])
    /\ openConsumers' = openConsumers \ (ConsumersOn(T) \cup consumed[p])

\* The forEach loops of TransportService.handleDisconnect: closing the transports
\* closes what is on them; what is still in the maps is closed after that.
CloseRecord(p) ==
    LET T == held[p] IN
    /\ openTransports' = openTransports \ T
    /\ openProducers' = openProducers \ (ProducersOn(T) \cup produced[p])
    /\ openConsumers' = openConsumers \ (ConsumersOn(T) \cup consumed[p])

\* Faulty variant: the record stays in the map.
DropRecordForgotten(p) ==
    /\ produced' = [produced EXCEPT ![p] = {}]
    /\ consumed' = [consumed EXCEPT ![p] = {}]
    /\ UNCHANGED <<registered, peerRoom, held>>

\* peers.delete: what waiting handlers still put in the record nobody can see.
DropRecord(p) ==
    /\ registered' = registered \ {p}
    /\ peerRoom' = [peerRoom EXCEPT ![p] = NoRoom]
    /\ held' = [held EXCEPT ![p] = {}]
    /\ produced' = [produced EXCEPT ![p] = {}]
    /\ consumed' = [consumed EXCEPT ![p] = {}]

\* The socket closes and leaves its rooms; handleDisconnect of the gateway and of
\* the service run through.
Disconnect(p) ==
    /\ sock[p] = "open"
    /\ sock' = [sock EXCEPT ![p] = "closed"]
    /\ sio' = [sio EXCEPT ![p] = {}]
    /\ CloseRecord(p)
    /\ DropRecord(p)
    /\ UNCHANGED <<poolVars, dataRoom, objectVars, clientVars, inflight>>

-----------------------------------------------------------------------------
(* joinroom.                                                               *)

\* The room has a router: the handler runs through.
JoinServed(p, r) ==
    /\ sock[p] = "open"
    /\ ~Pool!Unserved(r)
    /\ EnterRoom(p, r)
    /\ ReplyToJoin(p, r)
    /\ UNCHANGED <<poolVars, sock, mapVars, openVars, objectVars, inflight>>

JoinWaits(k, p, r) ==
    /\ sock[p] = "open"
    /\ Idle(k)
    /\ Pool!RequestRouter(k, r)
    /\ EnterRoom(p, r)
    /\ inflight' = inflight \cup {[op |-> "join", call |-> k, peer |-> p, room |-> r]}
    /\ UNCHANGED <<sock, mapVars, openVars, objectVars, clientVars>>

\* getRouter throws: the peer is in the room, and gets no reply.
JoinThrows(p, r) ==
    /\ sock[p] = "open"
    /\ Pool!RequestThrows(r)
    /\ EnterRoom(p, r)
    /\ UNCHANGED <<sock, mapVars, openVars, objectVars, clientVars, inflight>>

JoinReady(c, d, x) ==
    /\ c.op = "join" /\ c.call = d.call
    /\ Pool!RouterCreated(d, x)
    /\ ReplyToJoin(c.peer, c.room)
    /\ inflight' = inflight \ {c}
    /\ UNCHANGED <<sock, peerVars, mapVars, openVars, objectVars>>

\* Faulty variant: the rejection is swallowed, and the handler waits on.
RouterFailureSwallowed(c, d) ==
    /\ c.call = d.call
    /\ Pool!RouterRefused(d)
    /\ UNCHANGED <<sock, peerVars, mapVars, openVars, objectVars, clientVars, inflight>>

\* createRouter is refused: the handler that waits for it throws.
RouterFailed(c, d) ==
    /\ c.call = d.call
    /\ Pool!RouterRefused(d)
    /\ inflight' = inflight \ {c}
    /\ UNCHANGED <<sock, peerVars, mapVars, openVars, objectVars, clientVars>>

-----------------------------------------------------------------------------
(* createTransport and connectTransport.                                   *)

\* The room's router is known and open: createWebRtcTransport is sent to its
\* worker.  (On a closed router it throws, and nothing has changed.)
CreateTransportServed(k, p, dir, x) ==
    /\ sock[p] = "open"
    /\ Idle(k)
    /\ Pool!Serves(dataRoom[p], x) /\ Pool!RouterOpen(x)
    /\ Spare(TransportIds, transports, {"route", "open"})
    /\ inflight' = inflight \cup
         {[op |-> "open", call |-> k, peer |-> p, dir |-> dir, router |-> x]}
    /\ UNCHANGED <<poolVars, sock, peerVars, mapVars, openVars, objectVars, clientVars>>

CreateTransportWaits(k, p, dir) ==
    /\ sock[p] = "open"
    /\ Idle(k)
    /\ Pool!RequestRouter(k, dataRoom[p])
    /\ Spare(TransportIds, transports, {"route", "open"})
    /\ inflight' = inflight \cup {[op |-> "route", call |-> k, peer |-> p, dir |-> dir]}
    /\ UNCHANGED <<sock, peerVars, mapVars, openVars, objectVars, clientVars>>

\* getRouter throws in createTransport or in consumeGenerate: only the index
\* of the pool has moved.
RouterThrows(p) ==
    /\ sock[p] = "open"
    /\ Pool!RequestThrows(dataRoom[p])
    /\ UNCHANGED <<sock, peerVars, mapVars, openVars, objectVars, clientVars, inflight>>

TransportRouterReady(c, d, x) ==
    /\ c.op = "route" /\ c.call = d.call
    /\ Pool!RouterCreated(d, x)
    /\ inflight' = (inflight \ {c}) \cup
         {[op |-> "open", call |-> c.call, peer |-> c.peer, dir |-> c.dir, router |-> x]}
    /\ UNCHANGED <<sock, peerVars, mapVars, openVars, objectVars, clientVars>>

\* createWebRtcTransport answers.  If the peer is not registered (it left, or it
\* never joined) getPeer throws: the transport stays open and in no map.
TransportReady(c, i) ==
    LET listed == c.peer \in registered
        t == [id |-> i, peer |-> c.peer, dir |-> c.dir, router |-> c.router,
              listed |-> listed]
    IN  /\ c.op = "open"
        /\ transports' = transports \cup {t}
        /\ openTransports' = openTransports \cup {t}
        /\ IF listed
           THEN /\ held' = [held EXCEPT ![c.peer] = @ \cup {t}]
                /\ inflight' = (inflight \ {c}) \cup
                     {[op |-> "trace", call |-> c.call, peer |-> c.peer, transport |-> t]}
           ELSE /\ inflight' = inflight \ {c}
                /\ UNCHANGED held
        /\ UNCHANGED <<poolVars, sock, peerVars, produced, consumed, openProducers,
                       openConsumers, dtls, producers, consumers, resumed, clientVars>>

\* enableTraceEvent is answered; nobody looks at the answer.
TraceAnswered(c) ==
    /\ c.op = "trace"
    /\ inflight' = inflight \ {c}
    /\ UNCHANGED <<poolVars, sock, peerVars, mapVars, openVars, objectVars, clientVars>>

\* The handler keeps nothing over its await: answer and call are one step.
ConnectTransport(p, t) ==
    /\ sock[p] = "open"
    /\ t \in held[p] /\ t \in openTransports /\ t \notin dtls
    /\ dtls' = dtls \cup {t}
    /\ UNCHANGED <<poolVars, sock, peerVars, mapVars, openVars, transports, producers,
                   consumers, resumed, clientVars, inflight>>

\* dtlsstatechange reports failed or closed: the listener closes the transport,
\* which stays in the peer's map.
DtlsClosed(t) ==
    /\ t \in dtls /\ t \in openTransports
    /\ CloseTransports({t})
    /\ UNCHANGED <<poolVars, sock, peerVars, held, objectVars, clientVars, inflight>>

-----------------------------------------------------------------------------
(* produceData, consumeGenerate, resumeConsumers.                          *)

Produce(k, p, t) ==
    /\ sock[p] = "open" /\ p \in registered
    /\ Idle(k)
    /\ t \in held[p] /\ t.dir = "send" /\ t \in openTransports
    /\ Spare(ProducerIds, producers, {"produce"})
    /\ inflight' = inflight \cup
         {[op |-> "produce", call |-> k, peer |-> p, transport |-> t]}
    /\ UNCHANGED <<poolVars, sock, peerVars, mapVars, openVars, objectVars, clientVars>>

\* produce answers: the producer is recorded, and announced to the room the
\* socket joined last, whether or not the peer is still there.
ProduceReady(c, i) ==
    LET q == [id |-> i, peer |-> c.peer, transport |-> c.transport,
              onWorker |-> c.transport \in openTransports]
    IN  /\ c.op = "produce"
        /\ producers' = producers \cup {q}
        /\ openProducers' = openProducers \cup {q}
        /\ produced' = IF c.peer \in registered
                       THEN [produced EXCEPT ![c.peer] = @ \cup {q}] ELSE produced
        /\ told' = [b \in Peers |-> IF b # c.peer /\ dataRoom[c.peer] \in sio[b]
                                    THEN told[b] \cup {q} ELSE told[b]]
        /\ inflight' = inflight \ {c}
        /\ UNCHANGED <<poolVars, sock, peerVars, held, consumed, openTransports,
                       openConsumers, transports, dtls, consumers, resumed, joined>>

\* The producers whose ids the client has: it was told of them, or produceData
\* returned them.
KnownTo(p) == told[p] \cup produced[p]

\* The room's router can reach a producer the client knows, and so can the
\* transport.  (If not, the handler throws, and nothing has changed.)
ConsumeServed(k, p, t, q) ==
    /\ sock[p] = "open" /\ p \in registered
    /\ Idle(k)
    /\ t \in held[p] /\ t.dir = "recv" /\ t \in openTransports
    /\ q \in KnownTo(p)
    /\ Pool!Serves(dataRoom[p], t.router) /\ CanConsume(t.router, q)
    /\ Spare(ConsumerIds, consumers, {"consume"})
    /\ inflight' = inflight \cup
         {[op |-> "consume", call |-> k, peer |-> p, transport |-> t, producer |-> q]}
    /\ UNCHANGED <<poolVars, sock, peerVars, mapVars, openVars, objectVars, clientVars>>

\* consumeGenerate in a room whose router is missing has one created.
ConsumeWaits(k, p, t) ==
    /\ sock[p] = "open" /\ p \in registered
    /\ Idle(k)
    /\ t \in held[p] /\ t.dir = "recv"
    /\ Pool!RequestRouter(k, dataRoom[p])
    /\ inflight' = inflight \cup {[op |-> "look", call |-> k, peer |-> p]}
    /\ UNCHANGED <<sock, peerVars, mapVars, openVars, objectVars, clientVars>>

\* ... on which canConsume finds no producer: the handler throws.
ConsumeRouterReady(c, d, x) ==
    /\ c.op = "look" /\ c.call = d.call
    /\ Pool!RouterCreated(d, x)
    /\ inflight' = inflight \ {c}
    /\ UNCHANGED <<sock, peerVars, mapVars, openVars, objectVars, clientVars>>

\* consume answers, if the worker has the producer.
ConsumeReady(c, i) ==
    LET s == [id |-> i, peer |-> c.peer, transport |-> c.transport,
              producer |-> c.producer, onWorker |-> c.transport \in openTransports]
    IN  /\ c.op = "consume" /\ c.producer.onWorker
        /\ consumers' = consumers \cup {s}
        /\ openConsumers' = openConsumers \cup {s}
        /\ consumed' = IF c.peer \in registered
                       THEN [consumed EXCEPT ![c.peer] = @ \cup {s}] ELSE consumed
        /\ inflight' = inflight \ {c}
        /\ UNCHANGED <<poolVars, sock, peerVars, held, produced, openTransports,
                       openProducers, transports, dtls, producers, resumed, clientVars>>

\* The worker refuses an awaited request: the handler throws.
WorkerCallFailed(c) ==
    /\ c.op \in {"open", "produce", "consume"}
    /\ inflight' = inflight \ {c}
    /\ UNCHANGED <<poolVars, sock, peerVars, mapVars, openVars, objectVars, clientVars>>

\* Faulty variant: there is no producerclose listener.
ProducerCloseUnheard(s) ==
    /\ s \in openConsumers /\ s.onWorker /\ s.producer \notin openProducers
    /\ openConsumers' = openConsumers \ {s}
    /\ UNCHANGED <<poolVars, sock, peerVars, mapVars, openTransports,
                   openProducers, objectVars, clientVars, inflight>>

\* The worker's notice that the producer of a consumer has closed.
ProducerCloseNotice(s) ==
    /\ s \in openConsumers /\ s.onWorker /\ s.producer \notin openProducers
    /\ openConsumers' = openConsumers \ {s}
    /\ consumed' = [consumed EXCEPT ![s.peer] = @ \ {s}]
    /\ UNCHANGED <<poolVars, sock, peerVars, held, produced, openTransports,
                   openProducers, objectVars, clientVars, inflight>>

\* resumeConsumers is called and not awaited.
Resume(k, p, s) ==
    /\ sock[p] = "open" /\ p \in registered
    /\ Idle(k)
    /\ s \in consumed[p] /\ s \notin resumed /\ WorkerHas(s)
    /\ inflight' = inflight \cup
         {[op |-> "resume", call |-> k, peer |-> p, consumer |-> s]}
    /\ UNCHANGED <<poolVars, sock, peerVars, mapVars, openVars, objectVars, clientVars>>

ResumeAnswered(c) ==
    /\ c.op = "resume"
    /\ resumed' = resumed \cup {c.consumer}
    /\ inflight' = inflight \ {c}
    /\ UNCHANGED <<poolVars, sock, peerVars, mapVars, openVars, transports, dtls,
                   producers, consumers, clientVars>>

-----------------------------------------------------------------------------
(* Workers and the end of the process.                                     *)

WorkerStarted ==
    /\ Pool!WorkerStarted
    /\ UNCHANGED <<sock, peerVars, mapVars, openVars, objectVars, clientVars, inflight>>

\* A worker dies, and with it its routers and their transports.  The routerclose
\* listeners take the transports out of the maps, the handlers it owed an answer
\* throw.
WorkerDied(w) ==
    LET T == {t \in openTransports : t.router \in RoutersOn(w)} IN
    /\ Pool!WorkerDied(w)
    /\ \A c \in OwedBy(w) : c.op \notin {"trace", "resume"}
    /\ CloseTransports(T)
    /\ held' = [p \in Peers |-> held[p] \ T]
    /\ inflight' = inflight \ OwedBy(w)
    /\ UNCHANGED <<sock, peerVars, objectVars, clientVars>>

\* createWorker rejects; nothing awaits it.
WorkerStartFails == spawning > 0 /\ Restart

\* A client resumes before it joined, or a consumer the server does not have, or no
\* longer, or the worker no longer has: the promise nobody awaits rejects, and
\* Node.js ends the process.
ResumeRejected(p) == sock[p] = "open" /\ Restart

\* The answer to enableTraceEvent or resume is a rejection: the worker died, or
\* the consumer was gone when the request reached the worker.
UnawaitedRejected(c) ==
    /\ \/ c.op \in {"trace", "resume"} /\ \E w \in alive : c \in OwedBy(w)
       \/ c.op = "resume" /\ ~WorkerHas(c.consumer)
    /\ Restart

-----------------------------------------------------------------------------
(* The specification.                                                      *)

\* A router was created, or refused, for the handler c that waits for it.
RouterAnswered(c) ==
    \E d \in creating :
        \/ RouterFailed(c, d)
        \/ \E x \in RouterIds : JoinReady(c, d, x)
        \/ \E x \in RouterIds : TransportRouterReady(c, d, x)
        \/ \E x \in RouterIds : ConsumeRouterReady(c, d, x)

\* The worker answered the handler c.
WorkerAnswered(c) ==
    \/ \E i \in FreshIds(TransportIds, transports) : TransportReady(c, i)
    \/ TraceAnswered(c)
    \/ \E i \in FreshIds(ProducerIds, producers) : ProduceReady(c, i)
    \/ \E i \in FreshIds(ConsumerIds, consumers) : ConsumeReady(c, i)
    \/ WorkerCallFailed(c)
    \/ ResumeAnswered(c)

Next ==
    \/ \E p \in Peers : Connect(p)
    \/ \E p \in Peers : Disconnect(p)
    \/ \E p \in Peers, r \in Rooms : JoinServed(p, r)
    \/ \E p \in Peers, r \in Rooms, k \in Calls : JoinWaits(k, p, r)
    \/ \E p \in Peers, r \in Rooms : JoinThrows(p, r)
    \/ \E p \in Peers, k \in Calls, dir \in {"send", "recv"}, x \in RouterIds :
          CreateTransportServed(k, p, dir, x)
    \/ \E p \in Peers, k \in Calls, dir \in {"send", "recv"} :
          CreateTransportWaits(k, p, dir)
    \/ \E p \in Peers : RouterThrows(p)
    \/ \E p \in Peers : \E t \in held[p] : ConnectTransport(p, t)
    \/ \E t \in dtls : DtlsClosed(t)
    \/ \E p \in Peers, k \in Calls : \E t \in held[p] : Produce(k, p, t)
    \/ \E p \in Peers, k \in Calls : \E t \in held[p], q \in KnownTo(p) :
          ConsumeServed(k, p, t, q)
    \/ \E p \in Peers, k \in Calls : \E t \in held[p] : ConsumeWaits(k, p, t)
    \/ \E p \in Peers, k \in Calls : \E s \in consumed[p] : Resume(k, p, s)
    \/ \E c \in inflight : RouterAnswered(c)
    \/ \E c \in inflight : WorkerAnswered(c)
    \/ \E s \in openConsumers : ProducerCloseNotice(s)
    \/ WorkerStarted
    \/ \E w \in alive : WorkerDied(w)
    \/ WorkerStartFails
    \/ \E p \in Peers : ResumeRejected(p)
    \/ \E c \in inflight : UnawaitedRejected(c)

Spec == Init /\ [][Next]_vars

\* The library answers or rejects every request, and delivers the notices of a
\* worker that runs; Node.js runs the continuation.  Clients owe nothing.
Fairness ==
    /\ \A k \in Calls :
          WF_vars(\E c \in inflight : c.call = k /\ (RouterAnswered(c) \/ WorkerAnswered(c)))
    /\ \A i \in ConsumerIds :
          WF_vars(\E s \in openConsumers : s.id = i /\ ProducerCloseNotice(s))

FairSpec == Spec /\ Fairness

-----------------------------------------------------------------------------
(* Properties.                                                             *)

PeerTypes ==
    /\ sock \in [Peers -> {"new", "open", "closed"}]
    /\ dataRoom \in [Peers -> RoomKeys]
    /\ sio \in [Peers -> SUBSET Rooms]
    /\ registered \subseteq Peers
    /\ peerRoom \in [Peers -> RoomKeys]
    /\ joined \in [Peers -> SUBSET Rooms]

ObjectTypes ==
    /\ transports \subseteq Transport
    /\ producers \subseteq Producer
    /\ consumers \subseteq Consumer

\* What maps and clients refer to was created.
MapTypes ==
    /\ held \in [Peers -> SUBSET transports]
    /\ produced \in [Peers -> SUBSET producers]
    /\ consumed \in [Peers -> SUBSET consumers]
    /\ openTransports \subseteq transports /\ dtls \subseteq transports
    /\ openProducers \subseteq producers
    /\ openConsumers \subseteq consumers
    /\ resumed \subseteq Consumer
    /\ told \in [Peers -> SUBSET producers]

WaitTypes == inflight \subseteq Waiting

\* Every variable has its type.
TypeOK == Pool!TypeOK /\ PeerTypes /\ ObjectTypes /\ MapTypes /\ WaitTypes

\* The peer is in the one room it joined first (handleJoinRoom may be called again
\* with another room, and then socket, client.data and record disagree).
InOneRoom(p) == p \in registered /\ sio[p] = {peerRoom[p]}

\* The peer map and the sockets agree: a record exists exactly for the open sockets
\* that called joinroom, its room and the room producers are announced to are rooms
\* of the socket.  A record made by a handler that outlives its socket would stay for
\* ever, as nothing would call handleDisconnect for it.
RecordsMatchSockets ==
    /\ registered = {p \in Peers : sock[p] = "open" /\ dataRoom[p] # NoRoom}
    /\ \A p \in Peers : sock[p] # "open" => sio[p] = {}
    /\ \A p \in registered : {peerRoom[p], dataRoom[p]} \subseteq sio[p]

\* No producer is missed: a client whose joinroom was answered has been told, by that
\* answer or by newProducer, of every producer a peer of that room has, whatever
\* the order of their handlers.  It needs a producing peer that stayed in one room.
NoMissedProducer ==
    \A a, b \in registered :
        a # b /\ InOneRoom(a) /\ peerRoom[a] \in joined[b] => produced[a] \subseteq told[b]

\* The maps of a registered peer are exact: its producers and consumers are the open
\* ones created for it, and they are all there is of it; every transport it was
\* given and that is open can be found.
MapsExact ==
    \A p \in registered :
        /\ produced[p] = {q \in openProducers : q.peer = p}
        /\ consumed[p] = {s \in openConsumers : s.peer = p}
        /\ {t \in openTransports : t.peer = p /\ t.listed} \subseteq held[p]

\* Nothing a worker forwards for a peer outlives it: once the peer left, the
\* transports it was given are closed, and so are the producers and consumers on them.
\* What stays open is only what handlers that were still waiting got afterwards.
LeaverReleased ==
    \A p \in Peers \ registered :
        /\ \A t \in openTransports : t.peer = p => ~t.listed
        /\ \A q \in openProducers : q.peer = p => ~q.onWorker
        /\ \A s \in openConsumers : s.peer = p => ~s.onWorker

\* All transports of a peer that stayed in its room are on the one router the room
\* has (so that it can consume what the others produce), unless the creation of the
\* room's router was overlapped.  (A transport asked for before the first joinroom is
\* on the router of no room.)
HeldOnRoomRouter ==
    \A p \in Peers : InOneRoom(p) /\ peerRoom[p] \notin overlapped =>
        \A t \in held[p] :
            Pool!Serves(peerRoom[p], t.router) \/ Pool!BuiltFor(NoRoom, t.router)

\* The promise of announcements: Home is the room of a peer that stayed in one, and a
\* peer without a record has entered no room.
Home == [p \in Peers |-> IF InOneRoom(p) THEN peerRoom[p] ELSE NoRoom]

Entered == [p \in Peers |-> IF p \in registered THEN joined[p] ELSE {}]

Board == INSTANCE ProducerBoard WITH
    home <- Home, entered <- Entered, published <- produced, known <- told

\* Replies that list producers and newProducer events, whose handlers interleave and whose
\* peers leave meanwhile, come out as if each had been one look at a board that is
\* always complete: a step that loses a listener without its leaving, or publishes
\* without calling out, is none of the board's.
ImplementsBoard == Board!Spec

\* "send and recv both use the same room router": the transports of a peer that is
\* in one room are on one router (comment in createTransport).
SameRoomRouter ==
    \A p \in Peers : InOneRoom(p) => \A t, u \in held[p] : t.router = u.router

\* SameRoomRouter, as far as the code keeps it: the transports of all peers that are in
\* one room, and in no other, are on one router, unless creations of the room's router
\* overlapped or the transport was asked for before the first joinroom.
RoomSharesRouter ==
    \A a, b \in Peers :
        InOneRoom(a) /\ InOneRoom(b) /\ peerRoom[a] = peerRoom[b]
        /\ peerRoom[a] \notin overlapped =>
            \A t \in held[a], u \in held[b] :
                \/ Pool!BuiltFor(NoRoom, t.router) \/ Pool!BuiltFor(NoRoom, u.router)
                \/ t.router = u.router

\* canConsume refuses nobody a producer of its room: consumeGenerate, called with an open
\* transport for a producer of a peer in the same room, finds the room's router open and
\* the producer in its map, under the same conditions.  (The worker may still refuse the
\* consume that follows, if the producer's transport closed before produce was answered.)
ProducersInReach ==
    \A a, b \in registered :
        InOneRoom(a) /\ InOneRoom(b) /\ peerRoom[a] = peerRoom[b]
        /\ peerRoom[a] \notin overlapped =>
            \A q \in produced[a], t \in held[b] \cap openTransports :
                \/ Pool!BuiltFor(NoRoom, q.transport.router) \/ Pool!BuiltFor(NoRoom, t.router)
                \/ Pool!Serves(dataRoom[b], t.router) /\ CanConsume(t.router, q)

\* No handler waits in vain: a worker that runs owes it an answer, also when the router,
\* transport or consumer it asked about was closed meanwhile or other workers died.
WaitsOwed == \A c \in inflight : \E w \in alive : c \in OwedBy(w)

\* How many answers a handler still waits for.
AnswersLeft(c) == CASE c.op = "route" -> 3 [] c.op = "open" -> 2 [] OTHER -> 1

\* A handler never starts over: when it waits again, it is for fewer answers.
WaitsAdvance ==
    [][\A c \in inflight, d \in inflight' :
          c.call = d.call => d = c \/ AnswersLeft(d) < AnswersLeft(c)]_vars

\* The worker's notice is still due for every consumer it feeds from a producer of a peer
\* that left: the consumer is open and its producer is not.
NoticesDue ==
    \A b \in Peers : \A s \in consumed[b] :
        s.onWorker /\ s.producer.peer \notin registered =>
            s \in openConsumers /\ s.producer \notin openProducers

\* What was closed stays closed: no answer that comes late brings back a transport,
\* producer or consumer that somebody may still hold a reference to.
ClosedForGood ==
    [][/\ transports \cap openTransports' \subseteq openTransports
       /\ producers \cap openProducers' \subseteq openProducers
       /\ consumers \cap openConsumers' \subseteq openConsumers]_vars

\* A peer that left for good is forgotten: sooner or later no other peer's record has a
\* consumer the worker feeds from a producer of it, whatever was under way when it left.
LeaverForgotten ==
    \A p \in Peers : <>[](sock[p] = "closed") =>
        <>[](\A b \in Peers : \A s \in consumed[b] : s.producer.peer = p => ~s.onWorker)

\* Every handler is answered: no getRouter or worker call is waited for indefinitely.
HandlersEnd ==
    \A k \in Calls : (\E c \in inflight : c.call = k) ~> (\A c \in inflight : c.call # k)
=============================================================================
