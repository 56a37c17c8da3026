-------------------------- MODULE SessionOutcomeProofs --------------------------
(***************************************************************************)
(* What the handlers of MediaSession wait for, and what clients get in the  *)
(* end: the safety half of its liveness properties, and what the promises   *)
(* of the pool, the maps and the board add up to.                           *)
(***************************************************************************)
EXTENDS MediaSessionProofs

-----------------------------------------------------------------------------
(* Handlers come, wait on, and go.                                         *)

\* A step lets one handler in, answers one, or ends some.
LEMMA InflightStep ==
    ASSUME [Next]_vars
    PROVE  \/ inflight' \subseteq inflight
           \/ \E n : Idle(n.call) /\ inflight' = inflight \cup {n}
           \/ \E c \in inflight : \E n :
                 /\ n.call = c.call /\ AnswersLeft(n) < AnswersLeft(c)
                 /\ inflight' = (inflight \ {c}) \cup {n}
  <1> DEFINE Enters == \E n : Idle(n.call) /\ inflight' = inflight \cup {n}
             Goes == \E c \in inflight : \E n :
                        /\ n.call = c.call /\ AnswersLeft(n) < AnswersLeft(c)
                        /\ inflight' = (inflight \ {c}) \cup {n}
  <1>1. ASSUME NEW k, NEW n, n.call = k, Idle(k), inflight' = inflight \cup {n}
        PROVE  Enters
    BY <1>1
  <1>2. ASSUME NEW p \in Peers, NEW k \in Calls,
               \/ \E r \in Rooms : JoinWaits(k, p, r)
               \/ \E dir \in {"send", "recv"}, x \in RouterIds : CreateTransportServed(k, p, dir, x)
               \/ \E dir \in {"send", "recv"} : CreateTransportWaits(k, p, dir)
        PROVE  Enters
    BY <1>1, <1>2 DEF JoinWaits, CreateTransportServed, CreateTransportWaits
  <1>3. ASSUME NEW p \in Peers, NEW k \in Calls,
               \/ \E t \in held[p] : Produce(k, p, t)
               \/ \E t \in held[p], q \in KnownTo(p) : ConsumeServed(k, p, t, q)
               \/ \E t \in held[p] : ConsumeWaits(k, p, t)
               \/ \E s \in consumed[p] : Resume(k, p, s)
        PROVE  Enters
    BY <1>1, <1>3 DEF Produce, ConsumeServed, ConsumeWaits, Resume
  <1>4. ASSUME NEW c \in inflight, NEW d \in creating, NEW x \in RouterIds,
               TransportRouterReady(c, d, x)
        PROVE  Goes
    <2> DEFINE n == [op |-> "open", call |-> c.call, peer |-> c.peer, dir |-> c.dir, router |-> x]
    <2>1. n.call = c.call /\ AnswersLeft(n) = 2 /\ AnswersLeft(c) = 3
      BY <1>4 DEF TransportRouterReady, AnswersLeft
    <2>2. inflight' = (inflight \ {c}) \cup {n}
      BY <1>4 DEF TransportRouterReady
    <2> HIDE DEF n
    <2> QED
      BY <2>1, <2>2
  <1>5. ASSUME NEW c \in inflight, NEW i, TransportReady(c, i)
        PROVE  inflight' \subseteq inflight \/ Goes
    <2> DEFINE t == [id |-> i, peer |-> c.peer, dir |-> c.dir, router |-> c.router,
                     listed |-> c.peer \in registered]
               n == [op |-> "trace", call |-> c.call, peer |-> c.peer, transport |-> t]
    <2>1. n.call = c.call /\ AnswersLeft(n) = 1 /\ AnswersLeft(c) = 2
      BY <1>5 DEF TransportReady, AnswersLeft
    <2>2. inflight' = (inflight \ {c}) \cup {n} \/ inflight' = inflight \ {c}
      BY <1>5 DEF TransportReady
    <2> HIDE DEF n
    <2> QED
      BY <2>1, <2>2
  <1> HIDE DEF Enters, Goes
  <1>6. inflight' \subseteq inflight \/ Enters \/ Goes
    BY <1>2, <1>3, <1>4, <1>5
       DEF Next, vars, Connect, Disconnect, JoinServed, JoinThrows, RouterThrows,
           ConnectTransport, DtlsClosed, RouterAnswered, RouterFailed, JoinReady,
           ConsumeRouterReady, WorkerAnswered, TraceAnswered, ProduceReady, ConsumeReady,
           WorkerCallFailed, ResumeAnswered, ProducerCloseNotice, WorkerStarted, WorkerDied,
           WorkerStartFails, ResumeRejected, UnawaitedRejected, Restart
  <1> QED
    BY <1>6 DEF Enters, Goes

\* A call identity belongs to one handler.
CallsUnique == \A c, e \in inflight : c.call = e.call => c = e

LEMMA CallsUniqueStep == CallsUnique /\ [Next]_vars => CallsUnique'
  BY InflightStep DEF CallsUnique, Idle

\* HandlersEnd, its first half: a handler that is answered waits for fewer answers than
\* before, or is done; it never starts over.
THEOREM Advancing == Spec => WaitsAdvance
  <1>1. Init => CallsUnique
    BY DEF Init, CallsUnique
  <1>2. ASSUME CallsUnique, [Next]_vars
        PROVE  \A c \in inflight, d \in inflight' :
                  c.call = d.call => d = c \/ AnswersLeft(d) < AnswersLeft(c)
    BY <1>2, InflightStep DEF CallsUnique, Idle
  <1> QED
    BY <1>1, <1>2, CallsUniqueStep, PTL DEF Spec, WaitsAdvance

-----------------------------------------------------------------------------
(* Who owes the answers.                                                   *)

\* The handlers that wait for a router.
RouterOps == {"join", "route", "look"}

\* The worker owes an answer to a handler that waits as c.
Owes(w, c) ==
    \/ \E d \in creating : d.worker = w /\ d.call = c.call
    \/ c.op \notin RouterOps /\ RouterOfWait(c) \in RoutersOn(w)

\* An open transport is on a router of a worker that runs.
OpenOnLiving == \A t \in openTransports : \E w \in alive : t.router \in RoutersOn(w)

\* createRouter is only waited for while its worker runs, by a handler that waits for
\* nothing else, and once by each.
CreationsLive ==
    /\ \A d \in creating :
          d.worker \in alive /\ \E c \in inflight : c.call = d.call /\ c.op \in RouterOps
    /\ \A d, e \in creating : d.call = e.call => d = e

WaitInv == CallsUnique /\ CreationsLive /\ OpenOnLiving /\ WaitsOwed

LEMMA OwedMeans == WaitsOwed <=> \A c \in inflight : \E w \in alive : Owes(w, c)
  BY DEF WaitsOwed, OwedBy, Owes, RouterOps

\* The handler of a creation waits for the router only.
LEMMA CreationOf ==
    ASSUME WaitInv, NEW d \in creating, NEW c \in inflight, c.call = d.call
    PROVE  c.op \in RouterOps
  BY DEF WaitInv, CreationsLive, CallsUnique

\* Apart from restarts, deaths and answers about routers, the pool only grows.
LEMMA PoolGrows ==
    ASSUME [Next]_vars
    PROVE  \/ Restart
           \/ \E w \in alive : WorkerDied(w)
           \/ \E c \in inflight, d \in creating :
                 RouterFailed(c, d) \/ \E x \in RouterIds :
                    JoinReady(c, d, x) \/ TransportRouterReady(c, d, x)
                    \/ ConsumeRouterReady(c, d, x)
           \/ creating \subseteq creating' /\ alive \subseteq alive' /\ built \subseteq built'
  <1> DEFINE Grow == creating \subseteq creating' /\ alive \subseteq alive' /\ built \subseteq built'
  <1>1. ASSUME NEW k, NEW r, Pool!RequestRouter(k, r) PROVE Grow
    BY <1>1 DEF Pool!RequestRouter
  <1>2. ASSUME NEW r, Pool!RequestThrows(r) PROVE Grow
    BY <1>2 DEF Pool!RequestThrows
  <1>3. Pool!WorkerStarted => Grow
    BY DEF Pool!WorkerStarted
  <1>4. UNCHANGED poolVars => Grow
    BY DEF poolVars
  <1> HIDE DEF Grow
  <1>5. \/ Restart
        \/ \E w \in alive : WorkerDied(w)
        \/ \E c \in inflight, d \in creating :
              RouterFailed(c, d) \/ \E x \in RouterIds :
                 JoinReady(c, d, x) \/ TransportRouterReady(c, d, x)
                 \/ ConsumeRouterReady(c, d, x)
        \/ Grow
    BY <1>1, <1>2, <1>3, <1>4
       DEF Next, vars, Connect, Disconnect, JoinServed, JoinWaits, JoinThrows, RouterThrows,
           CreateTransportWaits, ConsumeWaits, RouterAnswered,
           ConnectTransport, DtlsClosed, CreateTransportServed, Produce, ConsumeServed, Resume,
           TransportReady, WorkerAnswered, TraceAnswered, ProduceReady, ConsumeReady,
           WorkerCallFailed, ResumeAnswered, ProducerCloseNotice, WorkerStarted,
           WorkerStartFails, ResumeRejected, UnawaitedRejected
  <1> QED
    BY <1>5 DEF Grow

\* Whoever waits on is still owed its answer.
LEMMA OwedStays ==
    ASSUME WaitInv, [Next]_vars, ~Restart, NEW c \in inflight, c \in inflight'
    PROVE  \E w \in alive' : Owes(w, c)'
  <1>0. PICK w \in alive : Owes(w, c)
    BY OwedMeans DEF WaitInv
  <1>1. CASE creating \subseteq creating' /\ alive \subseteq alive' /\ built \subseteq built'
    BY <1>0, <1>1 DEF Owes, RoutersOn, RouterOfWait
  <1>2. ASSUME NEW v \in alive, WorkerDied(v) PROVE \E u \in alive' : Owes(u, c)'
    <2>1. w # v
      BY <1>0, <1>2 DEF WorkerDied, OwedBy, Owes, RouterOps
    <2>2. /\ w \in alive' /\ built' = built
          /\ \A d \in creating : d.worker = w => d \in creating'
      BY <2>1, <1>2 DEF WorkerDied, Pool!WorkerDied
    <2> QED
      BY <1>0, <2>2 DEF Owes, RoutersOn, RouterOfWait
  <1>3. ASSUME NEW b \in inflight, NEW d \in creating,
               RouterFailed(b, d) \/ \E x \in RouterIds :
                  JoinReady(b, d, x) \/ TransportRouterReady(b, d, x)
                  \/ ConsumeRouterReady(b, d, x)
        PROVE  \E u \in alive' : Owes(u, c)'
    <2>1. /\ b.call = d.call /\ creating' = creating \ {d} /\ alive' = alive
          /\ built \subseteq built'
      BY <1>3 DEF RouterFailed, JoinReady, TransportRouterReady, ConsumeRouterReady,
                  Pool!RouterRefused, Pool!RouterCreated
    <2>2. \/ inflight' = inflight \ {b}
          \/ \E n : b.op # n.op /\ inflight' = (inflight \ {b}) \cup {n}
      <3>1. ASSUME NEW x, TransportRouterReady(b, d, x)
            PROVE  \E n : b.op # n.op /\ inflight' = (inflight \ {b}) \cup {n}
        <4> DEFINE n == [op |-> "open", call |-> b.call, peer |-> b.peer, dir |-> b.dir,
                         router |-> x]
        <4>1. b.op # n.op /\ inflight' = (inflight \ {b}) \cup {n}
          BY <3>1 DEF TransportRouterReady
        <4> HIDE DEF n
        <4> QED
          BY <4>1
      <3> QED
        BY <1>3, <3>1 DEF RouterFailed, JoinReady, ConsumeRouterReady
    <2>3. c # b
      BY <2>2
    <2> QED
      BY <1>0, <2>1, <2>3 DEF Owes, RoutersOn, RouterOfWait, WaitInv, CallsUnique
  <1> QED
    BY <1>1, <1>2, <1>3, PoolGrows

\* Where the session asks the worker of w's turn, that worker owes the answer.
LEMMA AskedOwes ==
    ASSUME NEW k, NEW r, Pool!RequestRouter(k, r), NEW c, c.call = k
    PROVE  \E w \in alive' : Owes(w, c)'
  <1> DEFINE d == [call |-> k, room |-> r, worker |-> nextWorkerIndex]
  <1>1. d \in creating' /\ d.worker = nextWorkerIndex /\ d.call = c.call
    BY DEF Pool!RequestRouter
  <1>2. nextWorkerIndex \in alive'
    BY DEF Pool!RequestRouter
  <1> HIDE DEF d
  <1> QED
    BY <1>1, <1>2 DEF Owes

\* A handler that begins to wait is owed its answer.
LEMMA NewOwed ==
    ASSUME TypeOK, MapInv, WaitInv, [Next]_vars, NEW c \in inflight' \ inflight
    PROVE  \E w \in alive' : Owes(w, c)'
  <1> DEFINE Goal == \E w \in alive' : Owes(w, c)'
  <1>0. ASSUME alive' = alive, built' = built,
               c.op \notin RouterOps,
               \E w \in alive : RouterOfWait(c) \in RoutersOn(w)
        PROVE  Goal
    BY <1>0 DEF Owes, RoutersOn, RouterOfWait
  <1>1. ASSUME NEW p \in Peers, NEW k \in Calls,
               \/ \E r \in Rooms : JoinWaits(k, p, r)
               \/ \E dir \in {"send", "recv"} : CreateTransportWaits(k, p, dir)
               \/ \E t \in held[p] : ConsumeWaits(k, p, t)
        PROVE  Goal
    <2>1. \E r : Pool!RequestRouter(k, r)
      BY <1>1 DEF JoinWaits, CreateTransportWaits, ConsumeWaits
    <2>2. c.call = k
      BY <1>1 DEF JoinWaits, CreateTransportWaits, ConsumeWaits
    <2> QED
      BY <2>1, <2>2, AskedOwes
  <1>2. ASSUME NEW p \in Peers, NEW k \in Calls, NEW dir \in {"send", "recv"},
               NEW x \in RouterIds, CreateTransportServed(k, p, dir, x)
        PROVE  Goal
    <2>1. c.op = "open" /\ c.router = x /\ alive' = alive /\ built' = built
      BY <1>2 DEF CreateTransportServed, poolVars
    <2>2. \E w \in alive : x \in RoutersOn(w)
      BY <1>2 DEF CreateTransportServed, Pool!RouterOpen, RoutersOn
    <2> QED
      BY <1>0, <2>1, <2>2 DEF RouterOfWait, RouterOps
  <1>3. ASSUME NEW p \in Peers, NEW k \in Calls, NEW t \in held[p],
               Produce(k, p, t) \/ \E q \in KnownTo(p) : ConsumeServed(k, p, t, q)
        PROVE  Goal
    <2>1. c.op \in {"produce", "consume"} /\ c.transport = t /\ alive' = alive /\ built' = built
      BY <1>3 DEF Produce, ConsumeServed, poolVars
    <2>2. \E w \in alive : t.router \in RoutersOn(w)
      BY <1>3 DEF Produce, ConsumeServed, WaitInv, OpenOnLiving
    <2> QED
      BY <1>0, <2>1, <2>2 DEF RouterOfWait, RouterOps
  <1>4. ASSUME NEW p \in Peers, NEW k \in Calls, NEW s \in consumed[p], Resume(k, p, s)
        PROVE  Goal
    <2>1. c.op = "resume" /\ c.consumer = s /\ alive' = alive /\ built' = built
      BY <1>4 DEF Resume, poolVars
    <2>2. s.transport \in openTransports
      BY <1>4 DEF Resume, WorkerHas, MapInv, ConsumersHeld
    <2>3. \E w \in alive : s.transport.router \in RoutersOn(w)
      BY <2>2 DEF WaitInv, OpenOnLiving
    <2> QED
      BY <1>0, <2>1, <2>3 DEF RouterOfWait, RouterOps
  <1>5. ASSUME NEW b \in inflight, NEW d \in creating, NEW x \in RouterIds,
               TransportRouterReady(b, d, x)
        PROVE  Goal
    <2> DEFINE n == [router |-> x, worker |-> d.worker, room |-> d.room]
    <2>1. c.op = "open" /\ c.router = x /\ alive' = alive
      BY <1>5 DEF TransportRouterReady, Pool!RouterCreated
    <2>2. n \in built' /\ n.worker = d.worker /\ n.router = x
      BY <1>5 DEF TransportRouterReady, Pool!RouterCreated
    <2> HIDE DEF n
    <2>3. d.worker \in alive
      BY DEF WaitInv, CreationsLive
    <2>4. c.router \in RoutersOn(d.worker)'
      BY <2>1, <2>2 DEF RoutersOn
    <2> QED
      BY <2>1, <2>3, <2>4 DEF Owes, RouterOfWait, RouterOps
  <1>6. ASSUME NEW b \in inflight, NEW i, TransportReady(b, i)
        PROVE  Goal
    <2>1. c.op = "trace" /\ c.transport.router = b.router /\ b.op = "open"
          /\ alive' = alive /\ built' = built
      BY <1>6 DEF TransportReady, poolVars
    <2>2. RouterOfWait(b) = b.router
      BY <2>1, Zenon DEF RouterOfWait, RouterOps
    <2>3. \E w \in alive : b.router \in RoutersOn(w)
      <3>1. PICK w \in alive : Owes(w, b)
        BY OwedMeans DEF WaitInv
      <3> QED
        BY <2>1, <2>2, <3>1, CreationOf DEF Owes, RouterOps
    <2> QED
      BY <1>0, <2>1, <2>3 DEF RouterOfWait, RouterOps
  <1>7. ~(inflight' \subseteq inflight)
    OBVIOUS
  <1> HIDE DEF Goal
  <1>8. Goal
    BY <1>1, <1>2, <1>3, <1>4, <1>5, <1>6, <1>7
       DEF Next, vars, Connect, Disconnect, JoinServed, JoinThrows, RouterThrows,
           ConnectTransport, DtlsClosed, RouterAnswered, RouterFailed, JoinReady,
           ConsumeRouterReady, WorkerAnswered, TraceAnswered, ProduceReady, ConsumeReady,
           WorkerCallFailed, ResumeAnswered, ProducerCloseNotice, WorkerStarted, WorkerDied,
           WorkerStartFails, ResumeRejected, UnawaitedRejected, Restart
  <1> QED
    BY <1>8 DEF Goal

LEMMA WaitsOwedStep ==
    ASSUME TypeOK, MapInv, WaitInv, [Next]_vars
    PROVE  WaitsOwed'
  <1>1. CASE Restart
    BY <1>1 DEF Restart, WaitsOwed
  <1>2. CASE ~Restart
    <2>1. \A c \in inflight' : \E w \in alive' : Owes(w, c)'
      BY <1>2, OwedStays, NewOwed
    <2> QED
      BY <2>1 DEF WaitsOwed, OwedBy, Owes, RouterOps
  <1> QED
    BY <1>1, <1>2

\* An open transport keeps its router, or is closed with it.
LEMMA OpenOnLivingStep ==
    ASSUME TypeOK, WaitInv, [Next]_vars
    PROVE  OpenOnLiving'
  <1>1. CASE Restart
    BY <1>1 DEF Restart, OpenOnLiving
  <1>2. ASSUME NEW w \in alive, WorkerDied(w) PROVE OpenOnLiving'
    <2>1. /\ alive' = alive \ {w} /\ built' = built
          /\ openTransports' = {t \in openTransports : t.router \notin RoutersOn(w)}
      BY <1>2 DEF WorkerDied, CloseTransports, Pool!WorkerDied
    <2> QED
      BY <2>1 DEF WaitInv, OpenOnLiving, RoutersOn
  <1>3. ASSUME NEW c \in inflight, NEW i \in FreshIds(TransportIds, transports),
               TransportReady(c, i)
        PROVE  OpenOnLiving'
    <2>1. PICK t : openTransports' = openTransports \cup {t} /\ t.router = c.router
      BY <1>3, NewTransport
    <2>2. c.op = "open" /\ alive' = alive /\ built' = built
      BY <1>3 DEF TransportReady, poolVars
    <2>3. PICK w \in alive : Owes(w, c)
      BY OwedMeans DEF WaitInv
    <2>4. RouterOfWait(c) = c.router
      BY <2>2, Zenon DEF RouterOfWait
    <2>5. c.router \in RoutersOn(w)
      BY <2>2, <2>3, <2>4, CreationOf DEF Owes, RouterOps
    <2> QED
      BY <2>1, <2>2, <2>5 DEF WaitInv, OpenOnLiving, RoutersOn
  <1>4. CASE openTransports' \subseteq openTransports /\ alive \subseteq alive'
             /\ built \subseteq built'
    BY <1>4 DEF WaitInv, OpenOnLiving, RoutersOn
  <1>5. ASSUME NEW c \in inflight, NEW d \in creating,
               RouterFailed(c, d) \/ \E x \in RouterIds :
                  JoinReady(c, d, x) \/ TransportRouterReady(c, d, x)
                  \/ ConsumeRouterReady(c, d, x)
        PROVE  OpenOnLiving'
    BY <1>4, <1>5 DEF RouterFailed, JoinReady, TransportRouterReady, ConsumeRouterReady,
                      Pool!RouterRefused, Pool!RouterCreated, openVars
  <1>6. \/ Restart \/ \E w \in alive : WorkerDied(w)
        \/ \E c \in inflight, i \in FreshIds(TransportIds, transports) : TransportReady(c, i)
        \/ openTransports' \subseteq openTransports
    BY StepKinds DEF Quiet, Connect, Disconnect, CloseRecord, JoinServed, JoinThrows,
           JoinWaits, JoinReady, ProduceReady, ConsumeReady, ProducerCloseNotice,
           DtlsClosed, CloseTransports, openVars
  <1> QED
    BY <1>1, <1>2, <1>3, <1>4, <1>5, <1>6, PoolGrows

\* The steps that change what is asked of the pool, or who asks.
LEMMA RequestKinds ==
    ASSUME [Next]_vars
    PROVE  \/ Restart
           \/ \E w \in alive : WorkerDied(w)
           \/ \E k, r, n :
                 /\ Pool!RequestRouter(k, r) /\ Idle(k)
                 /\ n.call = k /\ n.op \in RouterOps /\ inflight' = inflight \cup {n}
           \/ \E c \in inflight, d \in creating :
                 /\ c.call = d.call /\ inflight \ {c} \subseteq inflight'
                 /\ creating' = creating \ {d} /\ alive' = alive
           \/ /\ creating' = creating /\ alive \subseteq alive'
              /\ \A c \in inflight : c.op \in RouterOps => c \in inflight'
  <1> DEFINE Asks == \E k, r, n :
                        /\ Pool!RequestRouter(k, r) /\ Idle(k)
                        /\ n.call = k /\ n.op \in RouterOps /\ inflight' = inflight \cup {n}
             Gets == \E c \in inflight, d \in creating :
                        /\ c.call = d.call /\ inflight \ {c} \subseteq inflight'
                        /\ creating' = creating \ {d} /\ alive' = alive
             Apart == /\ creating' = creating /\ alive \subseteq alive'
                      /\ \A c \in inflight : c.op \in RouterOps => c \in inflight'
  <1>1. ASSUME NEW k, NEW r, NEW n, Pool!RequestRouter(k, r), Idle(k), n.call = k,
               n.op \in RouterOps, inflight' = inflight \cup {n}
        PROVE  Asks
    BY <1>1
  <1>2. ASSUME NEW p \in Peers, NEW k \in Calls,
               \/ \E r \in Rooms : JoinWaits(k, p, r)
               \/ \E dir \in {"send", "recv"} : CreateTransportWaits(k, p, dir)
               \/ \E t \in held[p] : ConsumeWaits(k, p, t)
        PROVE  Asks
    BY <1>1, <1>2 DEF JoinWaits, CreateTransportWaits, ConsumeWaits, RouterOps
  <1>3. ASSUME NEW c \in inflight, NEW d \in creating,
               RouterFailed(c, d) \/ \E x \in RouterIds :
                  JoinReady(c, d, x) \/ TransportRouterReady(c, d, x)
                  \/ ConsumeRouterReady(c, d, x)
        PROVE  Gets
    BY <1>3 DEF RouterFailed, JoinReady, TransportRouterReady, ConsumeRouterReady,
                Pool!RouterRefused, Pool!RouterCreated
  <1>4. ASSUME UNCHANGED poolVars, inflight \subseteq inflight' PROVE Apart
    BY <1>4 DEF poolVars
  <1>5. ASSUME NEW c \in inflight, WorkerAnswered(c) PROVE Apart
    BY <1>5 DEF WorkerAnswered, TransportReady, TraceAnswered, ProduceReady, ConsumeReady,
                WorkerCallFailed, ResumeAnswered, RouterOps, poolVars
  <1>6. ASSUME WorkerStarted \/ \E p \in Peers : RouterThrows(p) \/ \E r \in Rooms : JoinThrows(p, r)
        PROVE  Apart
    BY <1>6 DEF WorkerStarted, RouterThrows, JoinThrows, Pool!WorkerStarted,
                Pool!RequestThrows
  <1> HIDE DEF Asks, Gets, Apart
  <1>7. Restart \/ (\E w \in alive : WorkerDied(w)) \/ Asks \/ Gets \/ Apart
    BY <1>2, <1>3, <1>4, <1>5, <1>6
       DEF Next, vars, Connect, Disconnect, JoinServed, RouterAnswered, ConnectTransport,
           DtlsClosed, CreateTransportServed, Produce, ConsumeServed, Resume,
           ProducerCloseNotice, WorkerStartFails, ResumeRejected, UnawaitedRejected
  <1> QED
    BY <1>7 DEF Asks, Gets, Apart

LEMMA CreationsLiveStep ==
    ASSUME WaitInv, [Next]_vars
    PROVE  CreationsLive'
  <1>1. CASE Restart
    BY <1>1 DEF Restart, Pool!ProcessExit, CreationsLive
  <1>2. ASSUME NEW w \in alive, WorkerDied(w) PROVE CreationsLive'
    <2>1. /\ alive' = alive \ {w} /\ creating' = {d \in creating : d.worker # w}
          /\ inflight' = inflight \ OwedBy(w)
      BY <1>2 DEF WorkerDied, Pool!WorkerDied
    <2>2. \A d \in creating', c \in inflight :
             c.call = d.call /\ c.op \in RouterOps => c \notin OwedBy(w)
      BY <2>1 DEF OwedBy, RouterOps, WaitInv, CreationsLive
    <2> QED
      BY <2>1, <2>2 DEF WaitInv, CreationsLive
  <1>3. ASSUME NEW k, NEW r, NEW n, Pool!RequestRouter(k, r), n.call = k,
               n.op \in RouterOps, inflight' = inflight \cup {n}
        PROVE  CreationsLive'
    <2> DEFINE e == [call |-> k, room |-> r, worker |-> nextWorkerIndex]
    <2>1. /\ creating' = creating \cup {e} /\ alive' = alive
          /\ e.call = k /\ e.worker \in alive /\ \A d \in creating : d.call # k
      BY <1>3 DEF Pool!RequestRouter
    <2> HIDE DEF e
    <2> QED
      BY <1>3, <2>1 DEF WaitInv, CreationsLive
  <1>4. ASSUME NEW c \in inflight, NEW d \in creating, c.call = d.call,
               inflight \ {c} \subseteq inflight', creating' = creating \ {d}, alive' = alive
        PROVE  CreationsLive'
    BY <1>4 DEF WaitInv, CreationsLive, CallsUnique
  <1>5. ASSUME creating' = creating, alive \subseteq alive',
               \A c \in inflight : c.op \in RouterOps => c \in inflight'
        PROVE  CreationsLive'
    BY <1>5 DEF WaitInv, CreationsLive
  <1> QED
    BY <1>1, <1>2, <1>3, <1>4, <1>5, RequestKinds

LEMMA WaitInvariant == Spec => []WaitInv
  <1>1. Init => WaitInv
    BY DEF Init, Pool!Init, WaitInv, CallsUnique, CreationsLive, OpenOnLiving, WaitsOwed
  <1>2. TypeOK /\ MapInv /\ WaitInv /\ [Next]_vars => WaitInv'
    BY CallsUniqueStep, CreationsLiveStep, OpenOnLivingStep, WaitsOwedStep DEF WaitInv
  <1> QED
    BY <1>1, <1>2, SessionInvariant, PTL DEF Spec

\* HandlersEnd, its second half: whatever closes, and whichever workers die, a handler that
\* waits is owed its answer by a worker that runs.
THEOREM Owed == Spec => []WaitsOwed
  BY WaitInvariant, PTL DEF WaitInv

-----------------------------------------------------------------------------
(* What is closed.                                                         *)

\* A consumer is only answered for a producer the worker has.
FedByWorker == \A s \in consumers : s.producer.onWorker

LEMMA FedStep == TypeOK /\ FedByWorker /\ [Next]_vars => FedByWorker'
  <1> SUFFICES ASSUME TypeOK, FedByWorker, [Next]_vars PROVE FedByWorker'
    OBVIOUS
  <1>1. CASE consumers' \subseteq consumers
    BY <1>1 DEF FedByWorker
  <1>2. ASSUME NEW c \in inflight, NEW i, ConsumeReady(c, i) PROVE FedByWorker'
    BY <1>2 DEF ConsumeReady, FedByWorker
  <1> QED
    BY <1>1, <1>2, StepKinds
       DEF Restart, Connect, Disconnect, JoinServed, JoinThrows, JoinWaits, JoinReady,
           TransportReady, ProduceReady, ProducerCloseNotice, DtlsClosed, WorkerDied, Quiet,
           objectVars

\* LeaverForgotten, its safety half: as long as a peer holds a consumer that is fed from a
\* producer of somebody who left, the notice that takes it out is still to come.
THEOREM NoticesToCome == Spec => []NoticesDue
  <1>1. Init => FedByWorker
    BY DEF Init, FedByWorker
  <1>2. TypeOK /\ MapInv /\ FedByWorker => NoticesDue
    <2> SUFFICES ASSUME TypeOK, MapInv, FedByWorker, NEW b \in Peers, NEW s \in consumed[b],
                        s.producer.peer \notin registered
                 PROVE  s \in openConsumers /\ s.producer \notin openProducers
      BY DEF NoticesDue
    <2>1. s \in openConsumers /\ s.producer.onWorker
      BY DEF MapInv, MapsOwn, FedByWorker, TypeOK, MapTypes
    <2>2. ASSUME s.producer \in openProducers PROVE FALSE
      <3>1. s.producer.transport \in openTransports /\ s.producer.transport.listed
            /\ s.producer.transport.peer = s.producer.peer
        BY <2>1, <2>2 DEF MapInv, ProducersHeld
      <3> QED
        BY <3>1 DEF MapInv, TransportsHeld
    <2> QED
      BY <2>1, <2>2
  <1> QED
    BY <1>1, <1>2, FedStep, SessionInvariant, PTL DEF Spec

\* Late answers bring back nothing that was closed, whatever handlers still refer to.
THEOREM Closing == Spec => ClosedForGood
  <1> DEFINE Kept == /\ transports \cap openTransports' \subseteq openTransports
                     /\ producers \cap openProducers' \subseteq openProducers
                     /\ consumers \cap openConsumers' \subseteq openConsumers
  <1>1. ASSUME TypeOK, [Next]_vars PROVE Kept
    <2>1. ASSUME openTransports' \subseteq openTransports, openProducers' \subseteq openProducers,
                 openConsumers' \subseteq openConsumers
          PROVE  Kept
      BY <2>1
    <2>2. ASSUME NEW c \in inflight, NEW i \in FreshIds(TransportIds, transports),
                 TransportReady(c, i)
          PROVE  Kept
      BY <1>1, <2>2, NewTransport
    <2>3. ASSUME NEW c \in inflight, NEW i \in FreshIds(ProducerIds, producers),
                 ProduceReady(c, i)
          PROVE  Kept
      BY <1>1, <2>3, NewProducer
    <2>4. ASSUME NEW c \in inflight, NEW i \in FreshIds(ConsumerIds, consumers),
                 ConsumeReady(c, i)
          PROVE  Kept
      BY <1>1, <2>4, NewConsumer
    <2>5. ASSUME UNCHANGED openVars PROVE Kept
      BY <2>5 DEF openVars
    <2>6. ASSUME NEW T, CloseTransports(T) PROVE Kept
      BY <2>6 DEF CloseTransports
    <2> HIDE DEF Kept
    <2> QED
      BY <1>1, <2>1, <2>2, <2>3, <2>4, <2>5, <2>6, StepKinds
         DEF Restart, Connect, Disconnect, CloseRecord, JoinServed, JoinThrows, JoinWaits,
             JoinReady, ProducerCloseNotice, DtlsClosed, WorkerDied, Quiet
  <1> QED
    BY <1>1, Typing, PTL DEF Spec, ClosedForGood

-----------------------------------------------------------------------------
(* Who reaches whom.                                                       *)

\* The producers of a peer, and those it waits for, are on a router of a room it is in.
ProducedAtHome == \A p \in Peers : \A q \in produced[p] : HomeRoom(p, q.transport.router)

ProducesHome ==
    \A c \in inflight : c.op = "produce" =>
        sock[c.peer] = "closed" \/ HomeRoom(c.peer, c.transport.router)

ReachInv == ProducedAtHome /\ ProducesHome

\* The only producer a step adds to a map is the one a worker answered with.
LEMMA ProducedGrows ==
    ASSUME TypeOK, [Next]_vars, NEW p \in Peers, NEW q \in produced'[p], q \notin produced[p]
    PROVE  \E c \in inflight :
              c.op = "produce" /\ c.peer = p /\ c.transport = q.transport
              /\ p \in registered /\ UNCHANGED <<sock, sio>>
  <1> USE DEF TypeOK, PeerTypes, MapTypes
  <1>1. ASSUME NEW c \in inflight, NEW i \in FreshIds(ProducerIds, producers),
               ProduceReady(c, i)
        PROVE  c.op = "produce" /\ c.peer = p /\ c.transport = q.transport
               /\ p \in registered /\ UNCHANGED <<sock, sio>>
    BY <1>1, NewProducer DEF peerVars
  <1>2. ~(\A a \in Peers : produced'[a] \subseteq produced[a])
    OBVIOUS
  <1>3. ASSUME NEW a \in Peers, Disconnect(a)
        PROVE  \A b \in Peers : produced'[b] \subseteq produced[b]
    BY <1>3 DEF Disconnect, DropRecord
  <1>4. Restart => \A b \in Peers : produced'[b] \subseteq produced[b]
    BY DEF Restart, Nothing
  <1>5. ASSUME NEW T, CloseTransports(T)
        PROVE  \A b \in Peers : produced'[b] \subseteq produced[b]
    BY <1>5 DEF CloseTransports
  <1>6. UNCHANGED mapVars \/ UNCHANGED produced
        => \A b \in Peers : produced'[b] \subseteq produced[b]
    BY DEF mapVars
  <1> QED
    BY <1>1, <1>2, <1>3, <1>4, <1>5, <1>6, StepKinds
       DEF Quiet, Connect, JoinServed, JoinThrows, JoinWaits, JoinReady, TransportReady,
           ConsumeReady, ProducerCloseNotice, DtlsClosed, WorkerDied

LEMMA ReachStep ==
    TypeOK /\ SocketInv /\ RouterInv /\ ReachInv /\ [Next]_vars => ReachInv'
  <1> SUFFICES ASSUME TypeOK, SocketInv, RouterInv, ReachInv, [Next]_vars PROVE ReachInv'
    OBVIOUS
  <1>1. CASE Restart
    BY <1>1 DEF Restart, Nothing, ReachInv, ProducedAtHome, ProducesHome
  <1>2. CASE ~Restart
    <2>1. ASSUME NEW p \in Peers, NEW q \in produced'[p] PROVE HomeRoom(p, q.transport.router)'
      <3>1. sock'[p] # "closed"
        <4>1. p \in registered'
          BY <2>1, SocketStep DEF SocketInv, Blank
        <4> QED
          BY <4>1, SocketStep DEF SocketInv, RecordsMatchSockets
      <3>2. CASE q \in produced[p]
        BY <1>2, <3>1, <3>2, HomeStays DEF ReachInv, ProducedAtHome
      <3>3. CASE q \notin produced[p]
        <4>1. HomeRoom(p, q.transport.router)
          BY <2>1, <3>3, ProducedGrows
             DEF ReachInv, ProducesHome, SocketInv, RecordsMatchSockets
        <4> QED
          BY <1>2, <3>1, <4>1, HomeStays
      <3> QED
        BY <3>2, <3>3
    <2>2. ASSUME NEW c \in inflight', c.op = "produce"
          PROVE  sock'[c.peer] = "closed" \/ HomeRoom(c.peer, c.transport.router)'
      <3>1. c.peer \in Peers
        BY <2>2, TypeStep, WaitFields DEF TypeOK, WaitTypes
      <3>2. sock[c.peer] = "closed" \/ HomeRoom(c.peer, c.transport.router)
        BY <2>2, <3>1, NewWaits DEF ReachInv, ProducesHome, RouterInv, HeldAtHome
      <3> QED
        BY <1>2, <3>1, <3>2, HomeStays, RoomsStay
    <2> QED
      BY <2>1, <2>2 DEF ReachInv, ProducedAtHome, ProducesHome
  <1> QED
    BY <1>1, <1>2

\* getRouter has one answer for a room: the first worker whose map has it.
LEMMA OneAnswer ==
    ASSUME NEW r, NEW x, NEW y, Pool!Serves(r, x), Pool!Serves(r, y)
    PROVE  x = y
  <1>1. Pool!WorkerIds \subseteq Int
    BY SessionAssumption DEF Pool!WorkerIds
  <1>2. PICK w \in Pool!WorkerIds : Pool!ServedBy(w, r) /\ routers[w][r] = x
    BY DEF Pool!Serves
  <1>3. PICK v \in Pool!WorkerIds : Pool!ServedBy(v, r) /\ routers[v][r] = y
    BY DEF Pool!Serves
  <1>4. ~(w < v) /\ ~(v < w)
    BY <1>2, <1>3 DEF Pool!ServedBy
  <1>5. w = v
    BY <1>1, <1>4
  <1> QED
    BY <1>2, <1>3, <1>5

\* What is at home in a room whose creations never overlapped is on the room's router.
LEMMA AtHomeServed ==
    ASSUME Pool!TableSound, NEW p, InOneRoom(p), peerRoom[p] \notin overlapped,
           NEW x, HomeRoom(p, x)
    PROVE  Pool!Serves(peerRoom[p], x) \/ Pool!BuiltFor(NoRoom, x)
  <1>1. Pool!BuiltFor(peerRoom[p], x) \/ Pool!BuiltFor(NoRoom, x)
    BY DEF HomeRoom, InOneRoom
  <1> QED
    BY <1>1 DEF Pool!BuiltFor, Pool!TableSound

LEMMA ReachInvariant == Spec => [](Pool!TableSound /\ RouterInv /\ ReachInv)
  <1>1. Init => RouterInv /\ ReachInv
    BY DEF Init, Nothing, RouterInv, HeldAtHome, OpensAtHome, RoutesHome, ReachInv,
           ProducedAtHome, ProducesHome
  <1>2. Spec => []Pool!TableSound
    BY PoolRefined, PoolAssumed, PoolProofs!Soundness, SameTable, PTL
  <1> QED
    BY <1>1, <1>2, RouterStep, ReachStep, SessionInvariant, PTL DEF Spec

\* What is left of "send and recv both use the same room router": it holds, for all peers
\* of a room at once, unless getRouter calls for the room overlapped.
THEOREM SharedRouter == Spec => []RoomSharesRouter
  <1>1. TypeOK /\ Pool!TableSound /\ RouterInv => RoomSharesRouter
    <2> SUFFICES ASSUME TypeOK, Pool!TableSound, RouterInv, NEW a \in Peers, NEW b \in Peers,
                        InOneRoom(a), InOneRoom(b), peerRoom[a] = peerRoom[b],
                        peerRoom[a] \notin overlapped,
                        NEW t \in held[a], NEW u \in held[b],
                        ~Pool!BuiltFor(NoRoom, t.router), ~Pool!BuiltFor(NoRoom, u.router)
                 PROVE  t.router = u.router
      BY DEF RoomSharesRouter
    <2>1. Pool!Serves(peerRoom[a], t.router) /\ Pool!Serves(peerRoom[a], u.router)
      BY AtHomeServed DEF RouterInv, HeldAtHome
    <2> QED
      BY <2>1, OneAnswer
  <1> QED
    BY <1>1, ReachInvariant, Typing, PTL

\* The producers listed in a room are on the open router that the transports of whoever is
\* at home there are on: with Announcements, canConsume refuses no client what it was told
\* of, unless getRouter calls for the room overlapped.
THEOREM Reach == Spec => []ProducersInReach
  <1>1. TypeOK /\ SocketInv /\ MapInv /\ OpenOnLiving /\ Pool!TableSound /\ RouterInv /\ ReachInv
        => ProducersInReach
    <2> SUFFICES ASSUME TypeOK, SocketInv, MapInv, OpenOnLiving, Pool!TableSound, RouterInv,
                        ReachInv, NEW a \in registered, NEW b \in registered,
                        InOneRoom(a), InOneRoom(b), peerRoom[a] = peerRoom[b],
                        peerRoom[a] \notin overlapped,
                        NEW q \in produced[a], NEW t \in held[b], t \in openTransports,
                        ~Pool!BuiltFor(NoRoom, q.transport.router),
                        ~Pool!BuiltFor(NoRoom, t.router)
                 PROVE  Pool!Serves(dataRoom[b], t.router) /\ CanConsume(t.router, q)
      BY DEF ProducersInReach
    <2>0. a \in Peers /\ b \in Peers
      BY DEF TypeOK, PeerTypes
    <2>1. Pool!Serves(peerRoom[b], t.router)
      BY <2>0, AtHomeServed DEF RouterInv, HeldAtHome
    <2>2. Pool!Serves(peerRoom[b], q.transport.router)
      BY <2>0, AtHomeServed DEF ReachInv, ProducedAtHome
    <2>3. q.transport.router = t.router
      BY <2>1, <2>2, OneAnswer
    <2>4. dataRoom[b] = peerRoom[b]
      BY DEF InOneRoom, SocketInv, RecordsMatchSockets
    <2>5. q \in openProducers
      BY <2>0 DEF MapInv, MapsOwn
    <2>6. Pool!RouterOpen(t.router)
      BY DEF OpenOnLiving, RoutersOn, Pool!RouterOpen
    <2> QED
      BY <2>1, <2>3, <2>4, <2>5, <2>6 DEF CanConsume
  <1> QED
    BY <1>1, ReachInvariant, WaitInvariant, SessionInvariant, PTL DEF WaitInv

-----------------------------------------------------------------------------
(* What the session inherits from the specifications it implements.        *)

\* The properties of RouterPool, read in the session's instance of it.
LEMMA SamePromises ==
    /\ Pool!PoolConserved <=> PoolProofs!PoolConserved
    /\ Pool!OneRouterUnlessOverlap <=> PoolProofs!OneRouterUnlessOverlap
    /\ Pool!WarmPoolPicks <=> PoolProofs!WarmPoolPicks
  BY DEF Pool!PoolConserved, PoolProofs!PoolConserved, Pool!OneRouterUnlessOverlap,
         PoolProofs!OneRouterUnlessOverlap, Pool!WarmPoolPicks, PoolProofs!WarmPoolPicks,
         Pool!IndexInArray, PoolProofs!IndexInArray, Pool!NaN, PoolProofs!NaN,
         Pool!Cardinality, PoolProofs!Cardinality

LEMMA SameAnswers == \A r, x : Pool!Serves(r, x) <=> PoolProofs!Serves(r, x)
  BY DEF Pool!Serves, PoolProofs!Serves, Pool!ServedBy, PoolProofs!ServedBy, Pool!WorkerIds,
         PoolProofs!WorkerIds

\* Sockets, handlers and the transports of clients take nothing from the pool: its workers
\* stay as many, each room keeps its one router, and getRouter its answer as long as the
\* router's worker runs.
THEOREM PoolKept ==
    Spec => /\ [](Pool!PoolConserved /\ Pool!WarmPoolPicks)
            /\ [](Pool!OneRouterUnlessOverlap /\ Pool!TableSound)
            /\ Pool!AnswerStable
  <1>1. Spec => [](Pool!PoolConserved /\ Pool!WarmPoolPicks)
    BY PoolRefined, PoolAssumed, SamePromises, PoolProofs!Conservation, PoolProofs!WarmPool, PTL
  <1>2. Spec => [](Pool!OneRouterUnlessOverlap /\ Pool!TableSound)
    BY PoolRefined, PoolAssumed, SamePromises, SameTable, PoolProofs!OneRouter,
       PoolProofs!Soundness, PTL
  <1>3. Spec => Pool!AnswerStable
    <2> DEFINE Stable == \A r \in RoomKeys, x \in RouterIds :
                  /\ Pool!Serves(r, x)
                  /\ r \notin overlapped
                  /\ Pool!RouterOpen(x)'
                  => Pool!Serves(r, x)'
               PoolStable == \A r \in RoomKeys, x \in RouterIds :
                  /\ PoolProofs!Serves(r, x)
                  /\ r \notin overlapped
                  /\ PoolProofs!RouterOpen(x)'
                  => PoolProofs!Serves(r, x)'
    <2>1. (\A r, x : Pool!Serves(r, x)' <=> PoolProofs!Serves(r, x)')
      BY DEF Pool!Serves, PoolProofs!Serves, Pool!ServedBy, PoolProofs!ServedBy,
             Pool!WorkerIds, PoolProofs!WorkerIds
    <2>2. [PoolStable]_(PoolProofs!poolVars) => [Stable]_(Pool!poolVars)
      BY <2>1, SameAnswers
         DEF PoolProofs!poolVars, Pool!poolVars, Pool!RouterOpen, PoolProofs!RouterOpen
    <2>3. Spec => [][PoolStable]_(PoolProofs!poolVars)
      BY PoolRefined, PoolAssumed, PoolProofs!Stability, PTL DEF PoolProofs!AnswerStable
    <2> QED
      BY <2>2, <2>3, PTL DEF Pool!AnswerStable
  <1> QED
    BY <1>1, <1>2, <1>3

BoardProofs == INSTANCE ProducerBoardProofs WITH
    home <- Home, entered <- Entered, published <- produced, known <- told

\* BoardImplemented, and what the board promises, together: whoever has entered the home
\* of a peer was told of all that it publishes; NoMissedProducer says it of the records.
THEOREM BoardKept == Spec => []Board!AllKnown
  <1>1. Spec => Board!Spec
    BY BoardImplemented DEF ImplementsBoard
  <1>2. BoardProofs!Spec => []BoardProofs!AllKnown
    BY SessionAssumption, BoardProofs!Completeness
  <1>3. Board!Init => BoardProofs!Init
    BY DEF Board!Init, BoardProofs!Init
  <1>4. [Board!Next]_(Board!boardVars) => [BoardProofs!Next]_(BoardProofs!boardVars)
    BY DEF Board!Next, BoardProofs!Next, Board!boardVars, BoardProofs!boardVars,
           Board!Move, BoardProofs!Move, Board!Walk, BoardProofs!Walk,
           Board!Enter, BoardProofs!Enter, Board!Publish, BoardProofs!Publish,
           Board!CallOut, BoardProofs!CallOut, Board!CallOutLate, BoardProofs!CallOutLate,
           Board!Withdraw, BoardProofs!Withdraw, Board!Leave, BoardProofs!Leave,
           Board!Clear, BoardProofs!Clear, Board!Readers, BoardProofs!Readers
  <1>5. BoardProofs!AllKnown => Board!AllKnown
    BY DEF Board!AllKnown, BoardProofs!AllKnown, Board!Readers, BoardProofs!Readers
  <1> QED
    BY <1>1, <1>2, <1>3, <1>4, <1>5, PTL DEF Board!Spec, BoardProofs!Spec
=============================================================================
