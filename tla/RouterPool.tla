------------------------------ MODULE RouterPool ------------------------------
(***************************************************************************)
(* MediasoupService (src/mediasoup/mediasoup.service.ts): the array of     *)
(* mediasoup workers, the round-robin index over it, and the router each   *)
(* worker keeps per room.                                                  *)
(*                                                                         *)
(* The service runs on one Node.js thread, so a stretch of code between    *)
(* two awaits is one step.  getRouter awaits once, on createRouter, after  *)
(* it looked in the table and before it writes the table: the call is a    *)
(* step that sends the request and a later step that handles the answer.   *)
(***************************************************************************)
EXTENDS Integers, FiniteSets

CONSTANTS
    RoomKeys,     \* the keys getRouter is called with
    RouterIds,    \* Router objects the mediasoup library may return
    Calls,        \* identities of getRouter calls that wait for createRouter
    NoRouter,     \* the table has no entry
    NumWorkers,   \* os.cpus().length
    MaxWorkers    \* bound: length the workers array may reach before a restart

ASSUME PoolAssumption ==
    /\ NumWorkers \in Nat \ {0}
    /\ MaxWorkers \in Nat /\ MaxWorkers >= NumWorkers
    /\ NoRouter \notin RouterIds

VARIABLES
    size,             \* workers.length
    alive,            \* positions of the array whose worker process runs
    spawning,         \* createWorker calls (and respawn timers) under way
    nextWorkerIndex,  \* the round-robin index, NaN once taken modulo zero
    routers,          \* workers[w].routers, for each position w
    built,            \* every Router object created so far
    creating,         \* getRouter calls waiting for createRouter
    overlapped        \* history: rooms with two creations under way at once

poolVars ==
    <<size, alive, spawning, nextWorkerIndex, routers, built, creating, overlapped>>

WorkerIds == 0 .. MaxWorkers - 1

\* JavaScript's NaN, as the value (x + 1) % 0 leaves in nextWorkerIndex.
NaN == -1

Creation == [call : Calls, room : RoomKeys, worker : WorkerIds]

Router == [router : RouterIds, worker : WorkerIds, room : RoomKeys]

-----------------------------------------------------------------------------
(* Reading the pool.                                                       *)

\* The loop of getRouter stops at worker w, whose map has the room.
ServedBy(w, r) ==
    /\ routers[w][r] # NoRouter
    /\ \A v \in WorkerIds : v < w => routers[v][r] = NoRouter

\* getRouter(r) answers the existing router x without waiting.
Serves(r, x) == \E w \in WorkerIds : ServedBy(w, r) /\ routers[w][r] = x

\* Faulty variant: only the worker whose turn it is is asked.
UnservedHere(r) ==
    IF nextWorkerIndex = NaN THEN TRUE ELSE routers[nextWorkerIndex][r] = NoRouter

\* The loop of getRouter finds no worker that has the room.
Unserved(r) == \A w \in WorkerIds : routers[w][r] = NoRouter

\* workers[nextWorkerIndex] is an entry of the array.
IndexInArray == nextWorkerIndex \in 0 .. size - 1

\* Faulty variants: no wrap-around, and wrap-around at the number of CPUs.
UnwrappedIndex == nextWorkerIndex + 1
CpuIndex == IF nextWorkerIndex = NaN THEN NaN ELSE (nextWorkerIndex + 1) % NumWorkers

\* (nextWorkerIndex + 1) % workers.length
AdvancedIndex ==
    IF size = 0 \/ nextWorkerIndex = NaN THEN NaN ELSE (nextWorkerIndex + 1) % size

FreshRouters == RouterIds \ {b.router : b \in built}

\* x was created for the room key r.
BuiltFor(r, x) == \E b \in built : b.router = x /\ b.room = r

\* A Router object is open exactly while the worker it lives on runs.
RouterOpen(x) == \E b \in built : b.router = x /\ b.worker \in alive

-----------------------------------------------------------------------------
(* Steps.                                                                  *)

\* onModuleInit has started one createWorker per CPU and awaits none of them.
Init ==
    /\ size = 0
    /\ alive = {}
    /\ spawning = NumWorkers
    /\ nextWorkerIndex = 0
    /\ routers = [w \in WorkerIds |-> [r \in RoomKeys |-> NoRouter]]
    /\ built = {}
    /\ creating = {}
    /\ overlapped = {}

\* createWorker resumes with the worker and pushes it at the end of the array.
WorkerStarted ==
    /\ spawning > 0
    /\ size < MaxWorkers
    /\ size' = size + 1
    /\ alive' = alive \cup {size}
    /\ spawning' = spawning - 1
    /\ UNCHANGED <<nextWorkerIndex, routers, built, creating, overlapped>>

\* Faulty variant: no timer creates a replacement.
WorkerLost(w) ==
    /\ w \in alive
    /\ alive' = alive \ {w}
    /\ creating' = {c \in creating : c.worker # w}
    /\ UNCHANGED <<size, spawning, nextWorkerIndex, routers, built, overlapped>>

\* Faulty variant: the map of the last worker is cleared, whichever died.
WorkerDiedLastCleared(w) ==
    /\ w \in alive
    /\ size + spawning < MaxWorkers
    /\ alive' = alive \ {w}
    /\ spawning' = spawning + 1
    /\ routers' = [routers EXCEPT ![size - 1] = [r \in RoomKeys |-> NoRouter]]
    /\ creating' = {c \in creating : c.worker # w}
    /\ UNCHANGED <<size, nextWorkerIndex, built, overlapped>>

\* A worker process dies.  Its entry and its map stay in the array, a timer
\* will create a replacement, and the library rejects the requests it owed an
\* answer: the getRouter calls waiting on it throw.  The guard on size is the
\* bound on replacements.
WorkerDied(w) ==
    /\ w \in alive
    /\ size + spawning < MaxWorkers
    /\ alive' = alive \ {w}
    /\ spawning' = spawning + 1
    /\ creating' = {c \in creating : c.worker # w}
    /\ UNCHANGED <<size, nextWorkerIndex, routers, built, overlapped>>

\* getRouter finds no router and asks the next worker in turn for one.  A call
\* is only let in while a RouterId is left for it (bound).
RequestRouter(k, r) ==
    /\ Unserved(r)
    /\ IndexInArray /\ nextWorkerIndex \in alive
    /\ \A c \in creating : c.call # k
    /\ Cardinality(creating) < Cardinality(FreshRouters)
    /\ creating' = creating \cup {[call |-> k, room |-> r, worker |-> nextWorkerIndex]}
    /\ nextWorkerIndex' = AdvancedIndex
    /\ overlapped' = IF \E c \in creating : c.room = r
                     THEN overlapped \cup {r} ELSE overlapped
    /\ UNCHANGED <<size, alive, spawning, routers, built>>

\* getRouter finds no router and throws: workers[nextWorkerIndex] is undefined,
\* or its worker is dead.  The index has already moved.
RequestThrows(r) ==
    /\ Unserved(r)
    /\ ~(IndexInArray /\ nextWorkerIndex \in alive)
    /\ nextWorkerIndex' = AdvancedIndex
    /\ UNCHANGED <<size, alive, spawning, routers, built, creating, overlapped>>

\* Faulty variant: the worker is chosen again after the await.
RouterStoredElsewhere(c, x) ==
    /\ c \in creating
    /\ x \in FreshRouters
    /\ nextWorkerIndex # NaN
    /\ routers' = [routers EXCEPT ![nextWorkerIndex][c.room] = x]
    /\ built' = built \cup {[router |-> x, worker |-> c.worker, room |-> c.room]}
    /\ creating' = creating \ {c}
    /\ UNCHANGED <<size, alive, spawning, nextWorkerIndex, overlapped>>

\* createRouter answers x: getRouter writes the table of the worker it chose,
\* without looking again.
RouterCreated(c, x) ==
    /\ c \in creating
    /\ x \in FreshRouters
    /\ routers' = [routers EXCEPT ![c.worker][c.room] = x]
    /\ built' = built \cup {[router |-> x, worker |-> c.worker, room |-> c.room]}
    /\ creating' = creating \ {c}
    /\ UNCHANGED <<size, alive, spawning, nextWorkerIndex, overlapped>>

\* The worker refuses createRouter: getRouter throws.
RouterRefused(c) ==
    /\ c \in creating
    /\ creating' = creating \ {c}
    /\ UNCHANGED <<size, alive, spawning, nextWorkerIndex, routers, built, overlapped>>

\* The process ends and the container starts it again: createWorker rejected
\* with nobody awaiting it, or another part of the program ended the process.
ProcessExit ==
    /\ size' = 0
    /\ alive' = {}
    /\ spawning' = NumWorkers
    /\ nextWorkerIndex' = 0
    /\ routers' = [w \in WorkerIds |-> [r \in RoomKeys |-> NoRouter]]
    /\ built' = {}
    /\ creating' = {}
    /\ overlapped' = {}

Next ==
    \/ WorkerStarted
    \/ \E w \in WorkerIds : WorkerDied(w)
    \/ \E k \in Calls, r \in RoomKeys : RequestRouter(k, r)
    \/ \E r \in RoomKeys : RequestThrows(r)
    \/ \E c \in creating, x \in RouterIds : RouterCreated(c, x)
    \/ \E c \in creating : RouterRefused(c)
    \/ ProcessExit

Spec == Init /\ [][Next]_poolVars

-----------------------------------------------------------------------------
(* Properties.                                                             *)

\* Every variable has its type, and workers only sit at positions of the array.
\* (That the index is one of them is WarmPoolPicks.)
TypeOK ==
    /\ size \in 0 .. MaxWorkers
    /\ alive \subseteq 0 .. size - 1
    /\ spawning \in 0 .. MaxWorkers
    /\ nextWorkerIndex \in WorkerIds \cup {NaN}
    /\ routers \in [WorkerIds -> [RoomKeys -> RouterIds \cup {NoRouter}]]
    /\ built \subseteq Router
    /\ creating \subseteq Creation
    /\ overlapped \subseteq RoomKeys

\* Every worker that dies is replaced and none is started twice: the workers
\* that run and those being started are always as many as there are CPUs
\* (createWorker and its 'died' listener).
PoolConserved == Cardinality(alive) + spawning = NumWorkers

\* A room has one router for as long as the process lives, wherever and however
\* often it was asked for, unless two calls for it were waiting for createRouter
\* at the same time (getRouter reads the table before the await and writes it after).
OneRouterUnlessOverlap ==
    \A b, c \in built : b.room = c.room /\ b.room \notin overlapped => b = c

\* The table tells the truth: the router under a room, in the map of a worker,
\* was created for that room on that worker, and a router that was created is
\* never forgotten unless an overlapping creation replaced it.
TableSound ==
    /\ \A w \in WorkerIds, r \in RoomKeys : routers[w][r] # NoRouter =>
          [router |-> routers[w][r], worker |-> w, room |-> r] \in built
    /\ \A b \in built : b.room \notin overlapped => Serves(b.room, b.router)

\* A pool with a worker in it hands out an entry of the array: getWorker's index
\* stays in range while the array grows, unless it became NaN before the first
\* worker was there.
WarmPoolPicks == size > 0 /\ nextWorkerIndex # NaN => IndexInArray

\* The router a room is given does not change as long as its worker runs, whichever
\* other workers die, are replaced or take rooms of their own, unless creations for
\* the room overlapped: its members keep meeting on one router.
AnswerStable ==
    [][\A r \in RoomKeys, x \in RouterIds :
          /\ Serves(r, x)
          /\ r \notin overlapped
          /\ RouterOpen(x)'
          => Serves(r, x)']_poolVars
=============================================================================
