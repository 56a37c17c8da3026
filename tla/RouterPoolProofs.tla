--------------------------- MODULE RouterPoolProofs ---------------------------
(***************************************************************************)
(* Theorems about RouterPool for any number of CPUs, rooms, routers and     *)
(* calls, and any bound on the array.                                       *)
(***************************************************************************)
EXTENDS RouterPool, FiniteSetTheorems, TLAPS

\* getWorker's index, after the modulo, is an entry of the array.
LEMMA Wraps == ASSUME NEW i \in Nat, NEW n \in Nat \ {0} PROVE (i + 1) % n \in 0 .. n - 1
  OBVIOUS

\* The index getWorker leaves is NaN or an entry of the array it saw.
LEMMA AdvancedIndexRange ==
    ASSUME TypeOK
    PROVE  /\ AdvancedIndex \in WorkerIds \cup {NaN}
           /\ AdvancedIndex # NaN => AdvancedIndex \in 0 .. size - 1
  <1>1. CASE size = 0 \/ nextWorkerIndex = NaN
    BY <1>1 DEF AdvancedIndex
  <1>2. CASE size # 0 /\ nextWorkerIndex # NaN
    <2>1. size \in Nat \ {0} /\ nextWorkerIndex \in Nat /\ size <= MaxWorkers
      BY <1>2, PoolAssumption DEF TypeOK, WorkerIds, NaN
    <2>2. (nextWorkerIndex + 1) % size \in 0 .. size - 1
      BY <2>1, Wraps
    <2> QED
      BY <1>2, <2>1, <2>2, PoolAssumption DEF AdvancedIndex, WorkerIds, NaN
  <1> QED
    BY <1>1, <1>2

LEMMA TypeStep == TypeOK /\ [Next]_poolVars => TypeOK'
  <1> SUFFICES ASSUME TypeOK, [Next]_poolVars PROVE TypeOK'
    OBVIOUS
  <1> USE PoolAssumption
  <1>1. CASE WorkerStarted
    BY <1>1 DEF WorkerStarted, TypeOK, WorkerIds, NaN
  <1>2. ASSUME NEW w \in WorkerIds, WorkerDied(w) PROVE TypeOK'
    BY <1>2 DEF WorkerDied, TypeOK, WorkerIds, NaN
  <1>3. ASSUME NEW k \in Calls, NEW r \in RoomKeys, RequestRouter(k, r) PROVE TypeOK'
    <2>1. nextWorkerIndex \in WorkerIds /\ nextWorkerIndex' \in WorkerIds \cup {NaN}
      BY <1>3, AdvancedIndexRange DEF RequestRouter, IndexInArray, TypeOK, WorkerIds
    <2>2. creating' \subseteq Creation
      BY <1>3, <2>1 DEF RequestRouter, TypeOK, Creation
    <2> QED
      BY <1>3, <2>1, <2>2 DEF RequestRouter, TypeOK
  <1>4. ASSUME NEW r \in RoomKeys, RequestThrows(r) PROVE TypeOK'
    BY <1>4, AdvancedIndexRange DEF RequestThrows, TypeOK
  <1>5. ASSUME NEW c \in creating, NEW x \in RouterIds, RouterCreated(c, x) PROVE TypeOK'
    <2>1. c \in Creation
      BY DEF TypeOK
    <2>2. routers' \in [WorkerIds -> [RoomKeys -> RouterIds \cup {NoRouter}]]
      BY <1>5, <2>1 DEF RouterCreated, TypeOK, Creation
    <2>3. built' \subseteq Router
      BY <1>5, <2>1 DEF RouterCreated, TypeOK, Creation, Router
    <2> QED
      BY <1>5, <2>2, <2>3 DEF RouterCreated, TypeOK
  <1>6. ASSUME NEW c \in creating, RouterRefused(c) PROVE TypeOK'
    BY <1>6 DEF RouterRefused, TypeOK
  <1>7. CASE ProcessExit
    BY <1>7 DEF ProcessExit, TypeOK, WorkerIds, NaN
  <1>8. CASE UNCHANGED poolVars
    BY <1>8 DEF poolVars, TypeOK
  <1> QED
    BY <1>1, <1>2, <1>3, <1>4, <1>5, <1>6, <1>7, <1>8 DEF Next

\* Every variable keeps its type, whatever the service is asked for.
THEOREM Typing == Spec => []TypeOK
  <1>1. Init => TypeOK
    BY PoolAssumption DEF Init, TypeOK, WorkerIds, NaN, Router, Creation
  <1> QED
    BY <1>1, TypeStep, PTL DEF Spec

-----------------------------------------------------------------------------
(* The index.                                                              *)

\* What keeps the index in range: before the first worker it is 0, or NaN for good.
IndexInv == nextWorkerIndex = NaN \/ nextWorkerIndex \in 0 .. size - 1
            \/ (size = 0 /\ nextWorkerIndex = 0)

\* getWorker hands out an entry of the array as long as the array has one and no
\* request came before the first worker.
THEOREM WarmPool == Spec => []WarmPoolPicks
  <1>1. Init => IndexInv
    BY DEF Init, IndexInv
  <1>2. TypeOK /\ IndexInv /\ [Next]_poolVars => IndexInv'
    <2> SUFFICES ASSUME TypeOK, IndexInv, [Next]_poolVars PROVE IndexInv'
      OBVIOUS
    <2>1. CASE WorkerStarted
      BY <2>1, PoolAssumption DEF WorkerStarted, TypeOK, IndexInv
    <2>2. ASSUME NEW k \in Calls, NEW r \in RoomKeys, RequestRouter(k, r) PROVE IndexInv'
      BY <2>2, AdvancedIndexRange DEF RequestRouter, IndexInv
    <2>3. ASSUME NEW r \in RoomKeys, RequestThrows(r) PROVE IndexInv'
      BY <2>3, AdvancedIndexRange DEF RequestThrows, IndexInv
    <2>4. CASE ProcessExit
      BY <2>4 DEF ProcessExit, IndexInv
    <2>5. CASE UNCHANGED <<size, nextWorkerIndex>>
      BY <2>5 DEF IndexInv
    <2> QED
      BY <2>1, <2>2, <2>3, <2>4, <2>5
         DEF Next, poolVars, WorkerDied, RouterCreated, RouterRefused
  <1>3. TypeOK /\ IndexInv => WarmPoolPicks
    BY DEF IndexInv, WarmPoolPicks, IndexInArray, TypeOK
  <1> QED
    BY <1>1, <1>2, <1>3, Typing, PTL DEF Spec

-----------------------------------------------------------------------------
(* The workers.                                                            *)

\* Every worker that dies is replaced, and none is started twice: createWorker and
\* its died listener keep as many workers running or starting as there are CPUs.
THEOREM Conservation == Spec => []PoolConserved
  <1>1. Init => PoolConserved
    BY FS_EmptySet, PoolAssumption DEF Init, PoolConserved
  <1>2. TypeOK /\ PoolConserved /\ [Next]_poolVars => PoolConserved'
    <2> SUFFICES ASSUME TypeOK, PoolConserved, [Next]_poolVars PROVE PoolConserved'
      OBVIOUS
    <2>1. IsFiniteSet(alive) /\ Cardinality(alive) \in Nat
      <3>1. size - 1 \in Int /\ IsFiniteSet(0 .. size - 1)
        BY PoolAssumption, FS_Interval DEF TypeOK
      <3> QED
        BY <3>1, FS_Subset, FS_CardinalityType DEF TypeOK
    <2>2. CASE WorkerStarted
      <3>1. size \notin alive
        BY PoolAssumption DEF TypeOK
      <3>2. Cardinality(alive') = Cardinality(alive) + 1
        BY <2>1, <2>2, <3>1, FS_AddElement DEF WorkerStarted
      <3> QED
        BY <2>1, <2>2, <3>2, PoolAssumption DEF WorkerStarted, PoolConserved, TypeOK
    <2>3. ASSUME NEW w \in WorkerIds, WorkerDied(w) PROVE PoolConserved'
      <3>1. Cardinality(alive') = Cardinality(alive) - 1
        BY <2>1, <2>3, FS_RemoveElement DEF WorkerDied
      <3> QED
        BY <2>1, <2>3, <3>1, PoolAssumption DEF WorkerDied, PoolConserved, TypeOK
    <2>4. CASE ProcessExit
      BY <2>4, FS_EmptySet, PoolAssumption DEF ProcessExit, PoolConserved
    <2>5. CASE UNCHANGED <<alive, spawning>>
      BY <2>5 DEF PoolConserved
    <2> QED
      BY <2>2, <2>3, <2>4, <2>5
         DEF Next, poolVars, RequestRouter, RequestThrows, RouterCreated, RouterRefused
  <1> QED
    BY <1>1, <1>2, Typing, PTL DEF Spec

-----------------------------------------------------------------------------
(* The table.                                                              *)

\* A Router object is created once.
UniqueRouters == \A b, c \in built : b.router = c.router => b = c

\* What a map holds was created for that worker and room.
MapsHoldBuilt ==
    \A w \in WorkerIds, r \in RoomKeys : routers[w][r] # NoRouter =>
        [router |-> routers[w][r], worker |-> w, room |-> r] \in built

\* Without overlap a room has one creation, under way or done, and the table has it.
SingleCreation ==
    /\ \A b \in built : b.room \notin overlapped => routers[b.worker][b.room] = b.router
    /\ \A b, c \in built : b.room = c.room /\ b.room \notin overlapped => b = c
    /\ \A c, d \in creating : c.room = d.room /\ c.room \notin overlapped => c = d
    /\ \A c \in creating, b \in built : c.room = b.room => c.room \in overlapped

TableInv == UniqueRouters /\ MapsHoldBuilt /\ SingleCreation

LEMMA TableStep == TypeOK /\ TableInv /\ [Next]_poolVars => TableInv'
  <1> SUFFICES ASSUME TypeOK, TableInv, [Next]_poolVars PROVE TableInv'
    OBVIOUS
  <1> USE DEF TableInv
  <1>1. CASE WorkerStarted
    BY <1>1 DEF WorkerStarted, UniqueRouters, MapsHoldBuilt, SingleCreation
  <1>2. ASSUME NEW w \in WorkerIds, WorkerDied(w) PROVE TableInv'
    BY <1>2 DEF WorkerDied, UniqueRouters, MapsHoldBuilt, SingleCreation
  <1>3. ASSUME NEW k \in Calls, NEW r \in RoomKeys, RequestRouter(k, r) PROVE TableInv'
    <2>1. \A b \in built : b.room = r => r \in overlapped
      BY <1>3, PoolAssumption DEF RequestRouter, Unserved, SingleCreation, TypeOK, Router
    <2>2. UniqueRouters' /\ MapsHoldBuilt'
      BY <1>3 DEF RequestRouter, UniqueRouters, MapsHoldBuilt
    <2>3. overlapped \subseteq overlapped'
      BY <1>3 DEF RequestRouter
    <2>4. SingleCreation'
      BY <1>3, <2>1, <2>3 DEF RequestRouter, SingleCreation
    <2> QED
      BY <2>2, <2>4
  <1>4. ASSUME NEW r \in RoomKeys, RequestThrows(r) PROVE TableInv'
    BY <1>4 DEF RequestThrows, UniqueRouters, MapsHoldBuilt, SingleCreation
  <1>5. ASSUME NEW c \in creating, NEW x \in RouterIds, RouterCreated(c, x) PROVE TableInv'
    <2> DEFINE n == [router |-> x, worker |-> c.worker, room |-> c.room]
    <2>1. /\ c \in Creation /\ n \in Router /\ x # NoRouter
          /\ \A b \in built : b \in Router /\ b.router # x
      BY <1>5, PoolAssumption DEF RouterCreated, FreshRouters, TypeOK, Creation, Router
    <2>2. built' = built \cup {n}
      BY <1>5 DEF RouterCreated
    <2>3. \A w \in WorkerIds, r \in RoomKeys :
            routers'[w][r] = IF w = c.worker /\ r = c.room THEN x ELSE routers[w][r]
      BY <1>5, <2>1 DEF RouterCreated, TypeOK, Creation
    <2>4. UniqueRouters'
      BY <2>1, <2>2 DEF UniqueRouters
    <2>5. MapsHoldBuilt'
      BY <2>1, <2>2, <2>3 DEF MapsHoldBuilt
    <2>6. SingleCreation'
      <3>1. \A b \in built : b.room = c.room => c.room \in overlapped
        BY DEF SingleCreation
      <3>2. \A b \in built' : b.room \notin overlapped => routers'[b.worker][b.room] = b.router
        BY <2>1, <2>2, <2>3, <3>1 DEF SingleCreation, Router, Creation
      <3>3. \A b, d \in built' : b.room = d.room /\ b.room \notin overlapped => b = d
        BY <2>2, <3>1 DEF SingleCreation
      <3>4. \A b \in built', d \in creating' : d.room = b.room => d.room \in overlapped
        BY <1>5, <2>2 DEF SingleCreation, RouterCreated
      <3> QED
        BY <1>5, <3>2, <3>3, <3>4 DEF SingleCreation, RouterCreated
    <2> QED
      BY <2>4, <2>5, <2>6
  <1>6. ASSUME NEW c \in creating, RouterRefused(c) PROVE TableInv'
    BY <1>6 DEF RouterRefused, UniqueRouters, MapsHoldBuilt, SingleCreation
  <1>7. CASE ProcessExit
    BY <1>7 DEF ProcessExit, UniqueRouters, MapsHoldBuilt, SingleCreation
  <1>8. CASE UNCHANGED poolVars
    BY <1>8 DEF poolVars, UniqueRouters, MapsHoldBuilt, SingleCreation
  <1> QED
    BY <1>1, <1>2, <1>3, <1>4, <1>5, <1>6, <1>7, <1>8 DEF Next

LEMMA TableInvariant == Spec => []TableInv
  <1>1. Init => TableInv
    BY DEF Init, TableInv, UniqueRouters, MapsHoldBuilt, SingleCreation
  <1> QED
    BY <1>1, TableStep, Typing, PTL DEF Spec

\* The loop of getRouter finds the one router an unoverlapped room has.
LEMMA BuiltServes ==
    ASSUME TypeOK, TableInv, NEW b \in built, b.room \notin overlapped
    PROVE  Serves(b.room, b.router)
  <1>1. b \in Router /\ b.router # NoRouter
    BY PoolAssumption DEF TypeOK, Router
  <1>2. routers[b.worker][b.room] = b.router
    BY DEF TableInv, SingleCreation
  <1>3. \A v \in WorkerIds : routers[v][b.room] # NoRouter => v = b.worker
    <2> SUFFICES ASSUME NEW v \in WorkerIds, routers[v][b.room] # NoRouter
                 PROVE  v = b.worker
      OBVIOUS
    <2> DEFINE n == [router |-> routers[v][b.room], worker |-> v, room |-> b.room]
    <2>1. n \in built
      BY <1>1 DEF TableInv, MapsHoldBuilt, Router
    <2>2. n.room = b.room /\ n.worker = v
      OBVIOUS
    <2>3. n = b
      BY <2>1, <2>2 DEF TableInv, SingleCreation
    <2> QED
      BY <2>2, <2>3
  <1>4. \A v \in WorkerIds : v < b.worker => routers[v][b.room] = NoRouter
    BY <1>1, <1>3 DEF WorkerIds, Router
  <1> QED
    BY <1>1, <1>2, <1>4 DEF Serves, ServedBy, Router

\* A room has one router for as long as the process lives, unless two getRouter
\* calls for it were waiting for createRouter at once.
THEOREM OneRouter == Spec => []OneRouterUnlessOverlap
  <1>1. TableInv => OneRouterUnlessOverlap
    BY DEF TableInv, SingleCreation, OneRouterUnlessOverlap
  <1> QED
    BY <1>1, TableInvariant, PTL

\* getRouter answers, for an unoverlapped room, the router that was created for it,
\* and every entry of the maps is where its router lives.
THEOREM Soundness == Spec => []TableSound
  <1>1. TypeOK /\ TableInv => TableSound
    BY BuiltServes DEF TableInv, MapsHoldBuilt, TableSound
  <1> QED
    BY <1>1, Typing, TableInvariant, PTL

\* The router a room is given stays the same as long as its worker runs, unless the
\* creations of the room's router overlapped.
THEOREM Stability == Spec => AnswerStable
  <1> DEFINE Stable == \A r \in RoomKeys, x \in RouterIds :
               /\ Serves(r, x)
               /\ r \notin overlapped
               /\ RouterOpen(x)'
               => Serves(r, x)'
  <1>1. TypeOK /\ TableInv /\ [Next]_poolVars => Stable
    <2> SUFFICES ASSUME TypeOK, TableInv, [Next]_poolVars,
                        NEW r \in RoomKeys, NEW x \in RouterIds,
                        Serves(r, x), r \notin overlapped,
                        RouterOpen(x)'
                 PROVE  Serves(r, x)'
      OBVIOUS
    <2>1. PICK w \in WorkerIds : ServedBy(w, r) /\ routers[w][r] = x
      BY DEF Serves
    <2>2. [router |-> x, worker |-> w, room |-> r] \in built
      BY <2>1 DEF TableInv, MapsHoldBuilt, ServedBy
    <2>3. ASSUME NEW c \in creating, NEW y \in RouterIds, RouterCreated(c, y)
          PROVE  \A v \in WorkerIds : routers'[v][r] = routers[v][r]
      <3>1. c.room # r
        BY <2>2 DEF TableInv, SingleCreation
      <3> QED
        BY <2>3, <3>1 DEF RouterCreated, TypeOK, Creation
    <2>4. ~ProcessExit
      BY DEF ProcessExit, RouterOpen
    <2>5. \A v \in WorkerIds : routers'[v][r] = routers[v][r]
      BY <2>3, <2>4
         DEF Next, poolVars, WorkerStarted, WorkerDied, RequestRouter, RequestThrows,
             RouterRefused
    <2> QED
      BY <2>1, <2>5 DEF Serves, ServedBy
  <1>2. [][Stable]_poolVars <=> AnswerStable
    BY PTL DEF AnswerStable
  <1> QED
    BY <1>1, <1>2, Typing, TableInvariant, PTL DEF Spec
=============================================================================
