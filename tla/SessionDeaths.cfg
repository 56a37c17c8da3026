CONSTANTS
    Peers = {a, b}
    Rooms = {r1}
    NoRoom = NoRoom
    TransportIds = {t1, t2}
    ProducerIds = {q1}
    ConsumerIds = {s1}
    RouterIds = {x1}
    Calls = {k1, k2}
    NoRouter = NoRouter
    NumWorkers = 1
    MaxWorkers = 2
SPECIFICATION Spec
SYMMETRY Symmetry
CHECK_DEADLOCK FALSE
INVARIANTS
    MapsExact
    ProducersInReach
    WaitsOwed
