CONSTANTS
    Peers = {a, b}
    Rooms = {r1}
    NoRoom = NoRoom
    TransportIds = {t1, t2, t3}
    ProducerIds = {q1}
    ConsumerIds = {s1}
    RouterIds = {x1}
    Calls = {k1, k2}
    NoRouter = NoRouter
    NumWorkers = 1
    MaxWorkers = 1
SPECIFICATION Spec
SYMMETRY Symmetry
CHECK_DEADLOCK FALSE
INVARIANTS
    TypeOK
    RecordsMatchSockets
    NoMissedProducer
    MapsExact
    LeaverReleased
