CONSTANTS
    Peers = {a, b}
    Rooms = {r1, r2}
    NoRoom = NoRoom
    TransportIds = {t1}
    ProducerIds = {q1}
    ConsumerIds = {}
    RouterIds = {x1, x2}
    Calls = {k1, k2}
    NoRouter = NoRouter
    NumWorkers = 1
    MaxWorkers = 1
SPECIFICATION Spec
SYMMETRY Symmetry
CHECK_DEADLOCK FALSE
INVARIANTS
    RecordsMatchSockets
    HeldOnRoomRouter
    NoMissedProducer
PROPERTY ImplementsBoard
