CONSTANTS
    Peers = {a, b}
    Rooms = {r1}
    NoRoom = NoRoom
    TransportIds = {t1, t2}
    ProducerIds = {}
    ConsumerIds = {}
    RouterIds = {x1, x2}
    Calls = {k1, k2}
    NoRouter = NoRouter
    NumWorkers = 2
    MaxWorkers = 2
SPECIFICATION Spec
SYMMETRY Symmetry
CHECK_DEADLOCK FALSE
INVARIANT SameRoomRouter
