CONSTANTS
    RoomKeys = {r1, r2}
    RouterIds = {x1, x2, x3}
    Calls = {k1, k2}
    NoRouter = NoRouter
    NumWorkers = 2
    MaxWorkers = 4
SPECIFICATION Spec
SYMMETRY Symmetry
INVARIANTS
    TypeOK
    PoolConserved
    OneRouterUnlessOverlap
    TableSound
    WarmPoolPicks
PROPERTY AnswerStable
