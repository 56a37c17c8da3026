CONSTANTS
    RoomIds = {i1, i2, i3, i4, i5}
    PageSize = 2
    MaxTime = 2
SPECIFICATION Spec
SYMMETRY Symmetry
CHECK_DEADLOCK FALSE
INVARIANTS
    TypeOK
    NoRoomMissed
    RepeatsExplained
