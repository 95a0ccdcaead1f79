SPECIFICATION RoomActorSpec
CONSTANTS
    None = None
    p1 = p1
    p2 = p2
    RoomId = {r1, r2}
    PlayerId = {p1, p2}
    Session = {s1}
    RoomConfig = {0, 2}
    RoomTask = {t1, t2}
    TargetIds <- MCTargetIds
    Body = {b}
    MaxRoomRx = 1
    MaxPlayerRx = 1
CONSTRAINT BoundedChannels
SYMMETRY Symmetry
INVARIANTS
    RoomTypeOK
    DirectoryMatchesTasks
    OneLiveTaskPerRoom
    CapacityRespected
    StoppedRoomIsEmpty
PROPERTY
    ImplementsRooms
CHECK_DEADLOCK FALSE
