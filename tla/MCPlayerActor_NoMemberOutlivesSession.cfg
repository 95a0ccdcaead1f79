SPECIFICATION Spec
CONSTANTS
    None = None
    PlayerId = {p1, p2}
    Session = {s1, s2}
    RoomId = {r1}
    RoomConfig = {1, 2}
    RoomTask = {t1, t2}
    TargetIds <- MCTargetIds
    Body = {}
    MaxRequests = 3
INVARIANTS
    NoMemberOutlivesSession
CHECK_DEADLOCK FALSE
