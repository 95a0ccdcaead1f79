SPECIFICATION Spec
CONSTANTS
    None = None
    PlayerId = {p1, p2}
    Session = {s1, s2, s3}
    RoomId = {r1}
    RoomConfig = {2}
    RoomTask = {t1}
    TargetIds <- MCTargetIds
    Body = {}
    MaxRequests = 4
SYMMETRY Symmetry
INVARIANTS
    NoUnaskedLeave
    RegisteredIdsAreAnswerable
    SharedIdNeedsRefusal
CHECK_DEADLOCK FALSE
