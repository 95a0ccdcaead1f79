SPECIFICATION LoginSpec
CONSTANTS
    None = None
    PlayerId = {p1, p2}
    Session = {s1, s2, s3}
SYMMETRY Symmetry
INVARIANT
    OneSessionPerPlayerId
CHECK_DEADLOCK FALSE
