SPECIFICATION FairSpec
CONSTANTS
    None = None
    PlayerId = {p1}
    Session = {s1}
    MaxRequests = 2
    MaxOutputs = 1
    Capacity = 1
PROPERTIES
    EndOfStreamIsNoticed
CHECK_DEADLOCK FALSE
