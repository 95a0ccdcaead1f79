SPECIFICATION Spec
CONSTANTS
    None = None
    PlayerId = {p1}
    Session = {s1}
    MaxRequests = 2
    MaxOutputs = 2
    Capacity = 1
INVARIANTS
    GrpcSendsSucceed
CHECK_DEADLOCK FALSE
