SPECIFICATION FairSpec
CONSTANTS
    None = None
    PlayerId = {p1}
    Session = {s1}
    MaxRequests = 4
    MaxOutputs = 5
    Capacity = 2
INVARIANTS
    TypeOK
    OutputsInOrder
    EndLosesNothing
PROPERTIES
    LoginSpec
    DepartureEndsConnection
    ActorEndClosesConnection
    ShutdownCompletes
CHECK_DEADLOCK FALSE
