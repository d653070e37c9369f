SPECIFICATION FairGatewaySpec
CONSTANTS
    Backlog = 1
INVARIANTS
    GatewayTypeOK
    JoinedBeforeEnd
PROPERTIES
    StopEnds
    WaitingIsServed
    MainKeepsTicking
    OutageReported
CHECK_DEADLOCK FALSE
