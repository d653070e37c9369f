SPECIFICATION NodeSpec
CONSTANTS
    NodeWrites <- MCNodeWrites
    MaxTtl = 2
    MaxNodeLoop = 1
    ClockSize = 4
    LineBound = 2
    Builds = {TRUE}
    NodeEvents = {"refuse", "restart", "provision", "gateway"}
INVARIANTS
    NodeTypeOK
    ArmedCommandExpires
    AppliedIsReal
    OnlyAuthorised
PROPERTIES
    NotExpiredEarly
