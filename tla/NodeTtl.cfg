SPECIFICATION NodeSpec
CONSTANTS
    NodeWrites <- EnableThenDisable
    MaxTtl = 2
    MaxNodeLoop = 1
    ClockSize = 4
    LineBound = 1
    Builds = {TRUE}
    NodeEvents = {}
INVARIANTS
    OutputExpires
