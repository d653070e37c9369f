SPECIFICATION DriverSpec
CONSTANTS
    WritesEnabled = TRUE
    HeartbeatTimeout = 1
    SocFull = 2
    Statuses <- MCStatuses
    Reports <- MCReports
    Links = {TRUE, FALSE}
    LocalPanel = TRUE
    PowerOnAtStart = {0, 1}
    MaxPower = 4
    ReactiveRange = {3}
    SocRange = {0, 1, 2, 3}
INVARIANTS
    DriverTypeOK
    SocWindowOrdered
    StopLeavesZero
PROPERTIES
    SetpointWithinPolledLimits
