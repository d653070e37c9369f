SPECIFICATION Spec
CONSTANTS
    WritesEnabled = TRUE
    HeartbeatTimeout = 3
    SocFull = 2
    Statuses <- MCStatuses
    Reports <- MCReports
    Links = {TRUE, FALSE}
    LocalPanel = FALSE
    PowerOnAtStart = {1}
    MaxPower = 4
    ReactiveRange = {}
    SocRange = {}
    EmsTimeout = 1
    HeartbeatRefresh = 2
    MaxLoop = 1
    ChargeCap = {}
    DischargeCap = {1}
    EmsWrites <- Commands
    OperatorWrites = {}
    MayCrash = TRUE
INVARIANTS
    TypeOK
    WatchdogArmed
    WithinConfiguredLimits
    EnvelopeNeverRefused
PROPERTIES
    NoStaleCommand
