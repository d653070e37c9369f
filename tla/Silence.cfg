SPECIFICATION Spec
CONSTANTS
    WritesEnabled = TRUE
    HeartbeatTimeout = 12
    SocFull = 2
    Statuses <- OneStatus
    Reports <- MCReports
    Links = {TRUE}
    LocalPanel = FALSE
    PowerOnAtStart = {1}
    MaxPower = 4
    ReactiveRange = {}
    SocRange = {}
    EmsTimeout = 3
    HeartbeatRefresh = 7
    MaxLoop = 2
    ChargeCap = {}
    DischargeCap = {}
    EmsWrites <- Heartbeats
    OperatorWrites = {}
    MayCrash = FALSE
INVARIANTS
    SilenceMeansZero
