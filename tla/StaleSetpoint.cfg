SPECIFICATION Spec
CONSTANTS
    WritesEnabled = TRUE
    HeartbeatTimeout = 3
    SocFull = 2
    Statuses <- OneStatus
    Reports <- TwoReports
    Links = {TRUE}
    LocalPanel = FALSE
    PowerOnAtStart = {1}
    MaxPower = 4
    ReactiveRange = {}
    SocRange = {}
    EmsTimeout = 1
    HeartbeatRefresh = 2
    MaxLoop = 1
    ChargeCap = {}
    DischargeCap = {}
    EmsWrites <- Heartbeats
    OperatorWrites = {}
    MayCrash = FALSE
INVARIANTS
    SilenceMeansZero
