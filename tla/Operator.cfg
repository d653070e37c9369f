SPECIFICATION Spec
CONSTANTS
    WritesEnabled = TRUE
    HeartbeatTimeout = 2
    SocFull = 2
    Statuses <- OneStatus
    Reports <- OneReport
    Links = {TRUE, FALSE}
    LocalPanel = FALSE
    PowerOnAtStart = {0, 1}
    MaxPower = 4
    ReactiveRange = {2}
    SocRange = {0, 1, 2}
    EmsTimeout = 1
    HeartbeatRefresh = 1
    MaxLoop = 0
    ChargeCap = {}
    DischargeCap = {}
    EmsWrites <- Charge
    OperatorWrites <- Requests
    MayCrash = FALSE
INVARIANTS
    ReportedMeansCommanded
    SuccessMeansDone
PROPERTIES
    NoPowerWhileStopped
    DriverSpec
