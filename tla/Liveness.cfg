SPECIFICATION FairSpec
CONSTANTS
    WritesEnabled = TRUE
    HeartbeatTimeout = 2
    SocFull = 1
    Statuses <- OneStatus
    Reports <- OneReport
    Links = {TRUE, FALSE}
    LocalPanel = FALSE
    PowerOnAtStart = {1}
    MaxPower = 4
    ReactiveRange = {2}
    SocRange = {0}
    EmsTimeout = 0
    HeartbeatRefresh = 1
    MaxLoop = 1
    ChargeCap = {}
    DischargeCap = {}
    EmsWrites <- Charge
    OperatorWrites <- TwoRequests
    MayCrash = TRUE
PROPERTIES
    SilenceEndsAtZero
    DownEndsAtZero
    OperatorAnswered
