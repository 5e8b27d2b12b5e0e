SPECIFICATION AllSpec
CONSTANTS
    None = None
    s1 = s1
    s2 = s2
    Slots = {s1, s2}
    MaxVersion = 2
    AutoUpdates = TRUE
    RetryDelay <- Cooldowns
    InstallWait = 2
    AutoEvery = 1
    ByHand = {1}
    MaxRequests = 2
    MaxReboots = 1
    Procs = {"datad", "cli"}
    Keys = {"k1", "k2", "k3"}
    Policies = {"p0", "p1"}
    Zgd = "zgd"
    ChargeEvents = 3
    ChargeFaults = 2
    Instances = {"a", "b"}
    MaxStarts = 3
    Pcis = {1, 2}
    Arfcns = {10, 20}
    Records = 2
    Window = 1
    MaxFrames = 5
    FanOps = 2
    FanEvents = 2
    FanFaults = 1
    Callers = {"http", "panel"}
    External = {"ext"}
    MaxAttempts = 2
    MaxIds = 2
    Reads = 1
    Servers <- StunServers
    Count = 2
    Patient = {"http"}
    Fields = {"country", "channel"}
    Vals = {"a", "b"}
    Late = {"channel"}
    Automatic = "auto"
    UciJobs = 2
    UciFaults = 1
    PresentBands <- TwoBands
    BandIndex <- RadioOf
    BadCount = 3
    Guestless = {}
    WifiFaults = 1
    Datas = {"d1", "d2"}
    Filters = {"f1", "f2"}
    Ticks = {"t1"}
    Control = "control"
    MaxTries = 2
    ExtraEvents = 1
    ExtraFaults = 1
    ExtraOps = 2
    MaxWan = 3
    SETTLE = 1
    Retries <- RetryPlan
INVARIANTS NatTrue  CellsTrue   ApnSafe
    
PROPERTIES  CountKept UpdatesTrue IdentityKept
SYMMETRY Places
CHECK_DEADLOCK FALSE
