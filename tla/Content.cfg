SPECIFICATION AllSpec
CONSTANTS
    None = None
    w1 = w1
    w2 = w2
    Workers = {w1, w2}
    MaxEntries = 2
    RepeatWindow = 2
    MaxId = 3
    MaxNow = 2
    HistoryFaults = 1
    Names = {"n1", "n2"}
    Chunks = 1
    MaxStamp = 3
    Clients = {"a", "b"}
    Outside = {"o", "e"}
    Original = "o"
    MaxInode = 4
    HostFaults = 1
    PanelIds = {"i1", "i2"}
    MaxControls = 2
    MaxTick = 3
    Threads = 2
    Rounds = {"sampler", "other"}
    Sampler = "sampler"
    Streams = {"e"}
    MaxStreams = 1
    Values = {"x", "y"}
    MaxWrites = 2
    MaxFails = 1
    Runs = 2
    MaxGeneration = 4
    MeshIds = {"i", "j"}
    MaxInFlight = 2
    MeshWindow = 0
    MaxBuffered = 2
    OutCap = 1
    MaxBody = 2
    MaxJobs = 2
    MaxFrames = 3
    TrafficDay = 2
    TrafficNow = 4
    TrafficBytes = 2
    TrafficDays = 2
    TrafficEvents = 3
    Calls = 3
    MaxSeq = 2
    MaxChanges = 2
    OwnNotFound = FALSE
INVARIANTS   PanelCurrent StatusIsTheTask 
    RebootExplained CacheCurrent CallSafe
PROPERTIES HostsKept
SYMMETRY Sessions
CHECK_DEADLOCK FALSE
