SPECIFICATION RemoteSpec
CONSTANTS
    b0 = b0
    m1 = m1
    NoConfig = NoConfig
    None = None
    Configs <- SomeConfigs
    Members = {m1}
    Broker = b0
    Outages <- OneEndpoint
    Tries = 2
    MaxOffers = 3
    MaxRevision = 1
    Ids = {"i1"}
    Kinds = {"control"}
    MaxActive = 1
    MaxSeen = 1
    Shells = 1
INVARIANT RemoteSafe
PROPERTIES FollowsSettings KeepsConnecting
CHECK_DEADLOCK FALSE
