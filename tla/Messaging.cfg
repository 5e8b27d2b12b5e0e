SPECIFICATION AllSpec
CONSTANTS
    m1 = m1
    m2 = m2
    m3 = m3
    p1 = p1
    p2 = p2
    r1 = r1
    r2 = r2
    Undated = {}
    Blocked = {}
    Skew = 0
    Lags = {0, 1}
    MaxDaily = 2
    InboxMsgs = {m1, m2, m3}
    InboxFromTarget = {}
    InboxMethods = {"net"}
    InboxRequests = {"device"}
    InboxPhones = {p1}
    InboxMaxSeen = 2
    InboxMaxInbox = 2
    InboxBatch = 2
    InboxDayLen = 2
    InboxMaxTime = 2
    QuotaMsgs = {m1}
    QuotaFromTarget = {m1}
    QuotaMethods = {"net", "sms"}
    QuotaRequests = {"test", "task"}
    QuotaPhones = {p1, p2}
    QuotaMaxSeen = 1
    QuotaMaxInbox = 1
    QuotaBatch = 1
    QuotaDayLen = 1
    QuotaMaxTime = 3
    Readers = {r1, r2}
    Editor = r1
    MaxBox = 2
    MaxRev = 2
    MaxKey = 1
    None = None
    Corrupt = Corrupt
    Unusable = Unusable
    NoPower = NoPower
    Levels = {0, 1, 2, 3, 4, 5, 6, 7, 8}
    Points = {2, 7}
    Rearm = 2
    MaxTold = 4
    NoKey = NoKey
    Nobody = Nobody
    Never = Never
INVARIANTS FreshBaseline SmtpSafe
PROPERTIES ForwardOnce WobbleOnce
CHECK_DEADLOCK FALSE
