SPECIFICATION BothSpec
CONSTANTS
    Threshold = 1
    Cooldown = 2
    MaxRedials = 1
    Grace = 1
    Hour = 5
    HourlyLimit = 2
    RebootGap = 6
    FirstValid = 2
    StartWall = 2
    MaxWall = 9
    MaxUpsets = 2
    NFiles = 2
    TimeUpsets = 2
    MaxRequests = 3
INVARIANT UserRules
PROPERTIES LimitsKept GivenBack
CHECK_DEADLOCK FALSE
