SPECIFICATION Spec
CONSTANTS
    Threshold = 1
    Cooldown = 2
    MaxRedials = 1
    Grace = 1
    Hour = 5
    HourlyLimit = 2
    RebootGap = 6
    FirstValid = 2
    StartWall = 2
    MaxWall = 10
    MaxUpsets = 2
INVARIANT
    BudgetSurvivesRestarts
CHECK_DEADLOCK FALSE
