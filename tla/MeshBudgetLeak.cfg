SPECIFICATION Spec
CONSTANTS
 Ids = {"i","j"}
 MaxInFlight = 2
 Window = 0
 MaxBuffered = 2
 OutCap = 1
 MaxBody = 2
 MaxJobs = 2
 MaxFrames = 4
INVARIANT BudgetReturned
CHECK_DEADLOCK FALSE
