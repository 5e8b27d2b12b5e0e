SPECIFICATION Spec
CONSTANTS
    NFiles = 1
    MaxUpsets = 1
    MaxRequests = 2
INVARIANT PartialIsRecoverable
CHECK_DEADLOCK FALSE
