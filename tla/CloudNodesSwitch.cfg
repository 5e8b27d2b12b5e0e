SPECIFICATION Spec
CONSTANTS
    None = None
    Nodes = {"n1"}
    Homes = {"a", "b"}
    MaxRevision = 2
INVARIANT SwitchHolds
CHECK_DEADLOCK FALSE
