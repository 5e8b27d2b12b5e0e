SPECIFICATION LiveSpec
CONSTANTS
    None = None
    Readers = {"r1", "r2"}
    Writers = {"w1", "w2"}
    MaxGeneration = 2
    MaxWrites = 1
INVARIANT LeaseSafe
PROPERTIES TransitionResolves ControlsFirst CallEnds UpdatesSettle  ShellEnds 
CHECK_DEADLOCK FALSE
