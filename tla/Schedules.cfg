SPECIFICATION MCSpec
CONSTANTS
    Ids = {t1, t2, t3}
    MAX_TASKS = 2
    Day = 2
    Days = 2
    Inputs <- MCInputs
    MaxUpsets = 2
INVARIANT PlansKept
PROPERTY DrainsWhole
SYMMETRY Symmetry
CHECK_DEADLOCK FALSE
