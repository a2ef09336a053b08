CONSTANTS
    t1 = t1
    t2 = t2
    NoTask = NoTask
    Tasks = {t1}
    MaxInputs = 4
    MaxFailures = 0
SPECIFICATION Spec
INVARIANTS
    NoFalseConflict
CHECK_DEADLOCK FALSE
