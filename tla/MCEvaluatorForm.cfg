CONSTANTS
    t1 = t1
    t2 = t2
    NoTask = NoTask
    Tasks = {t1, t2}
    MaxInputs = 4
    MaxFailures = 1
SPECIFICATION Spec
INVARIANTS
    TypeOK
    OwnContent
    SingleFlight
PROPERTIES
    EditsReachServer
CHECK_DEADLOCK FALSE
