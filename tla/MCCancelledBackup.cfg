CONSTANTS
    a = a
    b = b
    Servers = {a}
    Steps = 3
    MaxRuns = 2
    MaxFailures = 1
SPECIFICATION Spec
SYMMETRY Deployments
INVARIANT CancelledIsUnpublished
CHECK_DEADLOCK FALSE
