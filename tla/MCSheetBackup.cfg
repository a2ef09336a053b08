CONSTANTS
    a = a
    b = b
    Servers = {a, b}
    Steps = 3
    MaxRuns = 2
    MaxFailures = 1
SPECIFICATION Spec
SYMMETRY Deployments
INVARIANTS
    TypeOK
    ResumeFits
    CompleteWasPublished
PROPERTIES
    ImplementsPromise
CHECK_DEADLOCK FALSE
