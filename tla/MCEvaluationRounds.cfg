CONSTANTS
    negotiation = negotiation
    skills = skills
    simulation = simulation
    NoActivity = NoActivity
    Activities = {skills, simulation}
    Pairs = {p1, p2}
    Predecessor <- MCPredecessor
    ReuseFrom <- MCReuseFrom
    ParallelGroup <- MCParallelGroup
    PairedActivities = {}
    PairedLead = NoActivity
    PairedGate = NoActivity
    Reasons = {TRUE}
    MaxEnding = 0
    MaxRounds = 2
SPECIFICATION Spec
INVARIANTS
    TypeOK
    PublishedIsCurrent
    MirrorsSource
PROPERTIES
    SubmittedWorkKept
    ImplementsBoard
