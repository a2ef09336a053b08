CONSTANTS
    negotiation = negotiation
    skills = skills
    simulation = simulation
    NoActivity = NoActivity
    Activities = {negotiation, skills, simulation}
    Pairs = {p1}
    Predecessor <- MCPredecessor
    ReuseFrom <- MCReuseFrom
    ParallelGroup <- MCParallelGroup
    PairedActivities = {skills, simulation}
    PairedLead = skills
    PairedGate = negotiation
    Reasons = {TRUE}
    MaxEnding = 1
    MaxRounds = 1
SPECIFICATION Spec
INVARIANTS
    LockedOnlyWhenClosed
PROPERTIES
    ImplementsControl
