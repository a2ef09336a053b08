CONSTANTS
    sport = sport
    escape_room = escape_room
    negotiation = negotiation
    skills = skills
    simulation = simulation
    NoActivity = NoActivity
    Activities <- MCActivities
    Predecessor <- MCPredecessor
    ReuseFrom <- MCReuseFrom
    ParallelGroup <- MCParallelGroup
    PairedActivities <- MCPaired
    PairedLead = skills
    PairedGate = negotiation
    Reasons = {TRUE, FALSE}
    MaxEnding = 0
SPECIFICATION Spec
INVARIANTS
    ReopeningHasReason
