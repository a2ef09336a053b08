CONSTANTS
    sport = sport
    escape_room = escape_room
    negotiation = negotiation
    skills = skills
    simulation = simulation
    NoActivity = NoActivity
    Activities <- MCActivities
    Predecessor <- MCPredecessor
    ReuseFrom <- MCReuseFrom
    ParallelGroup <- MCParallelGroup
    PairedActivities <- MCPaired
    PairedLead = skills
    PairedGate = negotiation
    Reasons = {TRUE, FALSE}
    MaxEnding = 1
    Devices = {d1}  MaxTyped = 2  MaxForms = 1  MaxLost = 1
    Journees = {j1}  Handlers = {h1}  MaxActivations = 2  MaxFailures = 1
SPECIFICATION SpecDay
INVARIANTS
    TypeOKDay
    OneStageOpen
    CurrentActivityIsOpen
    StageOrder
    SavedWasAccepted
    ActiveWasMonitored
PROPERTIES
    AttendanceSettles
    StartingSettles
CHECK_DEADLOCK FALSE
