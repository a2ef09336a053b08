CONSTANTS
    e1 = e1
    e2 = e2
    admin = admin
    Tabs = {e1, e2}
    Admins = {admin}
    MaxRounds = 2
    MaxSaves = 3
SPECIFICATION Spec
INVARIANTS
    TypeOK
    HistoryComplete
    OneRowPerAssignment
PROPERTIES
    NoBlindOverwrite
