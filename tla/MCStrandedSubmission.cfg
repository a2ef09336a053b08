CONSTANTS
    e1 = e1
    e2 = e2
    admin = admin
    Tabs = {e1}
    Admins = {}
    MaxRounds = 2
    MaxSaves = 2
SPECIFICATION Spec
INVARIANTS
    SubmittedIsCurrent
