SPECIFICATION Spec
CONSTANTS
    Recruits = {rec1, rec2}  Evaluators = {ev1}  First = a1  Second = a2
    MaxRooms = 2  MaxPlans = 2  MaxSettings = 1  MaxEdits = 1
    ActiveJournees = {aj1, aj2}  MaxChanges = 4
    RetryCount = 2  MaxOutages = 2  MaxMailFailures = 1  MaxKills = 1
    Managers = {m1, m2}  FirstConfiguration = k1  Configurations = {k1, k2}
    Targets = {{c1, c2}}  Complete = {{c1, c2}}  Colors = {red}
    Asked = {g1}  Given = {g1}  NoGrade = none  NoColor = auto
    MaxCorrections = 2  MaxScores = 1  MaxConfigurations = 1
    Graded = {1, 2, 3}  Criterion <- ScoredCriteria  Converted = {"sport"}
    Dimension <- ScoredDimensions  Components <- ScoreComponents  GeneralFactor <- ScoredFactors
    OfficialMaximum = 20  Policies <- ScoringPolicies  ActivityTasks <- ScoredTasks
    Entered <- EnteredGrades  MaxEntries = 2
    Participants = {"r1", "r2", "r3"}  Assessors = {"e1", "e2", "e3"}
    RolePriority <- PrimaryOrder  SecondPriority <- SecondaryOrder  PriorSeconds <- SecondsBefore
    RoomCounts = {1, 2}  MaximumAssessors = 2  Ties <- HashedTies  MaxPast = 1  MaxMandatory = 2
    Pages = {p1, p2}  Notes = {n1, n2}  EmptyNote = empty  Closed = closed  MaxNotes = 3  MaxDropped = 1
    Addresses = {h1, h2}  Usernames = {u1, u2}  Window = 2  PruneInterval = 1
    AccountAttempts = 2  AddressAttempts = 3  MaxBuckets = 4  LastTick = 2
    MemberAccounts = {acc1}  Owners = {o1, o2}  Secrets = {s1, s2}
    GenerationBatch = 1  MaxSessions = 2  MaxPending = 1
    Systems = {w1, w2}  Names = {x1}  Definitions = {"plain", "reshaped"}  Neutral = "plain"
    Structure <- DefinitionStructure  CategoriesOf <- DefinitionCategories  FallbackOf <- DefinitionFallback
    SavedJournees = {sj1}  MaxVersion = 3  MaxOpen = 2
    RosterJournees = {rj1, rj2}  EvaluatorNames = {y1, y2}  NoSource = nosource  MaxRosterWrites = 5
INVARIANTS
    TypeOK SingleActiveUnlessOverlapped AnnouncedIsKnown
    HistoryIsAChain AppliedAsPreviewed ScoresAgree PairingsAreBest SavedNotesAreKept
    LoginBudgetsHold NewPasswordsReachEveryone SavedResultsFit AccountsAreOnEveryRoster
PROPERTIES LocksKept
CHECK_DEADLOCK FALSE
