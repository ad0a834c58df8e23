SPECIFICATION ShellSpec
CONSTANTS
    MaxLogins = 1
    MaxSessions = 3
    MaxStarts = 1
    MaxLapses = 1
    MaxFaults = 1
    MaxAttempts = 2
    Changes = {"update"}
    Roles = {"administrator", "l2_engineer", "l1_operator"}
    Paths = {"/", "/incidents", "/applications", "/integrations", "/admin", "/admin/users"}
    MaxMoves = 3
    MaxEvents = 3
    SeenLimit = 2
    MaxBreaks = 2
    MaxToggles = 3
    AlertRows <- MCAlertRows
    ClosedRows <- MCClosedRows
    LandingRows <- MCLandingRows
    MaxRows = 5
    MaxPerSource = 2
    MinPerSource = 1
    FactKeys = {"service"}
    Texts = {"rollback", "restart"}
    DocumentSets <- MCDocumentSets
    MaxReviewCalls = 3
    MaxReviewFaults = 1
    MaxEdits = 2
    NoDoc = NoDoc
    DocAlerts <- MCDocAlerts
    DocKinds <- MCDocKinds
    Matching <- MCMatching
    MaxDocActs = 4
    MaxDocFaults = 1
    Reasons <- MCReasons
    NoTime = NoTime
    TraceLimit = 8
    Numbered = 2
    MaxRuns = 2
INVARIANTS
    SessionIsNeverSplit
    AlertsAreToldApart
    OnlyTheCheckedIsAccepted
    DocumentsKeepTheirWords
    EventsStandInOrder
    FailuresAreShown
    RestsWhereAllowed
    HandledOnce
PROPERTIES
    RequestsSettle
    NavigationSettles
    EventsArrive
CHECK_DEADLOCK FALSE
