SPECIFICATION PartSpec
CONSTANTS
    u1 = u1
    u2 = u2
    f1 = f1
    NoAlert = NoAlert
    Alerts <- MCAlerts
    Files <- MCFiles
    CanonicalOf <- MCCanonicalOf
    MaxCockpitMoves = 2
    MaxCockpitFaults = 1
    MaxRuns = 1
    MaxChanges = 1
    i1 = i1
    i2 = i2
    None = None
    Incidents <- TwoIncidents
    MaxClicks = 3
    MaxMoves = 2
    MaxDisturbances = 1
INVARIANTS
    PayloadMatchesAlert
    ReviewedFirst
PROPERTIES
    LoadedSelectionSurvives
    SelectionSettles
    GateOpensAgain
CHECK_DEADLOCK FALSE
