SPECIFICATION PagesSpec
CONSTANTS
    Incidents = {i1, i2}
    NoIncident = NoIncident
    Human = {i1}
    Filters = {"all", "awaiting_approval"}
    Limit = 2
    PageSize = 1
    MaxEvents = 7
    MaxInboxActs = 3
    MaxInboxFaults = 1
    shop = shop
    Shop = Shop
    platform = platform
    Apps = {1, 2, 3}
    Names <- MCNames
    Fold <- MCFold
    ManagedScopes = {platform}
    None = None
    Steps = 7
    MaxPortfolioActs = 3
    MaxPortfolioFaults = 1
    MaxChanges = 1
INVARIANT
    RouteFindsItsIncident
CHECK_DEADLOCK FALSE
