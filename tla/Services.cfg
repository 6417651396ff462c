SPECIFICATION ServicesSpec
CONSTANTS
    None = None
    Editors = {1, 2}
    Fields = {"a", "b"}
    Values = {0, 1}
    Patchable = {"a"}
    Images = {0}
    MaxRevision = 4
    Accounts = {1}
    Tokens = {1, 2}
    Fetches = {1}
    Tabs = {1, 2}
    Hosts = {"h"}
    Cooldown = 2
    MaxClock = 3
    Operations = {1, 2}
    MaxProbes = 1
    MaxLosses = 1
    Lookups = {1, 2, 3}
    Addresses = {"a"}
    MaxPerMinute = 3
    Budget = 5
    Limit = 2
    Per = 6
    Second = 2
    SubRetry = 1
    MaxTicks = 13
    MaxEvents = 3
    Rows = {1, 2, 3}
    Sorts = {0, 1}
    Edges = {1, 2, 3}
    PageSize = 1
    MaxWrites = 2
    Databases = {"panel.db", "pg"}
    Default = "panel.db"
    Postgres = {"pg"}
    Kinds <- EachKind
    Posts = {1, 2}
    MaxStops = 2
INVARIANT ServicesTypeOK
INVARIANT RevisionNamesContent
INVARIANT DeadLinksServeNothing
INVARIANT ProbesCleanUp
INVARIANT OneCallPerAddress
INVARIANT LimitsHold
INVARIANT UnmovedShownOnce
INVARIANT RecordedMeansApplied
INVARIANT SecretsKept
PROPERTY ImplementsAtomic
PROPERTY ResetsSpaced
PROPERTY OperationsEnd
PROPERTY WaitersReturn
CHECK_DEADLOCK FALSE
