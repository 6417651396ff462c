SPECIFICATION Spec
CONSTANTS
    t1 = t1
    t2 = t2
    t3 = t3
    r1 = r1
    r2 = r2
    None = None
    UserIDs = {1, 2}
    RootID = 1
    Tokens = {t1}
    Requests = {r1, r2}
    AccessTTL = 1
    RefreshTTL = 2
    CacheTTL = 1
    MaxTime = 0
    MaxEdits = 1
    MaxAccounts = 3
    MaxChanges = 4
INVARIANT SessionsMatchLogin
CHECK_DEADLOCK FALSE
