SPECIFICATION Spec
CONSTANTS
    c1 = c1
    c2 = c2
    c3 = c3
    a = a
    NoIP = NoIP
    Conns = {c1}
    IPs = {a}
    SourceIP <- Single
    Dirs = {"up"}
    TagKey <- Tags
    WireKey <- Tags
    InitialBackoff = 1
    DoublingLimit = 1
    BucketLen <- Buckets
    MaxTime = 0
    MaxRate = 0
    MaxTraffic = 0
    MaxBytes = 2
    MaxResets = 1
    MaxOps = 1
    MayFail = {"getnode", "ips", "clear"}
INVARIANT TypeOK
INVARIANT NeverCountedTwice
INVARIANT NothingLost
INVARIANT NoStaleActive
INVARIANT OfflineIsQuiet
