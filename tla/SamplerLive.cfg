SPECIFICATION FairSpec
CONSTANTS
    c1 = c1
    c2 = c2
    c3 = c3
    a = a
    NoIP = NoIP
    Conns = {c1}
    IPs = {a}
    SourceIP <- Single
    Dirs = {"up"}
    TagKey <- Tags
    WireKey <- Tags
    InitialBackoff = 1
    DoublingLimit = 3
    BucketLen <- Buckets
    MaxTime = 0
    MaxRate = 0
    MaxTraffic = 0
    MaxBytes = 0
    MaxResets = 0
    MaxOps = 1
    MayFail = {"lastonline", "ips"}
PROPERTY StopReturns
PROPERTY ActiveDrains
