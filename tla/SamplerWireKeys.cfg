SPECIFICATION Spec
CONSTANTS
    c1 = c1
    c2 = c2
    c3 = c3
    a = a
    NoIP = NoIP
    Conns = {c1}
    IPs = {a}
    SourceIP <- Single
    Dirs = {"up", "down"}
    TagKey <- Tags
    WireKey <- MockKeys
    InitialBackoff = 1
    DoublingLimit = 1
    BucketLen <- Buckets
    MaxTime = 0
    MaxRate = 1
    MaxTraffic = 1
    MaxBytes = 0
    MaxResets = 0
    MaxOps = 0
    MayFail = {}
INVARIANT TrafficConserved
