SPECIFICATION Spec
CONSTANTS
    c1 = c1
    c2 = c2
    c3 = c3
    a = a
    NoIP = NoIP
    Conns = {c3}
    IPs = {a}
    SourceIP <- Anonymous
    Dirs = {"up"}
    TagKey <- Tags
    WireKey <- Tags
    InitialBackoff = 1
    DoublingLimit = 1
    BucketLen <- Buckets
    MaxTime = 2
    MaxRate = 2
    MaxTraffic = 2
    MaxBytes = 0
    MaxResets = 0
    MaxOps = 1
    MayFail = {"rollups"}
INVARIANT TrafficConserved
INVARIANT RollupsNest
INVARIANT SamplesMatchRollups
