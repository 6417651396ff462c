SPECIFICATION FairSpec
CONSTANTS
    n1 = n1
    n2 = n2
    k1 = k1
    k2 = k2
    NoAPI = NoAPI
    NoWorker = NoWorker
    Nodes = {n1, n2}
    Cfgs = {k1}
    Intervals = {1, 2}
    MayFail = {"flush"}
    ImportFails = TRUE
    MaxChanges = 2
PROPERTY ChangesTakeEffect
