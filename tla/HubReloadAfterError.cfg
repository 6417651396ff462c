SPECIFICATION Spec
CONSTANTS
    n1 = n1
    n2 = n2
    k1 = k1
    k2 = k2
    NoAPI = NoAPI
    NoWorker = NoWorker
    Nodes = {n1}
    Cfgs = {k1}
    Intervals = {1}
    MayFail = {"clear"}
    ImportFails = FALSE
    MaxChanges = 2
INVARIANT CleanReloadSyncs
