SPECIFICATION Spec
CONSTANTS
    n1 = n1
    n2 = n2
    k1 = k1
    k2 = k2
    NoAPI = NoAPI
    NoWorker = NoWorker
    Nodes = {n1, n2}
    Cfgs = {k1, k2}
    Intervals = {1, 2}
    MayFail = {"settings", "list", "getnode", "flush", "clear", "decrypt"}
    ImportFails = TRUE
    MaxChanges = 2
INVARIANT TypeOK
INVARIANT WorkersMatchNodes
INVARIANT NoActiveWithoutWorker
INVARIANT StoppedForGood
SYMMETRY Symmetric
