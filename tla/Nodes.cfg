SPECIFICATION Spec
CONSTANTS
    n1 = n1
    e1 = e1
    e2 = e2
    a1 = a1
    a2 = a2
    c1 = c1
    c2 = c2
    c3 = c3
    c4 = c4
    r1 = r1
    r2 = r2
    Gone = Gone
    None = None
    RawDocs <- Documents
    Manual <- ByHand
    Supported = {"ss"}
    Nodes = {n1}
    Editors = {e1, e2}
    Consecutive = 2
    MaxEdits = 2
    MaxPings = 3
    MaxTime = 1
    Anchors = {a1, a2}
    Children = {c1, c2, c3, c4}
    Requests = {r1, r2}
    MaxRequests = 3
    MaxFaults = 1
    MaxCrashes = 1
INVARIANT TypeOK
INVARIANT EditsSeen
INVARIANT ImportMatchesDocument
INVARIANT FailedLeavesNothingNew
INVARIANT NoOrphans
INVARIANT RetryCreatesNothing
PROPERTY DisabledAfterStreak
SYMMETRY Symmetric
CHECK_DEADLOCK FALSE
