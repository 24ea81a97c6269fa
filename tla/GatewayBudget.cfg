CONSTANTS
    c1 = c1
    c2 = c2
    k1 = k1
    k2 = k2
    Callers = {c1, c2}
    Keys = {k1, k2}
    Candidates = 2
    Blocked = {2}
    MaxRetries = 1
    Estimate = 2
    Prices = {1, 2}
    Limits = {3, 4}
    Switches = {TRUE}
    WorkflowMaxCalls = 2
    WorkflowMaxCost = 9
    Threshold = 1
    MaxConcurrency = 1
    Distributed = TRUE
    MaxBegins = 2
    MaxSets = 1
    MaxErrors = 0
    MaxCrashes = 1
SPECIFICATION Spec
CHECK_DEADLOCK FALSE
SYMMETRY CallerSymmetry
INVARIANTS HardLimit  KeyExclusive
PROPERTY ImplementsLedger
