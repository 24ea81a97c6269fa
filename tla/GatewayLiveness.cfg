CONSTANTS
    c1 = c1
    c2 = c2
    k1 = k1
    k2 = k2
    Callers = {c1}
    Keys = {k1, k2}
    Candidates = 2
    Blocked = {}
    MaxRetries = 1
    Estimate = 2
    Prices = {1, 2}
    Limits = {4}
    Switches = {TRUE}
    WorkflowMaxCalls = 3
    WorkflowMaxCost = 9
    Threshold = 1
    MaxConcurrency = 1
    Distributed = TRUE
    MaxBegins = 1
    MaxSets = 0
    MaxErrors = 1
    MaxCrashes = 1
SPECIFICATION FairSpec
CHECK_DEADLOCK FALSE
INVARIANT PaidOnce
PROPERTY KeySettles
