CONSTANTS
    g1 = g1
    g2 = g2
    p1 = p1
    p2 = p2
    e1 = e1
    e2 = e2
    Chapters = {1, 2}
    Planners = {p1, p2}
    Generators = {g1, g2}
    Evaluators = {e1, e2}
    Updates <- SomeUpdates
    Acting <- EveryText
    Retrieval = TRUE
    RecentLimit = 1
    Room = 3
    SizeOf <- Sizes
    MaxPlans = 2
    MaxDrafts = 3
    MaxEvaluations = 1
    MaxFaults = 1
    MaxCrashes = 1
SPECIFICATION Spec
CHECK_DEADLOCK FALSE
SYMMETRY ThreadSymmetry
INVARIANT NoFutureKnowledge
