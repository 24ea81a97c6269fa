SPECIFICATION FairSpec
CONSTANTS
    N = 2
    Prior = {1}
    Interval = 1
    Estimate = 2
    Uses = {2}
    Limits = {3, 9}
    MaxRounds = 1
    MaxTasks = 1
    JobMaxAttempts = 2
    RegistryAttempts = 3
    Requests <- AllRequests
    MaxAsks = 2
    MaxCrashes = 1
    MaxFaults = 1
    MaxDisturbances = 3
INVARIANTS
    ReportIsTrue
    GeneratedOnce
    CompletedIsWhole
PROPERTIES
    RunSettles
    PartsKeepTheirLifecycles
CHECK_DEADLOCK FALSE
