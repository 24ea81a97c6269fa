CONSTANTS
    j1 = j1
    s1 = s1
    s2 = s2
    p1 = p1
    p2 = p2
    d1 = d1
    d2 = d2
    NoProc = NoProc
    Jobs = {j1}
    Slots = {s1,s2}
    Procs = {p1, p2}
    ProcOf <- OwnProcess
    Dispatchers = {d1}
    JobMaxAttempts = 2
    RegistryAttempts = 2
    Requests = {"retry","discard"}
    MaxAsks = 1
    MaxFaults = 1
    MaxMessages = 1
SPECIFICATION FairSpec
CHECK_DEADLOCK FALSE
INVARIANTS IntentUntilExhausted AttemptsBounded
PROPERTIES JobSettles FencedOutcome
