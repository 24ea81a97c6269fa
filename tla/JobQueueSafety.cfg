CONSTANTS
    j1 = j1
    s1 = s1
    s2 = s2
    p1 = p1
    p2 = p2
    d1 = d1
    d2 = d2
    NoProc = NoProc
    Jobs = {j1}
    Slots = {s1,s2}
    Procs = {p1, p2}
    ProcOf <- SharedProcess
    Dispatchers = {d1}
    JobMaxAttempts = 2
    RegistryAttempts = 2
    Requests = {"cancel","pause","resume","retry","discard"}
    MaxAsks = 2
    MaxFaults = 1
    MaxMessages = 1
SPECIFICATION Spec
CHECK_DEADLOCK FALSE
SYMMETRY ThreadSymmetry
INVARIANT DeduplicationKeysUnique
PROPERTY ImplementsLifecycle
