SPECIFICATION Spec
CONSTANTS
    c1 = c1
    c2 = c2
    p1 = p1
    k1 = k1
    k2 = k2
    k3 = k3
    k4 = k4
    k5 = k5
    k6 = k6
    Clients <- TwoClients
    Requests <- MixedRequests
    HardLimit = 1
    ProjectLimit = 1
    MaxRows = 3
    MaxRevivals = 1
INVARIANTS
    AdmissionBounded
    AnswersAgree
CHECK_DEADLOCK FALSE
