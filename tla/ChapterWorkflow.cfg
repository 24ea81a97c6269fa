SPECIFICATION FairSpec
CONSTANTS
    Executions = {e1}
    NoOne = NoOne
    MaxRevisions = 2
    Operations = {"generate", "targeted_revision"}
    Prior = {TRUE, FALSE}
    Outcomes <- AllTexts
    Failures = {"error", "budget"}
    Requests = {"pause", "cancel", "pause_after", "abort"}
    MaxAsks = 1
    MaxCrashes = 1
    MaxStalls = 1
    MaxOutside = 1
    MaxDisturbances = 2
INVARIANTS
    CanonicalFacts
    NeedsReviewShowsBest
    ClosedRunsLeaveNothingOpen
PROPERTIES
    
    RunFinishes
    ImplementsChapter
CHECK_DEADLOCK FALSE
