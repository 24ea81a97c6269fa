SPECIFICATION Spec
CONSTANTS
    Dialects <- BothDialects
    Extras <- Unconverted
    MaxRuns = 3
    MaxCrashes = 1
INVARIANTS
    SchemaOfRevision
    DataSurvives
    RefusedForARow
CHECK_DEADLOCK FALSE
