SPECIFICATION Spec
CONSTANTS
    i1 = i1
    i2 = i2
    Versions <- ThreeVersions
    ChapterOf <- TwoChapters
    Mentions <- MentionedIn
    Changes <- ChangedBy
    Indexers <- TwoIndexers
    MaxReindex = 1
    MaxFaults = 1
    Limit = 2
    MaxRetries = 1
INVARIANTS
    StaleOnlyIfOvertaken
    CompletedIsIndexed
    LedgersAgree
    PromotionIsAttended
SYMMETRY IndexerSymmetry
CHECK_DEADLOCK FALSE
