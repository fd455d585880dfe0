SPECIFICATION FairSpec
CONSTANTS
    MaxStarts = 2
    MaxErrors = 1
    Lapses = {"query", "stats", "save"}
INVARIANTS
    ResumedBeforeHealthy
PROPERTY
    ErrorsShow
