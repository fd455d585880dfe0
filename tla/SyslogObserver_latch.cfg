SPECIFICATION FairSpec
CONSTANTS
    MaxStarts = 2
    MaxErrors = 2
    Lapses = {}
PROPERTY
    LatchOpens
