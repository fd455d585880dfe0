CONSTANTS
    Interval = 2
    MaxRound = 1
    Domain = {"disk", "syslog"}
SPECIFICATION LoopSpec
PROPERTIES
    RateLimit
    PressureTold
    RecoveryTold
    AnswersTold
