SPECIFICATION FairSpec
CONSTANTS
    Offsets = {0, 1}
    Recovery = Recovery
    NoJob = NoJob
    Workers = 2
    MaxInterrupted = 2
INVARIANTS
    RunningHasWorker
    DoneIsComplete
    SettledOnce
    RetentionSparesWorkers
PROPERTIES
    EvidenceNeverOverwritten
    DueJobsSettle
