SPECIFICATION FairSpec
INVARIANTS
    StopsAreAccountedFor
PROPERTIES
    AdminStopRespected
    RetryWaits
    PressureStops
    FaultStops
    RecoveryResumes
