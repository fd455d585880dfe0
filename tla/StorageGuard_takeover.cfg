SPECIFICATION Spec
PROPERTY
    StopInCycleRespected
