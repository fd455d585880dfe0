SPECIFICATION Spec
CONSTANTS
    gateway = gateway
    https = https
    i1 = i1
    i2 = i2
    Fields = {gateway, https}
    Incident = {i1, i2}
    NoIncident = NoIncident
    FailureThreshold = 2
    RecoveryThreshold = 2
    CountCap = 3
    ReloadMayFail = TRUE
SYMMETRY Symmetry
INVARIANT
    OneOpenIncident
