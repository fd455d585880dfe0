SPECIFICATION Spec
CONSTANTS
    MaxInstalls = 2
    UnmarkedFailures = {"error"}
INVARIANT
    NoMixedRuntime
