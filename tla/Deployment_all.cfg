SPECIFICATION FairSpec
CONSTANTS
    MaxInstalls = 2
    UnmarkedFailures = {}
INVARIANTS
    NoMixedRuntime
    OnlyVerifiedDelete
    MixedIsRecoverable
PROPERTIES
    NothingReplacedUnderServices
    RollbackRestores
    MarkLeaves
