CONSTANTS
  Files = 2
  KeepAge = 2
  MaxLines = 2
  Budget = 3
  MaxKills = 1
SPECIFICATION FairSpec
INVARIANTS Inductive NothingLost PublishedWhole
PROPERTIES OpenFilesSurvive ExpiredGo
