SPECIFICATION Spec
CONSTANTS
  None = None
  Percent = {55}
  NativeInterval = 2
  ListenFirst = 1
  AskAgainAfter <- OneAgain
  AskIdleRetry = 3
  LongestDelay = 3
  MaxUnanswered = 2
  MostAbsentAsks = 4
INVARIANTS TypeOK HeardIsWhatWasSaid GoneIsLeftAlone MissedHeadsetsAreFound
