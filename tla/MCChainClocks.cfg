SPECIFICATION ChainSpec
CONSTANTS
  WPoStPeriodDeadlines = 3
  WPoStProvingPeriod = 6
  WPoStChallengeWindow = 2
  WPoStChallengeLookBack = 1
  FaultDeclarationCutoff = 1
  Accounts <- OneAccount
  FirstBlock = 3
  MaxBlock = 12
  HISTORY_SIZE = 3
  FaucetDripAmount = 5
  FaucetDripDelay = 3
INVARIANTS
  ClockInSync
  RecentRandomnessAvailable
  LatestOnRecord
  ChallengeAvailable
  DripsRateLimited
PROPERTY
  WindowsAdjoin
CHECK_DEADLOCK FALSE
