SPECIFICATION Spec
CONSTANTS
  WPoStPeriodDeadlines = 3
  WPoStProvingPeriod = 6
  WPoStChallengeWindow = 2
  WPoStChallengeLookBack = 1
  FaultDeclarationCutoff = 1
  ProviderOrder <- OneProvider
  SectorNumbers <- Sectors1
  Expirations = {10, 18}
  Offsets <- NoOffset
  FaultMaxAge = 4
  MaxProveCommitDuration = 3
  PreCommitChallengeDelay = 1
  MinSectorExpiration = 1
  MaxSectorExpiration = 20
  SectorMaximumLifetime = 20
  PartitionSectors = 1
  MaxPartitionsPerDeadline = 2
  AddressedPartitionsMax = 2
  AddressedSectorsMax = 2
  PreCommitDeposit = 1
  ExistentialDeposit = 1
  InitialFunds = 9
  MAX_TERMINATIONS_PER_CALL = 2
  MaxBatch = 1
  FirstBlock = 5
  MaxBlock = 20
INVARIANT
  ExpirationsReachable
CHECK_DEADLOCK FALSE
