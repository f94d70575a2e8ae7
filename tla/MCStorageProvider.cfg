SPECIFICATION Spec
CONSTANTS
  WPoStPeriodDeadlines = 3
  WPoStProvingPeriod = 6
  WPoStChallengeWindow = 2
  WPoStChallengeLookBack = 1
  FaultDeclarationCutoff = 1
  ProviderOrder <- OneProvider
  SectorNumbers <- Sectors2
  Expirations = {11}
  Offsets <- NoOffset
  FaultMaxAge = 3
  MaxProveCommitDuration = 2
  PreCommitChallengeDelay = 1
  MinSectorExpiration = 1
  MaxSectorExpiration = 20
  SectorMaximumLifetime = 20
  PartitionSectors = 2
  MaxPartitionsPerDeadline = 2
  AddressedPartitionsMax = 2
  AddressedSectorsMax = 1
  PreCommitDeposit = 1
  ExistentialDeposit = 1
  InitialFunds = 3
  MAX_TERMINATIONS_PER_CALL = 2
  MaxBatch = 2
  FirstBlock = 4
  MaxBlock = 15
INVARIANTS
  StorageProviderTypeOK
  SectorsPlacedOnce
  SectorCountsMatch
  PartitionsConsistent
  QueuedTerminationsFlagged
  ProofsOnlyForOpenDeadline
PROPERTIES
  ImplementsClock
  MissedProofsAreFaults
CONSTRAINT
  Horizon
CHECK_DEADLOCK FALSE
