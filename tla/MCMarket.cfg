SPECIFICATION Spec
CONSTANTS
  client = client
  provider = provider
  s1 = s1
  s2 = s2
  None = None
  Accounts = {client, provider}
  Providers = {provider}
  DealProposals <- MCMutualProposals
  Signed <- MutualDeals
  Sectors = {s1, s2}
  SectorExpiries = {3, 6}
  SectorSize = 2
  MaxDeals = 2
  MaxDealsPerBlock = 1
  MinDealDuration = 2
  MaxDealDuration = 3
  ExistentialDeposit = 1
  InitialFunds = 5
  BlockModulus = 256
  Amounts = {4}
  MaxBatch = 2
  MaxDealId = 2
  MaxBlock = 4
SYMMETRY Symmetry
CHECK_DEADLOCK FALSE
INVARIANTS
  TypeOK
  PendingMatchesPublished
  SectorDealsAreActive
  PaidUpToNow
  DealsScheduledAtStart
  NoStalePublishedDeal
  LockedFundsMatchDeals
PROPERTIES
  OnlySlashingBurns
  ImplementsLifecycle
