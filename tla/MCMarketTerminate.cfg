SPECIFICATION Spec
CONSTANTS
  client = client
  provider = provider
  s1 = s1
  s2 = s2
  None = None
  Accounts = {client, provider}
  Providers = {provider}
  DealProposals <- MCDealProposals
  Signed <- TwoDeals
  Sectors = {s1}
  SectorExpiries = {6}
  SectorSize = 2
  MaxDeals = 2
  MaxDealsPerBlock = 2
  MinDealDuration = 2
  MaxDealDuration = 3
  ExistentialDeposit = 1
  InitialFunds = 5
  BlockModulus = 256
  Amounts = {4}
  MaxBatch = 1
  MaxDealId = 2
  MaxBlock = 5
CHECK_DEADLOCK FALSE
INVARIANT StartedSectorsCanBeTerminated
