SPECIFICATION Spec
CONSTANTS
  SectorNumbers = {1, 2, 3}
  Blocks <- FewBlocks
  Limits <- FewLimits
INVARIANTS
  PartitionTypeOK
  PartitionStatesConsistent
  ExpirationsMatchSectors
  EarlyTerminationsAreTerminated
  InternalErrorsUnreachable
  EarlyTerminationsHandedOut
PROPERTY NoExpirationLost
