------------------------- MODULE PartitionLifecycle -------------------------
(***************************************************************************)
(* One partition and the calls its deadline makes on it, in any order and  *)
(* with any blocks, as extrinsics and the hook at the end of a deadline    *)
(* may make them.  sectors is the provider's map of sectors, of which the  *)
(* partition holds some: a sector number is never used twice.              *)
(***************************************************************************)
EXTENDS Partition

CONSTANTS
  SectorNumbers,
  Blocks,        \* bound: the blocks passed as arguments
  Limits         \* bound: the limits passed to pop_early_terminations

ASSUME BlocksAssumption ==
  SectorNumbers \subseteq Nat /\ Blocks \subseteq Nat /\ Limits \subseteq Nat

VARIABLES
  sectors,    \* sector number to expiration, for all sectors of the provider
  partition

vars == <<sectors, partition>>

Init == sectors = << >> /\ partition = Partition_new

\* A sector is proven: it enters this partition, or another one.
Extended(new, expirations) ==
  [s \in DOMAIN sectors \cup new |->
     IF s \in new THEN expirations[s] ELSE sectors[s]]

AddSectors ==
  \E new \in SUBSET (SectorNumbers \ DOMAIN sectors) :
    \E expirations \in [new -> Blocks] :
      /\ new # {}
      /\ CanAddSectors(partition, new)
      /\ sectors' = Extended(new, expirations)
      /\ partition' = add_sectors(partition, sectors', new)

AddElsewhere ==
  \E s \in SectorNumbers \ DOMAIN sectors, b \in Blocks :
    /\ sectors' = Extended({s}, [t \in {s} |-> b])
    /\ UNCHANGED partition

\* Declared by the provider, or the whole partition when no proof came.
RecordFaults ==
  \E declared \in SUBSET DOMAIN sectors, b \in Blocks :
    /\ CanRecordFaults(partition, sectors, declared)
    /\ partition' = record_faults(partition, sectors, declared, b)
    /\ UNCHANGED sectors

\* The deadline has checked that the sectors are faulty.
DeclareFaultsRecovered ==
  \E declared \in SUBSET partition.faults :
    /\ partition' = declare_faults_recovered(partition, declared)
    /\ UNCHANGED sectors

RecordProven ==
  /\ CanRecoverAll(partition, sectors)
  /\ partition' = activate_unproven(
                    recover_all_declared_recoveries(partition, sectors))
  /\ UNCHANGED sectors

TerminateSectors ==
  \E numbers \in SUBSET partition.sectors, b \in Blocks :
    /\ CanTerminate(partition, sectors, numbers)
    /\ partition' = terminate_sectors(partition, b, sectors, numbers)
    /\ UNCHANGED sectors

PopEarlyTerminations ==
  \E max_sectors \in Limits :
    /\ partition' = pop_early_terminations(partition, max_sectors)
    /\ UNCHANGED sectors

PopExpiredSectors ==
  \E until \in Blocks :
    /\ CanPopExpired(partition, until)
    /\ partition' = pop_expired_sectors(partition, until)
    /\ UNCHANGED sectors

Next ==
  \/ AddSectors
  \/ AddElsewhere
  \/ RecordFaults
  \/ DeclareFaultsRecovered
  \/ RecordProven
  \/ TerminateSectors
  \/ PopEarlyTerminations
  \/ PopExpiredSectors

Spec == Init /\ [][Next]_vars
-----------------------------------------------------------------------------
\* The partition holds sectors the provider has, and its two queues are keyed
\* by the blocks the calls passed.
PartitionTypeOK ==
  /\ sectors \in UNION {[D -> Blocks] : D \in SUBSET SectorNumbers}
  /\ partition \in PartitionsOver(DOMAIN sectors, Blocks)

\* Whatever the order of the calls, the sets of the partition nest as
\* SectorStatesConsistent says: a faulty sector is never also unproven, only
\* faulty sectors recover, and nothing terminated is faulty or recovering.
PartitionStatesConsistent == SectorStatesConsistent(partition)

\* Whatever the order of the calls, exactly the live sectors are queued for
\* expiration, each once, at the block QueueMatchesSectors says.
ExpirationsMatchSectors == QueueMatchesSectors(partition, sectors)

\* Only terminated sectors are queued to have their deals terminated.
EarlyTerminationsAreTerminated ==
  QueuedTerminations(partition) \subseteq partition.terminated

\* The errors that stand for a broken invariant are never returned: faulting
\* any sectors of the partition (check_deadlines would skip the partition),
\* recovering the declared recoveries, terminating live sectors, and expiring
\* sectors that are terminated already.
InternalErrorsUnreachable ==
  /\ \A declared \in SUBSET partition.sectors :
       CanRecordFaults(partition, sectors, declared)
  /\ CanRecoverAll(partition, sectors)
  /\ \A numbers \in SUBSET live_sectors(partition) :
       CanTerminate(partition, sectors, numbers)
  /\ \A until \in Blocks :
       partition.terminated
         \cap SectorsIn(pop_until(partition.expirations, until)) = {}

\* pop_early_terminations hands out no more than max_sectors sectors, and
\* exactly those it takes off the queue: none is handed out and kept, none is
\* taken off and not handed out.
EarlyTerminationsHandedOut ==
  \A max_sectors \in Limits :
    LET popped == QueuedIn(early_terminations_popped(partition, max_sectors))
        kept == QueuedTerminations(
                  pop_early_terminations(partition, max_sectors))
    IN /\ popped \cup kept = QueuedTerminations(partition)
       /\ popped \cap kept = {}
       /\ Cardinality(popped) <= max_sectors
       /\ Cardinality(popped) < max_sectors => kept = {}

\* No step loses a sector on its way out of the partition: what leaves the
\* expiration queue is terminated or queued again, a recovered sector at its
\* own expiration, and no sector comes back from termination.
NoExpirationLost ==
  [][/\ \A e \in partition.expirations \ partition'.expirations :
          \/ e.sector \in partition'.terminated
          \/ EntriesOf(partition'.expirations, e.sector) # {}
     /\ \A s \in partition.faults \ partition'.faults :
          \/ s \in partition'.terminated
          \/ OnTime(sectors[s], s) \in partition'.expirations
     /\ partition.terminated \subseteq partition'.terminated]_vars
=============================================================================
