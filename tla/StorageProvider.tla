--------------------------- MODULE StorageProvider ---------------------------
(***************************************************************************)
(* The storage provider pallet (pallets/storage-provider/src/lib.rs):      *)
(* registration, the commitment of sectors, the proofs of spacetime of     *)
(* every deadline, faults and recoveries, terminations, and the hook that  *)
(* runs at the end of a block.                                             *)
(*                                                                         *)
(* An extrinsic that returns Err is undone, so it is a step that does not  *)
(* happen; the hook is not undone, and a panic in it stops the chain       *)
(* (halted).  What the proofs pallet, the randomness pallet and the market *)
(* answer is not determined here: an extrinsic they refuse does not        *)
(* happen, and in the hook the number of calls the market accepts is       *)
(* chosen.                                                                 *)
(***************************************************************************)
EXTENDS Deadline, DeadlineInfo

CONSTANTS
  ProviderOrder,          \* the accounts, in the order the hook iterates them
  SectorNumbers,
  Expirations,            \* the expirations sectors are pre-committed with
  Offsets,                \* the proving period offsets of accounts
  FaultMaxAge,
  MaxProveCommitDuration,
  PreCommitChallengeDelay,
  MinSectorExpiration,
  MaxSectorExpiration,
  SectorMaximumLifetime,
  PartitionSectors,       \* window_post_partition_sectors
  MaxPartitionsPerDeadline,
  AddressedPartitionsMax,
  AddressedSectorsMax,
  PreCommitDeposit,
  ExistentialDeposit,
  InitialFunds,
  MAX_TERMINATIONS_PER_CALL,
  MaxBatch,               \* sectors in a pre-commit call
  FirstBlock,             \* the block in which the model begins
  MaxBlock                \* and the last one it produces

ASSUME ClockAssumption ==
  /\ FirstBlock \in Nat
  /\ Offsets \subseteq 0 .. WPoStProvingPeriod - 1

VARIABLES
  block,
  providers,              \* StorageProviders: a function of the registered
  wallets,                \* free and reserved balance of each account
  notified,               \* <<account, sector>>: passed to on_sectors_terminate
  halted                  \* the hook has panicked

vars == <<block, providers, wallets, notified, halted>>

Accounts == Range(ProviderOrder)

DeadlineIndices == 0 .. WPoStPeriodDeadlines - 1

StorageProviderState_new(period_start) ==
  [sectors |-> << >>, pre_commit_deposits |-> 0,
   pre_committed_sectors |-> << >>, proving_period_start |-> period_start,
   current_deadline |-> 0,
   deadlines |-> [d \in DeadlineIndices |-> Deadline_new],
   early_terminations |-> {}]

calculate_first_proving_period_start(current_block, offset) ==
  (current_block \div WPoStProvingPeriod + 1) * WPoStProvingPeriod + offset

deadline_info(sp, current_block) ==
  DeadlineInfo_new(current_block, sp.proving_period_start, sp.current_deadline)

TargetDeadline(sp, d) ==
  next_not_elapsed(DeadlineInfo_new(block, sp.proving_period_start, d))

Init ==
  /\ block = FirstBlock
  /\ providers = << >>
  /\ wallets = [a \in Accounts |-> [free |-> InitialFunds, reserved |-> 0]]
  /\ notified = {}
  /\ halted = FALSE

-----------------------------------------------------------------------------
(* Extrinsics.                                                             *)

register_storage_provider(a) ==
  /\ a \notin DOMAIN providers
  /\ \E offset \in Offsets :
       providers' = Put(providers, a, StorageProviderState_new(
                      calculate_first_proving_period_start(block, offset)))
  /\ UNCHANGED <<wallets, notified>>

validate_expiration(activation, expiration) ==
  /\ expiration >= activation
  /\ expiration - activation >= MinSectorExpiration
  /\ expiration < block + MaxSectorExpiration
  /\ expiration - activation < SectorMaximumLifetime

validate_sector_for_pre_commit(sp, s) ==
  s \notin DOMAIN sp.pre_committed_sectors \cup DOMAIN sp.sectors

SectorPreCommitOnChainInfo_new(info) ==
  [expiration |-> info.expiration, pre_commit_block_number |-> block]

\* Every sector is validated against the state before the call.
pre_commit_sectors(a, batch) ==
  LET sp == providers[a]
      total_deposit == PreCommitDeposit * Len(batch)
  IN /\ \A i \in DOMAIN batch :
          /\ validate_sector_for_pre_commit(sp, batch[i].sector_number)
          /\ validate_expiration(block + MaxProveCommitDuration,
                                 batch[i].expiration)
     /\ wallets[a].free - total_deposit >= ExistentialDeposit
     /\ wallets' = [wallets EXCEPT ![a].free = @ - total_deposit,
                                   ![a].reserved = @ + total_deposit]
     /\ providers' = [providers EXCEPT
          ![a].pre_commit_deposits = @ + total_deposit,
          ![a].pre_committed_sectors =
             FoldLeft(LAMBDA map, info :
                        Put(map, info.sector_number,
                            SectorPreCommitOnChainInfo_new(info)),
                      @, batch)]
     /\ UNCHANGED notified

\* The deadlines a sector may be assigned to.
AssignableDeadlines(sp) ==
  {d \in DeadlineIndices :
     \/ block < sp.proving_period_start
     \/ deadline_is_mutable(sp.proving_period_start, d, block)}

\* s is already among sp.sectors.
assign_sectors_to_deadlines(sp, s) ==
  LET d == assign_deadlines(sp.deadlines, AssignableDeadlines(sp),
                            PartitionSectors)
  IN [sp EXCEPT !.deadlines[d] =
        add_sectors_to_deadline(@, PartitionSectors, sp.sectors, s)]

\* Without an assignable deadline the assertion in assign_deadlines fails.
CanAssign(sp) ==
  /\ AssignableDeadlines(sp) # {}
  /\ ~max_partitions_reached(
        sp.deadlines[assign_deadlines(sp.deadlines, AssignableDeadlines(sp),
                                      PartitionSectors)],
        PartitionSectors, MaxPartitionsPerDeadline)

\* Of a sector on chain its expiration is kept.
from_pre_commit(pre_commit) == pre_commit.expiration

\* Mutant: the sector stays pre-committed too.
activate_sector_keeping(sp, s) ==
  [sp EXCEPT !.sectors = Put(@, s, from_pre_commit(sp.pre_committed_sectors[s]))]

activate_sector(sp, s) ==
  [sp EXCEPT
     !.sectors = Put(@, s, from_pre_commit(sp.pre_committed_sectors[s])),
     !.pre_committed_sectors = [t \in DOMAIN @ \ {s} |-> @[t]]]

\* The randomness of the challenge is drawn from a block not yet there when
\* the sector was pre-committed; what the proof says is left to the verifier.
validate_seal_proof(precommit) ==
  block >= precommit.pre_commit_block_number + PreCommitChallengeDelay

\* A batch is its sectors one by one in the order of their numbers.
prove_commit_sectors(a, s) ==
  LET sp == providers[a]
      precommit == sp.pre_committed_sectors[s]
  IN /\ s \in DOMAIN sp.pre_committed_sectors
     /\ block < precommit.pre_commit_block_number + MaxProveCommitDuration
     /\ validate_seal_proof(precommit)
     /\ CanAssign(sp)
     /\ providers' = [providers EXCEPT
          ![a] = assign_sectors_to_deadlines(activate_sector(sp, s), s)]
     /\ UNCHANGED <<wallets, notified>>

validate_deadline(sp, d) ==
  LET current == deadline_info(sp, block)
  IN is_open(current) /\ d = current.idx

\* The sectors whose replicas a proof for the partition is verified against.
PostReplicas(sp, d, k) == sp.deadlines[d].partitions[k].sectors

\* All sectors of the partition are looked up, or the code panics.
submit_windowed_post(a, d, k) ==
  LET sp == providers[a]
  IN /\ block >= sp.proving_period_start
     /\ validate_deadline(sp, d)
     /\ CanRecordProven(sp.deadlines[d], sp.sectors, k)
     /\ PostReplicas(sp, d, k) \subseteq DOMAIN sp.sectors
     /\ providers' = [providers EXCEPT
          ![a].deadlines[d] = record_proven(@, sp.sectors, k)]
     /\ UNCHANGED <<wallets, notified>>

\* DeadlineSectorMap: the sectors that a call's declarations name, together,
\* for each partition of each deadline.
DeadlineSectorMap(terms) ==
  [key \in {<<term.deadline, term.partition>> : term \in terms} |->
     UNION {term.sectors : term \in
              {t \in terms : <<t.deadline, t.partition>> = key}}]

\* try_insert accepts every declaration.
CanInsert(to_process) ==
  LET deadlines == {key[1] : key \in DOMAIN to_process}
      partitions(d) == {key \in DOMAIN to_process : key[1] = d}
  IN /\ Cardinality(deadlines) <= MAX_TERMINATIONS_PER_CALL
     /\ \A d \in deadlines :
          Cardinality(partitions(d)) <= MAX_TERMINATIONS_PER_CALL

\* The declarations are worked through in the order of the map; an error undoes
\* the call, and no partition's comes from another one.
InOrder(to_process) == SetToSortSeq(DOMAIN to_process, Precedes)

CanDeclareFaults(sp, d, k, numbers) ==
  /\ ~fault_cutoff_passed(TargetDeadline(sp, d))
  /\ CanRecordDeadlineFaults(sp.deadlines[d], sp.sectors, k, numbers)

DeclareFaults(sp, d, k, numbers) ==
  [sp EXCEPT !.deadlines[d] = record_deadline_faults(
     @, sp.sectors, k, numbers, last(TargetDeadline(sp, d)) + FaultMaxAge)]

declare_faults(a, terms) ==
  LET to_process == DeadlineSectorMap(terms)
  IN /\ \A term \in terms : term.sectors # {}
     /\ CanInsert(to_process)
     /\ \A key \in DOMAIN to_process :
          CanDeclareFaults(providers[a], key[1], key[2], to_process[key])
     /\ providers' = [providers EXCEPT ![a] = FoldLeft(
          LAMBDA sp, key : DeclareFaults(sp, key[1], key[2], to_process[key]),
          @, InOrder(to_process))]
     /\ UNCHANGED <<wallets, notified>>

CanDeclareSectorsRecovered(sp, d, k, numbers) ==
  /\ ~fault_cutoff_passed(TargetDeadline(sp, d))
  /\ CanDeclareRecovered(sp.deadlines[d], sp.sectors, k, numbers)

DeclareSectorsRecovered(sp, d, k, numbers) ==
  [sp EXCEPT !.deadlines[d] = declare_deadline_recovered(@, k, numbers)]

declare_sectors_recovered(a, terms) ==
  LET to_process == DeadlineSectorMap(terms)
  IN /\ \A term \in terms : term.sectors # {}
     /\ CanInsert(to_process)
     /\ \A key \in DOMAIN to_process :
          CanDeclareSectorsRecovered(providers[a], key[1], key[2], to_process[key])
     /\ providers' = [providers EXCEPT ![a] = FoldLeft(
          LAMBDA sp, key : DeclareSectorsRecovered(sp, key[1], key[2], to_process[key]),
          @, InOrder(to_process))]
     /\ UNCHANGED <<wallets, notified>>

-----------------------------------------------------------------------------
(* Early terminations.                                                     *)

\* What one deadline handed out is added, and the deadline is no longer flagged
\* once nothing is left in it.
HandedOut(acc, d, popped) ==
  [sp |-> [acc.sp EXCEPT
       !.deadlines[d] = popped.dl,
       !.early_terminations =
          IF popped.dl.early_terminations = {} THEN @ \ {d} ELSE @],
   result |-> add_assign(acc.result, popped.result)]

\* Across deadlines: those flagged, in order, within the two limits.
pop_provider_terminations(sp) ==
  FoldLeft(
    LAMBDA acc, d :
      IF /\ acc.result # TerminationResult_new
         /\ ~below_limit(acc.result, AddressedPartitionsMax,
                         AddressedSectorsMax)
      THEN acc
      ELSE HandedOut(acc, d, pop_deadline_terminations(acc.sp.deadlines[d],
                 AddressedPartitionsMax - acc.result.partitions_processed,
                 AddressedSectorsMax - acc.result.sectors_processed)),
    [sp |-> sp, result |-> TerminationResult_new],
    SetToSortSeq(sp.early_terminations, <))

\* The sectors passed on to the market: those filed under an earlier block.
sectors_with_data(result) ==
  UNION {result.sectors[b] : b \in {c \in DOMAIN result.sectors : c < block}}

\* Without a result nothing is saved.
SavedAndPassed(sp, popped) ==
  [sp |-> IF DOMAIN popped.result.sectors = {} THEN sp ELSE popped.sp,
   passed |-> sectors_with_data(popped.result)]

\* process_early_terminations when the market accepts the call: the new state
\* and the sectors passed on.
process_early_terminations(sp) ==
  SavedAndPassed(sp, pop_provider_terminations(sp))

CanTerminateSectors(sp, d, k, numbers) ==
  /\ deadline_is_mutable(sp.proving_period_start, d, block)
  /\ CanTerminateInDeadline(sp.deadlines[d], sp.sectors, k, numbers)

TerminateSectors(sp, d, k, numbers) ==
  [sp EXCEPT
     !.deadlines[d] = terminate_deadline_sectors(@, block, sp.sectors, k, numbers),
     !.early_terminations = @ \cup {d}]

\* A call that names no sectors still processes what is queued.
terminate_provider_sectors(a, terms) ==
  LET to_process == DeadlineSectorMap(terms)
  IN /\ CanInsert(to_process)
     /\ \A key \in DOMAIN to_process :
          CanTerminateSectors(providers[a], key[1], key[2], to_process[key])
     /\ \E processed \in {process_early_terminations(FoldLeft(
             LAMBDA sp, key : TerminateSectors(sp, key[1], key[2], to_process[key]),
             providers[a], InOrder(to_process)))} :
          /\ providers' = [providers EXCEPT ![a] = processed.sp]
          /\ notified' = notified \cup ({a} \X processed.passed)
     /\ UNCHANGED wallets

-----------------------------------------------------------------------------
(* The hook.                                                               *)

ExpiredPreCommits(sp) ==
  {s \in DOMAIN sp.pre_committed_sectors :
     block >= sp.pre_committed_sectors[s].expiration}

\* slash_and_burn of the reserve, then settle with KeepAlive: the amount
\* leaves the reserve and, if that did hold it, the free balance too.
CanSlash(wallet, amount) ==
  wallet.reserved >= amount /\ wallet.free - amount >= ExistentialDeposit

slash_and_burn(wallet, amount) ==
  [free |-> IF CanSlash(wallet, amount) THEN wallet.free - amount
            ELSE wallet.free,
   reserved |-> IF wallet.reserved >= amount THEN wallet.reserved - amount
                ELSE 0]

\* One provider: the slash is not undone when it fails half way, but then
\* the sectors stay.
SlashExpired(chain, a) ==
  LET sp == chain.providers[a]
      expired == ExpiredPreCommits(sp)
      amount == PreCommitDeposit * Cardinality(expired)
      removed == [sp EXCEPT
        !.pre_commit_deposits = @ - amount,
        !.pre_committed_sectors = [s \in DOMAIN @ \ expired |-> @[s]]]
  IN IF sp.pre_commit_deposits < amount THEN chain
     ELSE [providers |-> IF CanSlash(chain.wallets[a], amount)
                         THEN [chain.providers EXCEPT ![a] = removed]
                         ELSE chain.providers,
           wallets |-> [chain.wallets EXCEPT ![a] = slash_and_burn(@, amount)]]

\* The first provider without an expired sector ends the loop.
check_precommited_sectors ==
  LET registered == SelectSeq(ProviderOrder, LAMBDA a : a \in DOMAIN providers)
      stops == {i \in DOMAIN registered :
                  ExpiredPreCommits(providers[registered[i]]) = {}}
      checked == IF stops = {} THEN registered
                 ELSE SubSeq(registered, 1, Min(stops) - 1)
  IN FoldLeft(SlashExpired,
              [providers |-> providers, wallets |-> wallets], checked)

DeadlineElapsed(sp) ==
  /\ period_started(deadline_info(sp, block))
  /\ has_elapsed(deadline_info(sp, block))

\* The partitions for which no proof was submitted.
MissedPartitions(dl) ==
  {k \in DOMAIN dl.partitions :
     dl.partitions[k].sectors # {} /\ k \notin dl.partitions_posted}

\* Mutant: a partition with a faulty sector is taken for a faulty partition.
MarkMissed_once(dl, sectors, fault_expiration) ==
  [dl EXCEPT !.partitions =
     [k \in DOMAIN @ |->
        IF k \in MissedPartitions(dl) /\ @[k].faults = {}
        THEN record_faults(@[k], sectors, @[k].sectors, fault_expiration)
        ELSE @[k]]]

MarkMissed(dl, sectors, fault_expiration) ==
  [dl EXCEPT !.partitions =
     [k \in DOMAIN @ |->
        IF /\ k \in MissedPartitions(dl)
           /\ CanRecordFaults(@[k], sectors, @[k].sectors)
        THEN record_faults(@[k], sectors, @[k].sectors, fault_expiration)
        ELSE @[k]]]

CanAdvance(sp) ==
  LET dl_info == deadline_info(sp, block)
  IN CanPopExpiredInDeadline(sp.deadlines[dl_info.idx], last(dl_info))

\* Mutant: the index of the deadline does not wrap around.
advance_deadline_unwrapped(sp) ==
  LET dl_info == deadline_info(sp, block)
  IN [sp EXCEPT
        !.current_deadline = @ + 1,
        !.deadlines[dl_info.idx] = pop_deadline_expired(@, last(dl_info))]

\* Mutant: the period starts again before the last deadline.
advance_deadline_early(sp) ==
  LET dl_info == deadline_info(sp, block)
      next_deadline == (sp.current_deadline + 1) % WPoStPeriodDeadlines
      dl == sp.deadlines[dl_info.idx]
  IN [sp EXCEPT
        !.current_deadline = next_deadline,
        !.proving_period_start = IF next_deadline = WPoStPeriodDeadlines - 1
                                 THEN @ + WPoStProvingPeriod ELSE @,
        !.deadlines[dl_info.idx] = pop_deadline_expired(@, last(dl_info)),
        !.early_terminations = IF EarlyIn(dl, last(dl_info)) = {} THEN @
                               ELSE @ \cup {dl_info.idx}]

advance_deadline(sp) ==
  LET dl_info == deadline_info(sp, block)
      next_deadline == (sp.current_deadline + 1) % WPoStPeriodDeadlines
      dl == sp.deadlines[dl_info.idx]
  IN [sp EXCEPT
        !.current_deadline = next_deadline,
        !.proving_period_start = IF next_deadline = 0
                                 THEN @ + WPoStProvingPeriod ELSE @,
        !.deadlines[dl_info.idx] = pop_deadline_expired(@, last(dl_info)),
        !.early_terminations = IF EarlyIn(dl, last(dl_info)) = {} THEN @
                               ELSE @ \cup {dl_info.idx}]

\* Mutant: the proofs of this period count for the next one too.
ProcessDeadline_keeping(sp) ==
  LET dl_info == deadline_info(sp, block)
  IN [sp EXCEPT !.deadlines[dl_info.idx] =
        MarkMissed(@, sp.sectors, last(dl_info) + FaultMaxAge)]

\* The current deadline once its missed partitions are faulty and its proofs
\* are forgotten.
ProcessDeadline(sp) ==
  LET dl_info == deadline_info(sp, block)
  IN [sp EXCEPT !.deadlines[dl_info.idx] =
        [MarkMissed(@, sp.sectors, last(dl_info) + FaultMaxAge) EXCEPT
           !.partitions_posted = {}]]

\* Early terminations are processed once for every missed partition, on the
\* stored state; the market accepts calls of them.
AlsoPassed(passed, processed) ==
  [processed EXCEPT !.passed = @ \cup passed]

PassedOn(sp, calls) ==
  FoldLeft(LAMBDA acc, i : AlsoPassed(acc.passed, process_early_terminations(acc.sp)),
           [sp |-> sp, passed |-> {}], [i \in 1 .. calls |-> i]).passed

\* The stored state those calls leave is then overwritten with the one read
\* before them.
check_deadlines(chain) ==
  [a \in DOMAIN chain.providers |->
     IF DeadlineElapsed(chain.providers[a])
     THEN advance_deadline(ProcessDeadline(chain.providers[a]))
     ELSE chain.providers[a]]

MissedCalls(sp) ==
  IF DeadlineElapsed(sp)
  THEN Cardinality(MissedPartitions(sp.deadlines[sp.current_deadline])) ELSE 0

HookPanics(chain) ==
  \E a \in DOMAIN chain.providers :
    /\ DeadlineElapsed(chain.providers[a])
    /\ ~CanAdvance(ProcessDeadline(chain.providers[a]))

\* The end of a block, and the next one.
on_finalize ==
  LET chain == check_precommited_sectors
      accepts == {f \in [DOMAIN providers -> 0 .. MaxPartitionsPerDeadline] :
                    \A a \in DOMAIN providers :
                      f[a] <= MissedCalls(chain.providers[a])}
  IN /\ ~HookPanics(chain)
     /\ block < MaxBlock
     /\ block' = block + 1
     /\ wallets' = chain.wallets
     /\ providers' = check_deadlines(chain)
     /\ \E calls \in accepts :
          notified' = notified \cup
            UNION {{a} \X PassedOn(chain.providers[a], calls[a]) :
                     a \in DOMAIN providers}
     /\ UNCHANGED halted

on_finalize_panics ==
  /\ HookPanics(check_precommited_sectors)
  /\ halted' = TRUE
  /\ UNCHANGED <<block, providers, wallets, notified>>

-----------------------------------------------------------------------------

PreCommits == [sector_number : SectorNumbers, expiration : Expirations]

\* <<d, k>> for every partition of the provider.
PartitionsOf(sp) ==
  UNION {{d} \X DOMAIN sp.deadlines[d].partitions : d \in DOMAIN sp.deadlines}

\* Declarations of a sector, and bound: the one or two of them in a call.
Terms(sp) ==
  {[deadline |-> dk[1], partition |-> dk[2], sectors |-> {s}] :
     dk \in PartitionsOf(sp), s \in SectorNumbers}

Declarations(sp) == {{t, u} : t, u \in Terms(sp)}

\* Terminations also come with no declaration, or with one of no sector.
Terminations(sp) ==
  Declarations(sp) \cup {{}}
    \cup {{[deadline |-> dk[1], partition |-> dk[2], sectors |-> {}]} :
            dk \in PartitionsOf(sp)}

Extrinsic(a) ==
  \/ register_storage_provider(a)
  \/ /\ a \in DOMAIN providers
     /\ \/ \E n \in 1 .. MaxBatch : \E batch \in [1 .. n -> PreCommits] :
             pre_commit_sectors(a, batch)
        \/ \E s \in SectorNumbers : prove_commit_sectors(a, s)
        \/ \E dk \in PartitionsOf(providers[a]) :
             submit_windowed_post(a, dk[1], dk[2])
        \/ \E terms \in Declarations(providers[a]) :
             \/ declare_faults(a, terms)
             \/ declare_sectors_recovered(a, terms)
        \/ \E terms \in Terminations(providers[a]) :
             terminate_provider_sectors(a, terms)

Next ==
  /\ ~halted
  /\ \/ \E a \in Accounts : Extrinsic(a) /\ UNCHANGED <<block, halted>>
     \/ on_finalize
     \/ on_finalize_panics

Spec == Init /\ [][Next]_vars

-----------------------------------------------------------------------------
(* Properties.                                                             *)

PartitionAt(sp, dk) == sp.deadlines[dk[1]].partitions[dk[2]]

\* The counters and funds are numbers (none is reduced below zero), the flags
\* name existing deadlines and partitions, and what is queued in a partition
\* is about sectors and blocks of the model.
StorageProviderTypeOK ==
  /\ block \in FirstBlock .. MaxBlock
  /\ halted \in BOOLEAN
  /\ notified \subseteq Accounts \X SectorNumbers
  /\ wallets \in [Accounts -> [free : Nat, reserved : Nat]]
  /\ DOMAIN providers \subseteq Accounts
  /\ \A a \in DOMAIN providers :
       LET sp == providers[a]
       IN /\ DOMAIN sp.deadlines = DeadlineIndices
          /\ sp.current_deadline \in DeadlineIndices
          /\ sp.early_terminations \subseteq DeadlineIndices
          /\ sp.pre_commit_deposits \in Nat
          /\ \A d \in DeadlineIndices :
               /\ sp.deadlines[d].live_sectors \in Nat
               /\ sp.deadlines[d].early_terminations
                    \subseteq DOMAIN sp.deadlines[d].partitions
          /\ \A dk \in PartitionsOf(sp) :
               LET p == PartitionAt(sp, dk)
               IN /\ p.sectors \subseteq SectorNumbers
                  /\ p.expirations \subseteq
                       Entries(FirstBlock .. MaxBlock + MaxSectorExpiration,
                               SectorNumbers)
                  /\ DOMAIN p.early_terminations \subseteq FirstBlock .. MaxBlock
                  /\ QueuedTerminations(p) \subseteq p.terminated

\* The provider's proving_period_start and current_deadline move as the
\* deadline clock says: every deadline is processed once, by the hook of the
\* block at which it closes (check_deadlines, advance_deadline).
Clock == INSTANCE DeadlineClock WITH
  clocks <- [a \in DOMAIN providers |->
               [period_start |-> providers[a].proving_period_start,
                idx |-> providers[a].current_deadline]]

ImplementsClock == Clock!Spec

\* A sector is pre-committed or committed, never both, and a committed one is
\* in one partition of one deadline (prove_commit_sectors,
\* assign_sectors_to_deadlines): otherwise it could be proven twice or never.
SectorsPlacedOnce ==
  \A a \in DOMAIN providers :
    LET sp == providers[a]
        homes(s) == {dk \in PartitionsOf(sp) : s \in PartitionAt(sp, dk).sectors}
    IN /\ DOMAIN sp.sectors \cap DOMAIN sp.pre_committed_sectors = {}
       /\ \A s \in SectorNumbers :
            Cardinality(homes(s)) = (IF s \in DOMAIN sp.sectors THEN 1 ELSE 0)

\* live_sectors and total_sectors of a deadline, which steer the assignment
\* of new sectors, are what its partitions hold.
SectorCountsMatch ==
  \A a \in DOMAIN providers : \A d \in DeadlineIndices :
    LET dl == providers[a].deadlines[d]
        count(f(_)) == MapThenSumSet(LAMBDA k : Cardinality(f(dl.partitions[k])),
                                     DOMAIN dl.partitions)
    IN /\ dl.live_sectors = count(live_sectors)
       /\ dl.total_sectors = count(LAMBDA p : p.sectors)

\* The composition keeps every partition consistent: the sector sets nest and
\* the expiration queue holds exactly the live sectors (partition.rs).
PartitionsConsistent ==
  \A a \in DOMAIN providers : \A dk \in PartitionsOf(providers[a]) :
    LET p == PartitionAt(providers[a], dk)
    IN SectorStatesConsistent(p) /\ QueueMatchesSectors(p, providers[a].sectors)

\* A sector queued for early termination can be found: its partition is
\* flagged in the deadline and the deadline in the provider, which is all that
\* pop_early_terminations looks at.
QueuedTerminationsFlagged ==
  \A a \in DOMAIN providers : \A dk \in PartitionsOf(providers[a]) :
    QueuedTerminations(PartitionAt(providers[a], dk)) # {} =>
      /\ dk[2] \in providers[a].deadlines[dk[1]].early_terminations
      /\ dk[1] \in providers[a].early_terminations

\* Proofs are on record for the current deadline alone, once it is open
\* (submit_windowed_post), and are forgotten when it has been processed.
ProofsOnlyForOpenDeadline ==
  \A a \in DOMAIN providers : \A d \in DeadlineIndices :
    providers[a].deadlines[d].partitions_posted # {} =>
      /\ d = providers[a].current_deadline
      /\ block >= deadline_info(providers[a], block).open_at

\* No proof is missed unnoticed (check_deadlines): when the current deadline
\* is left, every live sector of a partition without a proof is faulty and no
\* longer counts as recovering.
MissedProofsAreFaults ==
  [][\A a \in DOMAIN providers :
       LET sp == providers[a]
           d == sp.current_deadline
       IN providers'[a].current_deadline # d =>
            \A k \in MissedPartitions(sp.deadlines[d]) :
              LET p == providers'[a].deadlines[d].partitions[k]
              IN live_sectors(p) = p.faults /\ p.recoveries = {}]_vars

\* A pre-committed sector is not kept past its expiration
\* (check_precommited_sectors goes through all the registered providers).
ExpiredPreCommitsRemoved ==
  \A a \in DOMAIN providers :
    \A s \in DOMAIN providers[a].pre_committed_sectors :
      block <= providers[a].pre_committed_sectors[s].expiration

\* What the deadline's expirations_blocks is for: a partition with a sector
\* that will expire at a block is queued at that block or before.
ExpirationsReachable ==
  \A a \in DOMAIN providers : \A dk \in PartitionsOf(providers[a]) :
    LET dl == providers[a].deadlines[dk[1]]
    IN \A e \in PartitionAt(providers[a], dk).expirations :
         \E b \in DOMAIN dl.expirations_blocks :
           b <= e.block /\ dl.expirations_blocks[b] = dk[2]

\* The hook operates under invariants and is infallible: advance_deadline does
\* not fail in check_deadlines.
HookInfallible == ~halted

SectorsAdded(a, d) ==
  providers'[a].deadlines[d].total_sectors > providers[a].deadlines[d].total_sectors

\* The chain is in the window of deadline d, in the period on record or, before
\* the hook has moved it, in the next.
InWindow(sp, d) ==
  \E start \in {sp.proving_period_start,
                sp.proving_period_start + WPoStProvingPeriod} :
    is_open(DeadlineInfo_new(block, start, d))

\* "It's the caller's responsibility to make sure that this deadline isn't
\* currently being proven -- i.e. open" (Deadline::add_sectors): the deadline to
\* which assign_sectors_to_deadlines adds a sector is not open in that block.
NoSectorsAddedWhileProving ==
  [][\A a \in DOMAIN providers : \A d \in DeadlineIndices :
       SectorsAdded(a, d) => ~InWindow(providers[a], d)]_vars

\* Processing early terminations clears them: in the hook, the sectors passed
\* to the market are no longer queued.
ProcessedTerminationsCleared ==
  [][\A a \in DOMAIN providers :
       \A dk \in PartitionsOf(providers[a]) :
         \A s \in QueuedTerminations(PartitionAt(providers'[a], dk)) :
           <<a, s>> \in notified' => <<a, s>> \in notified]_vars
=============================================================================
