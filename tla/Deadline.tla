------------------------------ MODULE Deadline ------------------------------
(***************************************************************************)
(* A deadline (deadline.rs): its partitions and the queue of blocks at     *)
(* which they may have expiring sectors, and the choice of a deadline for  *)
(* a new sector (deadline/assignment.rs).                                  *)
(*                                                                         *)
(* As in Partition, operators return the changed deadline and the          *)
(* conditions Can... are those under which the code returns Ok.  A call    *)
(* that names several partitions handles them one after the other          *)
(* (StorageProvider).                                                      *)
(***************************************************************************)
EXTENDS Partition, SequencesExt

Deadline_new ==
  [partitions |-> << >>, expirations_blocks |-> << >>,
   partitions_posted |-> {}, early_terminations |-> {},
   live_sectors |-> 0, total_sectors |-> 0]

WithPartition(dl, k, p) == [dl EXCEPT !.partitions = Put(@, k, p)]

CanRecordProven(dl, sectors, k) ==
  /\ k \in DOMAIN dl.partitions
  /\ k \notin dl.partitions_posted
  /\ CanRecoverAll(dl.partitions[k], sectors)

record_proven(dl, sectors, k) ==
  LET proven == activate_unproven(
                  recover_all_declared_recoveries(dl.partitions[k], sectors))
  IN [WithPartition(dl, k, proven) EXCEPT !.partitions_posted = @ \cup {k}]

\* A sector goes to the last partition, or to a new one when that is full.
\* Its expiration takes the place of whatever partition was queued there.
PartitionFor(dl, partition_size) ==
  LET last_idx == IF DOMAIN dl.partitions = {} THEN 0
                  ELSE Max(DOMAIN dl.partitions)
  IN IF /\ last_idx \in DOMAIN dl.partitions
        /\ Cardinality(dl.partitions[last_idx].sectors) >= partition_size
     THEN last_idx + 1 ELSE last_idx

add_sectors_to_deadline(dl, partition_size, sectors, s) ==
  LET k == PartitionFor(dl, partition_size)
      p == IF k \in DOMAIN dl.partitions THEN dl.partitions[k]
           ELSE Partition_new
  IN [WithPartition(dl, k, add_sectors(p, sectors, {s})) EXCEPT
        !.live_sectors = @ + 1,
        !.total_sectors = @ + 1,
        !.expirations_blocks = Put(@, sectors[s], k)]

CanRecordDeadlineFaults(dl, sectors, k, faulty) ==
  /\ k \in DOMAIN dl.partitions
  /\ faulty \subseteq DOMAIN sectors
  /\ CanRecordFaults(dl.partitions[k], sectors, faulty)

\* The first block queued for the partition gives way to the fault expiration.
record_deadline_faults(dl, sectors, k, faulty, fault_expiration) ==
  LET queued == {b \in DOMAIN dl.expirations_blocks :
                   dl.expirations_blocks[b] = k}
      first == IF queued = {} THEN {} ELSE {Min(queued)}
      kept == [b \in DOMAIN dl.expirations_blocks \ first |->
                 dl.expirations_blocks[b]]
      p == record_faults(dl.partitions[k], sectors, faulty, fault_expiration)
  IN [WithPartition(dl, k, p) EXCEPT
        !.expirations_blocks = Put(kept, fault_expiration, k)]

CanDeclareRecovered(dl, sectors, k, recovered) ==
  /\ k \in DOMAIN dl.partitions
  /\ recovered \subseteq DOMAIN sectors
  /\ recovered \subseteq dl.partitions[k].faults

declare_deadline_recovered(dl, k, recovered) ==
  WithPartition(dl, k, declare_faults_recovered(dl.partitions[k], recovered))

CanTerminateInDeadline(dl, sectors, k, numbers) ==
  /\ k \in DOMAIN dl.partitions
  /\ CanTerminate(dl.partitions[k], sectors, numbers)

\* Mutant: the partition is not flagged, so its terminations stay queued.
terminate_deadline_sectors_unflagged(dl, block, sectors, k, numbers) ==
  LET p == dl.partitions[k]
      removed == SectorsIn(Terminated(p, sectors, numbers))
  IN [WithPartition(dl, k, terminate_sectors(p, block, sectors, numbers)) EXCEPT
        !.live_sectors = @ - Cardinality(removed)]

terminate_deadline_sectors(dl, block, sectors, k, numbers) ==
  LET p == dl.partitions[k]
      removed == SectorsIn(Terminated(p, sectors, numbers))
  IN [WithPartition(dl, k, terminate_sectors(p, block, sectors, numbers)) EXCEPT
        !.early_terminations = IF removed = {} THEN @ ELSE @ \cup {k},
        !.live_sectors = @ - Cardinality(removed)]

-----------------------------------------------------------------------------
(* Early terminations are handed out partition by partition, deadline by   *)
(* deadline, until one of two limits is reached.  A result holds what was  *)
(* handed out, by block, and how much has been processed.                  *)

TerminationResult_new ==
  [sectors |-> << >>, partitions_processed |-> 0, sectors_processed |-> 0]

At(map, b) == IF b \in DOMAIN map THEN map[b] ELSE {}

add_assign(r, rhs) ==
  [sectors |-> [b \in DOMAIN r.sectors \cup DOMAIN rhs.sectors |->
                  At(r.sectors, b) \cup At(rhs.sectors, b)],
   partitions_processed |-> r.partitions_processed + rhs.partitions_processed,
   sectors_processed |-> r.sectors_processed + rhs.sectors_processed]

below_limit(r, max_partitions, max_sectors) ==
  /\ r.partitions_processed < max_partitions
  /\ r.sectors_processed < max_sectors

PartitionResult(p, max_sectors) ==
  LET popped == early_terminations_popped(p, max_sectors)
  IN [sectors |-> popped, partitions_processed |-> 1,
      sectors_processed |->
        MapThenSumSet(LAMBDA b : Cardinality(popped[b]), DOMAIN popped)]

\* One partition k: its result is added, and the partition is no longer
\* flagged once nothing is left in it.
PopPartition(acc, k, max_sectors) ==
  LET limit == max_sectors - acc.result.sectors_processed
      p == acc.dl.partitions[k]
      rest == pop_early_terminations(p, limit)
      finished == DOMAIN rest.early_terminations = {}
  IN [dl |-> [WithPartition(acc.dl, k, rest) EXCEPT
                !.early_terminations = IF finished THEN @ \ {k} ELSE @],
      result |-> add_assign(acc.result, PartitionResult(p, limit))]

\* The deadline and the result.
pop_deadline_terminations(dl, max_partitions, max_sectors) ==
  FoldLeft(LAMBDA acc, k :
             IF /\ acc.result # TerminationResult_new
                /\ ~below_limit(acc.result, max_partitions, max_sectors)
             THEN acc ELSE PopPartition(acc, k, max_sectors),
           [dl |-> dl, result |-> TerminationResult_new],
           SetToSortSeq(dl.early_terminations, <))

-----------------------------------------------------------------------------
(* Expired sectors.                                                        *)

\* The blocks due for partition k.
DueFor(dl, k, until) ==
  {b \in DOMAIN dl.expirations_blocks :
     b <= until /\ dl.expirations_blocks[b] = k}

DuePartitions(dl, until) ==
  {dl.expirations_blocks[b] : b \in {c \in DOMAIN dl.expirations_blocks :
                                       c <= until}}

CanPopExpiredInDeadline(dl, until) ==
  \A k \in DuePartitions(dl, until) :
    k \in DOMAIN dl.partitions /\ CanPopExpired(dl.partitions[k], until)

\* A partition due at several blocks is popped once for each of them, and
\* again rewrites its entry of early terminations for until.
PopDue(dl, k, until) ==
  LET once == pop_expired_sectors(dl.partitions[k], until)
  IN IF Cardinality(DueFor(dl, k, until)) > 1
     THEN pop_expired_sectors(once, until) ELSE once

EarlyIn(dl, until) ==
  {k \in DuePartitions(dl, until) : EarlyExpired(dl.partitions[k], until) # {}}

ExpiredIn(dl, until) ==
  UNION {SectorsIn(pop_until(dl.partitions[k].expirations, until)) :
           k \in DuePartitions(dl, until)}

\* Mutant: the expired sectors still count as live.
pop_deadline_expired_counting(dl, until) ==
  [dl EXCEPT
     !.expirations_blocks = [b \in {c \in DOMAIN @ : c > until} |-> @[b]],
     !.partitions = [k \in DOMAIN @ |-> IF k \in DuePartitions(dl, until)
                                        THEN PopDue(dl, k, until) ELSE @[k]],
     !.early_terminations = @ \cup EarlyIn(dl, until)]

pop_deadline_expired(dl, until) ==
  [dl EXCEPT
     !.expirations_blocks = [b \in {c \in DOMAIN @ : c > until} |-> @[b]],
     !.partitions = [k \in DOMAIN @ |-> IF k \in DuePartitions(dl, until)
                                        THEN PopDue(dl, k, until) ELSE @[k]],
     !.early_terminations = @ \cup EarlyIn(dl, until),
     !.live_sectors = @ - Cardinality(ExpiredIn(dl, until))]

-----------------------------------------------------------------------------
(* Assignment of a sector to a deadline.                                   *)

DivCeil(a, b) == (a + b - 1) \div b

max_partitions_reached(dl, partition_size, max_partitions) ==
  dl.total_sectors >= partition_size * max_partitions

\* cmp orders deadlines lexicographically: fewest partitions after compaction,
\* fewest partitions, an open partition, the fullest open one, fewest live
\* sectors, lowest index.
AssignmentKey(dl, idx, partition_size) ==
  LET full == dl.total_sectors % partition_size = 0
  IN <<DivCeil(dl.live_sectors + 1, partition_size),
       DivCeil(dl.total_sectors + 1, partition_size),
       IF full THEN 1 ELSE 0,
       IF full THEN 0 ELSE -dl.total_sectors,
       dl.live_sectors,
       idx>>

Precedes(a, b) ==
  \E i \in DOMAIN a : a[i] < b[i] /\ \A j \in 1 .. i - 1 : a[j] = b[j]

\* The deadline of candidates (indices of due) that a sector is assigned to.
assign_deadlines(due, candidates, partition_size) ==
  CHOOSE d \in candidates :
    \A e \in candidates \ {d} :
      Precedes(AssignmentKey(due[d], d, partition_size),
               AssignmentKey(due[e], e, partition_size))
=============================================================================
