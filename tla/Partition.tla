------------------------------ MODULE Partition ------------------------------
(***************************************************************************)
(* A partition of a deadline (partition.rs): the sectors proven together,  *)
(* and which of them are unproven, faulty, recovering or terminated.       *)
(*                                                                         *)
(* The operators take a partition p and return it changed; the conditions  *)
(* Can... are those under which the code returns Ok.  An error reaches an  *)
(* extrinsic, which is then undone, or a hook that leaves the partition    *)
(* alone.                                                                  *)
(***************************************************************************)
EXTENDS ExpirationQueue

Partition_new ==
  [sectors |-> {}, unproven |-> {}, faults |-> {}, recoveries |-> {},
   terminated |-> {}, expirations |-> {}, early_terminations |-> << >>]

live_sectors(p) == p.sectors \ p.terminated

\* try_insert: the entry of a key is replaced.
Put(map, k, v) == [x \in DOMAIN map \cup {k} |-> IF x = k THEN v ELSE map[x]]

CanAddSectors(p, new) == new \cap p.sectors = {}

add_sectors(p, sectors, new) ==
  [p EXCEPT !.expirations = add_active_sectors(@, sectors, new),
            !.sectors = @ \cup new,
            !.unproven = @ \cup new]

\* Declared recoveries are retracted; terminated and faulty sectors are
\* ignored.
NewFaults(p, sectors, declared) ==
  (declared \ (p.recoveries \cup p.terminated \cup p.faults))
    \cap DOMAIN sectors

CanRecordFaults(p, sectors, declared) ==
  CanFind(p.expirations, sectors, NewFaults(p, sectors, declared))

\* Mutant: a sector marked faulty stays among the unproven ones.
add_faults_unproven(p, sectors, new, fault_expiration) ==
  [p EXCEPT !.expirations =
              reschedule_as_faults(@, sectors, new, fault_expiration),
            !.faults = @ \cup new]

add_faults(p, sectors, new, fault_expiration) ==
  [p EXCEPT !.expirations =
              reschedule_as_faults(@, sectors, new, fault_expiration),
            !.faults = @ \cup new,
            !.unproven = @ \ new]

remove_recoveries(p, gone) == [p EXCEPT !.recoveries = @ \ gone]

record_faults(p, sectors, declared, fault_expiration) ==
  LET retracted == p.recoveries \cap declared \cap DOMAIN sectors
      new == NewFaults(p, sectors, declared)
  IN remove_recoveries(add_faults(p, sectors, new, fault_expiration), retracted)

declare_faults_recovered(p, declared) ==
  [p EXCEPT !.recoveries = @ \cup (declared \cap p.faults)]

\* The sectors of the partition are among the provider's, or the code panics.
CanRecoverAll(p, sectors) ==
  /\ p.recoveries \subseteq DOMAIN sectors
  /\ CanRecover(p.expirations, p.recoveries)

recover_all_declared_recoveries(p, sectors) ==
  [p EXCEPT !.expirations = reschedule_recovered(@, sectors, p.recoveries),
            !.faults = @ \ p.recoveries,
            !.recoveries = {}]

activate_unproven(p) == [p EXCEPT !.unproven = {}]

record_early_terminations(p, block, gone) ==
  [p EXCEPT !.early_terminations = Put(@, block, gone)]

CanTerminate(p, sectors, numbers) ==
  /\ numbers \subseteq live_sectors(p)
  /\ CanRemove(p.expirations, sectors, numbers \cap DOMAIN sectors, p.faults)

\* The entries of the queue that terminating the sectors removes.
Terminated(p, sectors, numbers) ==
  remove_sectors(p.expirations, sectors, numbers \cap DOMAIN sectors, p.faults)

\* Mutant: a terminated sector may still be waiting to be recovered.
terminate_sectors_recovering(p, block, sectors, numbers) ==
  LET removed == Terminated(p, sectors, numbers)
      gone == SectorsIn(removed)
  IN [record_early_terminations(p, block, gone) EXCEPT
        !.expirations = @ \ removed, !.faults = @ \ gone,
        !.terminated = @ \cup gone, !.unproven = @ \ gone]

terminate_sectors(p, block, sectors, numbers) ==
  LET removed == Terminated(p, sectors, numbers)
      gone == SectorsIn(removed)
  IN [record_early_terminations(p, block, gone) EXCEPT
        !.expirations = @ \ removed, !.faults = @ \ gone,
        !.recoveries = @ \ gone, !.terminated = @ \cup gone,
        !.unproven = @ \ gone]

\* Early terminations are handed out by block, then by sector number, until
\* max_sectors of them have been.
QueuedBefore(p, b) ==
  MapThenSumSet(LAMBDA c : Cardinality(p.early_terminations[c]),
                {c \in DOMAIN p.early_terminations : c < b})

Visited(p, max_sectors) ==
  {b \in DOMAIN p.early_terminations :
     QueuedBefore(p, b) < max_sectors \/ b = Min(DOMAIN p.early_terminations)}

\* Of the sectors queued under b, those handed out.
Popped(p, b, max_sectors) ==
  {s \in p.early_terminations[b] :
     Cardinality({t \in p.early_terminations[b] : t < s})
       < max_sectors - QueuedBefore(p, b)}

\* TerminationResult.sectors.
early_terminations_popped(p, max_sectors) ==
  [b \in Visited(p, max_sectors) |-> Popped(p, b, max_sectors)]

\* Mutant: an entry handed out in part is dropped whole.
pop_early_terminations_whole(p, max_sectors) ==
  [p EXCEPT !.early_terminations =
     [b \in DOMAIN @ \ Visited(p, max_sectors) |-> @[b]]]

pop_early_terminations(p, max_sectors) ==
  LET finished == {b \in Visited(p, max_sectors) :
                     Popped(p, b, max_sectors) = p.early_terminations[b]}
  IN [p EXCEPT !.early_terminations =
        [b \in DOMAIN @ \ finished |->
           IF b \in Visited(p, max_sectors)
           THEN @[b] \ Popped(p, b, max_sectors) ELSE @[b]]]

CanPopExpired(p, until) ==
  /\ p.unproven = {}
  /\ p.recoveries = {}
  /\ p.terminated \cap SectorsIn(pop_until(p.expirations, until)) = {}

EarlyExpired(p, until) ==
  SectorsIn({e \in pop_until(p.expirations, until) : e.kind = "early"})

\* Mutant: the early terminations are filed under the block after.
pop_expired_sectors_after(p, until) ==
  LET popped == pop_until(p.expirations, until)
      expired == SectorsIn(popped)
  IN [record_early_terminations(p, until + 1, EarlyExpired(p, until)) EXCEPT
        !.expirations = @ \ popped,
        !.terminated = @ \cup expired,
        !.faults = @ \ expired]

\* Mutant: only the sectors that expired on time are marked terminated.
pop_expired_sectors_on_time(p, until) ==
  LET popped == pop_until(p.expirations, until)
      expired == SectorsIn(popped)
  IN [record_early_terminations(p, until, EarlyExpired(p, until)) EXCEPT
        !.expirations = @ \ popped,
        !.terminated = @ \cup (expired \ EarlyExpired(p, until)),
        !.faults = @ \ expired]

\* The block's entry is written even when nothing expired early.
pop_expired_sectors(p, until) ==
  LET popped == pop_until(p.expirations, until)
      expired == SectorsIn(popped)
  IN [record_early_terminations(p, until, EarlyExpired(p, until)) EXCEPT
        !.expirations = @ \ popped,
        !.terminated = @ \cup expired,
        !.faults = @ \ expired]
-----------------------------------------------------------------------------
(* What makes a partition consistent.                                      *)

\* The sets nest as the code relies on: only live sectors are unproven or
\* faulty and none is both, only faulty ones recover, only members terminate.
SectorStatesConsistent(p) ==
  /\ p.terminated \subseteq p.sectors
  /\ p.faults \subseteq live_sectors(p)
  /\ p.unproven \subseteq live_sectors(p) \ p.faults
  /\ p.recoveries \subseteq p.faults

\* The queue and the sets tell the same story: exactly the live sectors are
\* queued, each once; on time means at the sector's own expiration; early
\* means faulty, and sooner than that.
QueueMatchesSectors(p, sectors) ==
  /\ SectorsIn(p.expirations) = live_sectors(p)
  /\ \A e, f \in p.expirations : e.sector = f.sector => e = f
  /\ \A e \in p.expirations :
       IF e.kind = "on_time"
       THEN e.block = sectors[e.sector]
       ELSE e.sector \in p.faults /\ e.block < sectors[e.sector]

\* The sectors whose deals are still to be terminated.
QueuedIn(early_terminations) ==
  UNION {early_terminations[b] : b \in DOMAIN early_terminations}

QueuedTerminations(p) == QueuedIn(p.early_terminations)

EarlyMaps(numbers, blocks) ==
  UNION {[B -> SUBSET numbers] : B \in SUBSET blocks}

PartitionsOver(numbers, blocks) ==
  [sectors : SUBSET numbers, unproven : SUBSET numbers,
   faults : SUBSET numbers, recoveries : SUBSET numbers,
   terminated : SUBSET numbers,
   expirations : SUBSET Entries(blocks, numbers),
   early_terminations : EarlyMaps(numbers, blocks)]
=============================================================================
