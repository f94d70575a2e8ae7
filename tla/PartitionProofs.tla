-------------------------- MODULE PartitionProofs --------------------------
(***************************************************************************)
(* Proofs about the partition, for any sectors, blocks and limits.  The    *)
(* lemmas about the queue say what each of its operations does to a queue  *)
(* that matches the sectors; one lemma per operation of the partition says *)
(* that it keeps the partition sound; the theorems follow.                 *)
(***************************************************************************)
EXTENDS PartitionLifecycle, TLAPS

\* The inductive invariant, about any partition p of any provider.
Sound(p, secs) ==
  /\ secs \in [DOMAIN secs -> Blocks]
  /\ DOMAIN secs \subseteq Nat
  /\ p \in PartitionsOver(DOMAIN secs, Blocks)
  /\ SectorStatesConsistent(p)
  /\ QueueMatchesSectors(p, secs)
  /\ QueuedTerminations(p) \subseteq p.terminated

-----------------------------------------------------------------------------
(* The queue.                                                              *)

\* Min of a singleton, as find_sectors_by_expiration meets it.
LEMMA MinOfOne ==
  ASSUME NEW n \in Blocks
  PROVE  Min({n}) = n
  BY BlocksAssumption DEF Min

\* An entry of the queue is what its kind says.
LEMMA EntryForm ==
  ASSUME NEW p, NEW secs, Sound(p, secs), NEW e \in p.expirations
  PROVE  /\ e.block \in Blocks
         /\ e.sector \in live_sectors(p)
         /\ e.sector \in DOMAIN secs
         /\ secs[e.sector] \in Blocks
         /\ e = OnTime(e.block, e.sector) \/ e = Early(e.block, e.sector)
         /\ e.kind = "on_time" => e = OnTime(secs[e.sector], e.sector)
         /\ e.kind # "on_time" => /\ e = Early(e.block, e.sector)
                                  /\ e.sector \in p.faults
                                  /\ e.block < secs[e.sector]
<1>1. e \in Entries(Blocks, DOMAIN secs)
  BY DEF Sound, PartitionsOver
<1>2. e.block \in Blocks /\ e.sector \in DOMAIN secs
      /\ e.kind \in {"on_time", "early"}
      /\ e = [block |-> e.block, sector |-> e.sector, kind |-> e.kind]
  BY <1>1 DEF Entries
<1>3. secs[e.sector] \in Blocks
  BY <1>2 DEF Sound
<1>4. e.sector \in live_sectors(p)
  BY DEF Sound, QueueMatchesSectors, SectorsIn
<1>5. IF e.kind = "on_time" THEN e.block = secs[e.sector]
      ELSE e.sector \in p.faults /\ e.block < secs[e.sector]
  BY DEF Sound, QueueMatchesSectors
<1>. QED  BY <1>2, <1>3, <1>4, <1>5 DEF OnTime, Early

\* Every live sector has exactly one entry.
LEMMA OneEntry ==
  ASSUME NEW p, NEW secs, Sound(p, secs), NEW s \in live_sectors(p)
  PROVE  \E e \in p.expirations : /\ e.sector = s
                                  /\ EntriesOf(p.expirations, s) = {e}
<1>1. PICK e \in p.expirations : e.sector = s
  BY DEF Sound, QueueMatchesSectors, SectorsIn
<1>2. \A f \in p.expirations : f.sector = s => f = e
  BY <1>1 DEF Sound, QueueMatchesSectors
<1>. QED  BY <1>1, <1>2 DEF EntriesOf

\* A live sector that is not faulty is queued on time, at its expiration.
LEMMA HealthyOnTime ==
  ASSUME NEW p, NEW secs, Sound(p, secs), NEW s \in live_sectors(p) \ p.faults
  PROVE  /\ secs[s] \in Blocks
         /\ OnTime(secs[s], s) \in p.expirations
         /\ EntriesOf(p.expirations, s) = {OnTime(secs[s], s)}
<1>1. PICK e \in p.expirations : /\ e.sector = s
                                 /\ EntriesOf(p.expirations, s) = {e}
  BY OneEntry
<1>. QED  BY <1>1, EntryForm

\* find_sectors_by_expiration finds such a sector there and nowhere else.
LEMMA FoundAtExpiration ==
  ASSUME NEW p, NEW secs, Sound(p, secs), NEW wanted,
         NEW s \in wanted, s \in live_sectors(p) \ p.faults
  PROVE  /\ OnTimeBlocks(p.expirations, s) = {secs[s]}
         /\ FoundAt(p.expirations, secs, wanted, s) = secs[s]
<1>1. /\ secs[s] \in Blocks
      /\ OnTime(secs[s], s) \in p.expirations
      /\ EntriesOf(p.expirations, s) = {OnTime(secs[s], s)}
  BY HealthyOnTime
<1>2. BlocksOf(p.expirations, s) = {secs[s]}
  BY <1>1 DEF BlocksOf, OnTime
<1>3. OnTimeBlocks(p.expirations, s) = {secs[s]}
  BY <1>1, <1>2 DEF OnTimeBlocks
<1>4. OnTimeBlocks(p.expirations, s) \cap {secs[t] : t \in wanted} = {secs[s]}
  BY <1>3
<1>. QED  BY <1>1, <1>3, <1>4, MinOfOne DEF FoundAt

\* The lookup succeeds for healthy sectors.
LEMMA HealthyCanBeFound ==
  ASSUME NEW p, NEW secs, Sound(p, secs), NEW wanted,
         wanted \subseteq live_sectors(p) \ p.faults
  PROVE  CanFind(p.expirations, secs, wanted)
<1>. SUFFICES ASSUME NEW s \in wanted
              PROVE  /\ \E e \in p.expirations : e.block = secs[s]
                     /\ OnTimeBlocks(p.expirations, s) # {}
  BY DEF CanFind
<1>1. OnTime(secs[s], s) \in p.expirations
  BY HealthyOnTime
<1>2. OnTimeBlocks(p.expirations, s) = {secs[s]}
  BY FoundAtExpiration
<1>. QED  BY <1>1, <1>2 DEF OnTime

\* Sectors the lookup finds are sectors of the partition, and live.
LEMMA FoundAreLive ==
  ASSUME NEW p, NEW secs, Sound(p, secs), NEW wanted,
         CanFind(p.expirations, secs, wanted)
  PROVE  wanted \subseteq live_sectors(p)
<1>. SUFFICES ASSUME NEW s \in wanted PROVE s \in live_sectors(p)
  OBVIOUS
<1>1. PICK b \in BlocksOf(p.expirations, s) : TRUE
  BY DEF CanFind, OnTimeBlocks
<1>2. PICK e \in p.expirations : e.sector = s
  BY <1>1 DEF BlocksOf, EntriesOf
<1>. QED  BY <1>2, EntryForm

\* The entries of a queue for sectors outside M.
Without(queue, M) == {e \in queue : e.sector \notin M}

\* Those of the new faults that expire after the fault expiration.
MovedEarly(secs, faulty, b) == {s \in faulty : secs[s] > b}

EarlyEntries(b, M) == {Early(b, s) : s \in M}

\* Those of the recovered sectors that are queued early.
MovedBack(queue, recovered) ==
  {s \in recovered : \E e \in queue : e.sector = s /\ e.kind # "on_time"}

OnTimeEntries(secs, M) == {OnTime(secs[s], s) : s \in M}

\* What reschedule_as_faults does to a matching queue: the sectors that expire
\* after the fault expiration are moved there, the others stay.
LEMMA FaultsMove ==
  ASSUME NEW p, NEW secs, Sound(p, secs), NEW faulty, NEW b \in Blocks,
         faulty \subseteq live_sectors(p) \ p.faults
  PROVE  reschedule_as_faults(p.expirations, secs, faulty, b)
           = Without(p.expirations, MovedEarly(secs, faulty, b))
               \cup EarlyEntries(b, MovedEarly(secs, faulty, b))
<1>. DEFINE moved == {s \in faulty : secs[s] > b}
<1>1. \A s \in faulty : FoundAt(p.expirations, secs, faulty, s) = secs[s]
  BY FoundAtExpiration
<1>2. reschedule_as_faults(p.expirations, secs, faulty, b)
        = (p.expirations \ {OnTime(secs[s], s) : s \in moved})
            \cup {Early(b, s) : s \in moved}
  BY <1>1 DEF reschedule_as_faults
<1>3. ASSUME NEW e \in p.expirations
      PROVE  e \in {OnTime(secs[s], s) : s \in moved} <=> e.sector \in moved
  <2>1. ASSUME e.sector \in moved
        PROVE  e = OnTime(secs[e.sector], e.sector)
    <3>1. EntriesOf(p.expirations, e.sector) = {OnTime(secs[e.sector], e.sector)}
      BY <2>1, HealthyOnTime
    <3>. QED  BY <3>1 DEF EntriesOf
  <2>2. \A s : OnTime(secs[s], s).sector = s
    BY DEF OnTime
  <2>. QED  BY <2>1, <2>2
<1>. QED  BY <1>2, <1>3 DEF Without, MovedEarly, EarlyEntries

\* What reschedule_recovered does: the sectors queued early go back to their
\* own expiration, the others stay.
LEMMA RecoveredMove ==
  ASSUME NEW p, NEW secs, Sound(p, secs), NEW recovered,
         recovered \subseteq live_sectors(p)
  PROVE  reschedule_recovered(p.expirations, secs, recovered)
           = Without(p.expirations, MovedBack(p.expirations, recovered))
               \cup OnTimeEntries(secs, MovedBack(p.expirations, recovered))
<1>. DEFINE Q == p.expirations
            early(s) == \E e \in Q : e.sector = s /\ e.kind # "on_time"
            moved == {s \in recovered : early(s)}
            met(s) == Min(BlocksOf(Q, s))
<1>1. ASSUME NEW e \in Q
      PROVE  /\ EntriesOf(Q, e.sector) = {e}
             /\ met(e.sector) = e.block
  <2>1. e.sector \in live_sectors(p) /\ e.block \in Blocks
    BY EntryForm
  <2>2. EntriesOf(Q, e.sector) = {e}
    BY <2>1, OneEntry DEF EntriesOf
  <2>3. BlocksOf(Q, e.sector) = {e.block}
    BY <2>2 DEF BlocksOf
  <2>. QED  BY <2>1, <2>2, <2>3, MinOfOne
<1>2. ASSUME NEW s \in recovered
      PROVE  OnTime(met(s), s) \notin Q <=> early(s)
  <2>1. PICK e \in Q : e.sector = s
    BY OneEntry
  <2>2. EntriesOf(Q, s) = {e} /\ met(s) = e.block
    BY <1>1, <2>1
  <2>3. CASE e.kind = "on_time"
    <3>1. e = OnTime(e.block, s)
      BY <2>1, <2>3, EntryForm DEF OnTime
    <3>2. ~early(s)
      BY <2>2, <2>3 DEF EntriesOf
    <3>. QED  BY <3>1, <3>2, <2>2
  <2>4. CASE e.kind # "on_time"
    <3>1. OnTime(e.block, s) # e
      BY <2>4 DEF OnTime
    <3>2. OnTime(e.block, s) \notin Q
      BY <3>1, <2>2 DEF EntriesOf, OnTime
    <3>. QED  BY <3>2, <2>1, <2>2, <2>4
  <2>. QED  BY <2>3, <2>4
<1>3. reschedule_recovered(Q, secs, recovered)
        = (Q \ {Early(met(s), s) : s \in moved})
            \cup {OnTime(secs[s], s) : s \in moved}
  BY <1>2 DEF reschedule_recovered
<1>4. ASSUME NEW e \in Q
      PROVE  e \in {Early(met(s), s) : s \in moved} <=> e.sector \in moved
  <2>1. ASSUME e.sector \in moved PROVE e = Early(met(e.sector), e.sector)
    <3>1. e.kind # "on_time"
      BY <1>1, <2>1 DEF EntriesOf
    <3>. QED  BY <3>1, <1>1, EntryForm
  <2>2. \A s : Early(met(s), s).sector = s
    BY DEF Early
  <2>. QED  BY <2>1, <2>2
<1>. QED  BY <1>3, <1>4 DEF Without, MovedBack, OnTimeEntries

\* What remove_sectors takes out: the entries of the sectors it is given.
LEMMA RemovedEntries ==
  ASSUME NEW p, NEW secs, Sound(p, secs), NEW gone,
         gone \subseteq live_sectors(p)
  PROVE  remove_sectors(p.expirations, secs, gone, p.faults)
           = {e \in p.expirations : e.sector \in gone}
<1>. DEFINE Q == p.expirations
            active == gone \ p.faults
<1>1. {OnTime(FoundAt(Q, secs, active, s), s) : s \in active}
        = {e \in Q : e.sector \in active}
  <2>1. \A s \in active : /\ FoundAt(Q, secs, active, s) = secs[s]
                          /\ OnTime(secs[s], s) \in Q
                          /\ EntriesOf(Q, s) = {OnTime(secs[s], s)}
    BY FoundAtExpiration, HealthyOnTime
  <2>2. \A s : OnTime(secs[s], s).sector = s
    BY DEF OnTime
  <2>3. \A s \in active : \A e \in Q : e.sector = s => e = OnTime(secs[s], s)
    BY <2>1 DEF EntriesOf
  <2>4. {OnTime(FoundAt(Q, secs, active, s), s) : s \in active}
          = {OnTime(secs[s], s) : s \in active}
    BY <2>1
  <2>5. {OnTime(secs[s], s) : s \in active} = {e \in Q : e.sector \in active}
    BY <2>1, <2>2, <2>3
  <2>. QED  BY <2>4, <2>5
<1>2. ASSUME NEW e \in Q, e.kind # "on_time"
      PROVE  OnTime(e.block, e.sector) \notin Q
  <2>1. \A f \in Q : f.sector = e.sector => f = e
    BY DEF Sound, QueueMatchesSectors
  <2>. QED  BY <1>2, <2>1 DEF OnTime
<1>. QED  BY <1>1, <1>2 DEF remove_sectors

\* Replacing the entries of some sectors by one new entry each keeps the queue
\* matching, if the new entries do.
LEMMA QueueStillMatches ==
  ASSUME NEW p, NEW q, NEW secs, Sound(p, secs), NEW M, NEW new,
         SectorsIn(new) \cap live_sectors(q) = SectorsIn(new),
         live_sectors(p) \ M = live_sectors(q) \ SectorsIn(new),
         SectorsIn(new) \subseteq M,
         \A e, f \in new : e.sector = f.sector => e = f,
         \A e \in new : IF e.kind = "on_time"
                        THEN e.block = secs[e.sector]
                        ELSE e.sector \in q.faults /\ e.block < secs[e.sector],
         p.faults \ M \subseteq q.faults,
         q.expirations = Without(p.expirations, M) \cup new
  PROVE  QueueMatchesSectors(q, secs)
<1>1. SectorsIn(q.expirations) = live_sectors(q)
  <2>1. SectorsIn(p.expirations) = live_sectors(p)
    BY DEF Sound, QueueMatchesSectors
  <2>2. SectorsIn(Without(p.expirations, M))
          = live_sectors(p) \ M
    BY <2>1 DEF SectorsIn, Without
  <2>3. SectorsIn(q.expirations)
          = SectorsIn(Without(p.expirations, M))
              \cup SectorsIn(new)
    BY DEF SectorsIn
  <2>. QED  BY <2>2, <2>3
<1>2. \A e, f \in q.expirations : e.sector = f.sector => e = f
  <2>1. \A e \in new : e.sector \in M
    BY DEF SectorsIn
  <2>. QED  BY <2>1 DEF Sound, Without, QueueMatchesSectors
<1>3. \A e \in q.expirations :
        IF e.kind = "on_time"
        THEN e.block = secs[e.sector]
        ELSE e.sector \in q.faults /\ e.block < secs[e.sector]
  BY DEF Sound, QueueMatchesSectors, Without
<1>. QED  BY <1>1, <1>2, <1>3 DEF QueueMatchesSectors
-----------------------------------------------------------------------------
(* The operations of a partition.                                          *)

\* A map of early terminations is a function on its own domain.
LEMMA MapIsFunction ==
  ASSUME NEW m, NEW N, m \in EarlyMaps(N, Blocks)
  PROVE  DOMAIN m \subseteq Blocks /\ m \in [DOMAIN m -> SUBSET N]
<1>1. PICK B \in SUBSET Blocks : m \in [B -> SUBSET N]
  BY Zenon DEF EarlyMaps
<1>. QED  BY <1>1

\* The converse.
LEMMA FunctionIsMap ==
  ASSUME NEW m, NEW N, DOMAIN m \subseteq Blocks, m \in [DOMAIN m -> SUBSET N]
  PROVE  m \in EarlyMaps(N, Blocks)
  BY DEF EarlyMaps

\* The fields of a partition.
LEMMA PartitionFields ==
  ASSUME NEW p, NEW secs, Sound(p, secs)
  PROVE  /\ p.sectors \subseteq DOMAIN secs
         /\ p.unproven \subseteq DOMAIN secs
         /\ p.faults \subseteq DOMAIN secs
         /\ p.recoveries \subseteq DOMAIN secs
         /\ p.terminated \subseteq DOMAIN secs
         /\ p.expirations \subseteq Entries(Blocks, DOMAIN secs)
         /\ p.early_terminations
              \in EarlyMaps(DOMAIN secs, Blocks)
  BY DEF Sound, PartitionsOver

\* Partition::new is sound.
LEMMA NewIsSound ==
  ASSUME NEW secs, secs \in [DOMAIN secs -> Blocks], DOMAIN secs \subseteq Nat
  PROVE  Sound(Partition_new, secs)
<1>1. Partition_new.early_terminations \in [{} -> SUBSET DOMAIN secs]
  BY DEF Partition_new
<1>2. Partition_new \in PartitionsOver(DOMAIN secs, Blocks)
  BY <1>1 DEF Partition_new, PartitionsOver, EarlyMaps
<1>3. QueuedTerminations(Partition_new) = {}
  BY DEF QueuedTerminations, QueuedIn, Partition_new
<1>. QED
  BY <1>2, <1>3 DEF Sound, SectorStatesConsistent, QueueMatchesSectors,
                    Partition_new, live_sectors, SectorsIn

\* A partition stays sound when the provider gets more sectors.
LEMMA MoreSectors ==
  ASSUME NEW p, NEW secs, NEW more, Sound(p, secs),
         more \in [DOMAIN more -> Blocks], DOMAIN more \subseteq Nat,
         DOMAIN secs \subseteq DOMAIN more,
         \A s \in DOMAIN secs : more[s] = secs[s]
  PROVE  Sound(p, more)
<1>1. p \in PartitionsOver(DOMAIN more, Blocks)
  <2>1. p.expirations \subseteq Entries(Blocks, DOMAIN more)
    BY PartitionFields DEF Entries
  <2>2. /\ DOMAIN p.early_terminations \subseteq Blocks
        /\ p.early_terminations
             \in [DOMAIN p.early_terminations -> SUBSET DOMAIN secs]
    BY PartitionFields, MapIsFunction
  <2>3. p.early_terminations
          \in [DOMAIN p.early_terminations -> SUBSET DOMAIN more]
    BY <2>2
  <2>4. p.early_terminations
          \in EarlyMaps(DOMAIN more, Blocks)
    BY <2>2, <2>3, FunctionIsMap
  <2>. QED  BY <2>1, <2>4, PartitionFields DEF Sound, PartitionsOver
<1>2. \A e \in p.expirations : more[e.sector] = secs[e.sector]
  BY EntryForm
<1>3. QueueMatchesSectors(p, more)
  BY <1>2 DEF Sound, QueueMatchesSectors
<1>. QED  BY <1>1, <1>3 DEF Sound

\* add_sectors keeps the partition sound.
LEMMA AddKeepsSound ==
  ASSUME NEW p, NEW secs, Sound(p, secs), NEW new \in SUBSET DOMAIN secs,
         CanAddSectors(p, new)
  PROVE  Sound(add_sectors(p, secs, new), secs)
<1>. DEFINE q == add_sectors(p, secs, new)
            entries == {OnTime(secs[s], s) : s \in new}
<1>1. /\ q.sectors = p.sectors \cup new
      /\ q.unproven = p.unproven \cup new
      /\ q.faults = p.faults
      /\ q.recoveries = p.recoveries
      /\ q.terminated = p.terminated
      /\ q.expirations = p.expirations \cup entries
      /\ q.early_terminations = p.early_terminations
  BY DEF add_sectors, add_active_sectors, Sound, PartitionsOver
<1>2. \A s \in new : secs[s] \in Blocks
  BY DEF Sound
<1>3. q \in PartitionsOver(DOMAIN secs, Blocks)
  <2>1. entries \subseteq Entries(Blocks, DOMAIN secs)
    BY <1>2 DEF Entries, OnTime
  <2>2. add_active_sectors(p.expirations, secs, new)
          \subseteq Entries(Blocks, DOMAIN secs)
    BY <2>1, PartitionFields DEF add_active_sectors
  <2>. QED  BY <2>2 DEF add_sectors, Sound, PartitionsOver
<1>4. SectorStatesConsistent(q)
  BY <1>1 DEF Sound, SectorStatesConsistent, live_sectors, CanAddSectors
<1>5. QueueMatchesSectors(q, secs)
  <2>1. \A s : /\ OnTime(secs[s], s).sector = s
              /\ OnTime(secs[s], s).kind = "on_time"
              /\ OnTime(secs[s], s).block = secs[s]
    BY DEF OnTime
  <2>2. SectorsIn(entries) = new
    BY <2>1 DEF SectorsIn
  <2>3. new \subseteq live_sectors(q) /\ live_sectors(q) \ new = live_sectors(p)
        /\ new \cap live_sectors(p) = {}
    BY <1>1 DEF live_sectors, Sound, SectorStatesConsistent, CanAddSectors
  <2>4. \A e \in p.expirations : e.sector \notin new
    BY <2>3, EntryForm
  <2>5. q.expirations = Without(p.expirations, new) \cup entries
    BY <1>1, <2>4 DEF Without
  <2>. QED
    <3>1. \A e, f \in entries : e.sector = f.sector => e = f
      BY <2>1
    <3>2. \A e \in entries : e.kind = "on_time" /\ e.block = secs[e.sector]
      BY <2>1
    <3>3. SectorsIn(entries) \cap live_sectors(q) = SectorsIn(entries)
          /\ live_sectors(p) \ new = live_sectors(q) \ SectorsIn(entries)
          /\ SectorsIn(entries) \subseteq new
      BY <2>2, <2>3
    <3>4. p.faults \ new \subseteq q.faults
      BY <1>1
    <3>. HIDE DEF q, entries
    <3>. QED  BY <3>1, <3>2, <3>3, <3>4, <2>5, QueueStillMatches
<1>6. QueuedTerminations(q) \subseteq q.terminated
  BY <1>1 DEF QueuedTerminations, Sound
<1>. QED  BY <1>3, <1>4, <1>5, <1>6 DEF Sound

\* A faulted sector is a healthy sector of the partition.
LEMMA NewFaultsAreHealthy ==
  ASSUME NEW p, NEW secs, Sound(p, secs), NEW declared,
         CanRecordFaults(p, secs, declared)
  PROVE  NewFaults(p, secs, declared) \subseteq live_sectors(p) \ p.faults
<1>1. NewFaults(p, secs, declared) \subseteq live_sectors(p)
  BY FoundAreLive DEF CanRecordFaults
<1>. QED  BY <1>1 DEF NewFaults

\* record_faults keeps the partition sound.
LEMMA FaultsKeepSound ==
  ASSUME NEW p, NEW secs, Sound(p, secs), NEW declared, NEW b \in Blocks,
         CanRecordFaults(p, secs, declared)
  PROVE  Sound(record_faults(p, secs, declared, b), secs)
<1>. DEFINE q == record_faults(p, secs, declared, b)
            faulty == NewFaults(p, secs, declared)
            retracted == p.recoveries \cap declared \cap DOMAIN secs
            moved == MovedEarly(secs, faulty, b)
            entries == EarlyEntries(b, moved)
            Q == reschedule_as_faults(p.expirations, secs, faulty, b)
<1>1. /\ q.sectors = p.sectors
      /\ q.unproven = p.unproven \ faulty
      /\ q.faults = p.faults \cup faulty
      /\ q.recoveries = p.recoveries \ retracted
      /\ q.terminated = p.terminated
      /\ q.expirations = Q
      /\ q.early_terminations = p.early_terminations
  BY DEF record_faults, remove_recoveries, add_faults, Sound, PartitionsOver
<1>2. /\ faulty \subseteq live_sectors(p) \ p.faults
      /\ faulty \subseteq DOMAIN secs
  BY NewFaultsAreHealthy DEF NewFaults
<1>3. Q = Without(p.expirations, moved) \cup entries
  BY <1>2, FaultsMove
<1>4. q \in PartitionsOver(DOMAIN secs, Blocks)
  <2>1. entries \subseteq Entries(Blocks, DOMAIN secs)
    BY <1>2 DEF Entries, Early, EarlyEntries, MovedEarly
  <2>2. Q \subseteq Entries(Blocks, DOMAIN secs)
    BY <1>3, <2>1, PartitionFields DEF Without
  <2>. HIDE DEF faulty, Q
  <2>3. add_faults(p, secs, faulty, b) \in PartitionsOver(DOMAIN secs, Blocks)
    BY <1>2, <2>2 DEF add_faults, Sound, PartitionsOver, Q
  <2>. QED
    BY <2>3 DEF record_faults, remove_recoveries, PartitionsOver, faulty
<1>. HIDE DEF q, Q
<1>5. SectorStatesConsistent(q)
  BY <1>1, <1>2 DEF Sound, SectorStatesConsistent, live_sectors
<1>6. QueueMatchesSectors(q, secs)
  <2>1. \A s : /\ Early(b, s).sector = s
              /\ Early(b, s).kind # "on_time"
              /\ Early(b, s).block = b
    BY DEF Early
  <2>2. SectorsIn(entries) = moved
    BY <2>1 DEF SectorsIn, EarlyEntries
  <2>3. live_sectors(q) = live_sectors(p)
    BY <1>1 DEF live_sectors
  <2>4. moved \subseteq live_sectors(p) /\ moved \subseteq q.faults
    BY <1>1, <1>2 DEF MovedEarly
  <2>5. \A e, f \in entries : e.sector = f.sector => e = f
    BY <2>1 DEF EarlyEntries
  <2>6. \A e \in entries : /\ e.kind # "on_time"
                           /\ e.sector \in q.faults
                           /\ e.block < secs[e.sector]
    <3>1. \A s \in moved : secs[s] \in Blocks
      BY <1>2 DEF Sound, MovedEarly
    <3>. QED  BY <2>1, <2>4, <3>1 DEF EarlyEntries, MovedEarly
  <2>7. p.faults \ moved \subseteq q.faults
    BY <1>1
  <2>8. q.expirations = Without(p.expirations, moved) \cup entries
    BY <1>1, <1>3
  <2>9. /\ SectorsIn(entries) \cap live_sectors(q) = SectorsIn(entries)
        /\ live_sectors(p) \ moved = live_sectors(q) \ SectorsIn(entries)
        /\ SectorsIn(entries) \subseteq moved
    BY <2>2, <2>3, <2>4
  <2>. HIDE DEF entries, moved
  <2>. QED
    BY <2>5, <2>6, <2>7, <2>8, <2>9, QueueStillMatches
<1>7. QueuedTerminations(q) \subseteq q.terminated
  BY <1>1 DEF QueuedTerminations, Sound
<1>. QED  BY <1>4, <1>5, <1>6, <1>7 DEF Sound, q

\* declare_faults_recovered keeps the partition sound.
LEMMA DeclaredKeepsSound ==
  ASSUME NEW p, NEW secs, Sound(p, secs), NEW declared
  PROVE  Sound(declare_faults_recovered(p, declared), secs)
<1>. DEFINE q == declare_faults_recovered(p, declared)
<1>1. /\ q.sectors = p.sectors
      /\ q.unproven = p.unproven
      /\ q.faults = p.faults
      /\ q.recoveries = p.recoveries \cup (declared \cap p.faults)
      /\ q.terminated = p.terminated
      /\ q.expirations = p.expirations
      /\ q.early_terminations = p.early_terminations
      /\ q \in PartitionsOver(DOMAIN secs, Blocks)
  BY DEF declare_faults_recovered, Sound, PartitionsOver
<1>. QED
  BY <1>1 DEF Sound, SectorStatesConsistent, QueueMatchesSectors,
              QueuedTerminations, live_sectors

\* What record_proven does to a partition (recover the declared recoveries,
\* activate the unproven sectors) keeps it sound.
LEMMA ProvenKeepsSound ==
  ASSUME NEW p, NEW secs, Sound(p, secs)
  PROVE  Sound(activate_unproven(recover_all_declared_recoveries(p, secs)), secs)
<1>. DEFINE r == recover_all_declared_recoveries(p, secs)
            q == activate_unproven(r)
            moved == MovedBack(p.expirations, p.recoveries)
            entries == OnTimeEntries(secs, moved)
            Q == reschedule_recovered(p.expirations, secs, p.recoveries)
<1>1. /\ q.sectors = p.sectors
      /\ q.unproven = {}
      /\ q.faults = p.faults \ p.recoveries
      /\ q.recoveries = {}
      /\ q.terminated = p.terminated
      /\ q.expirations = Q
      /\ q.early_terminations = p.early_terminations
  BY DEF activate_unproven, recover_all_declared_recoveries, Sound,
         PartitionsOver
<1>2. p.recoveries \subseteq live_sectors(p) /\ p.recoveries \subseteq DOMAIN secs
  BY PartitionFields DEF Sound, SectorStatesConsistent
<1>3. Q = Without(p.expirations, moved) \cup entries
  BY <1>2, RecoveredMove
<1>4. \A s \in moved : secs[s] \in Blocks
  BY <1>2 DEF Sound, MovedBack
<1>5. q \in PartitionsOver(DOMAIN secs, Blocks)
  <2>1. entries \subseteq Entries(Blocks, DOMAIN secs)
    BY <1>2, <1>4 DEF Entries, OnTime, OnTimeEntries, MovedBack
  <2>2. Q \subseteq Entries(Blocks, DOMAIN secs)
    BY <1>3, <2>1, PartitionFields DEF Without
  <2>. HIDE DEF Q
  <2>3. r \in PartitionsOver(DOMAIN secs, Blocks)
    BY <2>2 DEF recover_all_declared_recoveries, Sound, PartitionsOver, Q
  <2>. QED  BY <2>3 DEF activate_unproven, PartitionsOver
<1>. HIDE DEF r, q, Q
<1>6. SectorStatesConsistent(q)
  BY <1>1 DEF Sound, SectorStatesConsistent, live_sectors
<1>7. QueueMatchesSectors(q, secs)
  <2>1. \A s : /\ OnTime(secs[s], s).sector = s
              /\ OnTime(secs[s], s).kind = "on_time"
              /\ OnTime(secs[s], s).block = secs[s]
    BY DEF OnTime
  <2>2. SectorsIn(entries) = moved
    BY <2>1 DEF SectorsIn, OnTimeEntries
  <2>3. live_sectors(q) = live_sectors(p) /\ moved \subseteq live_sectors(p)
    BY <1>1, <1>2 DEF live_sectors, MovedBack
  <2>4. \A e, f \in entries : e.sector = f.sector => e = f
    BY <2>1 DEF OnTimeEntries
  <2>5. \A e \in entries : e.kind = "on_time" /\ e.block = secs[e.sector]
    BY <2>1 DEF OnTimeEntries
  <2>6. \A e \in Q : IF e.kind = "on_time" THEN e.block = secs[e.sector]
                    ELSE e.sector \in q.faults /\ e.block < secs[e.sector]
    <3>1. ASSUME NEW e \in p.expirations, e.sector \notin moved,
                 e.kind # "on_time"
          PROVE  e.sector \in q.faults
      BY <3>1, <1>1, EntryForm DEF MovedBack
    <3>. QED  BY <1>3, <2>5, <3>1 DEF Sound, QueueMatchesSectors, Without
  <2>7. \A e, f \in Q : e.sector = f.sector => e = f
    <3>1. \A e \in entries : e.sector \in moved
      BY <2>2 DEF SectorsIn
    <3>. QED  BY <1>3, <2>4, <3>1 DEF Sound, QueueMatchesSectors, Without
  <2>8. SectorsIn(Q) = live_sectors(p)
    <3>1. SectorsIn(p.expirations) = live_sectors(p)
      BY DEF Sound, QueueMatchesSectors
    <3>2. SectorsIn(Without(p.expirations, moved))
            = live_sectors(p) \ moved
      BY <3>1 DEF SectorsIn, Without
    <3>3. SectorsIn(Q) = SectorsIn(Without(p.expirations, moved))
                           \cup SectorsIn(entries)
      BY <1>3 DEF SectorsIn
    <3>. QED  BY <2>2, <2>3, <3>2, <3>3
  <2>. QED  BY <1>1, <2>3, <2>6, <2>7, <2>8 DEF QueueMatchesSectors
<1>8. QueuedTerminations(q) \subseteq q.terminated
  BY <1>1 DEF QueuedTerminations, Sound
<1>. QED  BY <1>5, <1>6, <1>7, <1>8 DEF Sound, q, r

\* Writing an entry of the map of early terminations: the map stays a map, and
\* queues nothing but the new sectors and sectors it queued before.
LEMMA PutEntry ==
  ASSUME NEW m, NEW N, m \in EarlyMaps(N, Blocks),
         NEW b \in Blocks, NEW S \in SUBSET N
  PROVE  /\ Put(m, b, S) \in EarlyMaps(N, Blocks)
         /\ QueuedIn(Put(m, b, S)) \subseteq S \cup QueuedIn(m)
<1>1. DOMAIN m \subseteq Blocks /\ m \in [DOMAIN m -> SUBSET N]
  BY MapIsFunction
<1>2. DOMAIN Put(m, b, S) = DOMAIN m \cup {b}
  BY DEF Put
<1>3. Put(m, b, S) \in [DOMAIN Put(m, b, S) -> SUBSET N]
  BY <1>1 DEF Put
<1>4. Put(m, b, S) \in EarlyMaps(N, Blocks)
  BY <1>1, <1>2, <1>3, FunctionIsMap
<1>5. ASSUME NEW c \in DOMAIN Put(m, b, S)
      PROVE  Put(m, b, S)[c] \subseteq S \cup QueuedIn(m)
  BY DEF Put, QueuedIn
<1>. QED  BY <1>4, <1>5 DEF QueuedIn

\* terminate_sectors keeps the partition sound.
LEMMA TerminateKeepsSound ==
  ASSUME NEW p, NEW secs, Sound(p, secs), NEW numbers, NEW b \in Blocks,
         CanTerminate(p, secs, numbers)
  PROVE  /\ Sound(terminate_sectors(p, b, secs, numbers), secs)
         /\ SectorsIn(Terminated(p, secs, numbers)) = numbers
<1>. DEFINE q == terminate_sectors(p, b, secs, numbers)
<1>1. numbers \subseteq live_sectors(p) /\ numbers \subseteq DOMAIN secs
      /\ numbers \cap DOMAIN secs = numbers
  BY PartitionFields DEF CanTerminate, live_sectors
<1>2. Terminated(p, secs, numbers) = {e \in p.expirations : e.sector \in numbers}
  BY <1>1, RemovedEntries DEF Terminated
<1>3. SectorsIn(Terminated(p, secs, numbers)) = numbers
  <2>1. SectorsIn(p.expirations) = live_sectors(p)
    BY DEF Sound, QueueMatchesSectors
  <2>. QED  BY <1>1, <1>2, <2>1 DEF SectorsIn
<1>4. /\ q.sectors = p.sectors
      /\ q.unproven = p.unproven \ numbers
      /\ q.faults = p.faults \ numbers
      /\ q.recoveries = p.recoveries \ numbers
      /\ q.terminated = p.terminated \cup numbers
      /\ q.expirations = p.expirations \ Terminated(p, secs, numbers)
      /\ q.early_terminations = Put(p.early_terminations, b, numbers)
  BY <1>3 DEF terminate_sectors, record_early_terminations, Sound,
              PartitionsOver
<1>5. /\ Put(p.early_terminations, b, numbers)
           \in EarlyMaps(DOMAIN secs, Blocks)
      /\ QueuedTerminations(q) \subseteq numbers \cup QueuedTerminations(p)
  BY <1>1, <1>4, PutEntry, PartitionFields DEF QueuedTerminations
<1>6. q \in PartitionsOver(DOMAIN secs, Blocks)
  BY <1>1, <1>3, <1>5
     DEF terminate_sectors, record_early_terminations, Sound, PartitionsOver
<1>. HIDE DEF q
<1>7. SectorStatesConsistent(q)
  BY <1>1, <1>4 DEF Sound, SectorStatesConsistent, live_sectors
<1>8. QueueMatchesSectors(q, secs)
  <2>1. q.expirations = Without(p.expirations, numbers) \cup {}
    BY <1>2, <1>4 DEF Without
  <2>2. live_sectors(q) = live_sectors(p) \ numbers
    BY <1>4 DEF live_sectors
  <2>3. SectorsIn({}) = {}
    BY DEF SectorsIn
  <2>4. p.faults \ numbers \subseteq q.faults
    BY <1>4
  <2>. QED  BY <2>1, <2>2, <2>3, <2>4, QueueStillMatches
<1>9. QueuedTerminations(q) \subseteq q.terminated
  BY <1>4, <1>5 DEF Sound
<1>. QED  BY <1>3, <1>6, <1>7, <1>8, <1>9 DEF Sound, q

\* pop_early_terminations keeps the partition sound: it only takes sectors out
\* of the map of early terminations.
LEMMA PopEarlyKeepsSound ==
  ASSUME NEW p, NEW secs, Sound(p, secs), NEW max_sectors
  PROVE  Sound(pop_early_terminations(p, max_sectors), secs)
<1>. DEFINE q == pop_early_terminations(p, max_sectors)
            m == p.early_terminations
<1>1. DOMAIN m \subseteq Blocks /\ m \in [DOMAIN m -> SUBSET DOMAIN secs]
  BY PartitionFields, MapIsFunction
<1>2. /\ DOMAIN q.early_terminations \subseteq DOMAIN m
      /\ \A b \in DOMAIN q.early_terminations :
           q.early_terminations[b] \subseteq m[b]
      /\ q.early_terminations
           \in [DOMAIN q.early_terminations -> SUBSET DOMAIN secs]
  BY <1>1 DEF pop_early_terminations, Sound, PartitionsOver
<1>3. q.early_terminations
        \in EarlyMaps(DOMAIN secs, Blocks)
  BY <1>1, <1>2, FunctionIsMap
<1>4. /\ q.sectors = p.sectors
      /\ q.unproven = p.unproven
      /\ q.faults = p.faults
      /\ q.recoveries = p.recoveries
      /\ q.terminated = p.terminated
      /\ q.expirations = p.expirations
  BY DEF pop_early_terminations, Sound, PartitionsOver
<1>5. q = [p EXCEPT !.early_terminations = q.early_terminations]
  BY DEF pop_early_terminations, Sound, PartitionsOver
<1>. HIDE DEF q
<1>6. q \in PartitionsOver(DOMAIN secs, Blocks)
  BY <1>3, <1>5 DEF Sound, PartitionsOver
<1>7. QueuedTerminations(q) \subseteq QueuedTerminations(p)
  BY <1>2 DEF QueuedTerminations, QueuedIn
<1>. QED
  BY <1>4, <1>6, <1>7 DEF Sound, SectorStatesConsistent, QueueMatchesSectors,
                          live_sectors, q

\* pop_expired_sectors keeps the partition sound.
LEMMA PopExpiredKeepsSound ==
  ASSUME NEW p, NEW secs, Sound(p, secs), NEW until \in Blocks,
         CanPopExpired(p, until)
  PROVE  Sound(pop_expired_sectors(p, until), secs)
<1>. DEFINE q == pop_expired_sectors(p, until)
            popped == pop_until(p.expirations, until)
            expired == SectorsIn(popped)
            early == EarlyExpired(p, until)
<1>1. /\ popped \subseteq p.expirations
      /\ early \subseteq expired
  BY DEF pop_until, EarlyExpired, SectorsIn
<1>2. expired \subseteq live_sectors(p) /\ expired \subseteq DOMAIN secs
  BY <1>1, EntryForm DEF SectorsIn
<1>3. popped = {e \in p.expirations : e.sector \in expired}
  <2>1. ASSUME NEW e \in p.expirations, e.sector \in expired PROVE e \in popped
    <3>1. PICK f \in popped : f.sector = e.sector
      BY <2>1 DEF SectorsIn
    <3>2. f = e
      BY <1>1, <3>1 DEF Sound, QueueMatchesSectors
    <3>. QED  BY <3>2
  <2>2. \A e \in popped : e.sector \in expired
    BY DEF SectorsIn
  <2>. QED  BY <1>1, <2>1, <2>2
<1>4. /\ q.sectors = p.sectors
      /\ q.unproven = p.unproven
      /\ q.faults = p.faults \ expired
      /\ q.recoveries = p.recoveries
      /\ q.terminated = p.terminated \cup expired
      /\ q.expirations = p.expirations \ popped
      /\ q.early_terminations = Put(p.early_terminations, until, early)
  BY DEF pop_expired_sectors, record_early_terminations, Sound, PartitionsOver
<1>5. /\ Put(p.early_terminations, until, early)
           \in EarlyMaps(DOMAIN secs, Blocks)
      /\ QueuedTerminations(q) \subseteq early \cup QueuedTerminations(p)
  <2>1. early \in SUBSET DOMAIN secs
    BY <1>1, <1>2
  <2>. QED  BY <1>4, <2>1, PutEntry, PartitionFields DEF QueuedTerminations
<1>6. q \in PartitionsOver(DOMAIN secs, Blocks)
  BY <1>2, <1>5
     DEF pop_expired_sectors, record_early_terminations, Sound, PartitionsOver
<1>. HIDE DEF q
<1>7. SectorStatesConsistent(q)
  BY <1>2, <1>4 DEF Sound, SectorStatesConsistent, live_sectors, CanPopExpired
<1>8. QueueMatchesSectors(q, secs)
  <2>1. q.expirations = Without(p.expirations, expired) \cup {}
    BY <1>3, <1>4 DEF Without
  <2>2. live_sectors(q) = live_sectors(p) \ expired
    BY <1>4 DEF live_sectors
  <2>3. SectorsIn({}) = {}
    BY DEF SectorsIn
  <2>4. p.faults \ expired \subseteq q.faults
    BY <1>4
  <2>. QED  BY <2>1, <2>2, <2>3, <2>4, QueueStillMatches
<1>9. QueuedTerminations(q) \subseteq q.terminated
  BY <1>1, <1>4, <1>5 DEF Sound
<1>. QED  BY <1>6, <1>7, <1>8, <1>9 DEF Sound, q
-----------------------------------------------------------------------------
(* The theorems.                                                           *)

\* The provider's map of sectors is one, and stays one when it is extended.
LEMMA SectorsExtended ==
  ASSUME sectors \in [DOMAIN sectors -> Blocks],
         NEW new, NEW expirations \in [new -> Blocks],
         new \cap DOMAIN sectors = {}
  PROVE  /\ DOMAIN Extended(new, expirations) = DOMAIN sectors \cup new
         /\ Extended(new, expirations)
              \in [DOMAIN Extended(new, expirations) -> Blocks]
         /\ \A s \in DOMAIN sectors : Extended(new, expirations)[s] = sectors[s]
  BY DEF Extended

\* The inductive invariant: the partition is sound with respect to the
\* provider's sectors.
IInv == Sound(partition, sectors) /\ DOMAIN sectors \subseteq SectorNumbers

\* Partition::new satisfies the inductive invariant.
LEMMA InitSound == Init => IInv
<1>. SUFFICES ASSUME Init PROVE IInv
  OBVIOUS
<1>1. sectors \in [DOMAIN sectors -> Blocks] /\ DOMAIN sectors = {}
  BY DEF Init
<1>. QED  BY <1>1, NewIsSound DEF Init, IInv

\* Every call keeps it.
LEMMA StepSound == IInv /\ [Next]_vars => IInv'
<1>. SUFFICES ASSUME IInv, [Next]_vars PROVE IInv'
  OBVIOUS
<1>. USE DEF IInv
<1>0. /\ sectors \in [DOMAIN sectors -> Blocks]
      /\ DOMAIN sectors \subseteq Nat
  BY DEF Sound
<1>1. CASE AddSectors
  <2>1. PICK new \in SUBSET (SectorNumbers \ DOMAIN sectors) :
        \E expirations \in [new -> Blocks] :
          /\ CanAddSectors(partition, new)
          /\ sectors' = Extended(new, expirations)
          /\ partition' = add_sectors(partition, sectors', new)
    BY <1>1 DEF AddSectors
  <2>2. PICK expirations \in [new -> Blocks] :
          /\ CanAddSectors(partition, new)
          /\ sectors' = Extended(new, expirations)
          /\ partition' = add_sectors(partition, sectors', new)
    BY <2>1
  <2>3. /\ DOMAIN sectors' = DOMAIN sectors \cup new
        /\ sectors' \in [DOMAIN sectors' -> Blocks]
        /\ \A s \in DOMAIN sectors : sectors'[s] = sectors[s]
    BY <1>0, <2>2, SectorsExtended
  <2>4. DOMAIN sectors' \subseteq Nat /\ DOMAIN sectors' \subseteq SectorNumbers
    BY <1>0, <2>3, BlocksAssumption
  <2>5. Sound(partition, sectors')
    BY <2>3, <2>4, MoreSectors
  <2>6. Sound(partition', sectors')
    BY <2>2, <2>3, <2>5, AddKeepsSound
  <2>. QED  BY <2>4, <2>6
<1>2. CASE AddElsewhere
  <2>1. PICK s \in SectorNumbers \ DOMAIN sectors, b \in Blocks :
          /\ sectors' = Extended({s}, [t \in {s} |-> b])
          /\ UNCHANGED partition
    BY <1>2 DEF AddElsewhere
  <2>2. PICK expirations \in [{s} -> Blocks] :
          sectors' = Extended({s}, expirations)
    BY <2>1
  <2>3. /\ DOMAIN sectors' = DOMAIN sectors \cup {s}
        /\ sectors' \in [DOMAIN sectors' -> Blocks]
        /\ \A t \in DOMAIN sectors : sectors'[t] = sectors[t]
    BY <1>0, <2>1, <2>2 DEF Extended
  <2>4. DOMAIN sectors' \subseteq Nat /\ DOMAIN sectors' \subseteq SectorNumbers
    BY <1>0, <2>3, BlocksAssumption
  <2>5. Sound(partition, sectors')
    BY <2>3, <2>4, MoreSectors
  <2>. QED  BY <2>1, <2>4, <2>5
<1>3. CASE RecordFaults
  BY <1>3, FaultsKeepSound DEF RecordFaults
<1>4. CASE DeclareFaultsRecovered
  BY <1>4, DeclaredKeepsSound DEF DeclareFaultsRecovered
<1>5. CASE RecordProven
  BY <1>5, ProvenKeepsSound DEF RecordProven
<1>6. CASE TerminateSectors
  BY <1>6, TerminateKeepsSound DEF TerminateSectors
<1>7. CASE PopEarlyTerminations
  BY <1>7, PopEarlyKeepsSound DEF PopEarlyTerminations
<1>8. CASE PopExpiredSectors
  BY <1>8, PopExpiredKeepsSound DEF PopExpiredSectors
<1>9. CASE UNCHANGED vars
  BY <1>9 DEF vars
<1>. QED
  BY <1>1, <1>2, <1>3, <1>4, <1>5, <1>6, <1>7, <1>8, <1>9 DEF Next

\* The inductive invariant holds whatever calls are made on a partition.
THEOREM PartitionInvariance == Spec => []IInv
  BY InitSound, StepSound, PTL DEF Spec

\* The partition's sets and queues hold the provider's sectors and the blocks
\* that were passed.
THEOREM PartitionTypeCorrect == Spec => []PartitionTypeOK
<1>1. IInv => PartitionTypeOK
  <2>. SUFFICES ASSUME IInv PROVE PartitionTypeOK
    OBVIOUS
  <2>1. /\ sectors \in [DOMAIN sectors -> Blocks]
        /\ DOMAIN sectors \in SUBSET SectorNumbers
        /\ partition \in PartitionsOver(DOMAIN sectors, Blocks)
    BY DEF IInv, Sound
  <2>. QED  BY <2>1 DEF PartitionTypeOK
<1>. QED  BY <1>1, PartitionInvariance, PTL

\* A faulty sector is never also unproven, only faulty sectors recover, and
\* what record_faults, terminate_sectors and pop_expired_sectors take out of
\* these sets stays out.
THEOREM StatesConsistent == Spec => []PartitionStatesConsistent
<1>1. IInv => PartitionStatesConsistent
  BY DEF IInv, Sound, PartitionStatesConsistent
<1>. QED  BY <1>1, PartitionInvariance, PTL

\* Every live sector, and no other, is in the expiration queue, once, at its
\* expiration or sooner if it is faulty.
THEOREM QueueCorrect == Spec => []ExpirationsMatchSectors
<1>1. IInv => ExpirationsMatchSectors
  BY DEF IInv, Sound, ExpirationsMatchSectors
<1>. QED  BY <1>1, PartitionInvariance, PTL

\* Only terminated sectors are queued to have their deals terminated.
THEOREM TerminationsCorrect == Spec => []EarlyTerminationsAreTerminated
<1>1. IInv => EarlyTerminationsAreTerminated
  BY DEF IInv, Sound, EarlyTerminationsAreTerminated
<1>. QED  BY <1>1, PartitionInvariance, PTL

\* A sound partition never returns the errors that stand for a broken queue.
LEMMA SoundNeverFails ==
  ASSUME IInv
  PROVE  InternalErrorsUnreachable
<1>. DEFINE p == partition
<1>0. Sound(p, sectors)
  BY DEF IInv
<1>1. ASSUME NEW declared \in SUBSET p.sectors
      PROVE  CanRecordFaults(p, sectors, declared)
  <2>1. NewFaults(p, sectors, declared) \subseteq live_sectors(p) \ p.faults
    BY DEF NewFaults, live_sectors
  <2>. QED  BY <1>0, <2>1, HealthyCanBeFound DEF CanRecordFaults
<1>2. ASSUME NEW s \in live_sectors(p)
      PROVE  EntriesOf(p.expirations, s) # {}
  BY <1>0, OneEntry
<1>3. CanRecoverAll(p, sectors)
  <2>1. p.recoveries \subseteq live_sectors(p)
    BY <1>0 DEF Sound, SectorStatesConsistent
  <2>2. p.recoveries \subseteq DOMAIN sectors
    BY <1>0, PartitionFields
  <2>. QED  BY <1>2, <2>1, <2>2 DEF CanRecoverAll, CanRecover
<1>4. ASSUME NEW numbers \in SUBSET live_sectors(p)
      PROVE  CanTerminate(p, sectors, numbers)
  <2>1. (numbers \cap DOMAIN sectors) \ p.faults \subseteq live_sectors(p) \ p.faults
    OBVIOUS
  <2>2. CanFind(p.expirations, sectors, (numbers \cap DOMAIN sectors) \ p.faults)
    BY <1>0, <2>1, HealthyCanBeFound
  <2>. QED  BY <1>2, <2>2 DEF CanTerminate, CanRemove
<1>5. ASSUME NEW until \in Blocks
      PROVE  p.terminated \cap SectorsIn(pop_until(p.expirations, until)) = {}
  <2>1. \A e \in p.expirations : e.sector \notin p.terminated
    BY <1>0, EntryForm DEF live_sectors
  <2>. QED  BY <2>1 DEF SectorsIn, pop_until
<1>. QED  BY <1>1, <1>3, <1>4, <1>5 DEF InternalErrorsUnreachable

\* Faulting sectors of the partition, recovering the declared recoveries,
\* terminating live sectors and expiring due ones never fail.
THEOREM NeverFails == Spec => []InternalErrorsUnreachable
  BY SoundNeverFails, PartitionInvariance, PTL

\* No call takes a sector out of the partition or back from termination, and
\* none changes the expiration of a sector.
LEMMA OnlyGrows ==
  ASSUME IInv, [Next]_vars
  PROVE  /\ partition.sectors \subseteq partition'.sectors
         /\ partition.terminated \subseteq partition'.terminated
         /\ \A s \in DOMAIN sectors : sectors'[s] = sectors[s]
<1>0. /\ sectors \in [DOMAIN sectors -> Blocks]
      /\ partition \in PartitionsOver(DOMAIN sectors, Blocks)
  BY DEF IInv, Sound
<1>. USE <1>0 DEF PartitionsOver
<1>1. CASE AddSectors
  BY <1>1 DEF AddSectors, Extended, add_sectors
<1>2. CASE AddElsewhere
  BY <1>2 DEF AddElsewhere, Extended
<1>3. CASE RecordFaults
  BY <1>3 DEF RecordFaults, record_faults, remove_recoveries, add_faults
<1>4. CASE DeclareFaultsRecovered
  BY <1>4 DEF DeclareFaultsRecovered, declare_faults_recovered
<1>5. CASE RecordProven
  BY <1>5 DEF RecordProven, activate_unproven, recover_all_declared_recoveries
<1>6. CASE TerminateSectors
  BY <1>6 DEF TerminateSectors, terminate_sectors, record_early_terminations
<1>7. CASE PopEarlyTerminations
  BY <1>7 DEF PopEarlyTerminations, pop_early_terminations
<1>8. CASE PopExpiredSectors
  BY <1>8 DEF PopExpiredSectors, pop_expired_sectors, record_early_terminations
<1>9. CASE UNCHANGED vars
  BY <1>9 DEF vars
<1>. QED
  BY <1>1, <1>2, <1>3, <1>4, <1>5, <1>6, <1>7, <1>8, <1>9 DEF Next

\* What a call takes out of the expiration queue is terminated or queued again,
\* and a sector whose fault is recovered expires on time again.
THEOREM NothingLost == Spec => NoExpirationLost
<1>1. ASSUME IInv, [Next]_vars
      PROVE  /\ \A e \in partition.expirations \ partition'.expirations :
                  \/ e.sector \in partition'.terminated
                  \/ EntriesOf(partition'.expirations, e.sector) # {}
             /\ \A s \in partition.faults \ partition'.faults :
                  \/ s \in partition'.terminated
                  \/ OnTime(sectors[s], s) \in partition'.expirations
             /\ partition.terminated \subseteq partition'.terminated
  <2>1. IInv'
    BY <1>1, StepSound
  <2>2. Sound(partition, sectors) /\ Sound(partition', sectors')
    BY <1>1, <2>1 DEF IInv
  <2>3. /\ partition.sectors \subseteq partition'.sectors
        /\ partition.terminated \subseteq partition'.terminated
        /\ \A s \in DOMAIN sectors : sectors'[s] = sectors[s]
    BY <1>1, OnlyGrows
  <2>4. ASSUME NEW s \in live_sectors(partition), s \notin partition'.terminated
        PROVE  s \in live_sectors(partition')
    BY <2>3, <2>4 DEF live_sectors
  <2>5. ASSUME NEW e \in partition.expirations,
               e.sector \notin partition'.terminated
        PROVE  EntriesOf(partition'.expirations, e.sector) # {}
    <3>1. e.sector \in live_sectors(partition)
      BY <2>2, EntryForm
    <3>2. e.sector \in live_sectors(partition')
      BY <2>4, <2>5, <3>1
    <3>. QED  BY <2>2, <3>2, OneEntry
  <2>6. ASSUME NEW s \in partition.faults \ partition'.faults,
               s \notin partition'.terminated
        PROVE  OnTime(sectors[s], s) \in partition'.expirations
    <3>1. s \in live_sectors(partition) /\ s \in DOMAIN sectors
      BY <2>2, PartitionFields DEF Sound, SectorStatesConsistent
    <3>2. s \in live_sectors(partition') \ partition'.faults
      BY <2>4, <2>6, <3>1
    <3>3. OnTime(sectors'[s], s) \in partition'.expirations
      BY <2>2, <3>2, HealthyOnTime
    <3>. QED  BY <2>3, <3>1, <3>3
  <2>. QED  BY <2>3, <2>5, <2>6
<1>. QED  BY <1>1, PartitionInvariance, PTL DEF Spec, NoExpirationLost
=============================================================================
