--------------------------- MODULE ExpirationQueue ---------------------------
(***************************************************************************)
(* The expiration queue of a partition (expiration_queue.rs): for every    *)
(* sector the block at which it is taken out of the partition, on time     *)
(* (its own expiration) or early (faulty for too long).                    *)
(*                                                                         *)
(* The code keeps a map from blocks to pairs of sets.  Here the queue is   *)
(* the set of its entries, so a block whose two sets are empty, which      *)
(* remove_sectors may leave behind, is a block without entries.  A sector's *)
(* info is its expiration: sectors maps sector numbers to expirations.     *)
(* Every operator comes with a condition under which the code returns Ok.  *)
(***************************************************************************)
EXTENDS Integers, FiniteSetsExt

OnTime(b, s) == [block |-> b, sector |-> s, kind |-> "on_time"]

Early(b, s) == [block |-> b, sector |-> s, kind |-> "early"]

Entries(blocks, numbers) ==
  [block : blocks, sector : numbers, kind : {"on_time", "early"}]

EntriesOf(queue, s) == {e \in queue : e.sector = s}

BlocksOf(queue, s) == {e.block : e \in EntriesOf(queue, s)}

OnTimeBlocks(queue, s) == {b \in BlocksOf(queue, s) : OnTime(b, s) \in queue}

SectorsIn(entries) == {e.sector : e \in entries}

add_active_sectors(queue, sectors, new) ==
  queue \cup {OnTime(sectors[s], s) : s \in new}

\* find_sectors_by_expiration: the declared expirations are searched first,
\* then all the other blocks, in both cases in ascending order.
CanFind(queue, sectors, wanted) ==
  \A s \in wanted :
    /\ \E e \in queue : e.block = sectors[s]
    /\ OnTimeBlocks(queue, s) # {}

FoundAt(queue, sectors, wanted, s) ==
  LET declared == OnTimeBlocks(queue, s) \cap {sectors[t] : t \in wanted}
  IN IF declared # {} THEN Min(declared) ELSE Min(OnTimeBlocks(queue, s))

\* Mutant: the rescheduled sectors stay in their old expiration set too.
reschedule_as_faults_twice(queue, sectors, faulty, new_expiration) ==
  LET moved == {s \in faulty :
                  FoundAt(queue, sectors, faulty, s) > new_expiration}
  IN queue \cup {Early(new_expiration, s) : s \in moved}

\* A sector that already expires by new_expiration stays where it is.
reschedule_as_faults(queue, sectors, faulty, new_expiration) ==
  LET at(s) == FoundAt(queue, sectors, faulty, s)
      moved == {s \in faulty : at(s) > new_expiration}
  IN (queue \ {OnTime(at(s), s) : s \in moved})
       \cup {Early(new_expiration, s) : s \in moved}

\* The queue is walked upwards until every recovered sector was met.  One met
\* on time stays, one met early goes back to its own expiration.
CanRecover(queue, recovered) ==
  \A s \in recovered : EntriesOf(queue, s) # {}

\* Mutant: a recovered sector is taken out of the queue for good.
reschedule_recovered_dropped(queue, sectors, recovered) ==
  {e \in queue : e.sector \in recovered => e.kind = "on_time"}

\* Mutant: a recovered sector expires on time, but at the block of its fault.
reschedule_recovered_in_place(queue, sectors, recovered) ==
  LET met(s) == Min(BlocksOf(queue, s))
      moved == {s \in recovered : OnTime(met(s), s) \notin queue}
  IN (queue \ {Early(met(s), s) : s \in moved})
       \cup {OnTime(met(s), s) : s \in moved}

reschedule_recovered(queue, sectors, recovered) ==
  LET met(s) == Min(BlocksOf(queue, s))
      moved == {s \in recovered : OnTime(met(s), s) \notin queue}
  IN (queue \ {Early(met(s), s) : s \in moved})
       \cup {OnTime(sectors[s], s) : s \in moved}

\* Non-faulty sectors are looked up, faulty ones searched for in every block.
CanRemove(queue, sectors, gone, faults) ==
  /\ CanFind(queue, sectors, gone \ faults)
  /\ \A s \in gone \cap faults : EntriesOf(queue, s) # {}

\* The entries remove_sectors takes out.
remove_sectors(queue, sectors, gone, faults) ==
  LET active == gone \ faults
  IN {OnTime(FoundAt(queue, sectors, active, s), s) : s \in active}
       \cup {e \in queue : /\ e.sector \in gone \cap faults
                           /\ \/ e.kind = "on_time"
                              \/ OnTime(e.block, e.sector) \notin queue}

\* The entries pop_until takes out.
pop_until(queue, until) == {e \in queue : e.block <= until}
=============================================================================
