-------------------------- MODULE MCStorageProvider --------------------------
(* Small instances of StorageProvider: three deadlines of two blocks.        *)
EXTENDS StorageProvider

OneProvider == <<"alice">>

TwoProviders == <<"alice", "bob">>

Sectors1 == 1 .. 1

Sectors2 == 1 .. 2

NoOffset == {0}

SectorsOf(sp) == DOMAIN sp.sectors \cup DOMAIN sp.pre_committed_sectors

\* Bound: a provider with two sectors is followed until the first proving
\* period is over, one with a single sector until MaxBlock.
LastBlockOfTwo == 12

Horizon ==
  \/ block <= LastBlockOfTwo
  \/ \A a \in DOMAIN providers : Cardinality(SectorsOf(providers[a])) <= 1
=============================================================================
