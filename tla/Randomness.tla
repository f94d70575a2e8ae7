------------------------------ MODULE Randomness ------------------------------
(***************************************************************************)
(* The randomness pallet (pallets/randomness/src/lib.rs): the VRF of the   *)
(* author of each block, and a history of them that the proofs draw their  *)
(* challenges from.  A VRF is named by the block that carried it; 0 is the *)
(* default value of AuthorVrf.                                             *)
(***************************************************************************)
EXTENDS Blocks, FiniteSets

CONSTANT HISTORY_SIZE

ASSUME HistoryAssumption == HISTORY_SIZE \in Nat \ {0}

VARIABLES
  author_vrf,
  history,        \* AuthorVrfHistory, from blocks to VRFs
  drawn           \* the blocks that carried a VRF

randomnessVars == <<block, author_vrf, history, drawn>>

RandomnessInit ==
  /\ block = FirstBlock
  /\ author_vrf = 0
  /\ history = << >>
  /\ drawn = {}

\* Mutant: the entry removed is one short of the window.
Removed_recent(n) ==
  IF Cardinality(DOMAIN history) = HISTORY_SIZE THEN {n - HISTORY_SIZE + 1}
  ELSE {}

\* The block whose entry block n removes.
Removed(n) ==
  IF Cardinality(DOMAIN history) = HISTORY_SIZE THEN {n - HISTORY_SIZE}
  ELSE {}

\* Mutant: the history is not written when the value replaces an old one.
Inserted_lazily(n) ==
  [b \in (DOMAIN history \ Removed(n)) \cup (IF author_vrf = 0 THEN {n} ELSE {}) |->
     IF b = n THEN n ELSE history[b]]

Inserted(n) ==
  [b \in (DOMAIN history \ Removed(n)) \cup {n} |->
     IF b = n THEN n ELSE history[b]]

\* A block in a primary slot: its inherent records the author's VRF.
set_author_vrf ==
  /\ block < MaxBlock
  /\ block' = block + 1
  /\ author_vrf' = block + 1
  /\ history' = Inserted(block + 1)
  /\ drawn' = drawn \cup {block + 1}

\* A block in a secondary slot carries none: the inherent keeps the old values.
set_author_vrf_none ==
  /\ block < MaxBlock
  /\ block' = block + 1
  /\ UNCHANGED <<author_vrf, history, drawn>>

RandomnessNext == set_author_vrf \/ set_author_vrf_none

RandomnessSpec == RandomnessInit /\ [][RandomnessNext]_randomnessVars

-----------------------------------------------------------------------------

RandomnessTypeOK ==
  /\ block \in Nat
  /\ author_vrf \in 0 .. block
  /\ drawn \subseteq 1 .. block
  /\ DOMAIN history \subseteq drawn
  /\ \A b \in DOMAIN history : history[b] = b

\* Whatever slots the blocks came from, the VRF of each of the last
\* HISTORY_SIZE blocks that carried one can be looked up (author_vrf_history):
\* a proof whose challenge is that recent never fails for want of it.
RecentRandomnessAvailable ==
  \A b \in drawn : b > block - HISTORY_SIZE => b \in DOMAIN history

\* AuthorVrf and the history agree on the newest VRF: no block is recorded in
\* one and not in the other.
LatestOnRecord ==
  \A b \in drawn : b <= author_vrf /\ (author_vrf \in DOMAIN history)

=============================================================================
