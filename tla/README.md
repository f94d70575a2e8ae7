# Polka Storage in TLA+

Polka Storage is a parachain on which clients pay storage providers to keep
data, and the off-chain server with which a provider seals that data into
sectors and proves that it still has it. This directory models the on-chain
part: the pallets whose state every participant relies on. It holds TLA+
modules translated from the Rust code, TLC configurations that check them on
small instances, and theorems that TLAPS proves for every value of the
constants.

`PROJECT.json` is the machine-readable index: components, runs, the map from
definitions to source lines, mutants, findings, hazards and theorems.

## 1. The system

| Part | Source | State | Operations that change it | Here |
|---|---|---|---|---|
| market pallet | `pallets/market` | balance table, deals, pending hashes, deals by start block, deals by sector | deposit, withdraw, publish, settle; activation and termination called by the storage provider pallet; `on_finalize` | `Market`, `DealLifecycle` |
| storage provider pallet | `pallets/storage-provider` | provider info, pre-committed sectors, sectors, deadlines, partitions, expiration queues, early terminations | register, pre-commit, prove-commit, windowed PoSt, declare faults, declare recoveries, terminate; `on_finalize` | `StorageProvider`, `Deadline`, `Partition`, `ExpirationQueue`, `DeadlineInfo` |
| randomness pallet | `pallets/randomness` | newest VRF, VRF history | the inherent of each block | `Randomness`, `ChainClocks` |
| faucet pallet | `pallets/faucet` | last drip of each account | `drip` | `Faucet`, `ChainClocks` |
| proofs pallet | `pallets/proofs` | verifying keys | set keys, verify | no |
| provider server, pipeline | `storage-provider/server/src/pipeline` | sector database, task queue, sealed files | add piece, pre-commit, prove-commit, windowed PoSt, scheduling | planned |
| provider server, intake | `storage-provider/server/src/{rpc,storage}` | deal database, uploaded pieces | propose, upload, publish | planned |
| polka-index | `storage/polka-index` | piece and block index | add, remove, flag | planned |
| storagext, provider client, mater, proof library, primitives, runtime, node, maat | | none of their own, or bytes and field elements | | no |

How the parts interact. The server proposes and publishes deals on the market,
pre-commits a sector that will hold them (the storage provider pallet asks the
market to verify them), and prove-commits it (the pallet asks the market to
activate them). From then on the sector belongs to a partition of a deadline;
once in every proving period the provider must submit a proof for the
partition while the deadline is open. At the end of each block the storage
provider pallet's hook closes a deadline that has elapsed: it marks sectors
without a proof faulty, expires those that have reached their end, and tells
the market about the sectors that terminated early, which slashes the
provider's collateral. The challenge of a proof comes from the randomness
pallet's history.

What makes it hard:

- An extrinsic is undone when it fails, a hook is not: the same function
  (`on_sectors_terminate`, `slash_and_burn`) is all-or-nothing in one and can
  stop half way in the other, and a panic in a hook stops the chain.
- The extrinsics of a block run before its hook, so a call in the block in
  which something closes still changes what the hook is about to close.
- Four indexes of the same deals, and five sets and two queues of the same
  sectors, are written by different operations and must agree.
- Block numbers are compared at the edges of windows and periods, and
  subtracted as unsigned integers.
- Bounded work (`AddressedSectorsMax`) leaves a remainder that a later block
  has to find again.

The hazards in `PROJECT.json` name each of these at its line.

## 2. Conventions

- An extrinsic that returns `Err` has no effect, so it is a step that is not
  enabled. A hook has an effect whatever happens, up to the point where it
  fails; in `StorageProvider` a panic sets `halted`, after which nothing
  happens.
- A block is: any number of extrinsics, then one action that runs
  `on_finalize` for the current block and begins the next. `MaxBlock` bounds
  the block number in the guard of that action. Since the chain may stop there,
  the runs set `CHECK_DEADLOCK FALSE`; only `MCPartition` has no bound of this
  kind and checks deadlock.
- Data are abstracted to what decides the control flow: CIDs, labels,
  signatures and proofs to membership in a set or to a nondeterministic answer;
  a sector's info to its expiration.
- A definition that begins with the comment `Mutant:` is not part of the model.
  It is a wrong variant of the definition that follows it, kept to show that a
  property notices the difference (`mutants` in `PROJECT.json`).
- pallet_balances and frame_executive are external. From how the pallets use
  them: `settle` with `KeepAlive` and `reserve` need the existential deposit to
  remain; a transfer may reap the sender's account; a release build wraps
  unsigned arithmetic (`BlockModulus`).

## 3. Modules

### Market and DealLifecycle

`Market` has one variable per storage item, with the same name in lower case
(`balances` for `BalanceTable`, `pending` for `PendingProposals`,
`deals_for_block`, `sector_deals`, `proposals`, `next_deal_id`), and
`market_account`, `wallet` for the currency. Money moves through the ledger
record `[balances, account, failed]`: `lock_funds`, `unlock_funds`,
`slash_and_burn` and `perform_storage_payment` take a ledger and return one, and
once `failed` is set the rest do nothing, which is what `?` does. An action
commits the ledger only when it has not failed, a hook commits it as it is.

| Action | Code |
|---|---|
| `add_balance`, `withdraw_balance`, `publish_storage_deals`, `settle_deal_payments` | the extrinsics of the same names |
| `activate_deals` | `Market::activate_deals`, for several sectors of one prove-commit |
| `on_sectors_terminate`, `on_sectors_terminate_in_hook` | `Market::on_sectors_terminate`, succeeding, and failing part of the way inside a hook |
| `NextBlock` | `on_finalize` (`FinalizeDeals`), then the next block |

`DealLifecycle` is what the market promises about a deal: its id is used once
and its terms never change, it is activated no later than its start block or
disappears at the end of exactly that block, and an active deal never goes
back. `Market` implements it under the mapping `LiveDeals`.

### ExpirationQueue, Partition, PartitionLifecycle

`ExpirationQueue` and `Partition` translate the functions of
`expiration_queue.rs` and `partition.rs` as operators from a queue or a
partition to the new one, each with the condition under which it returns `Ok`
(`Can...`). They have no variables: they are the building blocks of `Deadline`.
`PartitionLifecycle` is one partition with its sectors and every sequence of
these operations, under the preconditions its callers establish.

### DeadlineInfo, DeadlineClock, Deadline, StorageProvider

`DeadlineInfo` has the block arithmetic of a deadline (`open_at`, `close_at`,
`is_open`, `has_elapsed`, mutability). `DeadlineClock` is the promise made with
it: for each provider, the deadline on record is the one the chain is in.
`Deadline` translates `deadline.rs` over the partitions of a deadline, and the
assignment of new sectors to deadlines. `StorageProvider` is the pallet: a
record per provider, the reserves, and one action per extrinsic
(`register_storage_provider`, `pre_commit_sectors`, `prove_commit_sectors`,
`submit_windowed_post`, `declare_faults`, `declare_sectors_recovered`,
`terminate_provider_sectors`) and `on_finalize`, with `on_finalize_panics` for
the blocks whose hook fails.

Three choices to know of. Where the Rust code holds a copy of the provider's
state while another function loads and stores it, the model keeps both, because
which one is written last matters. What the market and the proofs pallet
answer is nondeterministic; `notified` records which sectors the market has
been told of. And a call that declares faults, recoveries or terminations names
a set of declarations, which `DeadlineSectorMap` collects by deadline and
partition as the code does: they are worked through in order, and
`terminate_sectors` processes the early terminations once, after the last of
them.

### Blocks, Randomness, Faucet, ChainClocks

`Blocks` has the block number that the following modules share. `Randomness` is
the inherent that runs once in each block with or without a VRF (a primary or a
secondary slot) and the history that challenges are looked up in. `Faucet` is
`drip` and its delay. `ChainClocks` composes the two with `DeadlineClock`: one
action is the hook of a block and the inherent of the next, and the extrinsics
come in between. It relates what one pallet asks to what the other keeps: the
challenge of an open deadline and the history.

## 4. Runs

Passing runs. State counts are distinct states.

| Run | Instance | States | What it shows |
|---|---|---|---|
| `market` | one client, one provider, two signed deals that overlap, a deal of the provider with itself and an unsigned one, two sectors, one deal per start block, blocks 0 to 4 | 16,237 | the four indexes of deals agree, nothing is paid for time that has not passed, locked funds equal the deals' obligations also when one account plays both parts, only slashing burns, and `DealLifecycle` is implemented |
| `partition` | three sectors, two expirations, limits 0 to 2 | 20,060 | a partition's sets nest, its queue holds each live sector once at the right block, no lookup fails, early terminations are handed out under the limit and none is lost |
| `storage_provider` | one provider, two sectors that may share a partition, batches of two, calls of two declarations, one early termination a call, three deadlines of two blocks, blocks 4 to 15 | 65,450 | a sector is in one place, the counts and queues hold when calls take a part of a partition or name several deadlines, a missed proof makes a fault, and `DeadlineClock` is implemented |
| `chain_clocks` | one account with every start of its first period, a history of 3, delay 3, every pattern of slots, blocks 3 to 12 | 398,622 | the deadline on record keeps pace and windows adjoin, the VRFs of recent blocks and the challenge of an open deadline can be looked up, an account is issued no more than one amount for every delay begun |

Why the bounds are enough. Two deals with overlapping lives are needed for one
operation to see a deal at another stage, and one batch of two for partial
failure; the blocks run past the end of the first deal and to the end of the
second. Three deadlines is the smallest number for which one is mutable while
another is proven. A provider with two sectors is followed to the end of the
first proving period (the constraint `Horizon` of `MCStorageProvider`): long
enough for two sectors in one partition or in two deadlines to be committed,
proven, missed, recovered and terminated together. With one sector the run goes
on through the first deadline of the second period, where a sector expires, on
time or early from a fault. A provider starts with funds for two deposits
(`InitialFunds`), so that a slash may also find no free balance and stop half
way. Three sectors of a partition are enough for two that differ from the one
an operation names. The sectors of `market` are symmetric, since no operation
orders them; symmetry is not used elsewhere, where hooks and limits follow the
order of the numbers.

Runs that TLC refutes. Each states what a comment or a document of the
repository says and finds a behaviour in which the code does something else;
`findings` quotes the line.

| Run | What happens |
|---|---|
| `market_terminate` | a sector cannot be terminated after one of its deals was settled to its end and removed |
| `market_backing` | a withdrawal that leaves less than the existential deposit reaps the market's account while the table still owes the rest |
| `storage_provider_expirations` | a fault moves the partition's only entry in `expirations_blocks` past a sector's expiration |
| `storage_provider_panic` | a recovery declared in the closing block, after the proof, makes the hook panic |
| `storage_provider_cleared` | processed early terminations are queued again by the hook's stale copy of the state |
| `storage_provider_precommits` | `check_precommited_sectors` returns at the first provider without an expired sector, and the expired sectors of the providers after it are kept |
| `storage_provider_added` | in the first block of a period the period on record is still the one before, `next` skips a period, and the first deadline takes sectors while its window is open |
| `randomness_ring` | when the entry to remove is of a block without a VRF the count passes `HISTORY_SIZE`, is never equal to it again, and the history grows |

Conditions of the passing runs. Some properties hold only in part of what the
code allows. The instances above are on the safe side; on the other side the
models show the following.

| Condition of the run | Otherwise |
|---|---|
| the existential deposit is 1 (`ExistentialDeposit` of `market`), as in the pallet's tests; the runtime's is `MILLIUNIT` | once the account has been reaped (`market_backing`) a slash fails inside `on_finalize`, after the client was refunded, and the deal stays published for ever (`NoStalePublishedDeal`, `LockedFundsMatchDeals`) |
| the history covers the window (`HistoryCoversWindow`: look-back and window together are at most `HISTORY_SIZE`), as in the testnet configuration of the runtime | a challenge leaves the history before its window closes (`ChallengeAvailable`) |

Other edges the models reproduce and no property of a run forbids: a deal
terminated between its activation and its start wraps the elapsed blocks
(`calculate_elapsed_blocks`); an active deal's proposal can be published again,
since only hashes of published deals are looked at; a batch whose client is its
provider passes validation and then fails to lock its funds, which undoes it;
in the block in which a deadline opens, the deadline on record is still the one
before, so a proof is refused. A pre-commit that names a sector twice reserves
two deposits for one sector. `slash_and_burn` of the storage provider pallet
takes the amount from the reserve and then once more from the free balance, and
when the free balance does not allow it the reserve is gone and the sector stays
on record; a deposit is not returned when its sector is committed. So no
equation between the deposits on record and the reserve holds, and none is
stated. A second termination of a partition in the same block replaces the
block's entry in `early_terminations` (`record_early_terminations`), and what
the first left there under `AddressedSectorsMax` is lost; the properties speak
of what is queued and do not see it.

Fairness. No run assumes any, and no liveness property is stated: what the
pallets promise, they promise at a block, and the properties say so
(`NoStalePublishedDeal` and `MissedProofsAreFaults` hold at every block, not
eventually). The refutations are of safety properties.
Liveness enters with the server's pipeline, whose tasks retry and wait.

## 5. Proofs

`MarketProofs`. The inductive invariant `DealsInv` is the conjunction of the
types, `PendingMatchesPublished`, `SectorDealsAreActive`, `PaidUpToNow` and
`DealsScheduledAtStart`. None is inductive alone: that activation removes
exactly the right hashes needs hashes of published deals to be distinct, that
a deal is in one sector only needs the deals listed under sectors to be
active, and that new ids are free needs the types. There is a lemma for each
action. From it follow the five properties, and with it the refinement
`MarketImplementsLifecycle`: one lemma for each action shows that it is a step
of `DealLifecycle` or leaves it unchanged. Assumptions: providers are accounts,
proposals have the fields of a proposal, `None` is not a number, the durations
are natural numbers. What the folds over the ledger compute is not needed:
which deals the folds touch is bounded by definition, and the theorems are
about the deals.

`PartitionProofs`. The inductive invariant `Sound` says that the sets nest and
the expiration queue holds exactly the live sectors, each once, on time at its
own expiration or early and faulty. Each operation of the queue and of the
partition has lemmas of its own, which say what it returns for a sound
partition. The theorems: the types, the nesting, the queue, that every queued
early termination is of a terminated sector, that the internal errors are
unreachable, and that no step takes a live sector out of the queue.

`ChainClocksProofs`. Of the deadlines, for every number of them and every
window length: the deadline on record is the one the chain is in, and a provider
leaves a window only for the one that adjoins it. The lemma `AdvancedAdjoins` is
the arithmetic of the wrap at the end of a period. Of the randomness, for every
history size: the VRF of each of the last `HISTORY_SIZE` blocks that carried one
is on record, and so is the newest (`RInv`: the entries on record are among the
blocks that carried a VRF, which the removal by block number needs). The chain
implements both specifications (`ImplementsDeadlines`, `ImplementsRandomness`),
so both invariants hold in it, and with the assumption `HistoryCoversWindow`
they give `ChallengeIsAvailable`. Of the faucet, for every amount and delay: what
an account was issued is bounded by the delays begun until its last drip
(`FaucetInv`), from which the rate limit follows.

Only model-checked: the sums of money (`LockedFundsMatchDeals`,
`OnlySlashingBurns`), since a sum over a set needs induction over the set;
`NoStalePublishedDeal`, which depends on them; `StorageProvider` and that it
implements `DeadlineClock`, since its deadlines are folds over partitions; and
`EarlyTerminationsHandedOut`, which is about cardinalities under a limit. Out
of the prover's reach altogether are liveness under fairness, `ENABLED`, induction
over data and recursive operators.

## 6. Not modelled

- Proof verification, sealing, proof generation and CAR files: arithmetic and
  byte formats without protocol state.
- The client library, the command lines, runtime and node: they carry calls or
  assemble parts. The order of extrinsics and hooks that the runtime fixes is
  in the pallet models.
- The bounds of storage collections in the storage provider pallet
  (`MAX_SECTORS`, `MAX_DEALS_PER_SECTOR`): too far for a small instance.
- The off-chain server and the local index: see the plan.

## 7. Plan

Done, in the order of importance: the market, partitions and their queues, the
deadlines and the storage provider pallet, the deadline clock, randomness, the
faucet; their first theorems.

Next:

1. `Pipeline`: the server's tasks (add piece, pre-commit, prove-commit,
   windowed PoSt) with the sector database, the in-memory queue and the chain
   as seen through submitted extrinsics; crash and restart between any two
   steps; retries. Safety: the database never runs ahead of the chain, no
   sector is sealed twice. Liveness under weak fairness of the workers: a piece
   is eventually in a proven sector, a deadline is eventually proven again.
2. `DealIntake`: propose, upload, publish, handing over to the pipeline.
3. `MarketStorageProvider`: the two pallets composed, so that the calls between
   them are those of the code: a sector with active deals is live or its early
   termination is queued, and the market hears of each termination once.
4. `PieceIndex`: the tables of polka-index, checked against a map of pieces.
5. Proofs: `SectorCountsMatch` and `QueuedTerminationsFlagged` of a deadline
   from the partition's invariant; the abstract
   specification of the pipeline and that it is implemented.
6. The storage-provider hazards that have no property yet: a second termination
   in a block, a slash that stops half way, and which terminations the market is
   told of.
