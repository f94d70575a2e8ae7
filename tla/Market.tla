------------------------------- MODULE Market -------------------------------
(***************************************************************************)
(* The market pallet (pallets/market): the balance table of clients and    *)
(* storage providers, the deals between them and the hooks that end a deal *)
(* nobody activated.                                                       *)
(*                                                                         *)
(* A block runs extrinsics (and the calls the storage-provider pallet      *)
(* makes through the Market trait) and then on_finalize.  An extrinsic is  *)
(* transactional: when any step of it fails nothing of it is kept, so a    *)
(* failing extrinsic is a step that does not happen.  on_finalize, and a   *)
(* trait call made from another pallet's on_finalize, are not              *)
(* transactional: what was written before the failure stays written.       *)
(***************************************************************************)
EXTENDS Integers, Sequences, FiniteSetsExt

CONSTANTS
  Accounts,            \* accounts that take part in the market
  Providers,           \* the registered storage providers
  DealProposals,       \* the contents of the deals the parties may agree on
  Signed,              \* those signed by the client, with a valid piece CID
  Sectors,             \* sector numbers
  SectorExpiries,      \* expirations a sector may be committed with
  SectorSize,
  MaxDeals,            \* T::MaxDeals
  MaxDealsPerBlock,    \* T::MaxDealsPerBlock
  MinDealDuration,
  MaxDealDuration,
  ExistentialDeposit,  \* of the currency pallet
  InitialFunds,        \* what each account holds outside the market at first
  BlockModulus,        \* 2^w, w the width of a block number
  None,                \* Option::None
  Amounts,             \* bound: the amounts deposited and withdrawn
  MaxBatch,            \* bound: the deals, ids or sectors in one call
  MaxDealId,           \* bound: the number of deals ever published
  MaxBlock             \* bound: the last block

Block == Nat
Balance == Nat

DealContents ==
  [client : Accounts, provider : Accounts, start_block : Block,
   end_block : Block, storage_price_per_block : Balance,
   provider_collateral : Balance, piece_size : Nat]

ASSUME PartiesAssumption == Providers \subseteq Accounts
ASSUME ProposalsAssumption ==
  \A p \in DealProposals : p \in DealContents
ASSUME NoneAssumption == None \notin Nat
ASSUME DurationAssumption == MinDealDuration \in Nat /\ MaxDealDuration \in Nat

VARIABLES
  block,            \* the block being built
  wallet,           \* what each account holds outside the market (Currency)
  market_account,   \* the balance of the pallet's own account (Currency)
  balances,         \* BalanceTable
  next_deal_id,     \* NextDealId
  proposals,        \* Proposals: DealId to deal
  pending,          \* PendingProposals: hashes
  deals_for_block,  \* DealsForBlock: block to the ids of deals due there
  sector_deals      \* SectorDeals: <<provider, sector>> to its deal ids

money == <<wallet, market_account, balances>>
deals == <<next_deal_id, proposals, pending, deals_for_block, sector_deals>>
vars == <<block, money, deals>>
-----------------------------------------------------------------------------
(* Deals.                                                                  *)

Published == [tag |-> "Published"]

ActiveDealState(sector, now) ==
  [tag |-> "Active", sector_number |-> sector, sector_start_block |-> now,
   last_updated_block |-> None]

ActiveStates ==
  [tag : {"Active"}, sector_number : Sectors, sector_start_block : Block,
   last_updated_block : Block \cup {None}]

Deal(p, s) == [proposal |-> p, state |-> s]

IsPublished(d) == d \in DOMAIN proposals /\ proposals[d].state.tag = "Published"

IsActive(d) == d \in DOMAIN proposals /\ proposals[d].state.tag = "Active"

duration(p) == p.end_block - p.start_block

total_storage_fee(p) == p.storage_price_per_block * duration(p)

\* The hash covers the whole encoded proposal, its state included.
hash_proposal(deal) == deal

DealsFor(b) == IF b \in DOMAIN deals_for_block THEN deals_for_block[b] ELSE {}

\* The state a storage map has after the keys in gone are removed.
Without(map, gone) == [k \in DOMAIN map \ gone |-> map[k]]
-----------------------------------------------------------------------------
(* The balance table together with the market's account, as the functions  *)
(* that move funds see them.  Once one of them fails the others do nothing *)
(* ("?" in the code), but what was written before stays in the record: an  *)
(* extrinsic throws it away, a hook keeps it.                              *)

Ledger == [balances |-> balances, account |-> market_account, failed |-> FALSE]

Failed(l) == [l EXCEPT !.failed = TRUE]

lock_funds(l, a, amount) ==
  IF l.failed \/ l.balances[a].free < amount
  THEN Failed(l)
  ELSE [l EXCEPT !.balances[a].free = @ - amount,
                 !.balances[a].locked = @ + amount]

unlock_funds(l, a, amount) ==
  IF l.failed \/ l.balances[a].locked < amount
  THEN Failed(l)
  ELSE [l EXCEPT !.balances[a].locked = @ - amount,
                 !.balances[a].free = @ + amount]

perform_storage_payment(l, client, provider, amount) ==
  IF l.failed \/ l.balances[client].locked < amount
  THEN Failed(l)
  ELSE [l EXCEPT !.balances =
          [[@ EXCEPT ![client].locked = @ - amount]
             EXCEPT ![provider].free = @ + amount]]

\* Currency::settle with KeepAlive: the account must survive the withdrawal.
CanSettle(account, amount) ==
  \/ amount = 0
  \/ /\ account >= amount
     /\ account >= ExistentialDeposit => account - amount >= ExistentialDeposit

slash_and_burn(l, a, amount) ==
  IF l.failed \/ l.balances[a].locked < amount
  THEN Failed(l)
  ELSE LET taken == [l EXCEPT !.balances[a].locked = @ - amount]
       IN IF CanSettle(l.account, amount)
          THEN [taken EXCEPT !.account = @ - amount]
          ELSE Failed(taken)

WriteLedger(l) ==
  /\ balances' = l.balances
  /\ market_account' = l.account
  /\ UNCHANGED wallet
-----------------------------------------------------------------------------
(* Deposits and withdrawals.                                               *)

\* Currency::transfer: the receiving account must exist afterwards.
CanReceive(held, amount) == held + amount >= ExistentialDeposit

add_balance(a, amount) ==
  /\ wallet[a] - amount >= ExistentialDeposit
  /\ CanReceive(market_account, amount)
  /\ wallet' = [wallet EXCEPT ![a] = @ - amount]
  /\ market_account' = market_account + amount
  /\ balances' = [balances EXCEPT ![a].free = @ + amount]
  /\ UNCHANGED <<block, deals>>

\* Mutant: the free balance is not compared with the amount.
withdraw_balance_unchecked(a, amount) ==
  /\ market_account >= amount
  /\ CanReceive(wallet[a], amount)
  /\ wallet' = [wallet EXCEPT ![a] = @ + amount]
  /\ market_account' = market_account - amount
  /\ balances' = [balances EXCEPT ![a].free = @ - amount]
  /\ UNCHANGED <<block, deals>>

\* AllowDeath: a remainder below the existential deposit is reaped as dust.
withdraw_balance(a, amount) ==
  /\ balances[a].free >= amount
  /\ market_account >= amount
  /\ CanReceive(wallet[a], amount)
  /\ wallet' = [wallet EXCEPT ![a] = @ + amount]
  /\ market_account' = LET left == market_account - amount
                       IN IF left < ExistentialDeposit THEN 0 ELSE left
  /\ balances' = [balances EXCEPT ![a].free = @ - amount]
  /\ UNCHANGED <<block, deals>>
-----------------------------------------------------------------------------
(* Publishing.                                                             *)

\* Mutant: the start block is not compared with the current one.
sanity_check_late(p, provider) ==
  /\ p \in Signed
  /\ p.provider = provider
  /\ p.start_block < p.end_block
  /\ duration(p) >= MinDealDuration
  /\ duration(p) <= MaxDealDuration

sanity_check(p, provider) ==
  /\ p \in Signed
  /\ p.provider = provider
  /\ p.start_block < p.end_block
  /\ p.start_block >= block
  /\ duration(p) >= MinDealDuration
  /\ duration(p) <= MaxDealDuration

FeesOf(client, batch) ==
  MapThenSumSet(LAMBDA i : total_storage_fee(batch[i]),
                {i \in DOMAIN batch : batch[i].client = client})

CollateralOf(batch) ==
  MapThenSumSet(LAMBDA i : batch[i].provider_collateral, DOMAIN batch)

HashesOf(batch) ==
  {hash_proposal(Deal(batch[i], Published)) : i \in DOMAIN batch}

validate_deals(caller, batch) ==
  /\ batch # << >>
  /\ batch[1].provider = caller
  /\ \A i \in DOMAIN batch : sanity_check(batch[i], caller)
  /\ \A i \in DOMAIN batch :
       FeesOf(batch[i].client, batch) <= balances[batch[i].client].free
  /\ CollateralOf(batch) <= balances[caller].free
  /\ \A i, j \in DOMAIN batch : i # j => batch[i] # batch[j]
  /\ HashesOf(batch) \cap pending = {}
  /\ Cardinality(pending \cup HashesOf(batch)) <= MaxDeals

\* The funds a validated batch locks: each client's fee, then the collateral.
LockBatch(caller, batch) ==
  lock_funds(
    FoldSet(LAMBDA i, l : lock_funds(l, batch[i].client,
                                     total_storage_fee(batch[i])),
            Ledger, DOMAIN batch),
    caller, CollateralOf(batch))

publish_storage_deals(caller, batch) ==
  LET new == next_deal_id .. next_deal_id + Len(batch) - 1
      content(d) == batch[d - next_deal_id + 1]
      starts == {batch[i].start_block : i \in DOMAIN batch}
      due(b) == DealsFor(b) \cup {d \in new : content(d).start_block = b}
  IN /\ caller \in Providers
     /\ validate_deals(caller, batch)
     /\ \A b \in starts : Cardinality(due(b)) <= MaxDealsPerBlock
     /\ ~LockBatch(caller, batch).failed
     /\ WriteLedger(LockBatch(caller, batch))
     /\ next_deal_id' = next_deal_id + Len(batch)
     /\ proposals' =
          [d \in DOMAIN proposals \cup new |->
             IF d \in new THEN Deal(content(d), Published) ELSE proposals[d]]
     /\ pending' = pending \cup HashesOf(batch)
     /\ deals_for_block' =
          [b \in DOMAIN deals_for_block \cup starts |-> due(b)]
     /\ UNCHANGED <<block, sector_deals>>
-----------------------------------------------------------------------------
(* Activation, called when sectors are prove-committed.                    *)

validate_deal_can_activate(d, provider, expiry) ==
  LET p == proposals[d].proposal
  IN /\ p.provider = provider
     /\ IsPublished(d)
     /\ block <= p.start_block
     /\ expiry >= p.end_block
     /\ hash_proposal(proposals[d]) \in pending

RangeOf(ids) == {ids[i] : i \in DOMAIN ids}

\* proposals_for_deals: no id twice, and every deal is there.
DealsFound(ids) ==
  /\ \A i, j \in DOMAIN ids : i # j => ids[i] # ids[j]
  /\ RangeOf(ids) \subseteq DOMAIN proposals

validate_deals_for_sector(ids, provider, expiry) ==
  /\ \A i \in DOMAIN ids : validate_deal_can_activate(ids[i], provider, expiry)
  /\ MapThenSumSet(LAMBDA i : proposals[ids[i]].proposal.piece_size,
                   DOMAIN ids) <= SectorSize

\* The same test, as the storage-provider pallet makes it at pre-commit: it
\* reserves nothing, so it may no longer hold when the sector is proven.
verify_deals_for_activation(provider, ids, expiry) ==
  /\ DealsFound(ids)
  /\ validate_deals_for_sector(ids, provider, expiry)

\* Mutant: every sector is validated before any is activated, so two sectors of
\* one call may take the same deal.
activate_deals_validated_first(provider, call) ==
  LET idsOf(s) == RangeOf(call[s].deal_ids)
      won == {s \in DOMAIN call :
                verify_deals_for_activation(provider, call[s].deal_ids,
                                            call[s].expiry)}
      activated == UNION {idsOf(s) : s \in won}
      sectorOf(d) == CHOOSE s \in won : d \in idsOf(s)
  IN /\ proposals' =
          [d \in DOMAIN proposals |->
             IF d \in activated
             THEN Deal(proposals[d].proposal,
                       ActiveDealState(sectorOf(d), block))
             ELSE proposals[d]]
     /\ pending' = pending \ {hash_proposal(proposals[d]) : d \in activated}
     /\ sector_deals' =
          [k \in DOMAIN sector_deals \cup {<<provider, s>> : s \in won} |->
             IF k[1] = provider /\ k[2] \in won
             THEN call[k[2]].deal_ids
             ELSE sector_deals[k]]
     /\ UNCHANGED <<block, money, next_deal_id, deals_for_block>>

\* call maps each sector of the call to its deal ids and its expiration.  The
\* sectors are taken in order, and one whose deals cannot be activated, or
\* have gone to a sector before it, is skipped: the ones activated are a
\* largest set of valid sectors that share no deal, and every such set comes
\* from some order.
activate_deals(provider, call) ==
  \E won \in SUBSET DOMAIN call :
    LET idsOf(s) == RangeOf(call[s].deal_ids)
        valid == {s \in DOMAIN call :
                    verify_deals_for_activation(provider, call[s].deal_ids,
                                                call[s].expiry)}
        activated == UNION {idsOf(s) : s \in won}
        sectorOf(d) == CHOOSE s \in won : d \in idsOf(s)
    IN /\ won \subseteq valid
       /\ \A s, t \in won : s # t => idsOf(s) \cap idsOf(t) = {}
       /\ \A s \in valid \ won : idsOf(s) \cap activated # {}
       /\ proposals' =
            [d \in DOMAIN proposals |->
               IF d \in activated
               THEN Deal(proposals[d].proposal,
                         ActiveDealState(sectorOf(d), block))
               ELSE proposals[d]]
       /\ pending' = pending \ {hash_proposal(proposals[d]) : d \in activated}
       /\ sector_deals' =
            [k \in DOMAIN sector_deals \cup {<<provider, s>> : s \in won} |->
               IF k[1] = provider /\ k[2] \in won
               THEN call[k[2]].deal_ids
               ELSE sector_deals[k]]
       /\ UNCHANGED <<block, money, next_deal_id, deals_for_block>>
-----------------------------------------------------------------------------
(* Settlement.                                                             *)

LastSettled(d) ==
  LET s == proposals[d].state.last_updated_block
  IN IF s = None THEN proposals[d].proposal.start_block ELSE s

\* Mutant: a deal may be settled before it starts.
SettleableEarly(d) ==
  /\ IsActive(d)
  /\ \/ proposals[d].state.last_updated_block = None
     \/ proposals[d].state.last_updated_block <= block

\* Not found, too early, not active, or updated in the future: reported as
\* unsuccessful and left alone.
Settleable(d) ==
  /\ IsActive(d)
  /\ proposals[d].proposal.start_block <= block
  /\ \/ proposals[d].state.last_updated_block = None
     \/ proposals[d].state.last_updated_block <= block

Complete(d) == block >= proposals[d].proposal.end_block

\* Mutant: the collateral of a complete deal is not given back.
SettleDealKeepingCollateral(d, l) ==
  LET p == proposals[d].proposal
      until == IF Complete(d) THEN p.end_block ELSE block
  IN perform_storage_payment(l, p.client, p.provider,
       (until - LastSettled(d)) * p.storage_price_per_block)

SettleDeal(d, l) ==
  LET p == proposals[d].proposal
      until == IF Complete(d) THEN p.end_block ELSE block
      paid == perform_storage_payment(l, p.client, p.provider,
                (until - LastSettled(d)) * p.storage_price_per_block)
  IN IF Complete(d)
     THEN unlock_funds(paid, p.provider, p.provider_collateral)
     ELSE paid

\* ids as a set: a second settlement of a deal in one call moves nothing.
settle_deal_payments(ids) ==
  LET settled == {d \in ids : Settleable(d)}
      l == FoldSet(SettleDeal, Ledger, settled)
      ended == {d \in settled : Complete(d)}
  IN /\ \A d \in settled : LastSettled(d) <= proposals[d].proposal.end_block
     /\ ~l.failed
     /\ WriteLedger(l)
     /\ proposals' =
          [d \in DOMAIN proposals \ ended |->
             IF d \in settled
             THEN [proposals[d] EXCEPT !.state.last_updated_block = block]
             ELSE proposals[d]]
     /\ UNCHANGED <<block, next_deal_id, pending, deals_for_block,
                    sector_deals>>
-----------------------------------------------------------------------------
(* Termination of the deals of sectors that have been terminated.          *)

calculate_start_block(start_block, last_updated_block) ==
  IF last_updated_block = None
  THEN start_block
  ELSE Max({start_block, last_updated_block})

calculate_end_block(current_block, end_block) == Min({current_block, end_block})

\* An unsigned subtraction, which wraps in a release build.
calculate_elapsed_blocks(start_block, end_block) ==
  Max({(end_block - start_block) % BlockModulus, 0})

calculate_storage_price(n_blocks, price_per_block) == n_blocks * price_per_block

\* The three movements of funds that end an active deal.
TerminationFunds(d, l) ==
  LET p == proposals[d].proposal
      from == calculate_start_block(p.start_block,
                                    proposals[d].state.last_updated_block)
      to == calculate_end_block(block, p.end_block)
      owed == calculate_storage_price(calculate_elapsed_blocks(from, to),
                                      p.storage_price_per_block)
      left == calculate_storage_price(p.end_block - to,
                                      p.storage_price_per_block)
      paid == perform_storage_payment(l, p.client, p.provider, owed)
      slashed == slash_and_burn(paid, p.provider, p.provider_collateral)
  IN unlock_funds(slashed, p.client, left)

\* run is the call so far: the ledger, the sectors taken from SectorDeals and
\* the deals removed from Proposals.
TerminateDeal(provider, run, d) ==
  LET missing == d \notin DOMAIN proposals \ run.removed
      p == proposals[d].proposal
      funds == TerminationFunds(d, run.ledger)
  IN CASE run.ledger.failed -> run
       [] missing -> [run EXCEPT !.ledger = Failed(@)]
       [] ~missing /\ p.provider # provider -> [run EXCEPT !.ledger = Failed(@)]
       [] ~missing /\ p.provider = provider /\ p.end_block <= block -> run
       [] OTHER ->
            IF ~IsActive(d) THEN [run EXCEPT !.ledger = Failed(@)]
            ELSE [run EXCEPT !.ledger = funds,
                             !.removed = IF funds.failed THEN @ ELSE @ \cup {d}]

TerminateSector(provider, run, s) ==
  LET k == <<provider, s>>
  IN IF run.ledger.failed \/ k \notin DOMAIN sector_deals \ run.taken
     THEN run
     ELSE MapThenFoldSet(LAMBDA d, r : TerminateDeal(provider, r, d),
                         [run EXCEPT !.taken = @ \cup {k}],
                         LAMBDA i : sector_deals[k][i], LAMBDA S : Max(S),
                         DOMAIN sector_deals[k])

TerminateSectors(provider, sectors) ==
  MapThenFoldSet(LAMBDA s, r : TerminateSector(provider, r, s),
                 [ledger |-> Ledger, taken |-> {}, removed |-> {}],
                 LAMBDA i : sectors[i], LAMBDA S : Max(S), DOMAIN sectors)

\* Only what was active is ever removed; the removal of its hash from
\* PendingProposals, when it was never settled, is kept as the code has it.
KeepTermination(run) ==
  LET gone == {d \in run.removed : IsActive(d)}
      fresh == {d \in gone : proposals[d].state.last_updated_block = None}
  IN /\ WriteLedger(run.ledger)
     /\ proposals' = Without(proposals, gone)
     /\ pending' = pending \ {hash_proposal(proposals[d]) : d \in fresh}
     /\ sector_deals' = Without(sector_deals, run.taken)
     /\ UNCHANGED <<block, next_deal_id, deals_for_block>>

\* Called from an extrinsic of the storage-provider pallet: all or nothing.
on_sectors_terminate(provider, sectors) ==
  /\ ~TerminateSectors(provider, sectors).ledger.failed
  /\ KeepTermination(TerminateSectors(provider, sectors))

\* Called from that pallet's on_finalize: a failure keeps what came before it.
on_sectors_terminate_in_hook(provider, sectors) ==
  /\ TerminateSectors(provider, sectors).ledger.failed
  /\ KeepTermination(TerminateSectors(provider, sectors))
-----------------------------------------------------------------------------
(* The hook at the end of a block, after which the next block begins.      *)

\* Mutant: the provider gets its collateral back instead of being slashed.
FinalizeDealLenient(d, run) ==
  IF ~IsPublished(d) THEN run
  ELSE LET p == proposals[d].proposal
           funds == unlock_funds(
                      unlock_funds(run.ledger, p.client, total_storage_fee(p)),
                      p.provider, p.provider_collateral)
       IN [ledger |-> [funds EXCEPT !.failed = FALSE],
           slashed |-> IF funds.failed THEN run.slashed
                                       ELSE run.slashed \cup {d}]

\* One deal due in this block.  A step that fails leaves the deal in place
\* with what was done to it, and the loop goes on with the next one.
FinalizeDeal(d, run) ==
  IF ~IsPublished(d) THEN run
  ELSE LET p == proposals[d].proposal
           funds == slash_and_burn(
                      unlock_funds(run.ledger, p.client, total_storage_fee(p)),
                      p.provider, p.provider_collateral)
       IN [ledger |-> [funds EXCEPT !.failed = FALSE],
           slashed |-> IF funds.failed THEN run.slashed
                                       ELSE run.slashed \cup {d}]

\* The deals are taken in ascending order of their ids.
FinalizeDeals(due) ==
  MapThenFoldSet(FinalizeDeal, [ledger |-> Ledger, slashed |-> {}],
                 LAMBDA d : d, LAMBDA S : Max(S), due)

\* Mutant: the pending set is not written back.
on_finalize_keeping_pending ==
  LET run == FinalizeDeals(DealsFor(block))
      gone == {d \in DealsFor(block) : d \in run.slashed /\ IsPublished(d)}
  IN /\ WriteLedger(run.ledger)
     /\ proposals' = Without(proposals, gone)
     /\ deals_for_block' = Without(deals_for_block, {block})
     /\ UNCHANGED <<next_deal_id, pending, sector_deals>>

\* Mutant: the block's list of deals is not dropped.
on_finalize_keeping_schedule ==
  LET run == FinalizeDeals(DealsFor(block))
      gone == {d \in DealsFor(block) : d \in run.slashed /\ IsPublished(d)}
  IN /\ WriteLedger(run.ledger)
     /\ proposals' = Without(proposals, gone)
     /\ pending' = pending \ {hash_proposal(proposals[d]) : d \in gone}
     /\ UNCHANGED <<next_deal_id, deals_for_block, sector_deals>>

on_finalize ==
  LET run == FinalizeDeals(DealsFor(block))
      gone == {d \in DealsFor(block) : d \in run.slashed /\ IsPublished(d)}
  IN /\ WriteLedger(run.ledger)
     /\ proposals' = Without(proposals, gone)
     /\ pending' = pending \ {hash_proposal(proposals[d]) : d \in gone}
     /\ deals_for_block' = Without(deals_for_block, {block})
     /\ UNCHANGED <<next_deal_id, sector_deals>>

NextBlock ==
  /\ block < MaxBlock
  /\ on_finalize
  /\ block' = block + 1
-----------------------------------------------------------------------------
\* No genesis endows the market's account.
Init ==
  /\ block = 0
  /\ wallet = [a \in Accounts |-> InitialFunds]
  /\ market_account = 0
  /\ balances = [a \in Accounts |-> [free |-> 0, locked |-> 0]]
  /\ next_deal_id = 0
  /\ proposals = << >>
  /\ pending = {}
  /\ deals_for_block = << >>
  /\ sector_deals = << >>

\* What a call is given: at most MaxBatch deals, ids or sectors, no two alike.
Lists(S) ==
  {l \in UNION {[1 .. n -> S] : n \in 0 .. MaxBatch} :
     \A i, j \in DOMAIN l : i # j => l[i] # l[j]}

ActivationCalls ==
  UNION {[called -> [deal_ids : Lists(DOMAIN proposals),
                     expiry : SectorExpiries]] :
           called \in {S \in SUBSET Sectors : Cardinality(S) <= MaxBatch}}

Deposit == \E a \in Accounts, x \in Amounts : add_balance(a, x)

Withdraw == \E a \in Accounts, x \in Amounts : withdraw_balance(a, x)

Publish ==
  \E a \in Providers, batch \in Lists(DealProposals) :
    /\ next_deal_id + Len(batch) <= MaxDealId
    /\ publish_storage_deals(a, batch)

Activate ==
  \E a \in Providers, call \in ActivationCalls : activate_deals(a, call)

Settle ==
  \E ids \in SUBSET DOMAIN proposals :
    Cardinality(ids) <= MaxBatch /\ settle_deal_payments(ids)

Terminate ==
  \E a \in Providers, l \in Lists(Sectors) : on_sectors_terminate(a, l)

TerminateInHook ==
  \E a \in Providers, l \in Lists(Sectors) : on_sectors_terminate_in_hook(a, l)

Next ==
  \/ Deposit
  \/ Withdraw
  \/ Publish
  \/ Activate
  \/ Settle
  \/ Terminate
  \/ TerminateInHook
  \/ NextBlock

Spec == Init /\ [][Next]_vars
-----------------------------------------------------------------------------
(* Properties.                                                             *)

BalanceEntry == [free : Balance, locked : Balance]

DealRecords ==
  [proposal : DealProposals, state : {Published} \cup ActiveStates]

LedgerTypeOK ==
  /\ wallet \in [Accounts -> Balance]
  /\ market_account \in Balance
  /\ balances \in [Accounts -> BalanceEntry]

DealsTypeOK ==
  /\ block \in Block
  /\ next_deal_id \in Nat
  /\ DOMAIN proposals \subseteq 0 .. next_deal_id - 1
  /\ \A d \in DOMAIN proposals : proposals[d] \in DealRecords
  /\ \A h \in pending : h \in DealRecords
  /\ DOMAIN deals_for_block \subseteq Block
  /\ \A b \in DOMAIN deals_for_block :
       deals_for_block[b] \subseteq 0 .. next_deal_id - 1
  /\ DOMAIN sector_deals \subseteq Providers \X Sectors
  /\ \A k \in DOMAIN sector_deals : sector_deals[k] \in Seq(0 .. next_deal_id - 1)

TypeOK == LedgerTypeOK /\ DealsTypeOK

\* PendingProposals holds the hash of every published deal and of nothing
\* else, and no two published deals are the same: validate_deals keeps
\* duplicates out, and activation and the hook take a hash out exactly when
\* the deal stops being published, so DealNotPending is never returned.
PendingMatchesPublished ==
  /\ pending = {hash_proposal(proposals[d]) : d \in {e \in DOMAIN proposals :
                                                      IsPublished(e)}}
  /\ \A d, e \in DOMAIN proposals :
       IsPublished(d) /\ IsPublished(e) /\ d # e => proposals[d] # proposals[e]

\* A deal listed for a sector, as long as it exists, is active, in that very
\* sector and with that provider: on_sectors_terminate never returns
\* InvalidCaller or DealIsNotActive, and a deal is in one sector only.
SectorDealsAreActive ==
  \A k \in DOMAIN sector_deals :
    \A d \in RangeOf(sector_deals[k]) \cap DOMAIN proposals :
      /\ IsActive(d)
      /\ proposals[d].state.sector_number = k[2]
      /\ proposals[d].proposal.provider = k[1]

\* What has been paid for an active deal ends between its start and the
\* current block and before its end, and it was activated no later than its
\* start: settle_deal_payments never reports FutureLastUpdate, never returns
\* Corruption and never subtracts below zero.
PaidUpToNow ==
  \A d \in DOMAIN proposals :
    LET p == proposals[d].proposal
        s == proposals[d].state
    IN IsActive(d) =>
         /\ s.sector_start_block <= p.start_block
         /\ s.last_updated_block # None =>
              /\ p.start_block <= s.last_updated_block
              /\ s.last_updated_block <= block
              /\ s.last_updated_block < p.end_block

\* The hook looks at a deal at its start block and at no other: the ids kept
\* for a block are those of deals that start there, and a published deal whose
\* start has not passed is among them.
DealsScheduledAtStart ==
  /\ \A b \in DOMAIN deals_for_block : \A d \in deals_for_block[b] :
       b >= block /\ (d \in DOMAIN proposals =>
                       proposals[d].proposal.start_block = b)
  /\ \A d \in DOMAIN proposals :
       IsPublished(d) /\ proposals[d].proposal.start_block >= block
         => d \in DealsFor(proposals[d].proposal.start_block)

\* No deal stays published past its start block: on_finalize has refunded the
\* client, slashed the provider and removed it.  The condition is that its slash
\* can be settled, the market's account keeping the existential deposit: it does
\* where that is 1 and a deal costs something, since the fee refunded to the
\* client is still in the account.
NoStalePublishedDeal ==
  \A d \in DOMAIN proposals :
    IsPublished(d) => proposals[d].proposal.start_block >= block

\* What a deal still obliges an account to keep locked.
ObligationOf(a, d) ==
  LET p == proposals[d].proposal
      unpaid == IF IsActive(d) THEN p.end_block - LastSettled(d) ELSE duration(p)
  IN (IF p.client = a THEN unpaid * p.storage_price_per_block ELSE 0)
     + (IF p.provider = a THEN p.provider_collateral ELSE 0)

\* An account's locked funds are exactly what its deals still oblige it to:
\* the fee of the blocks not yet paid as a client and the collateral as a
\* provider, so no payment, refund or slashing ever lacks funds and nothing
\* stays locked for a deal that is gone.  The condition of NoStalePublishedDeal
\* applies: a slash that fails in a hook has unlocked and taken funds already.
LockedFundsMatchDeals ==
  \A a \in Accounts :
    balances[a].locked =
      MapThenSumSet(LAMBDA d : ObligationOf(a, d), DOMAIN proposals)

TotalMoney == market_account + MapThenSumSet(LAMBDA a : wallet[a], Accounts)

\* A step destroys money only by slashing: exactly the collateral of the deals
\* that it ended before they were complete, and no step creates any.  With an
\* existential deposit of 1, as here, a withdrawal leaves no dust to be reaped.
OnlySlashingBurns ==
  [][TotalMoney - TotalMoney' =
       MapThenSumSet(LAMBDA d : proposals[d].proposal.provider_collateral,
                     {d \in DOMAIN proposals \ DOMAIN proposals' : ~Complete(d)})
    ]_vars

\* What the market promises about each deal (module DealLifecycle).
LiveDeals ==
  [d \in DOMAIN proposals |-> [terms |-> proposals[d].proposal,
                               phase |-> proposals[d].state.tag]]

Lifecycle == INSTANCE DealLifecycle
               WITH clock <- block, next <- next_deal_id, live <- LiveDeals

\* The market implements that promise.
ImplementsLifecycle == Lifecycle!Spec
-----------------------------------------------------------------------------
(* What comments of the pallet say and its code does not do; the runs that  *)
(* check these find them violated.                                         *)

\* A proposal already deleted is no obstacle to terminating its sector
\* (comment in on_sectors_terminate: "it's ok if it has already been
\* deleted"): once a deal has started, terminating the sector it is listed for
\* succeeds.
StartedSectorsCanBeTerminated ==
  \A k \in DOMAIN sector_deals :
    (\A d \in RangeOf(sector_deals[k]) \cap DOMAIN proposals :
        proposals[d].proposal.start_block <= block)
      => ~TerminateSectors(k[1], <<k[2]>>).ledger.failed

\* The market's account holds what the balance table says is in it
\* (BalanceTable: "Invariant must be held at all times").  An account reaped by
\* a withdrawal, or a slash that fails in a hook, parts the two.
MarketAccountBacksBalances ==
  market_account =
    MapThenSumSet(LAMBDA a : balances[a].free + balances[a].locked, Accounts)
=============================================================================
