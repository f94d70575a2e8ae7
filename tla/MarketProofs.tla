---------------------------- MODULE MarketProofs ----------------------------
(***************************************************************************)
(* Theorems about the market's deals, for every value of the constants:    *)
(* any number of accounts, proposals, sectors, blocks and calls, and       *)
(* whether or not slashing can burn what it slashes.                       *)
(***************************************************************************)
EXTENDS Market, TLAPS

\* The inductive invariant.  DealsTypeOK is needed to know that an id about to
\* be used is in no map, DealsScheduledAtStart that the hook only removes
\* deals that start in the block it ends.
DealsInv ==
  /\ DealsTypeOK
  /\ PendingMatchesPublished
  /\ SectorDealsAreActive
  /\ PaidUpToNow
  /\ DealsScheduledAtStart

\* A deal record is published or active, and never both.
LEMMA DealStates ==
  ASSUME NEW r \in DealRecords
  PROVE  /\ r.proposal \in DealProposals
         /\ r.proposal \in DealContents
         /\ \/ r.state = Published /\ r.state.tag = "Published"
            \/ r.state \in ActiveStates /\ r.state.tag = "Active"
         /\ r.state.tag = "Published" => r = Deal(r.proposal, Published)
BY ProposalsAssumption DEF DealRecords, ActiveStates, Published, Deal

\* Init establishes the invariant: there are no deals.
LEMMA DealsInvInit == Init => DealsInv
BY SMTT(30) DEF Init, DealsInv, DealsTypeOK, PendingMatchesPublished,
       SectorDealsAreActive, PaidUpToNow, DealsScheduledAtStart, Block

\* Deposits and withdrawals touch no deal.
LEMMA DealsInvUnchanged ==
  ASSUME DealsInv, UNCHANGED <<block, deals>>
  PROVE  DealsInv'
BY DEF DealsInv, DealsTypeOK, PendingMatchesPublished, SectorDealsAreActive,
       PaidUpToNow, DealsScheduledAtStart, deals, IsPublished, IsActive,
       DealsFor, hash_proposal

\* Publishing adds deals under fresh ids, published, distinct from each other
\* and from those pending, and due at their start.
LEMMA DealsInvPublish ==
  ASSUME DealsInv, NEW a \in Providers, NEW batch \in Lists(DealProposals),
         publish_storage_deals(a, batch)
  PROVE  DealsInv'
<1> DEFINE new == next_deal_id .. next_deal_id + Len(batch) - 1
           content(d) == batch[d - next_deal_id + 1]
           starts == {batch[i].start_block : i \in DOMAIN batch}
           due(b) == DealsFor(b) \cup {d \in new : content(d).start_block = b}
<1>1. /\ Len(batch) \in Nat
      /\ DOMAIN batch = 1 .. Len(batch)
      /\ \A i \in 1 .. Len(batch) : batch[i] \in DealProposals
      /\ \A i, j \in 1 .. Len(batch) : i # j => batch[i] # batch[j]
  <2>1. PICK n \in 0 .. MaxBatch : batch \in [1 .. n -> DealProposals]
    BY DEF Lists
  <2>2. batch \in Seq(DealProposals)
    BY <2>1
  <2> QED BY <2>2 DEF publish_storage_deals, validate_deals
<1>2. /\ next_deal_id' = next_deal_id + Len(batch)
      /\ proposals' = [d \in DOMAIN proposals \cup new |->
                         IF d \in new THEN Deal(content(d), Published)
                                      ELSE proposals[d]]
      /\ pending' = pending \cup HashesOf(batch)
      /\ deals_for_block' = [b \in DOMAIN deals_for_block \cup starts |-> due(b)]
      /\ block' = block
      /\ sector_deals' = sector_deals
      /\ HashesOf(batch) \cap pending = {}
      /\ \A i \in DOMAIN batch : batch[i].start_block >= block
  BY DEF publish_storage_deals, validate_deals, sanity_check
<1>3. /\ next_deal_id \in Nat
      /\ \A d \in DOMAIN proposals : d \in 0 .. next_deal_id - 1
      /\ \A d \in new : d \in Nat /\ d \notin DOMAIN proposals
                         /\ d \in 0 .. next_deal_id' - 1
                         /\ d - next_deal_id + 1 \in 1 .. Len(batch)
                         /\ content(d) \in DealProposals
      /\ \A i \in 1 .. Len(batch) :
           next_deal_id + i - 1 \in new /\ content(next_deal_id + i - 1) = batch[i]
  <2>1. /\ next_deal_id \in Nat
        /\ \A d \in DOMAIN proposals : d \in 0 .. next_deal_id - 1
    BY DEF DealsInv, DealsTypeOK
  <2>2. \A d \in new : d \in Nat /\ d >= next_deal_id
                        /\ d < next_deal_id + Len(batch)
    BY <1>1, <2>1
  <2>3. \A d \in new : d - next_deal_id + 1 \in 1 .. Len(batch)
    BY <1>1, <2>1, <2>2
  <2>4. \A i \in 1 .. Len(batch) : /\ next_deal_id + i - 1 \in new
                                  /\ (next_deal_id + i - 1) - next_deal_id + 1 = i
    BY <1>1, <2>1
  <2>5. \A d \in new : d \notin DOMAIN proposals /\ d \in 0 .. next_deal_id' - 1
    BY <1>1, <1>2, <2>1, <2>2
  <2> QED BY <1>1, <2>1, <2>2, <2>3, <2>4, <2>5
<1>4. /\ DOMAIN proposals' = DOMAIN proposals \cup new
      /\ \A d \in DOMAIN proposals : proposals'[d] = proposals[d]
      /\ \A d \in new : proposals'[d] = Deal(content(d), Published)
  BY <1>2, <1>3
<1>5. \A d \in new : /\ IsPublished(d)'
                     /\ ~IsActive(d)'
                     /\ proposals'[d] \in DealRecords
                     /\ proposals'[d].proposal = content(d)
  <2>1. SUFFICES ASSUME NEW d \in new
                 PROVE  /\ IsPublished(d)' /\ ~IsActive(d)'
                        /\ proposals'[d] \in DealRecords
                        /\ proposals'[d].proposal = content(d)
    OBVIOUS
  <2>2. /\ d \in DOMAIN proposals'
        /\ proposals'[d] = [proposal |-> content(d), state |-> Published]
        /\ content(d) \in DealProposals
    BY Zenon, <1>3, <1>4 DEF Deal
  <2>3. proposals'[d].state.tag = "Published"
    BY <2>2 DEF Published
  <2> QED BY <2>2, <2>3 DEF IsPublished, IsActive, DealRecords
<1>6. \A d \in DOMAIN proposals : /\ IsPublished(d)' <=> IsPublished(d)
                                 /\ IsActive(d)' <=> IsActive(d)
  BY <1>4 DEF IsPublished, IsActive
<1>7. HashesOf(batch) = {proposals'[d] : d \in new}
  <2>1. \A i \in 1 .. Len(batch) :
          Deal(batch[i], Published) = proposals'[next_deal_id + i - 1]
    BY <1>3, <1>4, SMTT(30)
  <2>2. \A d \in new : proposals'[d] = Deal(batch[d - next_deal_id + 1], Published)
    BY <1>4
  <2>3. HashesOf(batch) \subseteq {proposals'[d] : d \in new}
    <3>1. SUFFICES ASSUME NEW i \in 1 .. Len(batch)
                   PROVE  Deal(batch[i], Published) \in {proposals'[d] : d \in new}
      BY <1>1 DEF HashesOf, hash_proposal
    <3> QED BY <2>1, <1>3
  <2>4. {proposals'[d] : d \in new} \subseteq HashesOf(batch)
    <3>1. \A d \in new : d - next_deal_id + 1 \in DOMAIN batch
      BY <1>1, <1>3
    <3>2. \A i \in DOMAIN batch : Deal(batch[i], Published) \in HashesOf(batch)
      BY DEF HashesOf, hash_proposal
    <3>3. \A d \in new : proposals'[d] \in HashesOf(batch)
      BY <2>2, <3>1, <3>2, SMTT(30)
    <3> QED BY <3>3
  <2> QED BY <2>3, <2>4
<1>8. \A b : (IF b \in DOMAIN deals_for_block' THEN deals_for_block'[b] ELSE {})
              = due(b)
  <2>1. SUFFICES ASSUME NEW b
                 PROVE  (IF b \in DOMAIN deals_for_block'
                         THEN deals_for_block'[b] ELSE {}) = due(b)
    OBVIOUS
  <2>2. CASE b \in DOMAIN deals_for_block \cup starts
    BY <2>2, <1>2 DEF DealsFor
  <2>3. CASE b \notin DOMAIN deals_for_block \cup starts
    BY <2>3, <1>1, <1>2, <1>3 DEF DealsFor
  <2> QED BY <2>2, <2>3
<1>9. starts \subseteq Block
  BY <1>1, ProposalsAssumption DEF DealContents
<1>10. DealsTypeOK'
  <2>1. \A d \in DOMAIN proposals' : proposals'[d] \in DealRecords
    BY <1>4, <1>5 DEF DealsInv, DealsTypeOK
  <2>2. \A h \in pending' : h \in DealRecords
    BY Zenon, <1>2, <1>5, <1>7 DEF DealsInv, DealsTypeOK
  <2>3. \A b \in DOMAIN deals_for_block' :
          deals_for_block'[b] \subseteq 0 .. next_deal_id' - 1
    <3>1. \A b : DealsFor(b) \subseteq 0 .. next_deal_id - 1
      BY DEF DealsInv, DealsTypeOK, DealsFor
    <3>2. \A b : due(b) \subseteq 0 .. next_deal_id' - 1
      BY <1>1, <1>2, <1>3, <3>1, SMTT(30)
    <3> QED BY <3>2, <1>2
  <2>4. \A k \in DOMAIN sector_deals' :
          sector_deals'[k] \in Seq(0 .. next_deal_id' - 1)
    BY <1>1, <1>2, <1>3, SMTT(30) DEF DealsInv, DealsTypeOK
  <2>5. /\ block' \in Block /\ next_deal_id' \in Nat
        /\ DOMAIN proposals' \subseteq 0 .. next_deal_id' - 1
        /\ DOMAIN deals_for_block' \subseteq Block
        /\ DOMAIN sector_deals' \subseteq Providers \X Sectors
    BY <1>1, <1>2, <1>3, <1>4, <1>9 DEF DealsInv, DealsTypeOK
  <2> QED BY <2>1, <2>2, <2>3, <2>4, <2>5, SMTT(30) DEF DealsTypeOK
<1>11. PendingMatchesPublished'
  <2> DEFINE old == {d \in DOMAIN proposals : IsPublished(d)}
  <2>1. {d \in DOMAIN proposals' : IsPublished(d)'} = old \cup new
    BY <1>4, <1>5, <1>6 DEF IsPublished
  <2>2. pending = {proposals'[d] : d \in old}
    BY <1>4 DEF DealsInv, PendingMatchesPublished, hash_proposal
  <2>3. pending' = {proposals'[d] : d \in old \cup new}
    BY Zenon, <2>2, <1>2, <1>7
  <2>4. ASSUME NEW d \in old \cup new, NEW e \in old \cup new, d # e
        PROVE  proposals'[d] # proposals'[e]
    <3>1. CASE d \in old /\ e \in old
      BY <3>1, <2>4, <1>4 DEF DealsInv, PendingMatchesPublished
    <3>2. CASE d \in old /\ e \in new
      BY Zenon, <3>2, <2>2, <1>2, <1>7
    <3>3. CASE d \in new /\ e \in old
      BY Zenon, <3>3, <2>2, <1>2, <1>7
    <3>4. CASE d \in new /\ e \in new
      <4>1. d - next_deal_id + 1 # e - next_deal_id + 1
        BY <3>4, <2>4, <1>3
      <4>2. content(d) # content(e)
        BY <4>1, <3>4, <1>1, <1>3, SMTT(30)
      <4> QED BY <4>2, <3>4, <1>5
    <3> QED BY <3>1, <3>2, <3>3, <3>4
  <2> QED BY <2>1, <2>3, <2>4, SMTT(30) DEF PendingMatchesPublished, hash_proposal
<1>12. SectorDealsAreActive'
  <2>1. \A k \in DOMAIN sector_deals : \A d \in RangeOf(sector_deals[k]) :
          d \in 0 .. next_deal_id - 1
    BY DEF DealsInv, DealsTypeOK, RangeOf
  <2>2. \A k \in DOMAIN sector_deals : \A d \in RangeOf(sector_deals[k]) : d \notin new
    BY SMTT(30), <2>1, <1>1, <1>3
  <2> QED BY <2>2, <1>2, <1>4, <1>6 DEF DealsInv, SectorDealsAreActive, RangeOf
<1>13. PaidUpToNow'
  BY Zenon, <1>2, <1>4, <1>5, <1>6 DEF DealsInv, PaidUpToNow, IsActive
<1>14. DealsScheduledAtStart'
  <2>1. ASSUME NEW b \in DOMAIN deals_for_block', NEW d \in deals_for_block'[b]
        PROVE  b >= block' /\ (d \in DOMAIN proposals' =>
                                 proposals'[d].proposal.start_block = b)
    <3>1. d \in due(b)
      BY <2>1, <1>2
    <3>2. CASE d \in new
      <4>1. content(d).start_block = b
        BY SMTT(30), <3>1, <3>2, <1>1, <1>3 DEF DealsInv, DealsTypeOK, DealsFor
      <4> QED BY Zenon, <4>1, <3>2, <1>1, <1>2, <1>3, <1>5
    <3>3. CASE d \notin new
      BY <3>1, <3>3, <1>2, <1>4, SMTT(30) DEF DealsFor, DealsInv, DealsScheduledAtStart
    <3> QED BY <3>2, <3>3
  <2>2. ASSUME NEW d \in DOMAIN proposals', IsPublished(d)',
               proposals'[d].proposal.start_block >= block'
        PROVE  d \in due(proposals'[d].proposal.start_block)
    <3>1. CASE d \in new
      BY <3>1, <1>5
    <3>2. CASE d \in DOMAIN proposals
      <4>1. /\ IsPublished(d) /\ proposals'[d] = proposals[d]
            /\ proposals[d].proposal.start_block >= block
        BY <3>2, <2>2, <1>2, <1>4 DEF IsPublished
      <4>2. d \in DealsFor(proposals[d].proposal.start_block)
        BY <4>1, <3>2 DEF DealsInv, DealsScheduledAtStart
      <4> QED BY <4>1, <4>2, SMTT(30)
    <3> QED BY <3>1, <3>2, <1>4
  <2>3. \A d \in DOMAIN proposals' :
          IsPublished(d)' /\ proposals'[d].proposal.start_block >= block'
            => LET b == proposals'[d].proposal.start_block
               IN d \in IF b \in DOMAIN deals_for_block'
                        THEN deals_for_block'[b] ELSE {}
    BY <2>2, <1>8
  <2> QED BY <2>1, <2>3 DEF DealsScheduledAtStart, IsPublished, DealsFor
<1> QED BY <1>10, <1>11, <1>12, <1>13, <1>14 DEF DealsInv

\* Activation turns published deals into active ones of a sector that lists
\* them, and takes their hashes out of the pending set.
LEMMA DealsInvActivate ==
  ASSUME DealsInv, NEW a \in Providers, NEW call \in ActivationCalls,
         activate_deals(a, call)
  PROVE  DealsInv'
<1> DEFINE idsOf(s) == RangeOf(call[s].deal_ids)
           valid == {s \in DOMAIN call :
                       verify_deals_for_activation(a, call[s].deal_ids,
                                                   call[s].expiry)}
<1>1. PICK won \in SUBSET DOMAIN call :
        LET activated == UNION {idsOf(s) : s \in won}
            sectorOf(d) == CHOOSE s \in won : d \in idsOf(s)
        IN /\ won \subseteq valid
           /\ \A s, t \in won : s # t => idsOf(s) \cap idsOf(t) = {}
           /\ proposals' =
                [d \in DOMAIN proposals |->
                   IF d \in activated
                   THEN Deal(proposals[d].proposal,
                             ActiveDealState(sectorOf(d), block))
                   ELSE proposals[d]]
           /\ pending' = pending \ {hash_proposal(proposals[d]) : d \in activated}
           /\ sector_deals' =
                [k \in DOMAIN sector_deals \cup {<<a, s>> : s \in won} |->
                   IF k[1] = a /\ k[2] \in won
                   THEN call[k[2]].deal_ids
                   ELSE sector_deals[k]]
           /\ UNCHANGED <<block, next_deal_id, deals_for_block>>
  BY Zenon DEF activate_deals
<1> DEFINE activated == UNION {idsOf(s) : s \in won}
           sectorOf(d) == CHOOSE s \in won : d \in idsOf(s)
<1>2. /\ DOMAIN call \subseteq Sectors
      /\ \A s \in DOMAIN call : call[s].deal_ids \in Seq(DOMAIN proposals)
  <2>1. PICK called \in SUBSET Sectors :
          call \in [called -> [deal_ids : Lists(DOMAIN proposals),
                              expiry : SectorExpiries]]
    BY DEF ActivationCalls
  <2>2. \A l \in Lists(DOMAIN proposals) : l \in Seq(DOMAIN proposals)
    BY DEF Lists
  <2> QED BY <2>1, <2>2
<1>3. \A d \in activated :
        /\ d \in DOMAIN proposals
        /\ proposals[d].state.tag = "Published"
        /\ proposals[d].proposal.provider = a
        /\ block <= proposals[d].proposal.start_block
        /\ sectorOf(d) \in won
        /\ d \in idsOf(sectorOf(d))
  <2>1. SUFFICES ASSUME NEW s \in won, NEW d \in idsOf(s)
                 PROVE  /\ d \in DOMAIN proposals
                        /\ proposals[d].state.tag = "Published"
                        /\ proposals[d].proposal.provider = a
                        /\ block <= proposals[d].proposal.start_block
                        /\ sectorOf(d) \in won
                        /\ d \in idsOf(sectorOf(d))
    OBVIOUS
  <2>2. PICK i \in DOMAIN call[s].deal_ids : d = call[s].deal_ids[i]
    BY DEF RangeOf
  <2>3. validate_deal_can_activate(d, a, call[s].expiry)
    BY Zenon, <1>1, <2>2 DEF verify_deals_for_activation, validate_deals_for_sector
  <2> QED BY <2>3 DEF validate_deal_can_activate, IsPublished
<1>4. /\ DOMAIN proposals' = DOMAIN proposals
      /\ \A d \in activated :
           proposals'[d] = Deal(proposals[d].proposal,
                                ActiveDealState(sectorOf(d), block))
      /\ \A d \in DOMAIN proposals \ activated : proposals'[d] = proposals[d]
  BY Zenon, <1>1, <1>3
<1>5. /\ pending' = pending \ {proposals[d] : d \in activated}
      /\ block' = block
      /\ next_deal_id' = next_deal_id
      /\ deals_for_block' = deals_for_block
  BY Zenon, <1>1 DEF hash_proposal
<1>6. \A d \in activated :
        /\ proposals'[d].proposal = proposals[d].proposal
        /\ proposals'[d].state.tag = "Active"
        /\ proposals'[d].state.sector_number = sectorOf(d)
        /\ proposals'[d].state.sector_start_block = block
        /\ proposals'[d].state.last_updated_block = None
  <2>1. SUFFICES ASSUME NEW d \in activated, NEW s, s = sectorOf(d)
                 PROVE  /\ proposals'[d].proposal = proposals[d].proposal
                        /\ proposals'[d].state.tag = "Active"
                        /\ proposals'[d].state.sector_number = s
                        /\ proposals'[d].state.sector_start_block = block
                        /\ proposals'[d].state.last_updated_block = None
    BY Zenon
  <2>2. proposals'[d] = Deal(proposals[d].proposal, ActiveDealState(s, block))
    BY <1>4, <2>1, Zenon
  <2> QED BY <2>2 DEF Deal, ActiveDealState
<1>7. \A d \in DOMAIN proposals : proposals[d] \in DealRecords
  BY DEF DealsInv, DealsTypeOK
<1>8. \A d \in DOMAIN proposals :
        /\ proposals'[d].state.tag = "Published"
             <=> d \notin activated /\ proposals[d].state.tag = "Published"
        /\ proposals'[d].proposal = proposals[d].proposal
  BY <1>3, <1>4, <1>6, SMTT(30)
<1>9. DealsTypeOK'
  <2>1. \A d \in DOMAIN proposals' : proposals'[d] \in DealRecords
    <3>1. ASSUME NEW d \in activated PROVE proposals'[d] \in DealRecords
      <4>1. sectorOf(d) \in Sectors
        BY SMTT(30), <1>2, <1>3
      <4>2. ActiveDealState(sectorOf(d), block) \in ActiveStates
        BY <4>1 DEF ActiveDealState, ActiveStates, DealsInv, DealsTypeOK
      <4>3. proposals[d].proposal \in DealProposals
        BY <1>3, <1>7, DealStates
      <4>4. proposals'[d] = Deal(proposals[d].proposal,
                                 ActiveDealState(sectorOf(d), block))
        BY SMTT(30), <1>4
      <4> HIDE DEF activated, sectorOf
      <4> QED BY <4>2, <4>3, <4>4 DEF Deal, DealRecords
    <3> QED BY <3>1, <1>4, <1>7
  <2>2. DOMAIN sector_deals' \subseteq Providers \X Sectors
    BY <1>1, <1>2 DEF DealsInv, DealsTypeOK
  <2>3. \A k \in DOMAIN sector_deals' :
          sector_deals'[k] \in Seq(0 .. next_deal_id - 1)
    <3>1. \A s \in won : call[s].deal_ids \in Seq(0 .. next_deal_id - 1)
      BY <1>2 DEF DealsInv, DealsTypeOK
    <3>2. ASSUME NEW k \in DOMAIN sector_deals'
          PROVE  sector_deals'[k] \in Seq(0 .. next_deal_id - 1)
      <4>1. CASE k[1] = a /\ k[2] \in won
        BY Zenon, <4>1, <3>1, <1>1
      <4>2. CASE ~(k[1] = a /\ k[2] \in won)
        BY <4>2, <1>1 DEF DealsInv, DealsTypeOK
      <4> QED BY <4>1, <4>2
    <3> QED BY <3>2, SMTT(30)
  <2>4. \A h \in pending' : h \in DealRecords
    BY <1>5 DEF DealsInv, DealsTypeOK
  <2> QED BY <2>1, <2>2, <2>3, <2>4, <1>4, <1>5, SMTT(30) DEF DealsInv, DealsTypeOK
<1>10. PendingMatchesPublished'
  <2> DEFINE published == {d \in DOMAIN proposals : proposals[d].state.tag = "Published"}
  <2>1. pending = {proposals[d] : d \in published}
    BY DEF DealsInv, PendingMatchesPublished, IsPublished, hash_proposal
  <2>2. \A d, e \in published : d # e => proposals[d] # proposals[e]
    BY DEF DealsInv, PendingMatchesPublished, IsPublished
  <2>3. activated \subseteq published
    BY SMTT(30), <1>3
  <2>4. {d \in DOMAIN proposals' : proposals'[d].state.tag = "Published"}
          = published \ activated
    BY <1>4, <1>8, SMTT(30)
  <2>5. pending' = {proposals[d] : d \in published \ activated}
    BY <2>1, <2>2, <2>3, <1>5
  <2>6. \A d \in published \ activated : proposals'[d] = proposals[d]
    BY <1>4
  <2>7. pending' = {proposals'[d] : d \in published \ activated}
    BY <2>5, <2>6
  <2>8. \A d, e \in published \ activated : d # e => proposals'[d] # proposals'[e]
    BY <2>2, <2>6, SMTT(30)
  <2> QED BY <2>4, <2>7, <2>8
          DEF PendingMatchesPublished, IsPublished, hash_proposal
<1>11. SectorDealsAreActive'
  <2>1. SUFFICES ASSUME NEW k \in DOMAIN sector_deals',
                        NEW d \in RangeOf(sector_deals'[k]) \cap DOMAIN proposals
                 PROVE  /\ proposals'[d].state.tag = "Active"
                        /\ proposals'[d].state.sector_number = k[2]
                        /\ proposals'[d].proposal.provider = k[1]
    BY SMTT(30), <1>4 DEF SectorDealsAreActive, IsActive, RangeOf
  <2>2. CASE k[1] = a /\ k[2] \in won
    <3>1. d \in idsOf(k[2])
      BY <2>1, <2>2, <1>1, SMTT(30)
    <3>2. sectorOf(d) = k[2]
      BY <3>1, <2>2, <1>1, <1>3
    <3>3. d \in activated
      BY <3>1, <2>2
    <3> HIDE DEF activated, sectorOf
    <3> QED BY Zenon, <3>2, <3>3, <2>2, <1>3, <1>6
  <2>3. CASE ~(k[1] = a /\ k[2] \in won)
    <3>1. k \in DOMAIN sector_deals /\ sector_deals'[k] = sector_deals[k]
      <4>1. DOMAIN sector_deals' = DOMAIN sector_deals \cup {<<a, s>> : s \in won}
        BY Zenon, <1>1
      <4>2. \A s \in won : k # <<a, s>>
        BY <2>3, SMTT(30)
      <4>3. k \in DOMAIN sector_deals
        BY <4>1, <4>2, <2>1, Zenon
      <4> QED BY <4>3, <2>1, <2>3, <1>1, Zenon
    <3>2. /\ proposals[d].state.tag = "Active"
          /\ proposals[d].state.sector_number = k[2]
          /\ proposals[d].proposal.provider = k[1]
      BY <2>1, <3>1 DEF DealsInv, SectorDealsAreActive, IsActive
    <3>3. d \notin activated
      BY <3>2, <1>3, SMTT(30)
    <3> QED BY Zenon, <3>2, <3>3, <2>1, <1>4
  <2> QED BY SMTT(30), <2>2, <2>3
<1>12. PaidUpToNow'
  <2>1. SUFFICES ASSUME NEW d \in DOMAIN proposals,
                        proposals'[d].state.tag = "Active"
                 PROVE  LET p == proposals'[d].proposal
                            s == proposals'[d].state
                        IN /\ s.sector_start_block <= p.start_block
                           /\ s.last_updated_block # None =>
                                /\ p.start_block <= s.last_updated_block
                                /\ s.last_updated_block <= block'
                                /\ s.last_updated_block < p.end_block
    BY <1>4, SMTT(30) DEF PaidUpToNow, IsActive
  <2>2. CASE d \in activated
    BY SMTT(30), <2>2, <1>3, <1>6
  <2>3. CASE d \notin activated
    BY Zenon, <2>1, <2>3, <1>4, <1>5 DEF DealsInv, PaidUpToNow, IsActive
  <2> QED BY Zenon, <2>2, <2>3
<1>13. DealsScheduledAtStart'
  <2> HIDE DEF activated
  <2>1. /\ DOMAIN proposals' = DOMAIN proposals
        /\ block' = block
        /\ deals_for_block' = deals_for_block
        /\ \A d \in DOMAIN proposals :
             /\ proposals'[d].proposal = proposals[d].proposal
             /\ proposals'[d].state.tag = "Published"
                  => proposals[d].state.tag = "Published"
    BY Zenon, <1>4, <1>5, <1>8
  <2>2. DealsScheduledAtStart
    BY Zenon DEF DealsInv
  <2>3. \A b \in DOMAIN deals_for_block' : \A d \in deals_for_block'[b] :
          b >= block' /\ (d \in DOMAIN proposals' =>
                             proposals'[d].proposal.start_block = b)
    BY <2>1, <2>2 DEF DealsScheduledAtStart
  <2>4. ASSUME NEW d \in DOMAIN proposals',
               proposals'[d].state.tag = "Published",
               proposals'[d].proposal.start_block >= block'
        PROVE  d \in DealsFor(proposals[d].proposal.start_block)
    BY Zenon, <2>4, <2>1, <2>2 DEF DealsScheduledAtStart, IsPublished
  <2>5. \A b : DealsFor(b)' = DealsFor(b)
    BY <2>1 DEF DealsFor
  <2> QED BY SMTT(30), <2>1, <2>3, <2>4, <2>5 DEF DealsScheduledAtStart, IsPublished
<1> QED BY <1>9, <1>10, <1>11, <1>12, <1>13 DEF DealsInv

\* Settling removes complete active deals and moves the others' last update to
\* the current block; published deals are left alone.
LEMMA DealsInvSettle ==
  ASSUME DealsInv, NEW ids \in SUBSET DOMAIN proposals,
         settle_deal_payments(ids)
  PROVE  DealsInv'
<1> DEFINE settled == {d \in ids : Settleable(d)}
           ended == {d \in settled : Complete(d)}
<1>1. /\ proposals' = [d \in DOMAIN proposals \ ended |->
                         IF d \in settled
                         THEN [proposals[d] EXCEPT !.state.last_updated_block = block]
                         ELSE proposals[d]]
      /\ UNCHANGED <<block, next_deal_id, pending, deals_for_block, sector_deals>>
  BY DEF settle_deal_payments
<1>2. \A d \in DOMAIN proposals : proposals[d] \in DealRecords
  BY DEF DealsInv, DealsTypeOK
<1>3. /\ DOMAIN proposals' = DOMAIN proposals \ ended
      /\ \A d \in DOMAIN proposals' : d \notin settled => proposals'[d] = proposals[d]
  BY <1>1
<1>4. ASSUME NEW d \in DOMAIN proposals', d \in settled
      PROVE  /\ proposals'[d] \in DealRecords
             /\ proposals'[d].proposal = proposals[d].proposal
             /\ proposals'[d].state.tag = "Active"
             /\ proposals[d].state.tag = "Active"
             /\ proposals'[d].state.sector_number = proposals[d].state.sector_number
             /\ proposals'[d].state.sector_start_block
                  = proposals[d].state.sector_start_block
             /\ proposals'[d].state.last_updated_block = block
             /\ proposals[d].proposal.start_block <= block
             /\ block < proposals[d].proposal.end_block
  <2>1. /\ proposals[d].state.tag = "Active"
        /\ proposals[d].proposal.start_block <= block
        /\ ~(block >= proposals[d].proposal.end_block)
    BY Zenon, <1>3, <1>4 DEF Settleable, IsActive, Complete
  <2>2. /\ proposals[d].proposal \in DealProposals
        /\ proposals[d].proposal.end_block \in Nat
        /\ proposals[d].state \in ActiveStates
        /\ block \in Nat
    BY <1>2, <1>3, <1>4, <2>1, DealStates
       DEF DealContents, Block, DealsInv, DealsTypeOK
  <2>3. proposals'[d] = [proposals[d] EXCEPT !.state.last_updated_block = block]
    BY SMTT(30), <1>1, <1>3, <1>4
  <2>4. proposals[d] \in DealRecords
    BY <1>2, <1>3
  <2>5. /\ proposals'[d].proposal = proposals[d].proposal
        /\ proposals'[d].state
             = [proposals[d].state EXCEPT !.last_updated_block = block]
        /\ proposals'[d] = [proposal |-> proposals'[d].proposal,
                            state |-> proposals'[d].state]
    BY <2>3, <2>4 DEF DealRecords
  <2>6. proposals'[d].state \in ActiveStates
    BY SMTT(30), <2>2, <2>5 DEF ActiveStates, Block
  <2> QED BY SMTT(30), <2>1, <2>2, <2>5, <2>6 DEF ActiveStates, DealRecords
<1> HIDE DEF settled
<1>5. \A d \in DOMAIN proposals' :
        /\ d \in DOMAIN proposals
        /\ proposals'[d] \in DealRecords
        /\ proposals'[d].proposal = proposals[d].proposal
        /\ proposals'[d].state.tag = proposals[d].state.tag
        /\ proposals'[d].state.tag = "Published" => proposals'[d] = proposals[d]
        /\ proposals'[d].state.tag = "Active" =>
             /\ proposals'[d].state.sector_number = proposals[d].state.sector_number
             /\ proposals'[d].state.sector_start_block
                  = proposals[d].state.sector_start_block
             /\ \/ proposals'[d].state.last_updated_block
                     = proposals[d].state.last_updated_block
                \/ /\ proposals'[d].state.last_updated_block = block
                   /\ proposals[d].proposal.start_block <= block
                   /\ block < proposals[d].proposal.end_block
  BY <1>2, <1>3, <1>4
<1>6. {d \in DOMAIN proposals' : proposals'[d].state.tag = "Published"}
        = {d \in DOMAIN proposals : proposals[d].state.tag = "Published"}
  <2>1. \A d \in ended : proposals[d].state.tag = "Active"
    BY DEF settled, Settleable, IsActive
  <2> QED BY <2>1, <1>3, <1>5
<1>7. DealsTypeOK'
  BY <1>1, <1>5 DEF DealsInv, DealsTypeOK
<1>8. PendingMatchesPublished'
  <2> DEFINE published == {d \in DOMAIN proposals : proposals[d].state.tag = "Published"}
  <2>1. pending = {proposals[d] : d \in published}
    BY DEF DealsInv, PendingMatchesPublished, IsPublished, hash_proposal
  <2>2. \A d, e \in published : d # e => proposals[d] # proposals[e]
    BY DEF DealsInv, PendingMatchesPublished, IsPublished
  <2>3. \A d \in published : proposals'[d] = proposals[d]
    BY <1>5, <1>6
  <2>4. pending' = {proposals'[d] : d \in published}
    BY Zenon, <2>1, <2>3, <1>1
  <2>5. \A d, e \in published : d # e => proposals'[d] # proposals'[e]
    BY <2>2, <2>3
  <2> QED BY <2>4, <2>5, <1>6 DEF PendingMatchesPublished, IsPublished, hash_proposal
<1>9. SectorDealsAreActive'
  BY <1>1, <1>5 DEF DealsInv, SectorDealsAreActive, IsActive, RangeOf
<1>10. PaidUpToNow'
  <2>1. block \in Nat
    BY DEF DealsInv, DealsTypeOK, Block
  <2>2. SUFFICES ASSUME NEW d \in DOMAIN proposals',
                        proposals'[d].state.tag = "Active"
                 PROVE  LET p == proposals'[d].proposal
                            s == proposals'[d].state
                        IN /\ s.sector_start_block <= p.start_block
                           /\ s.last_updated_block # None =>
                                /\ p.start_block <= s.last_updated_block
                                /\ s.last_updated_block <= block'
                                /\ s.last_updated_block < p.end_block
    BY SMTT(30) DEF PaidUpToNow, IsActive
  <2>3. LET p == proposals[d].proposal
            s == proposals[d].state
        IN /\ s.sector_start_block <= p.start_block
           /\ s.last_updated_block # None =>
                /\ p.start_block <= s.last_updated_block
                /\ s.last_updated_block <= block
                /\ s.last_updated_block < p.end_block
    BY <2>2, <1>5 DEF DealsInv, PaidUpToNow, IsActive
  <2> QED BY <2>1, <2>2, <2>3, <1>1, <1>5
<1>11. DealsScheduledAtStart'
  BY <1>1, <1>5 DEF DealsInv, DealsScheduledAtStart, IsPublished, DealsFor
<1> QED BY <1>7, <1>8, <1>9, <1>10, <1>11 DEF DealsInv

\* A termination, whether complete or cut short, removes active deals only,
\* and the hash of an active deal is never pending.
LEMMA DealsInvTerminate ==
  ASSUME DealsInv, NEW run, KeepTermination(run)
  PROVE  DealsInv'
<1> DEFINE gone == {d \in run.removed : IsActive(d)}
           fresh == {d \in gone : proposals[d].state.last_updated_block = None}
           published == {d \in DOMAIN proposals : proposals[d].state.tag = "Published"}
<1>1. /\ proposals' = [d \in DOMAIN proposals \ gone |-> proposals[d]]
      /\ pending' = pending \ {proposals[d] : d \in fresh}
      /\ sector_deals' = [k \in DOMAIN sector_deals \ run.taken |-> sector_deals[k]]
      /\ UNCHANGED <<block, next_deal_id, deals_for_block>>
  BY DEF KeepTermination, Without, hash_proposal
<1>2. \A d \in gone : proposals[d].state.tag = "Active"
  BY DEF IsActive
<1>3. pending = {proposals[d] : d \in published}
  BY DEF DealsInv, PendingMatchesPublished, IsPublished, hash_proposal
<1>4. pending' = pending
  BY <1>1, <1>2, <1>3
<1> HIDE DEF gone
<1>5. DealsTypeOK'
  BY <1>1, <1>4 DEF DealsInv, DealsTypeOK
<1>6. PendingMatchesPublished'
  <2>1. \A d, e \in published : d # e => proposals[d] # proposals[e]
    BY DEF DealsInv, PendingMatchesPublished, IsPublished
  <2>2. {d \in DOMAIN proposals' : proposals'[d].state.tag = "Published"} = published
    BY <1>1, <1>2
  <2>3. \A d \in published : proposals'[d] = proposals[d]
    BY <1>1, <1>2
  <2>4. pending' = {proposals'[d] : d \in published}
    BY <2>3, <1>3, <1>4
  <2>5. \A d, e \in published : d # e => proposals'[d] # proposals'[e]
    BY <2>1, <2>3
  <2> QED BY <2>2, <2>4, <2>5 DEF PendingMatchesPublished, IsPublished, hash_proposal
<1>7. SectorDealsAreActive'
  <2>1. SUFFICES ASSUME NEW k \in DOMAIN sector_deals',
                        NEW d \in RangeOf(sector_deals'[k]) \cap DOMAIN proposals'
                 PROVE  /\ proposals'[d].state.tag = "Active"
                        /\ proposals'[d].state.sector_number = k[2]
                        /\ proposals'[d].proposal.provider = k[1]
    BY DEF SectorDealsAreActive, IsActive, RangeOf
  <2>2. /\ k \in DOMAIN sector_deals
        /\ sector_deals'[k] = sector_deals[k]
        /\ d \in DOMAIN proposals
        /\ proposals'[d] = proposals[d]
    BY SMTT(30), <2>1, <1>1
  <2> QED BY <2>1, <2>2 DEF DealsInv, SectorDealsAreActive, IsActive
<1>8. PaidUpToNow'
  BY SMTT(30), <1>1 DEF DealsInv, PaidUpToNow, IsActive
<1>9. DealsScheduledAtStart'
  BY <1>1 DEF DealsInv, DealsScheduledAtStart, IsPublished, DealsFor
<1> QED BY Zenon, <1>5, <1>6, <1>7, <1>8, <1>9 DEF DealsInv

\* The hook removes published deals that start in the block it ends, with their
\* hashes, and drops that block's list.
LEMMA DealsInvNextBlock ==
  ASSUME DealsInv, NextBlock
  PROVE  DealsInv'
<1> DEFINE slashed == FinalizeDeals(DealsFor(block)).slashed
           gone == {d \in DealsFor(block) : d \in slashed /\ IsPublished(d)}
           published == {d \in DOMAIN proposals : proposals[d].state.tag = "Published"}
<1>1. /\ proposals' = [d \in DOMAIN proposals \ gone |-> proposals[d]]
      /\ pending' = pending \ {proposals[d] : d \in gone}
      /\ deals_for_block' =
           [b \in DOMAIN deals_for_block \ {block} |-> deals_for_block[b]]
      /\ UNCHANGED <<next_deal_id, sector_deals>>
      /\ block' = block + 1
  BY DEF NextBlock, on_finalize, Without, hash_proposal
<1>2. gone \subseteq published
  BY DEF IsPublished
<1>3. pending = {proposals[d] : d \in published}
  BY DEF DealsInv, PendingMatchesPublished, IsPublished, hash_proposal
<1> HIDE DEF gone
<1>4. DealsTypeOK'
  BY <1>1 DEF DealsInv, DealsTypeOK, Block
<1>5. PendingMatchesPublished'
  <2>1. \A d, e \in published : d # e => proposals[d] # proposals[e]
    BY DEF DealsInv, PendingMatchesPublished, IsPublished
  <2>2. {d \in DOMAIN proposals' : proposals'[d].state.tag = "Published"}
          = published \ gone
    BY <1>1
  <2>3. \A d \in published \ gone : proposals'[d] = proposals[d]
    BY <1>1
  <2>4. pending' = {proposals[d] : d \in published \ gone}
    BY <2>1, <1>1, <1>2, <1>3
  <2>5. pending' = {proposals'[d] : d \in published \ gone}
    BY <2>3, <2>4
  <2>6. \A d, e \in published \ gone : d # e => proposals'[d] # proposals'[e]
    BY SMTT(30), <2>1, <2>3
  <2> QED BY <2>2, <2>5, <2>6 DEF PendingMatchesPublished, IsPublished, hash_proposal
<1>6. SectorDealsAreActive'
  BY SMTT(30), <1>1 DEF DealsInv, SectorDealsAreActive, IsActive, RangeOf
<1>7. PaidUpToNow'
  <2>1. /\ block \in Nat
        /\ \A d \in DOMAIN proposals : proposals[d].state.tag = "Active" =>
             proposals[d].state.last_updated_block \in Nat \cup {None}
    BY Zenon, DealStates DEF DealsInv, DealsTypeOK, Block, ActiveStates
  <2> QED BY SMTT(30), <2>1, <1>1 DEF DealsInv, PaidUpToNow, IsActive
<1>8. DealsScheduledAtStart'
  <2>1. /\ block \in Nat
        /\ \A b \in DOMAIN deals_for_block : b \in Nat
        /\ \A d \in DOMAIN proposals : proposals[d].proposal.start_block \in Nat
    BY DealStates DEF DealsInv, DealsTypeOK, Block, DealContents
  <2>2. \A b \in DOMAIN deals_for_block \ {block} :
          \A d \in deals_for_block[b] : b >= block + 1
    BY <2>1 DEF DealsInv, DealsScheduledAtStart
  <2> QED BY <2>1, <2>2, <1>1 DEF DealsInv, DealsScheduledAtStart, IsPublished, DealsFor
<1> QED BY SMTT(30), <1>4, <1>5, <1>6, <1>7, <1>8 DEF DealsInv

\* The deals of the market are always in good order: ids are below the next
\* one, PendingProposals is the set of published deals' hashes, the deals of a
\* sector are active in it, what was paid ends in the past and before the end
\* of the deal, and the hook finds every deal at its start block.
THEOREM DealsInvariant == Spec => []DealsInv
<1>1. DealsInv /\ [Next]_vars => DealsInv'
  <2> SUFFICES ASSUME DealsInv, [Next]_vars PROVE DealsInv'
    OBVIOUS
  <2>1. CASE Deposit
    BY <2>1, DealsInvUnchanged DEF Deposit, add_balance
  <2>2. CASE Withdraw
    BY <2>2, DealsInvUnchanged DEF Withdraw, withdraw_balance
  <2>3. CASE Publish
    BY <2>3, DealsInvPublish DEF Publish
  <2>4. CASE Activate
    BY <2>4, DealsInvActivate DEF Activate
  <2>5. CASE Settle
    BY <2>5, DealsInvSettle DEF Settle
  <2>6. CASE Terminate
    BY <2>6, DealsInvTerminate DEF Terminate, on_sectors_terminate
  <2>7. CASE TerminateInHook
    BY <2>7, DealsInvTerminate DEF TerminateInHook, on_sectors_terminate_in_hook
  <2>8. CASE NextBlock
    BY <2>8, DealsInvNextBlock
  <2>9. CASE UNCHANGED vars
    BY <2>9, DealsInvUnchanged DEF vars
  <2> QED BY <2>1, <2>2, <2>3, <2>4, <2>5, <2>6, <2>7, <2>8, <2>9 DEF Next
<1> QED BY <1>1, DealsInvInit, PTL DEF Spec

\* The types of the market's deal storage.
THEOREM DealsTypeCorrect == Spec => []DealsTypeOK
<1>1. DealsInv => DealsTypeOK
  BY DEF DealsInv
<1> QED BY <1>1, DealsInvariant, PTL

\* The pending set is exactly the published deals, without duplicates.
THEOREM PendingCorrect == Spec => []PendingMatchesPublished
<1>1. DealsInv => PendingMatchesPublished
  BY DEF DealsInv
<1> QED BY <1>1, DealsInvariant, PTL

\* Terminating a sector only ever meets its provider's active deals.
THEOREM SectorDealsCorrect == Spec => []SectorDealsAreActive
<1>1. DealsInv => SectorDealsAreActive
  BY DEF DealsInv
<1> QED BY <1>1, DealsInvariant, PTL

\* Settlement never meets a deal updated in the future or after its end.
THEOREM SettlementCorrect == Spec => []PaidUpToNow
<1>1. DealsInv => PaidUpToNow
  BY DEF DealsInv
<1> QED BY <1>1, DealsInvariant, PTL

\* The hook's schedule lists every deal that can still time out.
THEOREM ScheduleCorrect == Spec => []DealsScheduledAtStart
<1>1. DealsInv => DealsScheduledAtStart
  BY DEF DealsInv
<1> QED BY <1>1, DealsInvariant, PTL
-----------------------------------------------------------------------------
(* The market implements DealLifecycle.                                    *)

\* The fields of a deal.
LEMMA DealFields ==
  \A p, s : /\ Deal(p, s).proposal = p
            /\ Deal(p, s).state = s
            /\ Published.tag = "Published"
BY DEF Deal, Published

\* A deal that has just been activated.
LEMMA ActiveFields == \A s, b : ActiveDealState(s, b).tag = "Active"
BY DEF ActiveDealState

\* What LiveDeals shows of a deal.
LEMMA LiveDeal ==
  /\ DOMAIN LiveDeals = DOMAIN proposals
  /\ \A d \in DOMAIN proposals :
       LiveDeals[d] = [terms |-> proposals[d].proposal,
                       phase |-> proposals[d].state.tag]
BY DEF LiveDeals

\* And after a step.
LEMMA LiveDealNext ==
  /\ DOMAIN LiveDeals' = DOMAIN proposals'
  /\ \A d \in DOMAIN proposals' :
       LiveDeals'[d] = [terms |-> proposals'[d].proposal,
                        phase |-> proposals'[d].state.tag]
BY DEF LiveDeals

\* Publishing is the abstract Publish.
LEMMA PublishImplements ==
  ASSUME DealsInv, NEW a \in Providers, NEW batch \in Lists(DealProposals),
         publish_storage_deals(a, batch)
  PROVE  Lifecycle!Publish
<1> DEFINE new == next_deal_id .. next_deal_id' - 1
           content(d) == batch[d - next_deal_id + 1]
<1>1. /\ Len(batch) \in Nat
      /\ DOMAIN batch = 1 .. Len(batch)
      /\ batch # << >>
      /\ \A i \in 1 .. Len(batch) : batch[i] \in DealProposals
  <2>1. PICK n \in 0 .. MaxBatch : batch \in [1 .. n -> DealProposals]
    BY DEF Lists
  <2>2. batch \in Seq(DealProposals)
    BY <2>1
  <2> QED BY <2>2 DEF publish_storage_deals, validate_deals
<1>2. Len(batch) > 0
  BY <1>1
<1>3. /\ next_deal_id \in Nat
      /\ next_deal_id' = next_deal_id + Len(batch)
      /\ block' = block
  BY Zenon DEF publish_storage_deals, DealsInv, DealsTypeOK
<1>4. next_deal_id' > next_deal_id
  BY <1>1, <1>2, <1>3
<1>5. new = next_deal_id .. next_deal_id + Len(batch) - 1
  BY SMTT(30), <1>3
<1>6. proposals' = [d \in DOMAIN proposals \cup new |->
                      IF d \in new THEN Deal(content(d), Published)
                                   ELSE proposals[d]]
  BY Zenon, <1>5 DEF publish_storage_deals
<1>7. \A d \in new : d - next_deal_id + 1 \in 1 .. Len(batch)
  BY SMTT(30), <1>1, <1>3
<1>8. \A i \in 1 .. Len(batch) : /\ batch[i].start_block >= block
                                 /\ batch[i].start_block < batch[i].end_block
  BY Zenon, <1>1 DEF publish_storage_deals, validate_deals, sanity_check
<1>9. ASSUME NEW d \in new
      PROVE  /\ LiveDeals'[d].phase = "Published"
             /\ LiveDeals'[d].terms = content(d)
  <2>1. d \in DOMAIN proposals' /\ proposals'[d] = Deal(content(d), Published)
    BY SMTT(30), <1>6
  <2> HIDE DEF new, content
  <2>2. LiveDeals'[d] = [terms |-> proposals'[d].proposal,
                         phase |-> proposals'[d].state.tag]
    BY <2>1, LiveDealNext
  <2>3. /\ proposals'[d].proposal = content(d)
        /\ proposals'[d].state.tag = "Published"
    BY <2>1, DealFields
  <2> QED BY <2>2, <2>3
<1>10. \A d \in DOMAIN LiveDeals \ new : LiveDeals'[d] = LiveDeals[d]
  <2>1. \A d \in DOMAIN proposals \ new : /\ d \in DOMAIN proposals'
                                          /\ proposals'[d] = proposals[d]
    BY Zenon, <1>6
  <2> HIDE DEF new
  <2> QED BY <2>1, LiveDeal, LiveDealNext
<1>11. DOMAIN LiveDeals' = DOMAIN LiveDeals \cup new
  BY <1>6, LiveDeal, LiveDealNext
<1>12. \A d \in new : /\ LiveDeals'[d].phase = "Published"
                      /\ LiveDeals'[d].terms.start_block >= block
                      /\ LiveDeals'[d].terms.start_block < LiveDeals'[d].terms.end_block
  BY <1>7, <1>8, <1>9
<1> QED BY Zenon, <1>3, <1>4, <1>10, <1>11, <1>12 DEF Lifecycle!Publish

\* Activation is the abstract Activate.
LEMMA ActivateImplements ==
  ASSUME DealsInv, NEW a \in Providers, NEW call \in ActivationCalls,
         activate_deals(a, call)
  PROVE  Lifecycle!Activate
<1> DEFINE idsOf(s) == RangeOf(call[s].deal_ids)
           valid == {s \in DOMAIN call :
                       verify_deals_for_activation(a, call[s].deal_ids,
                                                   call[s].expiry)}
<1>1. PICK won \in SUBSET DOMAIN call :
        LET activated == UNION {idsOf(s) : s \in won}
            sectorOf(d) == CHOOSE s \in won : d \in idsOf(s)
        IN /\ won \subseteq valid
           /\ proposals' =
                [d \in DOMAIN proposals |->
                   IF d \in activated
                   THEN Deal(proposals[d].proposal,
                             ActiveDealState(sectorOf(d), block))
                   ELSE proposals[d]]
           /\ UNCHANGED <<block, next_deal_id>>
  BY Zenon DEF activate_deals
<1> DEFINE activated == UNION {idsOf(s) : s \in won}
<1>2. \A d \in activated : /\ proposals[d].state.tag = "Published"
                           /\ block <= proposals[d].proposal.start_block
  <2>1. SUFFICES ASSUME NEW s \in won, NEW d \in idsOf(s)
                 PROVE  /\ proposals[d].state.tag = "Published"
                        /\ block <= proposals[d].proposal.start_block
    OBVIOUS
  <2>2. PICK i \in DOMAIN call[s].deal_ids : d = call[s].deal_ids[i]
    BY DEF RangeOf
  <2>3. validate_deal_can_activate(d, a, call[s].expiry)
    BY Zenon, <1>1, <2>2 DEF verify_deals_for_activation, validate_deals_for_sector
  <2> QED BY <2>3 DEF validate_deal_can_activate, IsPublished
<1>3. /\ DOMAIN proposals' = DOMAIN proposals
      /\ \A d \in DOMAIN proposals :
           \/ proposals'[d] = proposals[d]
           \/ /\ d \in activated
              /\ \E s : proposals'[d] = Deal(proposals[d].proposal,
                                             ActiveDealState(s, block))
  BY Zenon, <1>1
<1>4. \A d \in DOMAIN proposals :
        \/ proposals'[d] = proposals[d]
        \/ /\ d \in activated
           /\ proposals'[d].proposal = proposals[d].proposal
           /\ proposals'[d].state.tag = "Active"
  <2> HIDE DEF activated
  <2>1. SUFFICES ASSUME NEW d \in DOMAIN proposals, proposals'[d] # proposals[d]
                 PROVE  /\ d \in activated
                        /\ proposals'[d].proposal = proposals[d].proposal
                        /\ proposals'[d].state.tag = "Active"
    OBVIOUS
  <2>2. d \in activated
    BY <1>3, <2>1
  <2>3. PICK s : proposals'[d] = Deal(proposals[d].proposal,
                                      ActiveDealState(s, block))
    BY SMTT(30), <1>3, <2>1
  <2>4. /\ proposals'[d].proposal = proposals[d].proposal
        /\ proposals'[d].state = ActiveDealState(s, block)
    BY <2>3, DealFields
  <2> QED BY <2>2, <2>4, ActiveFields
<1>5. /\ DOMAIN LiveDeals' = DOMAIN LiveDeals
      /\ \A d \in DOMAIN LiveDeals :
           \/ LiveDeals'[d] = LiveDeals[d]
           \/ /\ LiveDeals[d].phase = "Published"
              /\ block <= LiveDeals[d].terms.start_block
              /\ LiveDeals'[d] = [LiveDeals[d] EXCEPT !.phase = "Active"]
  BY SMTT(30), <1>2, <1>3, <1>4, LiveDeal, LiveDealNext
<1> QED BY <1>1, <1>5 DEF Lifecycle!Activate

\* Removing active deals, and leaving the terms and phases of the others, is the
\* abstract Finish; that is what settling and terminating do.
LEMMA FinishImplements ==
  ASSUME UNCHANGED <<block, next_deal_id>>,
         DOMAIN proposals' \subseteq DOMAIN proposals,
         \A d \in DOMAIN proposals \ DOMAIN proposals' :
            proposals[d].state.tag = "Active",
         \A d \in DOMAIN proposals' :
            /\ proposals'[d].proposal = proposals[d].proposal
            /\ proposals'[d].state.tag = proposals[d].state.tag
  PROVE  Lifecycle!Finish
<1>1. /\ DOMAIN LiveDeals' \subseteq DOMAIN LiveDeals
      /\ \A d \in DOMAIN LiveDeals' : LiveDeals'[d] = LiveDeals[d]
      /\ \A d \in DOMAIN LiveDeals \ DOMAIN LiveDeals' : LiveDeals[d].phase = "Active"
  BY LiveDeal, LiveDealNext
<1> QED BY SMTT(30), <1>1 DEF Lifecycle!Finish, Lifecycle!OnlyRemoves, Lifecycle!Removed,
                    Lifecycle!InPhase

\* Settling is the abstract Finish.
LEMMA SettleImplements ==
  ASSUME DealsInv, NEW ids \in SUBSET DOMAIN proposals,
         settle_deal_payments(ids)
  PROVE  Lifecycle!Finish
<1> DEFINE settled == {d \in ids : Settleable(d)}
           ended == {d \in settled : Complete(d)}
<1>1. /\ proposals' = [d \in DOMAIN proposals \ ended |->
                         IF d \in settled
                         THEN [proposals[d] EXCEPT !.state.last_updated_block = block]
                         ELSE proposals[d]]
      /\ UNCHANGED <<block, next_deal_id>>
  BY DEF settle_deal_payments
<1>2. \A d \in settled : proposals[d].state.tag = "Active"
  BY DEF Settleable, IsActive
<1> HIDE DEF settled
<1>3. ASSUME NEW d \in DOMAIN proposals'
      PROVE  /\ proposals'[d].proposal = proposals[d].proposal
             /\ proposals'[d].state.tag = proposals[d].state.tag
  <2>1. proposals[d] \in DealRecords
    BY <1>1, <1>3 DEF DealsInv, DealsTypeOK
  <2>2. CASE d \in settled
    <3>1. /\ proposals'[d] = [proposals[d] EXCEPT !.state.last_updated_block = block]
          /\ proposals[d].state.tag = "Active"
      BY <2>2, <1>1, <1>2, <1>3
    <3>2. proposals[d].state \in ActiveStates
      BY <2>1, <3>1, DealStates
    <3>3. /\ proposals'[d].proposal = proposals[d].proposal
          /\ proposals'[d].state
               = [proposals[d].state EXCEPT !.last_updated_block = block]
      BY <2>1, <3>1 DEF DealRecords
    <3> QED BY <3>2, <3>3 DEF ActiveStates
  <2>3. CASE d \notin settled
    BY Zenon, <2>3, <1>1, <1>3
  <2> QED BY <2>2, <2>3
<1> QED BY <1>1, <1>2, <1>3, FinishImplements

\* Terminating the deals of sectors, also when it is cut short, is the abstract
\* Finish.
LEMMA TerminateImplements ==
  ASSUME NEW run, KeepTermination(run)
  PROVE  Lifecycle!Finish
BY FinishImplements DEF KeepTermination, Without, IsActive

\* The end of a block is the abstract Tick: the hook removes only published
\* deals that start in that block, because only those are on its list.
LEMMA NextBlockImplements ==
  ASSUME DealsInv, NextBlock
  PROVE  Lifecycle!Tick
<1> DEFINE slashed == FinalizeDeals(DealsFor(block)).slashed
           gone == {d \in DealsFor(block) : d \in slashed /\ IsPublished(d)}
<1>1. /\ proposals' = [d \in DOMAIN proposals \ gone |-> proposals[d]]
      /\ next_deal_id' = next_deal_id
      /\ block' = block + 1
  BY SMTT(30) DEF NextBlock, on_finalize, Without
<1>2. \A d \in gone : /\ d \in DOMAIN proposals
                      /\ proposals[d].state.tag = "Published"
                      /\ proposals[d].proposal.start_block = block
  BY SMTT(30) DEF IsPublished, DealsFor, DealsInv, DealsScheduledAtStart
<1> HIDE DEF gone
<1>3. /\ DOMAIN LiveDeals' \subseteq DOMAIN LiveDeals
      /\ \A d \in DOMAIN LiveDeals' : LiveDeals'[d] = LiveDeals[d]
      /\ \A d \in DOMAIN LiveDeals \ DOMAIN LiveDeals' :
           /\ LiveDeals[d].phase = "Published"
           /\ LiveDeals[d].terms.start_block = block
  BY <1>1, <1>2, LiveDeal, LiveDealNext
<1> QED BY Zenon, <1>1, <1>3 DEF Lifecycle!Tick, Lifecycle!OnlyRemoves,
                          Lifecycle!Removed, Lifecycle!InPhase

\* Whatever is called and whenever, each deal lives the life DealLifecycle
\* describes: no id is used twice, terms never change, a published deal is
\* activated by its start block or removed at the end of exactly that block,
\* and an active deal is only ever finished.
THEOREM MarketImplementsLifecycle == Spec => ImplementsLifecycle
<1>1. Init => Lifecycle!Init
  BY DEF Init, Lifecycle!Init, LiveDeals
<1>2. DealsInv /\ [Next]_vars => [Lifecycle!Next]_Lifecycle!lifecycle
  <2> SUFFICES ASSUME DealsInv, [Next]_vars
               PROVE  [Lifecycle!Next]_Lifecycle!lifecycle
    OBVIOUS
  <2>1. UNCHANGED <<block, deals>> => UNCHANGED Lifecycle!lifecycle
    BY DEF deals, Lifecycle!lifecycle, LiveDeals
  <2>2. CASE Deposit
    BY <2>1, <2>2 DEF Deposit, add_balance
  <2>3. CASE Withdraw
    BY <2>1, <2>3 DEF Withdraw, withdraw_balance
  <2>4. CASE Publish
    BY <2>4, PublishImplements DEF Publish, Lifecycle!Next
  <2>5. CASE Activate
    BY <2>5, ActivateImplements DEF Activate, Lifecycle!Next
  <2>6. CASE Settle
    BY <2>6, SettleImplements DEF Settle, Lifecycle!Next
  <2>7. CASE Terminate
    BY <2>7, TerminateImplements DEF Terminate, on_sectors_terminate, Lifecycle!Next
  <2>8. CASE TerminateInHook
    BY <2>8, TerminateImplements
       DEF TerminateInHook, on_sectors_terminate_in_hook, Lifecycle!Next
  <2>9. CASE NextBlock
    BY <2>9, NextBlockImplements DEF Lifecycle!Next
  <2>10. CASE UNCHANGED vars
    BY <2>1, <2>10 DEF vars
  <2> QED BY <2>2, <2>3, <2>4, <2>5, <2>6, <2>7, <2>8, <2>9, <2>10 DEF Next
<1> QED BY <1>1, <1>2, DealsInvariant, PTL DEF Spec, ImplementsLifecycle, Lifecycle!Spec
=============================================================================
