------------------------------ MODULE MCMarket ------------------------------
(* Instances of Market for model checking. *)
EXTENDS Market, TLC

CONSTANTS client, provider, s1, s2

Proposal(c, p, start, end, price, collateral) ==
  [client |-> c, provider |-> p, start_block |-> start, end_block |-> end,
   storage_price_per_block |-> price, provider_collateral |-> collateral,
   piece_size |-> 1]

\* Two deals of the same parties that overlap in time, and one nobody signed.
TwoDeals ==
  {Proposal(client, provider, 1, 3, 1, 1),
   Proposal(client, provider, 2, 4, 1, 2)}

UnsignedDeal == Proposal(client, provider, 1, 4, 1, 1)

MCDealProposals == TwoDeals \cup {UnsignedDeal}

\* The same, and one that starts with the second, in which the provider is its
\* own client.
MutualDeals == TwoDeals \cup {Proposal(provider, provider, 2, 4, 1, 1)}

MCMutualProposals == MutualDeals \cup {UnsignedDeal}

\* Nothing tells the two sectors apart.
Symmetry == Permutations(Sectors)
=============================================================================
