----------------------------- MODULE ChainClocks -----------------------------
(***************************************************************************)
(* The pallets that only follow the blocks, in one chain: the deadlines of *)
(* the storage providers, the history of randomness that their proofs are  *)
(* challenged from, and the faucet.  A block brings or does not bring a    *)
(* VRF, and its hook moves the deadlines.                                  *)
(***************************************************************************)
EXTENDS DeadlineClock, Randomness, Faucet

\* The proof of a deadline is checked against the VRF of its challenge block,
\* as late as the last block of the window.  The constants of the testnet
\* runtime satisfy this (10 + 20 <= 256); those of the other do not (100 + 300).
ASSUME HistoryCoversWindow ==
  WPoStChallengeLookBack + WPoStChallengeWindow <= HISTORY_SIZE

chainVars == <<vars, randomnessVars, faucetVars>>

ChainInit == Init /\ RandomnessInit /\ FaucetInit

Block ==
  /\ NextBlock
  /\ set_author_vrf \/ set_author_vrf_none
  /\ UNCHANGED faucetVars

Extrinsic(a) ==
  \/ Register(a) /\ UNCHANGED <<randomnessVars, faucetVars>>
  \/ drip(a) /\ UNCHANGED <<vars, randomnessVars>>

ChainNext == Block \/ \E a \in Accounts : Extrinsic(a)

ChainSpec == ChainInit /\ [][ChainNext]_chainVars

-----------------------------------------------------------------------------

\* While a deadline is open, the randomness its proof is checked against can
\* be looked up, if its challenge block carried any (get_randomness of
\* submit_windowed_post): a proof is not refused for being submitted late in
\* the window.
ChallengeAvailable ==
  \A a \in DOMAIN clocks :
    LET deadline == InfoOf(clocks[a], block)
    IN is_open(deadline) /\ deadline.challenge \in drawn
         => deadline.challenge \in DOMAIN history
=============================================================================
