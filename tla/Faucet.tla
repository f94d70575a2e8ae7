-------------------------------- MODULE Faucet --------------------------------
(***************************************************************************)
(* The faucet pallet (pallets/faucet/src/lib.rs): unsigned calls that      *)
(* issue FaucetDripAmount to an account, at most once in FaucetDripDelay   *)
(* blocks.                                                                 *)
(***************************************************************************)
EXTENDS Blocks

CONSTANTS
  FaucetDripAmount,
  FaucetDripDelay

ASSUME FaucetAssumption ==
  /\ FaucetDripAmount \in Nat
  /\ FaucetDripDelay \in Nat \ {0}

VARIABLES
  drips,          \* Drips: the block of an account's last drip
  issued          \* what the faucet has issued to each account

faucetVars == <<drips, issued>>

FaucetInit ==
  /\ drips = << >>
  /\ issued = [a \in Accounts |-> 0]

\* Mutant: the delay is one block short.
UsedRecently_short(a) ==
  a \in DOMAIN drips /\ block + 1 < drips[a] + FaucetDripDelay

UsedRecently(a) == a \in DOMAIN drips /\ block < drips[a] + FaucetDripDelay

drip(a) ==
  /\ ~UsedRecently(a)
  /\ issued' = [issued EXCEPT ![a] = @ + FaucetDripAmount]
  /\ drips' = [c \in DOMAIN drips \cup {a} |-> IF c = a THEN block ELSE drips[c]]

-----------------------------------------------------------------------------

\* However the calls fall, an account is issued no more than one amount for
\* every delay begun since the faucet opened (drip).
DripsRateLimited ==
  \A a \in Accounts :
    issued[a] <= FaucetDripAmount *
                   (1 + (block - FirstBlock) \div FaucetDripDelay)
=============================================================================
