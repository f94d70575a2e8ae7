------------------------------- MODULE Blocks --------------------------------
(* What the pallets that follow the chain's clock share: its accounts and    *)
(* the number of the block being produced.                                   *)
EXTENDS Integers

CONSTANTS
  Accounts,
  FirstBlock,     \* the block in which the model begins
  MaxBlock        \* and the last one it produces

ASSUME FirstBlockAssumption == FirstBlock \in Nat /\ MaxBlock \in Nat

VARIABLE block
==============================================================================
