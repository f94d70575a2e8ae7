---------------------------- MODULE DeadlineInfo ----------------------------
(***************************************************************************)
(* When the deadlines of a proving period open and close (DeadlineInfo and *)
(* deadline_is_mutable in deadline.rs).  The blocks of the models are far  *)
(* from the ends of the block number type, so the subtractions below do    *)
(* not wrap: DeadlineAssumption says what that takes.                      *)
(***************************************************************************)
EXTENDS Integers

CONSTANTS
  WPoStPeriodDeadlines,     \* deadlines in a proving period
  WPoStProvingPeriod,
  WPoStChallengeWindow,
  WPoStChallengeLookBack,
  FaultDeclarationCutoff

ASSUME DeadlineAssumption ==
  /\ WPoStPeriodDeadlines \in Nat \ {0}
  /\ WPoStChallengeWindow \in Nat \ {0}
  /\ WPoStProvingPeriod = WPoStPeriodDeadlines * WPoStChallengeWindow
  /\ WPoStChallengeLookBack \in 0 .. WPoStProvingPeriod
  /\ FaultDeclarationCutoff \in 0 .. WPoStProvingPeriod

DeadlineInfo_new(block_number, period_start, idx) ==
  LET open_at == period_start + idx * WPoStChallengeWindow
  IN [block_number |-> block_number, period_start |-> period_start,
      idx |-> idx, open_at |-> open_at,
      close_at |-> open_at + WPoStChallengeWindow,
      challenge |-> open_at - WPoStChallengeLookBack,
      fault_cutoff |-> open_at - FaultDeclarationCutoff]

period_started(dl) == dl.block_number >= dl.period_start

is_open(dl) == dl.block_number >= dl.open_at /\ dl.block_number < dl.close_at

has_elapsed(dl) == dl.block_number >= dl.close_at

last(dl) == dl.close_at - 1

fault_cutoff_passed(dl) == dl.block_number >= dl.fault_cutoff

next(dl) ==
  LET gap == dl.block_number - dl.period_start
      delta_periods == 1 + gap \div WPoStProvingPeriod
  IN DeadlineInfo_new(dl.block_number,
                      dl.period_start + WPoStProvingPeriod * delta_periods,
                      dl.idx)

next_not_elapsed(dl) == IF has_elapsed(dl) THEN next(dl) ELSE dl

deadline_is_mutable(proving_period_start, idx, current_block) ==
  LET dl == next_not_elapsed(
              DeadlineInfo_new(current_block, proving_period_start, idx))
  IN current_block < dl.open_at - WPoStChallengeWindow
=============================================================================
