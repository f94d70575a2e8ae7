---------------------------- MODULE DeadlineClock ----------------------------
(***************************************************************************)
(* What the bookkeeping of deadlines promises, without sectors: a provider *)
(* registers with a proving period that starts in the future, and the hook *)
(* of the block at which its current deadline closes moves it to the next. *)
(* StorageProvider implements this module.                                 *)
(***************************************************************************)
EXTENDS DeadlineInfo, Blocks

VARIABLE
  clocks          \* of each registered provider: its period and deadline

vars == <<block, clocks>>

InfoOf(clock, b) == DeadlineInfo_new(b, clock.period_start, clock.idx)

Init == block = FirstBlock /\ clocks = << >>

Register(a) ==
  /\ a \notin DOMAIN clocks
  /\ \E start \in block + 1 .. block + 2 * WPoStProvingPeriod :
       clocks' = [c \in DOMAIN clocks \cup {a} |->
                    IF c = a THEN [period_start |-> start, idx |-> 0]
                    ELSE clocks[c]]
  /\ UNCHANGED block

\* Mutant: the period starts again before its last deadline.
Advanced_early(clock) ==
  IF clock.idx + 2 >= WPoStPeriodDeadlines
  THEN [period_start |-> clock.period_start + WPoStProvingPeriod, idx |-> 0]
  ELSE [period_start |-> clock.period_start, idx |-> clock.idx + 1]

Advanced(clock) ==
  IF clock.idx + 1 = WPoStPeriodDeadlines
  THEN [period_start |-> clock.period_start + WPoStProvingPeriod, idx |-> 0]
  ELSE [period_start |-> clock.period_start, idx |-> clock.idx + 1]

\* Mutant: a deadline is left a block after it closes.
Ticked_late(clock, b) ==
  IF b > InfoOf(clock, b).close_at THEN Advanced(clock) ELSE clock

Ticked(clock, b) ==
  IF has_elapsed(InfoOf(clock, b)) THEN Advanced(clock) ELSE clock

NextBlock ==
  /\ block < MaxBlock
  /\ block' = block + 1
  /\ clocks' = [a \in DOMAIN clocks |-> Ticked(clocks[a], block)]

Next == NextBlock \/ \E a \in Accounts : Register(a)

Spec == Init /\ [][Next]_vars

-----------------------------------------------------------------------------

Clocks == [period_start : Nat, idx : 0 .. WPoStPeriodDeadlines - 1]

ClockTypeOK ==
  /\ block \in Nat
  /\ DOMAIN clocks \subseteq Accounts
  /\ \A a \in DOMAIN clocks : clocks[a] \in Clocks

\* The stored deadline keeps pace with the chain (advance_deadline): the hook
\* of the block at which the current deadline closes has yet to run, and the
\* deadline has opened unless the provider's first period is still to begin.
\* So no deadline is skipped, and none is processed twice in a period.
ClockInSync ==
  \A a \in DOMAIN clocks :
    LET current == InfoOf(clocks[a], block)
    IN /\ block <= current.close_at
       /\ \/ block > current.open_at
          \/ current.idx = 0 /\ block <= current.open_at

\* A step of the chain never takes a provider back, and leaves a deadline only
\* for the one whose window begins where the window left ends.
WindowsAdjoin ==
  [][\A a \in DOMAIN clocks :
       /\ a \in DOMAIN clocks'
       /\ \/ clocks'[a] = clocks[a]
          \/ InfoOf(clocks'[a], block').open_at
               = InfoOf(clocks[a], block).close_at]_vars
=============================================================================
