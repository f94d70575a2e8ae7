-------------------------- MODULE ChainClocksProofs --------------------------
(***************************************************************************)
(* For every value of the constants: the clocks of the deadlines agree     *)
(* with the chain's, the recent VRFs stay on record, the faucet is rate    *)
(* limited.  The chain implements the specifications of the first two, so  *)
(* what is proved of them alone holds in it, and together they give what a *)
(* proof of spacetime needs.                                               *)
(***************************************************************************)
EXTENDS ChainClocks, TLAPS

-----------------------------------------------------------------------------
(* The deadlines.                                                         *)

IInv == ClockTypeOK /\ ClockInSync

\* The window after a deadline begins where the deadline closes, also across
\* the end of a proving period (DeadlineInfo::new, advance_deadline).
LEMMA AdvancedAdjoins ==
  ASSUME NEW c \in Clocks, NEW b \in Nat, NEW b2 \in Nat
  PROVE  /\ Advanced(c) \in Clocks
         /\ InfoOf(Advanced(c), b2).open_at = InfoOf(c, b).close_at
         /\ InfoOf(Advanced(c), b2).close_at
              = InfoOf(c, b).close_at + WPoStChallengeWindow
<1> DEFINE N == WPoStPeriodDeadlines
           W == WPoStChallengeWindow
<1>1. /\ N \in Nat \ {0} /\ W \in Nat \ {0}
      /\ WPoStProvingPeriod = N * W /\ WPoStProvingPeriod \in Nat
  BY DeadlineAssumption
<1>2. c.period_start \in Nat /\ c.idx \in 0 .. N - 1
  BY DEF Clocks
<1>3. c.idx * W \in Nat /\ (c.idx + 1) * W = c.idx * W + W /\ 0 * W = 0
  BY <1>1, <1>2
<1>4. CASE c.idx + 1 = N
  <2>1. Advanced(c) = [period_start |-> c.period_start + WPoStProvingPeriod,
                       idx |-> 0]
    BY <1>4 DEF Advanced
  <2>2. WPoStProvingPeriod = c.idx * W + W
    BY <1>1, <1>3, <1>4
  <2> QED
    BY <1>1, <1>2, <1>3, <2>1, <2>2 DEF Clocks, InfoOf, DeadlineInfo_new
<1>5. CASE c.idx + 1 # N
  <2>1. Advanced(c) = [period_start |-> c.period_start, idx |-> c.idx + 1]
    BY <1>5 DEF Advanced
  <2>2. c.idx + 1 \in 0 .. N - 1
    BY <1>1, <1>2, <1>5
  <2> QED
    BY <1>1, <1>2, <1>3, <2>1, <2>2 DEF Clocks, InfoOf, DeadlineInfo_new
<1> QED BY <1>4, <1>5

\* A window is as long as WPoStChallengeWindow, and opens at its period's
\* start when the deadline is the first.
LEMMA Window ==
  ASSUME NEW c \in Clocks, NEW b \in Nat
  PROVE  LET info == InfoOf(c, b)
         IN /\ info.block_number = b /\ info.idx = c.idx
            /\ info.open_at \in Nat
            /\ info.close_at = info.open_at + WPoStChallengeWindow
            /\ c.idx = 0 => info.open_at = c.period_start
<1>1. WPoStChallengeWindow \in Nat \ {0}
  BY DeadlineAssumption
<1>2. c.period_start \in Nat /\ c.idx \in Nat
  BY DeadlineAssumption DEF Clocks
<1>3. c.idx * WPoStChallengeWindow \in Nat /\ 0 * WPoStChallengeWindow = 0
  BY <1>1, <1>2
<1> QED BY <1>1, <1>2, <1>3 DEF InfoOf, DeadlineInfo_new

\* Registering and the end of a block both keep the clocks in sync.
THEOREM ClockInvariance == Spec => []IInv
<1>1. Init => IInv
  BY FirstBlockAssumption DEF Init, IInv, ClockTypeOK, ClockInSync
<1>2. IInv /\ [Next]_vars => IInv'
  <2> SUFFICES ASSUME IInv, [Next]_vars
               PROVE  IInv'
    OBVIOUS
  <2>1. CASE NextBlock
    <3> SUFFICES ASSUME NEW a \in DOMAIN clocks
                 PROVE  /\ Ticked(clocks[a], block) \in Clocks
                        /\ LET now == InfoOf(Ticked(clocks[a], block), block + 1)
                           IN /\ block + 1 <= now.close_at
                              /\ \/ block + 1 > now.open_at
                                 \/ now.idx = 0 /\ block + 1 <= now.open_at
      BY <2>1 DEF NextBlock, IInv, ClockTypeOK, ClockInSync
    <3> DEFINE c == clocks[a]
    <3>1. c \in Clocks /\ block \in Nat /\ block + 1 \in Nat
      BY DEF IInv, ClockTypeOK
    <3>2. /\ block <= InfoOf(c, block).close_at
          /\ \/ block > InfoOf(c, block).open_at
             \/ InfoOf(c, block).idx = 0 /\ block <= InfoOf(c, block).open_at
      BY DEF IInv, ClockInSync
    <3>3. WPoStChallengeWindow \in Nat \ {0}
      BY DeadlineAssumption
    <3>4. CASE has_elapsed(InfoOf(c, block))
      <4>1. Ticked(c, block) = Advanced(c)
        BY <3>4 DEF Ticked
      <4>2. /\ InfoOf(c, block).block_number = block
            /\ InfoOf(c, block).close_at \in Nat
        BY <3>1, <3>3, Window
      <4>3. block = InfoOf(c, block).close_at
        BY <3>1, <3>2, <3>4, <4>2 DEF has_elapsed
      <4> QED
        BY <3>1, <3>3, <4>1, <4>3, AdvancedAdjoins
    <3>5. CASE ~has_elapsed(InfoOf(c, block))
      <4>1. Ticked(c, block) = c
        BY <3>5 DEF Ticked
      <4>2. block < InfoOf(c, block).close_at
        BY <3>1, <3>3, <3>5, Window DEF has_elapsed
      <4>3. /\ InfoOf(c, block + 1).open_at = InfoOf(c, block).open_at
            /\ InfoOf(c, block + 1).close_at = InfoOf(c, block).close_at
            /\ InfoOf(c, block + 1).idx = InfoOf(c, block).idx
        BY DEF InfoOf, DeadlineInfo_new
      <4>4. InfoOf(c, block).open_at \in Nat /\ InfoOf(c, block).close_at \in Nat
        BY <3>1, <3>3, Window
      <4> QED
        BY <3>1, <3>2, <4>1, <4>2, <4>3, <4>4
    <3> QED BY <3>4, <3>5
  <2>2. ASSUME NEW r \in Accounts, Register(r)
        PROVE  IInv'
    <3>1. PICK start \in block + 1 .. block + 2 * WPoStProvingPeriod :
            clocks' = [c \in DOMAIN clocks \cup {r} |->
                         IF c = r THEN [period_start |-> start, idx |-> 0]
                         ELSE clocks[c]]
      BY <2>2 DEF Register
    <3>2. block' = block /\ block \in Nat /\ start \in Nat /\ block < start
      BY <2>2, <3>1, DeadlineAssumption DEF Register, IInv, ClockTypeOK
    <3> DEFINE new == [period_start |-> start, idx |-> 0]
    <3>3. new \in Clocks
      BY <3>2, DeadlineAssumption DEF Clocks
    <3>4. ClockTypeOK'
      BY <3>1, <3>2, <3>3 DEF IInv, ClockTypeOK
    <3>5. /\ block <= InfoOf(new, block).close_at
          /\ InfoOf(new, block).idx = 0 /\ block <= InfoOf(new, block).open_at
      BY <3>2, <3>3, Window, DeadlineAssumption
    <3>6. ClockInSync'
      BY <3>1, <3>2, <3>5 DEF IInv, ClockInSync
    <3> QED BY <3>4, <3>6 DEF IInv
  <2>3. CASE UNCHANGED vars
    BY <2>3 DEF vars, IInv, ClockTypeOK, ClockInSync
  <2> QED BY <2>1, <2>2, <2>3 DEF Next
<1> QED BY <1>1, <1>2, PTL DEF Spec

\* The periods and deadlines on record are always valid: the index stays below
\* the number of deadlines (advance_deadline).
THEOREM ClockTypeCorrect == Spec => []ClockTypeOK
BY ClockInvariance, PTL DEF IInv

\* For every period, window and number of deadlines the current deadline on
\* record is the one the chain has reached (advance_deadline, check_deadlines).
THEOREM ClockCorrect == Spec => []ClockInSync
BY ClockInvariance, PTL DEF IInv

\* Deadlines are passed through one after the other, without a gap between
\* their windows and without a way back (advance_deadline).
THEOREM ClockAdjoins == Spec => WindowsAdjoin
<1>1. IInv /\ [Next]_vars =>
        [\A a \in DOMAIN clocks :
           /\ a \in DOMAIN clocks'
           /\ \/ clocks'[a] = clocks[a]
              \/ InfoOf(clocks'[a], block').open_at
                   = InfoOf(clocks[a], block).close_at]_vars
  <2> SUFFICES ASSUME IInv, Next, NEW a \in DOMAIN clocks
               PROVE  /\ a \in DOMAIN clocks'
                      /\ \/ clocks'[a] = clocks[a]
                         \/ InfoOf(clocks'[a], block').open_at
                              = InfoOf(clocks[a], block).close_at
    OBVIOUS
  <2>1. CASE NextBlock
    <3>1. clocks[a] \in Clocks /\ block \in Nat /\ block' \in Nat
      BY <2>1 DEF IInv, ClockTypeOK, NextBlock
    <3>2. a \in DOMAIN clocks' /\ clocks'[a] = Ticked(clocks[a], block)
      BY <2>1 DEF NextBlock
    <3> QED BY <3>1, <3>2, AdvancedAdjoins DEF Ticked
  <2>2. ASSUME NEW r \in Accounts, Register(r)
        PROVE  a \in DOMAIN clocks' /\ clocks'[a] = clocks[a]
    BY <2>2 DEF Register
  <2> QED BY <2>1, <2>2 DEF Next
<1> QED BY <1>1, ClockInvariance, PTL DEF Spec, WindowsAdjoin

-----------------------------------------------------------------------------
(* The randomness.                                                         *)

RInv ==
  /\ RandomnessTypeOK
  /\ RecentRandomnessAvailable
  /\ drawn # {} => author_vrf \in DOMAIN history
  /\ \A b \in drawn : b <= author_vrf

\* Recording a VRF removes at most the entry that leaves the window, and a
\* block without one only moves the window (set_author_vrf).
THEOREM RandomnessInvariance == RandomnessSpec => []RInv
<1>1. RandomnessInit => RInv
  BY FirstBlockAssumption DEF RandomnessInit, RInv, RandomnessTypeOK, RecentRandomnessAvailable
<1>2. RInv /\ [RandomnessNext]_randomnessVars => RInv'
  <2> SUFFICES ASSUME RInv, [RandomnessNext]_randomnessVars
               PROVE  RInv'
    OBVIOUS
  <2>0. /\ block \in Nat /\ HISTORY_SIZE \in Nat \ {0}
        /\ author_vrf \in 0 .. block
        /\ drawn \subseteq 1 .. block
        /\ DOMAIN history \subseteq drawn
        /\ \A b \in DOMAIN history : history[b] = b
        /\ \A b \in drawn : b > block - HISTORY_SIZE => b \in DOMAIN history
        /\ drawn # {} => author_vrf \in DOMAIN history
        /\ \A b \in drawn : b <= author_vrf
    BY HistoryAssumption DEF RInv, RandomnessTypeOK, RecentRandomnessAvailable
  <2>1. CASE set_author_vrf
    <3> DEFINE n == block + 1
               kept == DOMAIN history \ Removed(n)
    <3>1. /\ block' = n /\ author_vrf' = n /\ drawn' = drawn \cup {n}
          /\ history' = [b \in kept \cup {n} |-> IF b = n THEN n ELSE history[b]]
      BY <2>1 DEF set_author_vrf, Inserted
    <3>2. Removed(n) \subseteq {n - HISTORY_SIZE}
      BY DEF Removed
    <3>3. DOMAIN history' = kept \cup {n} /\ \A b \in DOMAIN history' : history'[b] = b
      BY <3>1, <2>0
    <3>4. RandomnessTypeOK'
      <4>1. n \in Nat /\ n \in 0 .. n /\ drawn \cup {n} \subseteq 1 .. n
        BY <2>0
      <4>2. kept \cup {n} \subseteq drawn \cup {n}
        BY <2>0
      <4> QED BY <3>1, <3>3, <4>1, <4>2, Zenon DEF RandomnessTypeOK
    <3>5. RecentRandomnessAvailable'
      <4> SUFFICES ASSUME NEW b \in drawn', b > n - HISTORY_SIZE
                   PROVE  b \in kept \cup {n}
        BY <3>1, <3>3 DEF RecentRandomnessAvailable
      <4>1. CASE b = n
        BY <4>1
      <4>2. CASE b \in drawn
        <5>1. b > block - HISTORY_SIZE /\ b # n - HISTORY_SIZE
          BY <2>0, <4>2
        <5> QED BY <2>0, <3>2, <4>2, <5>1
      <4> QED BY <3>1, <4>1, <4>2
    <3>6. author_vrf' \in DOMAIN history' /\ \A b \in drawn' : b <= author_vrf'
      BY <3>1, <3>3, <2>0
    <3> QED BY <3>4, <3>5, <3>6 DEF RInv
  <2>2. CASE set_author_vrf_none
    <3>1. /\ block' = block + 1 /\ author_vrf' = author_vrf
          /\ drawn' = drawn /\ history' = history
      BY <2>2 DEF set_author_vrf_none
    <3>2. block + 1 \in Nat /\ author_vrf \in 0 .. block + 1
          /\ drawn \subseteq 1 .. block + 1
      BY <2>0
    <3>3. RandomnessTypeOK'
      BY <2>0, <3>1, <3>2 DEF RandomnessTypeOK
    <3>4. RecentRandomnessAvailable'
      <4> SUFFICES ASSUME NEW b \in drawn', b > block' - HISTORY_SIZE
                   PROVE  b \in DOMAIN history'
        BY DEF RecentRandomnessAvailable
      <4>1. b \in drawn /\ b > block - HISTORY_SIZE
        BY <2>0, <3>1
      <4> QED BY <2>0, <3>1, <4>1
    <3> QED BY <2>0, <3>1, <3>3, <3>4 DEF RInv
  <2>3. CASE UNCHANGED randomnessVars
    BY <2>3 DEF randomnessVars, RInv, RandomnessTypeOK, RecentRandomnessAvailable
  <2> QED BY <2>1, <2>2, <2>3 DEF RandomnessNext
<1> QED BY <1>1, <1>2, PTL DEF RandomnessSpec

\* The VRF of every one of the last HISTORY_SIZE blocks that carried one can
\* be looked up, for every history size (author_vrf_history).
THEOREM RecentAvailable == RandomnessSpec => []RecentRandomnessAvailable
BY RandomnessInvariance, PTL DEF RInv

\* The newest VRF is also in the history (set_author_vrf).
THEOREM LatestRecorded == RandomnessSpec => []LatestOnRecord
<1>1. RInv => LatestOnRecord
  <2> SUFFICES ASSUME RInv, NEW b \in drawn
               PROVE  b <= author_vrf /\ author_vrf \in DOMAIN history
    BY DEF LatestOnRecord
  <2> QED BY DEF RInv
<1> QED BY <1>1, RandomnessInvariance, PTL

-----------------------------------------------------------------------------
(* The chain.                                                              *)

\* Every step of the chain is a step of the deadlines or leaves them alone:
\* the inherent and the faucet do not write State (check_deadlines).
THEOREM ImplementsDeadlines == ChainSpec => Spec
<1>1. ChainInit => Init
  BY DEF ChainInit
<1>2. [ChainNext]_chainVars => [Next]_vars
  <2>1. Block => [Next]_vars
    BY DEF Block, Next
  <2>2. ASSUME NEW a \in Accounts, Extrinsic(a)
        PROVE  [Next]_vars
    BY <2>2 DEF Extrinsic, Next
  <2>3. UNCHANGED chainVars => [Next]_vars
    BY DEF chainVars
  <2> QED BY <2>1, <2>2, <2>3 DEF ChainNext
<1> QED BY <1>1, <1>2, PTL DEF ChainSpec, Spec

\* Every step of the chain is a step of the randomness or leaves it alone: only
\* a block moves its window (set_author_vrf).
THEOREM ImplementsRandomness == ChainSpec => RandomnessSpec
<1>1. ChainInit => RandomnessInit
  BY DEF ChainInit
<1>2. [ChainNext]_chainVars => [RandomnessNext]_randomnessVars
  <2>1. Block => [RandomnessNext]_randomnessVars
    BY DEF Block, RandomnessNext
  <2>2. ASSUME NEW a \in Accounts, Extrinsic(a)
        PROVE  [RandomnessNext]_randomnessVars
    <3>1. CASE Register(a) /\ UNCHANGED <<randomnessVars, faucetVars>>
      BY <3>1
    <3>2. CASE drip(a) /\ UNCHANGED <<vars, randomnessVars>>
      BY <3>2
    <3> QED BY <2>2, <3>1, <3>2 DEF Extrinsic
  <2>3. UNCHANGED chainVars => [RandomnessNext]_randomnessVars
    BY DEF chainVars
  <2> QED BY <2>1, <2>2, <2>3 DEF ChainNext
<1> QED BY <1>1, <1>2, PTL DEF ChainSpec, RandomnessSpec

\* For every proving period, window and history size that HistoryCoversWindow
\* admits, an open deadline can be proven in any block of its window: the
\* challenge is not yet gone from the history (submit_windowed_post).
THEOREM ChallengeIsAvailable == ChainSpec => []ChallengeAvailable
<1>1. ClockTypeOK /\ RInv => ChallengeAvailable
  <2> SUFFICES ASSUME ClockTypeOK, RInv, NEW a \in DOMAIN clocks,
                      is_open(InfoOf(clocks[a], block)),
                      InfoOf(clocks[a], block).challenge \in drawn
               PROVE  InfoOf(clocks[a], block).challenge \in DOMAIN history
    BY DEF ChallengeAvailable
  <2> DEFINE c == clocks[a]
             open == c.period_start + c.idx * WPoStChallengeWindow
  <2>1. c \in Clocks /\ block \in Nat
    BY DEF ClockTypeOK
  <2>2. /\ c.period_start \in Nat /\ c.idx \in Nat
        /\ WPoStChallengeWindow \in Nat /\ WPoStChallengeLookBack \in Int
    BY <2>1, DeadlineAssumption DEF Clocks
  <2>3. c.idx * WPoStChallengeWindow \in Nat
    BY <2>2
  <2>4. open \in Nat
    BY <2>2, <2>3
  <2>5. /\ InfoOf(c, block).challenge = open - WPoStChallengeLookBack
        /\ block < open + WPoStChallengeWindow
    BY DEF InfoOf, DeadlineInfo_new, is_open
  <2>6. open - WPoStChallengeLookBack > block - HISTORY_SIZE
    <3> HIDE DEF open
    <3> QED BY <2>1, <2>2, <2>4, <2>5, HistoryAssumption, HistoryCoversWindow
  <2> QED BY <2>5, <2>6 DEF RInv, RecentRandomnessAvailable
<1> QED
  BY <1>1, ImplementsDeadlines, ImplementsRandomness, ClockTypeCorrect,
     RandomnessInvariance, PTL

-----------------------------------------------------------------------------
(* The faucet.                                                             *)

\* The bounds of a quotient.
LEMMA Quotient ==
  ASSUME NEW x \in Nat, NEW d \in Nat \ {0}
  PROVE  /\ x \div d \in Nat
         /\ d * (x \div d) <= x
         /\ x < d * (x \div d) + d
OBVIOUS

\* A number that is a whole divisor larger, or just larger, and its quotient.
LEMMA QuotientStep ==
  ASSUME NEW x \in Nat, NEW y \in Nat, NEW d \in Nat \ {0}
  PROVE  /\ x + d <= y => 1 + x \div d <= y \div d
         /\ x <= y => x \div d <= y \div d
<1> DEFINE q == x \div d
           r == y \div d
<1>1. /\ q \in Nat /\ d * q <= x
      /\ r \in Nat /\ y < d * r + d
  BY Quotient
<1> HIDE DEF q, r
<1>2. ASSUME x + d <= y
      PROVE  1 + q <= r
  <2>1. d * q < d * r
    BY <1>1, <1>2
  <2> QED BY <1>1, <2>1
<1>3. ASSUME x <= y
      PROVE  q <= r
  <2>1. d * q < d * (r + 1)
    BY <1>1, <1>3
  <2> QED BY <1>1, <2>1
<1> QED BY <1>2, <1>3 DEF q, r

\* The amounts due by a block: one for every delay begun since the first.
DueBy(b) == 1 + (b - FirstBlock) \div FaucetDripDelay

\* What an account has been issued was due when it was last issued some.
FaucetInv ==
  /\ block \in Nat /\ block >= FirstBlock
  /\ issued \in [Accounts -> Nat]
  /\ \A a \in Accounts :
       IF a \in DOMAIN drips
       THEN /\ drips[a] \in FirstBlock .. block
            /\ issued[a] <= FaucetDripAmount * DueBy(drips[a])
       ELSE issued[a] = 0

\* What is due by a block, and how it grows.
LEMMA DueGrows ==
  ASSUME NEW b \in Nat, NEW c \in Nat, FirstBlock <= b
  PROVE  /\ DueBy(b) \in Nat /\ DueBy(b) >= 1
         /\ b <= c => DueBy(b) <= DueBy(c)
         /\ b + FaucetDripDelay <= c => DueBy(b) + 1 <= DueBy(c)
<1>1. FirstBlock \in Nat /\ FaucetDripDelay \in Nat \ {0}
  BY FirstBlockAssumption, FaucetAssumption
<1>2. (b - FirstBlock) \div FaucetDripDelay \in Nat
  BY <1>1, Quotient
<1>3. ASSUME b <= c
      PROVE  DueBy(b) <= DueBy(c)
  BY <1>1, <1>2, <1>3, Quotient, QuotientStep DEF DueBy
<1>4. ASSUME b + FaucetDripDelay <= c
      PROVE  DueBy(b) + 1 <= DueBy(c)
  BY <1>1, <1>2, <1>4, Quotient, QuotientStep DEF DueBy
<1> QED BY <1>2, <1>3, <1>4 DEF DueBy

\* Multiplication keeps the order of natural numbers.
LEMMA TimesAmount ==
  ASSUME NEW m \in Nat, NEW n \in Nat, m <= n
  PROVE  /\ FaucetDripAmount * m <= FaucetDripAmount * n
         /\ FaucetDripAmount * m \in Nat
         /\ FaucetDripAmount * (m + 1) = FaucetDripAmount * m + FaucetDripAmount
BY FaucetAssumption

\* An account is issued an amount only when a whole delay has passed since the
\* last one, and the blocks only go forward (drip).
THEOREM FaucetInvariance == ChainSpec => []FaucetInv
<1>1. ChainInit => FaucetInv
  BY FirstBlockAssumption DEF ChainInit, Init, FaucetInit, FaucetInv
<1>2. FaucetInv /\ [ChainNext]_chainVars => FaucetInv'
  <2> SUFFICES ASSUME FaucetInv, [ChainNext]_chainVars
               PROVE  FaucetInv'
    OBVIOUS
  <2>1. CASE Block
    <3>1. block' = block + 1 /\ drips' = drips /\ issued' = issued
      BY <2>1 DEF Block, NextBlock, faucetVars
    <3> QED BY <3>1, FirstBlockAssumption DEF FaucetInv, DueBy
  <2>2. ASSUME NEW a \in Accounts, drip(a), block' = block
        PROVE  FaucetInv'
    <3>1. /\ ~UsedRecently(a)
          /\ issued' = [issued EXCEPT ![a] = @ + FaucetDripAmount]
          /\ drips' = [c \in DOMAIN drips \cup {a} |->
                          IF c = a THEN block ELSE drips[c]]
      BY <2>2 DEF drip
    <3>2. FirstBlock \in Nat /\ FaucetDripAmount \in Nat /\ FaucetDripDelay \in Nat \ {0}
      BY FirstBlockAssumption, FaucetAssumption
    <3>3. issued' \in [Accounts -> Nat]
      BY <3>1, <3>2 DEF FaucetInv
    <3>4. issued[a] + FaucetDripAmount <= FaucetDripAmount * DueBy(block)
      <4>1. DueBy(block) \in Nat /\ DueBy(block) >= 1
        BY DueGrows DEF FaucetInv
      <4>2. CASE a \notin DOMAIN drips
        <5>1. issued[a] = 0 /\ FaucetDripAmount * 1 <= FaucetDripAmount * DueBy(block)
          BY <4>1, <4>2, TimesAmount DEF FaucetInv
        <5> QED BY <3>2, <5>1
      <4>3. CASE a \in DOMAIN drips
        <5>1. /\ drips[a] \in Nat /\ FirstBlock <= drips[a]
              /\ issued[a] <= FaucetDripAmount * DueBy(drips[a])
              /\ issued[a] \in Nat
          BY <3>2, <4>3 DEF FaucetInv
        <5>2. drips[a] + FaucetDripDelay <= block
          BY <3>1, <3>2, <4>3, <5>1 DEF UsedRecently, FaucetInv
        <5>3. DueBy(drips[a]) \in Nat /\ DueBy(drips[a]) + 1 <= DueBy(block)
          BY <5>1, <5>2, DueGrows DEF FaucetInv
        <5> DEFINE m == DueBy(drips[a])
                   n == DueBy(block)
        <5> HIDE DEF m, n
        <5>4. /\ FaucetDripAmount * (m + 1) <= FaucetDripAmount * n
              /\ FaucetDripAmount * (m + 1) = FaucetDripAmount * m + FaucetDripAmount
              /\ FaucetDripAmount * m \in Nat /\ FaucetDripAmount * n \in Nat
          BY <4>1, <5>3, TimesAmount DEF m, n
        <5>5. issued[a] <= FaucetDripAmount * m
          BY <5>1 DEF m
        <5>6. issued[a] + FaucetDripAmount <= FaucetDripAmount * n
          BY <3>2, <5>1, <5>4, <5>5
        <5> QED BY <5>6 DEF n
      <4> QED BY <4>2, <4>3
    <3>5. ASSUME NEW c \in Accounts
          PROVE  IF c \in DOMAIN drips'
                 THEN /\ drips'[c] \in FirstBlock .. block
                      /\ issued'[c] <= FaucetDripAmount * DueBy(drips'[c])
                 ELSE issued'[c] = 0
      <4>1. CASE c = a
        BY <3>1, <3>2, <3>4, <4>1 DEF FaucetInv
      <4>2. CASE c # a
        BY <3>1, <4>2 DEF FaucetInv
      <4> QED BY <4>1, <4>2
    <3> QED BY <2>2, <3>3, <3>5 DEF FaucetInv, DueBy
  <2>3. ASSUME NEW a \in Accounts, Register(a), UNCHANGED faucetVars
        PROVE  FaucetInv'
    <3>1. block' = block /\ drips' = drips /\ issued' = issued
      BY <2>3 DEF Register, faucetVars
    <3> QED BY <3>1 DEF FaucetInv, DueBy
  <2>4. CASE UNCHANGED chainVars
    <3>1. block' = block /\ drips' = drips /\ issued' = issued
      BY <2>4 DEF chainVars, vars, faucetVars
    <3> QED BY <3>1 DEF FaucetInv, DueBy
  <2>5. ASSUME NEW a \in Accounts, drip(a), UNCHANGED vars
        PROVE  block' = block
    BY <2>5 DEF vars
  <2> QED BY <2>1, <2>2, <2>3, <2>4, <2>5 DEF ChainNext, Extrinsic
<1> QED BY <1>1, <1>2, PTL DEF ChainSpec

\* For every amount and delay, an account is never issued more than one amount
\* for every delay begun (drip).
THEOREM FaucetIsRateLimited == ChainSpec => []DripsRateLimited
<1>1. FaucetInv => DripsRateLimited
  <2> SUFFICES ASSUME FaucetInv, NEW a \in Accounts
               PROVE  issued[a] <= FaucetDripAmount * DueBy(block)
    BY DEF DripsRateLimited, DueBy
  <2>1. block \in Nat /\ issued[a] \in Nat /\ FirstBlock \in Nat /\ FirstBlock <= block
    BY FirstBlockAssumption DEF FaucetInv
  <2>2. DueBy(block) \in Nat
    BY <2>1, DueGrows
  <2>3. CASE a \notin DOMAIN drips
    <3>1. issued[a] = 0 /\ FaucetDripAmount * DueBy(block) \in Nat
      BY <2>2, <2>3, TimesAmount DEF FaucetInv
    <3> QED BY <3>1
  <2>4. CASE a \in DOMAIN drips
    <3> DEFINE m == DueBy(drips[a])
               n == DueBy(block)
    <3>1. drips[a] \in Nat /\ FirstBlock <= drips[a] /\ drips[a] <= block
      BY <2>1, <2>4 DEF FaucetInv
    <3>2. m \in Nat /\ m <= n
      BY <2>1, <3>1, DueGrows
    <3>3. issued[a] <= FaucetDripAmount * m
      BY <2>4 DEF FaucetInv
    <3> HIDE DEF m, n
    <3>4. FaucetDripAmount * m <= FaucetDripAmount * n /\ FaucetDripAmount * m \in Nat
          /\ FaucetDripAmount * n \in Nat
      BY <2>2, <3>2, TimesAmount DEF n
    <3>5. issued[a] <= FaucetDripAmount * n
      BY <2>1, <3>3, <3>4
    <3> QED BY <3>5 DEF n
  <2> QED BY <2>3, <2>4
<1> QED BY <1>1, FaucetInvariance, PTL
=============================================================================
