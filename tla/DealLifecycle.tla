---------------------------- MODULE DealLifecycle ----------------------------
(***************************************************************************)
(* What the market promises about a deal, whoever calls what and whenever: *)
(* its id is never used again and its terms never change; it leaves the    *)
(* published state for good either by being activated no later than its    *)
(* start block, or by timing out at the end of exactly that block; once    *)
(* active it stays active until it is finished.                            *)
(***************************************************************************)
EXTENDS Integers

VARIABLES
  clock,  \* the current block
  next,   \* the ids below it have been used
  live    \* the deals there are: id to its terms and phase

lifecycle == <<clock, next, live>>

Init == clock = 0 /\ next = 0 /\ live = << >>

InPhase(phase) == {d \in DOMAIN live : live[d].phase = phase}

Removed == DOMAIN live \ DOMAIN live'

\* The deals of S leave and the others stay as they are.
OnlyRemoves(S) ==
  /\ DOMAIN live' \subseteq DOMAIN live
  /\ Removed \subseteq S
  /\ \A d \in DOMAIN live' : live'[d] = live[d]

Publish ==
  LET new == next .. next' - 1
  IN /\ next' > next
     /\ DOMAIN live' = DOMAIN live \cup new
     /\ \A d \in DOMAIN live \ new : live'[d] = live[d]
     /\ \A d \in new : /\ live'[d].phase = "Published"
                       /\ live'[d].terms.start_block >= clock
                       /\ live'[d].terms.start_block < live'[d].terms.end_block
     /\ UNCHANGED clock

Activate ==
  /\ DOMAIN live' = DOMAIN live
  /\ \A d \in DOMAIN live :
       \/ live'[d] = live[d]
       \/ /\ live[d].phase = "Published"
          /\ clock <= live[d].terms.start_block
          /\ live'[d] = [live[d] EXCEPT !.phase = "Active"]
  /\ UNCHANGED <<clock, next>>

Finish ==
  /\ OnlyRemoves(InPhase("Active"))
  /\ UNCHANGED <<clock, next>>

Tick ==
  /\ OnlyRemoves({d \in InPhase("Published") :
                    live[d].terms.start_block = clock})
  /\ clock' = clock + 1
  /\ UNCHANGED next

Next == Publish \/ Activate \/ Finish \/ Tick

Spec == Init /\ [][Next]_lifecycle
=============================================================================
