----------------------------- MODULE MCTermination -----------------------------
(***************************************************************************)
(* The fairness of FairSpec in a form that TLC evaluates quickly.  Every   *)
(* step of a running swap flips turn, an iteration of the loop that        *)
(* changes none of its locals included, so that weak fairness of Turn is   *)
(* weak fairness of SwapProgress: one of its three actions is always       *)
(* enabled while a swap runs, and nothing else is.                         *)
(***************************************************************************)
EXTENDS MCWhirlpool

VARIABLE turn

Turn == ~Idle /\ turn' = 1 - turn

FairInit == MCInit /\ turn = 0

FairNext == MCNext /\ turn' = IF Idle THEN 0 ELSE 1 - turn

MCFairSpec == FairInit /\ [][FairNext]_<<mcvars, turn>> /\ WF_turn(Turn)

\* Every swap comes to an end: no iteration of the loop leaves it where it was
\* (swap_manager.rs:65).
SwapTerminates == (~Idle) ~> Idle
=============================================================================
