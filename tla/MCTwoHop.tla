------------------------------- MODULE MCTwoHop -------------------------------
(***************************************************************************)
(* Two pools with a position each, and a trader.  trades counts the        *)
(* two-hop swaps that went through, steps everything else that was done to *)
(* the pools.                                                              *)
(***************************************************************************)
EXTENDS TwoHopSwap

CONSTANTS MaxTrades, MaxSteps

VARIABLES trades, steps

MCSqrtPrice ==
  [t \in -5 .. 5 |-> CASE t = -5 -> 4  [] t = -4 -> 5  [] t = -3 -> 7  [] t = -2 -> 9
                       [] t = -1 -> 12 [] t = 0 -> 16  [] t = 1 -> 21  [] t = 2 -> 28
                       [] t = 3 -> 37  [] t = 4 -> 49  [] t = 5 -> 64]
MCMinTick == -5
MCMaxTick == 5
MCSupply  == [x \in Token |-> TO_Q64 - 1]
MCRanges  == {<<-2, 2>>}
MCArrays  == {-8, -4, 0, 4}

Pair(a, b) == [x \in Token |-> IF x = "a" THEN a ELSE b]

\* A chain of three mints, and two pools of the same two mints.
MCMints == {<<Pair("x", "y"), Pair("y", "z")>>, <<Pair("x", "y"), Pair("x", "y")>>}

\* A trader with enough of everything, and one without the intermediate token.
MCFunds == {[m \in {"x", "y", "z"} |-> 9],
            [m \in {"x", "y", "z"} |-> IF m = "y" THEN 0 ELSE 9]}

\* The arrays in order from the one the current price is in.
ArraysFor(a_to_b) == IF a_to_b THEN <<0, -4, -8>> ELSE <<0, 4>>

\* No limit, and one on the way.
Limits(a_to_b) == IF a_to_b THEN {4, 14} ELSE {64, 18}

MCRequests ==
  UNION {
    {[amount |-> size[1], other_amount_threshold |-> size[2], is_input |-> is_input,
      timestamp |-> 0, a_to_b |-> <<one, two>>, limit |-> <<limit_one, limit_two>>,
      arrays |-> <<ArraysFor(one), ArraysFor(two)>>] :
       size \in {<<7, 0>>, <<7, 1>>, <<3, 1>>, <<3, 6>>}, is_input \in BOOLEAN,
       limit_one \in Limits(one), limit_two \in Limits(two)} :
    one \in BOOLEAN, two \in BOOLEAN}

MCInit == Init /\ trades = 0 /\ steps = 0

MCNext ==
  /\ ~Idle \/ trades < MaxTrades
  /\ Next
  /\ trades' = IF owner' # owner THEN trades + 1 ELSE trades
  /\ steps' = IF Idle /\ Idle' THEN steps + 1 ELSE steps
  /\ steps' <= MaxSteps

MCSpec == MCInit /\ [][MCNext]_<<vars, trades, steps>>
=============================================================================
