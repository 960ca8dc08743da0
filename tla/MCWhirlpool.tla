------------------------------ MODULE MCWhirlpool ------------------------------
(***************************************************************************)
(* The pool on small instances.  ops counts the instructions that have     *)
(* changed the pool, opening a position and creating a tick array aside,   *)
(* so that MaxOps bounds a behaviour.                                      *)
(***************************************************************************)
EXTENDS RewardEmission

CONSTANTS MaxOps, InitialTickArrays

VARIABLE ops

mcvars == <<emissionvars, ops>>

\* Eleven ticks; tick 0 has the price 1 (= TO_Q64 = 16).
MCSqrtPrice ==
  [t \in -5 .. 5 |-> CASE t = -5 -> 4  [] t = -4 -> 5  [] t = -3 -> 7  [] t = -2 -> 9
                       [] t = -1 -> 12 [] t = 0 -> 16  [] t = 1 -> 21  [] t = 2 -> 28
                       [] t = 3 -> 37  [] t = 4 -> 49  [] t = 5 -> 64]
MCMinTick == -5
MCMaxTick == 5
MCSupply  == [x \in Token |-> TO_Q64 - 1]

Request(amount, threshold, limit, is_input, a_to_b, arrays) ==
  [amount |-> amount, other_amount_threshold |-> threshold, sqrt_price_limit |-> limit,
   is_input |-> is_input, a_to_b |-> a_to_b, arrays |-> arrays]

\* A large request of each side and direction, with the arrays in order from any
\* of three on; a small one, which may end within a tick; and one that a price
\* limit inside the tick line ends.
InOrder == [a_to_b |-> {<<4, 0, -4>>, <<0, -4, -8>>, <<-4, -8>>},
            b_to_a |-> {<<-8, -4, 0>>, <<-4, 0, 4>>, <<0, 4>>}]

Middle(a_to_b) == IF a_to_b THEN <<0, -4, -8>> ELSE <<-4, 0, 4>>

Furthest(a_to_b) == IF a_to_b THEN 4 ELSE 64

MCSwaps ==
  {Request(7, IF is_input THEN 0 ELSE TO_Q64 - 1, Furthest(TRUE), is_input, TRUE, arrays) :
     is_input \in BOOLEAN, arrays \in InOrder.a_to_b}
  \cup
  {Request(7, IF is_input THEN 0 ELSE TO_Q64 - 1, Furthest(FALSE), is_input, FALSE, arrays) :
     is_input \in BOOLEAN, arrays \in InOrder.b_to_a}
  \cup
  {Request(3, 0, Furthest(a_to_b), TRUE, a_to_b, Middle(a_to_b)) : a_to_b \in BOOLEAN}
  \cup
  {Request(7, 0, 16, TRUE, a_to_b, Middle(a_to_b)) : a_to_b \in BOOLEAN}

\* Spacing 1, arrays of two ticks: sweeps to either end of the tick line.  To
\* the right, a search starts in the array that holds the tick after the current.
EdgeSwaps ==
  {Request(amount, 0, 4, TRUE, TRUE, arrays) :
     amount \in {2, 15}, arrays \in {<<4, 2, 0>>, <<2, 0, -2>>, <<0, -2, -4>>, <<-4, -6>>}}
  \cup
  {Request(amount, 15, 64, is_input, FALSE, arrays) :
     amount \in {1, 15}, is_input \in BOOLEAN,
     arrays \in {<<-6, -4, -2>>, <<-4, -2, 0>>, <<0, 2, 4>>, <<2, 4>>}}
EdgeArrays == {-6, -4, -2, 0, 2}
EdgeRanges == {<<-5, 5>>, <<-5, -3>>, <<4, 5>>, <<0, 6>>, <<2, -2>>}

\* For the reward run: small trades each way.
RewardSwaps ==
  {Request(7, 0, 4, TRUE, TRUE, <<0, -4, -8>>), Request(7, 0, 64, TRUE, FALSE, <<-4, 0, 4>>),
   Request(7, 0, 64, TRUE, FALSE, <<0, 4>>)}

MCArrays == {-8, -4, 0, 4}
MCRanges == {<<-2, 2>>, <<0, 4>>}

\* A pool, some of whose arrays have been initialized already.
MCInit ==
  /\ InitializePool
  /\ tick_arrays = InitialTickArrays
  /\ ops = 0
  /\ RecordsInit

Opens == \E p \in PositionIds : positions[p].state = "none" /\ positions'[p].state = "open"

MCNext ==
  /\ ops < MaxOps \/ ~Idle
  /\ Next
  /\ ops' = IF Idle' /\ ~Opens /\ vars' # vars /\ tick_arrays' = tick_arrays
                 /\ (Idle \/ ~UNCHANGED <<curve, fees, vault>>)
            THEN ops + 1 ELSE ops
  /\ Recorded

MCSpec == MCInit /\ [][MCNext]_mcvars
=============================================================================
