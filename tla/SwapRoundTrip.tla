---------------------------- MODULE SwapRoundTrip ----------------------------
(***************************************************************************)
(* A trader calls compute_swap once, at constant liquidity, and then sells  *)
(* what they received back to the pool.  The first step is any call the    *)
(* swap loop can make: a target on the side of the trade's direction, any  *)
(* amount, any legal fee rate, exact input or exact output.  The properties *)
(* are the ones the pool's solvency and the loop's arithmetic rest on.     *)
(***************************************************************************)
EXTENDS SwapMath

CONSTANTS Liquidities, Prices, FeeRates, Amounts   \* the inputs enumerated

\* What the handlers let through to the loop: the types of the arguments, prices
\* between the extreme ones (swap_manager.rs:38) and the greatest fee rate.
ASSUME RoundTripAssumption ==
  /\ Liquidities \subseteq U128
  /\ Prices \subseteq MIN_SQRT_PRICE_X64 .. MAX_SQRT_PRICE_X64
  /\ FeeRates \subseteq 0 .. MAX_FEE_RATE
  /\ Amounts \subseteq U64

VARIABLES request, result, back

vars == <<request, result, back>>

Requests ==
  [amount : Amounts, fee_rate : FeeRates, liquidity : Liquidities,
   current : Prices, target : Prices, is_input : BOOLEAN, a_to_b : BOOLEAN]

None == [amount_in |-> -2, amount_out |-> -2, next_price |-> -2, fee_amount |-> -2]

Init ==
  /\ request \in Requests
  /\ IF request.a_to_b THEN request.target <= request.current
     ELSE request.target >= request.current
  /\ result = None
  /\ back = None

\* The step of the swap loop.
Trade ==
  /\ result = None
  /\ result' = compute_swap(request.amount, request.fee_rate, request.liquidity,
                            request.current, request.target, request.is_input, request.a_to_b)
  /\ UNCHANGED <<request, back>>

Traded == result \notin {None, SwapStepError}

\* The way back: the proceeds are the exact input, the old price the target.
TradeBack ==
  /\ Traded
  /\ back = None
  /\ back' = compute_swap(result.amount_out, request.fee_rate, request.liquidity,
                          result.next_price, request.current, TRUE, ~request.a_to_b)
  /\ UNCHANGED <<request, result>>

Next == Trade \/ TradeBack

Spec == Init /\ [][Next]_vars

-----------------------------------------------------------------------------
\* On every step the pool receives at least, and pays at most, what the exact
\* curve gives for the move the price really made: the roundings of
\* get_amount_fixed_delta and get_amount_unfixed_delta all favour the pool
\* (math/swap_math.rs:83).
PoolFavoured ==
  Traded =>
    LET lower   == Lower(request.current, result.next_price)
        upper   == Upper(request.current, result.next_price)
        diff    == request.liquidity * (upper - lower)
        amtA    == IF request.a_to_b THEN result.amount_in ELSE result.amount_out
        amtB    == IF request.a_to_b THEN result.amount_out ELSE result.amount_in
    IN  IF request.a_to_b
        THEN amtA * upper * lower >= diff * TO_Q64 /\ amtB * TO_Q64 <= diff
        ELSE amtA * upper * lower <= diff * TO_Q64 /\ amtB * TO_Q64 >= diff

\* The fee is never below its rate, rounding included (math/swap_math.rs:88).
FeeNotBelowRate ==
  Traded => result.fee_amount * (FEE_RATE_MUL_VALUE - request.fee_rate)
              >= result.amount_in * request.fee_rate

\* Selling the proceeds of a step back never returns more than was paid
\* (math/swap_math.rs:19).
NoProfitFromRoundTrip ==
  (Traded /\ back \notin {None, SwapStepError}) =>
     back.amount_out <= result.amount_in + result.fee_amount
=============================================================================
