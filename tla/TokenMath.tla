------------------------------ MODULE TokenMath ------------------------------
(***************************************************************************)
(* Prices and token amounts: math/token_math.rs, and what math/tick_math.rs *)
(* computes.                                                               *)
(*                                                                         *)
(* The tick <-> price conversion is a table: SqrtPrice[t] is the price the *)
(* code computes for tick t by multiplying powers of sqrt(1.0001).  All    *)
(* that the rest of the program relies on is that the table is strictly    *)
(* increasing and that its ends are MIN_SQRT_PRICE_X64 and                 *)
(* MAX_SQRT_PRICE_X64 (the unit tests of tick_math.rs check the ends).     *)
(***************************************************************************)
EXTENDS FixedPoint

CONSTANTS
  MIN_TICK_INDEX, MAX_TICK_INDEX,
  SqrtPrice,                     \* [MIN_TICK_INDEX .. MAX_TICK_INDEX -> U128]
  FEE_RATE_MUL_VALUE,            \* 1_000_000 in the code
  MAX_FEE_RATE,                  \* 10_000
  PROTOCOL_FEE_RATE_MUL_VALUE,   \* 10_000
  MAX_PROTOCOL_FEE_RATE          \* 2_500

TickIndices == MIN_TICK_INDEX .. MAX_TICK_INDEX

ASSUME TickRangeAssumption ==
  /\ MIN_TICK_INDEX \in Int /\ MAX_TICK_INDEX \in Int
  /\ MIN_TICK_INDEX < 0 /\ MAX_TICK_INDEX > 0

ASSUME SqrtPriceAssumption ==
  /\ SqrtPrice \in [TickIndices -> 1 .. (TO_Q128 - 1)]
  /\ \A s, t \in TickIndices : s < t => SqrtPrice[s] < SqrtPrice[t]

ASSUME FeeRateAssumption ==
  /\ FEE_RATE_MUL_VALUE \in Nat /\ MAX_FEE_RATE \in Nat
  /\ MAX_FEE_RATE < FEE_RATE_MUL_VALUE
  /\ PROTOCOL_FEE_RATE_MUL_VALUE \in Nat /\ MAX_PROTOCOL_FEE_RATE \in Nat
  /\ MAX_PROTOCOL_FEE_RATE < PROTOCOL_FEE_RATE_MUL_VALUE

MIN_SQRT_PRICE_X64 == SqrtPrice[MIN_TICK_INDEX]
MAX_SQRT_PRICE_X64 == SqrtPrice[MAX_TICK_INDEX]

sqrt_price_from_tick_index(tick) == SqrtPrice[tick]

\* The greatest tick whose price does not exceed the given one.
tick_index_from_sqrt_price(sqrt_price) ==
  CHOOSE t \in TickIndices :
    /\ SqrtPrice[t] <= sqrt_price
    /\ t = MAX_TICK_INDEX \/ sqrt_price < SqrtPrice[t + 1]

-----------------------------------------------------------------------------
(* Amounts of a token between two prices. *)

Lower(p0, p1) == IF p0 > p1 THEN p1 ELSE p0
Upper(p0, p1) == IF p0 > p1 THEN p0 ELSE p1

get_amount_delta_a(sqrt_price_0, sqrt_price_1, liquidity, round_up) ==
  LET lower   == Lower(sqrt_price_0, sqrt_price_1)
      upper   == Upper(sqrt_price_0, sqrt_price_1)
      product == liquidity * (upper - lower)
  IN  IF product >= TO_Q192 THEN Err      \* checked_shift_word_left
      ELSE CheckU64(DivRound(product * TO_Q64, upper * lower, round_up))

get_amount_delta_b(sqrt_price_0, sqrt_price_1, liquidity, round_up) ==
  checked_mul_shift_right_round_up_if(
    liquidity,
    Upper(sqrt_price_0, sqrt_price_1) - Lower(sqrt_price_0, sqrt_price_1),
    round_up)

-----------------------------------------------------------------------------
(* The price after a given amount of one token. *)

get_next_sqrt_price_from_a_round_up(sqrt_price, liquidity, amount, is_input) ==
  LET product     == sqrt_price * amount
      shifted     == liquidity * TO_Q64
      denominator == IF is_input THEN shifted + product ELSE shifted - product
      price       == DivRound(liquidity * sqrt_price * TO_Q64, denominator, TRUE)
  IN  IF amount = 0 THEN sqrt_price
      ELSE IF liquidity * sqrt_price >= TO_Q192 THEN Err
      ELSE IF denominator <= 0 THEN Err
      ELSE IF price < MIN_SQRT_PRICE_X64 \/ price > MAX_SQRT_PRICE_X64 THEN Err
      ELSE price

get_next_sqrt_price_from_b_round_down(sqrt_price, liquidity, amount, is_input) ==
  LET delta == div_round_up_if(amount * TO_Q64, liquidity, ~is_input)
  IN  IF delta = Err THEN Err
      ELSE CheckU128(IF is_input THEN sqrt_price + delta ELSE sqrt_price - delta)

\* Fixing token a moves the price to the rounded-up value, fixing token b to
\* the rounded-down one: in all four cases the trader gets the short end.
get_next_sqrt_price(sqrt_price, liquidity, amount, is_input, a_to_b) ==
  IF is_input = a_to_b
  THEN get_next_sqrt_price_from_a_round_up(sqrt_price, liquidity, amount, is_input)
  ELSE get_next_sqrt_price_from_b_round_down(sqrt_price, liquidity, amount, is_input)
=============================================================================
