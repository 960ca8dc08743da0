----------------------------- MODULE FixedPoint -----------------------------
(***************************************************************************)
(* The integer arithmetic of the program: math/bit_math.rs and             *)
(* math/liquidity_math.rs.                                                 *)
(*                                                                         *)
(* The machine is scaled.  TO_Q64 stands for 2^64, so that a u64 is a      *)
(* member of 0 .. TO_Q64-1, a u128 one of 0 .. TO_Q64^2-1 and the upper    *)
(* limit of a U256 is TO_Q64^4.  Every width test, shift, rounding and     *)
(* wrap of the code is written relative to TO_Q64, so that a small value   *)
(* of the constant exercises the overflow paths of the real machine.       *)
(*                                                                         *)
(* An operation that returns Result<u.., ErrorCode> is an operator whose   *)
(* value is the number, or Err.                                            *)
(***************************************************************************)
EXTENDS Integers

CONSTANT TO_Q64

ASSUME WordAssumption == TO_Q64 \in Nat \ {0, 1}

Err == -1

TO_Q128 == TO_Q64 * TO_Q64
TO_Q192 == TO_Q128 * TO_Q64

U64  == 0 .. (TO_Q64 - 1)
U128 == 0 .. (TO_Q128 - 1)

\* The largest liquidity that still fits the i128 of a signed delta.
I128_MAX == (TO_Q128 \div 2) - 1

\* u64 and u128 wrapping_add / wrapping_sub (and release-build + on them).
WrapU64(x)  == x % TO_Q64
WrapU128(x) == x % TO_Q128

\* x.checked_add / checked_sub / try_into for the two widths.
CheckU64(x)  == IF x \in U64 THEN x ELSE Err
CheckU128(x) == IF x \in U128 THEN x ELSE Err

-----------------------------------------------------------------------------
(* math/bit_math.rs *)

\* Mutant of DivRound: the remainder is dropped.
DivRoundDown(n, d, round_up) == n \div d

\* Integer division of naturals, rounded towards zero or away from it.
DivRound(n, d, round_up) ==
  IF round_up /\ n % d > 0 THEN (n \div d) + 1 ELSE n \div d

checked_mul_div_round_up_if(n0, n1, d, round_up) ==
  IF d = 0 \/ n0 * n1 >= TO_Q128 THEN Err
  ELSE DivRound(n0 * n1, d, round_up)

checked_mul_div(n0, n1, d) == checked_mul_div_round_up_if(n0, n1, d, FALSE)

checked_mul_div_round_up(n0, n1, d) == checked_mul_div_round_up_if(n0, n1, d, TRUE)

checked_mul_shift_right_round_up_if(n0, n1, round_up) ==
  IF n0 * n1 >= TO_Q128 THEN Err
  ELSE CheckU64(DivRound(n0 * n1, TO_Q64, round_up))

checked_mul_shift_right(n0, n1) == checked_mul_shift_right_round_up_if(n0, n1, FALSE)

div_round_up_if(n, d, round_up) ==
  IF d = 0 THEN Err ELSE DivRound(n, d, round_up)

\* `unwrap_or(0)`: an overflowing growth computation counts as no growth.
OrZero(x) == IF x = Err THEN 0 ELSE x

-----------------------------------------------------------------------------
(* math/liquidity_math.rs *)

\* Mutant: the sum is not checked.
AddLiquidityUnchecked(liquidity, delta) == liquidity + delta

add_liquidity_delta(liquidity, delta) == CheckU128(liquidity + delta)

\* LiquidityTooHigh: the amount does not fit the i128 of a delta.
FitsLiquidityDelta(liquidity_amount) == liquidity_amount <= I128_MAX

convert_to_liquidity_delta(liquidity_amount, positive) ==
  IF positive THEN liquidity_amount ELSE -liquidity_amount
=============================================================================
