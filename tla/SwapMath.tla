------------------------------- MODULE SwapMath -------------------------------
(***************************************************************************)
(* One step of a swap at constant liquidity: compute_swap of               *)
(* math/swap_math.rs, and calculate_fees of manager/swap_manager.rs.       *)
(***************************************************************************)
EXTENDS TokenMath

\* The token whose amount the trader specified.
get_amount_fixed_delta(current, target, liquidity, is_input, a_to_b) ==
  IF a_to_b = is_input
  THEN get_amount_delta_a(current, target, liquidity, is_input)
  ELSE get_amount_delta_b(current, target, liquidity, is_input)

\* Mutant: both deltas are rounded the same way.
UnfixedDeltaRoundedAsFixed(current, target, liquidity, is_input, a_to_b) ==
  IF a_to_b = is_input
  THEN get_amount_delta_b(current, target, liquidity, is_input)
  ELSE get_amount_delta_a(current, target, liquidity, is_input)

\* The other token.
get_amount_unfixed_delta(current, target, liquidity, is_input, a_to_b) ==
  IF a_to_b = is_input
  THEN get_amount_delta_b(current, target, liquidity, ~is_input)
  ELSE get_amount_delta_a(current, target, liquidity, ~is_input)

\* What is left to trade once the fee is set aside.
AmountCalc(amount_remaining, fee_rate, is_input) ==
  IF is_input
  THEN CheckU64(checked_mul_div(amount_remaining, FEE_RATE_MUL_VALUE - fee_rate,
                                FEE_RATE_MUL_VALUE))
  ELSE amount_remaining

NextSqrtPrice(amount_calc, max_delta, liquidity, current, target, is_input, a_to_b) ==
  IF amount_calc >= max_delta THEN target
  ELSE get_next_sqrt_price(current, liquidity, amount_calc, is_input, a_to_b)

\* Mutant: the fee on a fully used step is rounded down.
FeeAmountRoundedDown(amount_in, amount_remaining, fee_rate, is_input, is_max_swap) ==
  IF is_input /\ ~is_max_swap
  THEN WrapU64(amount_remaining - amount_in)
  ELSE CheckU64(checked_mul_div(amount_in, fee_rate, FEE_RATE_MUL_VALUE - fee_rate))

FeeAmount(amount_in, amount_remaining, fee_rate, is_input, is_max_swap) ==
  IF is_input /\ ~is_max_swap
  THEN WrapU64(amount_remaining - amount_in)
  ELSE CheckU64(checked_mul_div_round_up(amount_in, fee_rate, FEE_RATE_MUL_VALUE - fee_rate))

SwapStepComputation ==
  [amount_in : U64, amount_out : U64, next_price : U128, fee_amount : U64]

\* The value of compute_swap when one of its steps returns an error.
SwapStepError ==
  [amount_in |-> Err, amount_out |-> Err, next_price |-> Err, fee_amount |-> Err]

compute_swap(amount_remaining, fee_rate, liquidity, current, target, is_input, a_to_b) ==
  LET max_delta   == get_amount_fixed_delta(current, target, liquidity, is_input, a_to_b)
      amount_calc == AmountCalc(amount_remaining, fee_rate, is_input)
      next_price  == NextSqrtPrice(amount_calc, max_delta, liquidity, current, target,
                                   is_input, a_to_b)
      is_max_swap == next_price = target
      unfixed     == get_amount_unfixed_delta(current, next_price, liquidity, is_input, a_to_b)
      fixed       == IF is_max_swap THEN max_delta
                     ELSE get_amount_fixed_delta(current, next_price, liquidity, is_input, a_to_b)
      amount_in   == IF is_input THEN fixed ELSE unfixed
      amount_out  == IF is_input THEN unfixed
                     ELSE IF fixed > amount_remaining THEN amount_remaining ELSE fixed
      fee_amount  == FeeAmount(amount_in, amount_remaining, fee_rate, is_input, is_max_swap)
  IN  IF \/ max_delta = Err \/ amount_calc = Err \/ next_price = Err
         \/ unfixed = Err \/ fixed = Err \/ fee_amount = Err
      THEN SwapStepError
      ELSE [amount_in  |-> amount_in,  amount_out |-> amount_out,
            next_price |-> next_price, fee_amount |-> fee_amount]

-----------------------------------------------------------------------------
(* manager/swap_manager.rs: the split of a step's fee. *)

calculate_protocol_fee(global_fee, protocol_fee_rate) ==
  (global_fee * protocol_fee_rate) \div PROTOCOL_FEE_RATE_MUL_VALUE

\* The protocol's share is accumulated, the rest becomes growth per unit of
\* liquidity; with no liquidity in range the rest is nobody's.
calculate_fees(fee_amount, protocol_fee_rate, curr_liquidity, curr_protocol_fee, curr_growth) ==
  LET delta == calculate_protocol_fee(fee_amount, protocol_fee_rate)
  IN  [protocol_fee |-> WrapU64(curr_protocol_fee + delta),
       growth       |-> IF curr_liquidity = 0 THEN curr_growth
                        ELSE WrapU128(curr_growth +
                               (((fee_amount - delta) * TO_Q64) \div curr_liquidity))]

\* Mutant: the trader's limit bounds only the sequence of ticks.
SqrtPriceTargetUnlimited(next_tick_price, sqrt_price_limit, a_to_b) == next_tick_price

\* The price of the next tick, but never beyond the trader's limit.
SqrtPriceTarget(next_tick_price, sqrt_price_limit, a_to_b) ==
  IF a_to_b THEN Upper(sqrt_price_limit, next_tick_price)
  ELSE Lower(sqrt_price_limit, next_tick_price)
=============================================================================
