------------------------------ MODULE TickManager ------------------------------
(***************************************************************************)
(* Pure updates of a tick, of the reward accumulators and of a position:   *)
(* manager/tick_manager.rs, manager/whirlpool_manager.rs and               *)
(* manager/position_manager.rs.  The code's pairs of fields .._a and .._b  *)
(* are functions of Token.                                                 *)
(***************************************************************************)
EXTENDS SwapMath

CONSTANT NUM_REWARDS                \* 3 in the code

ASSUME RewardAssumption == NUM_REWARDS \in Nat \ {0}

Token       == {"a", "b"}
RewardIndex == 0 .. (NUM_REWARDS - 1)

Tick ==
  [initialized : BOOLEAN, liquidity_net : Int, liquidity_gross : U128,
   fee_growth_outside : [Token -> U128], reward_growths_outside : [RewardIndex -> U128]]

DefaultTick ==
  [initialized |-> FALSE, liquidity_net |-> 0, liquidity_gross |-> 0,
   fee_growth_outside |-> [x \in Token |-> 0],
   reward_growths_outside |-> [i \in RewardIndex |-> 0]]

\* WhirlpoolRewardInfo without its keys: initialized says that the mint is set.
WhirlpoolRewardInfo ==
  [initialized : BOOLEAN, emissions_per_second_x64 : U128, growth_global_x64 : U128]

-----------------------------------------------------------------------------
(* tick_manager.rs *)

\* Mutant: the growth outside is not flipped when the tick is crossed.
CrossWithoutFlip(tick, fee_growth_global, reward_infos) == tick

next_tick_cross_update(tick, fee_growth_global, reward_infos) ==
  [tick EXCEPT
     !.fee_growth_outside =
        [x \in Token |-> WrapU128(fee_growth_global[x] - tick.fee_growth_outside[x])],
     !.reward_growths_outside =
        [i \in RewardIndex |->
           IF reward_infos[i].initialized
           THEN WrapU128(reward_infos[i].growth_global_x64 - tick.reward_growths_outside[i])
           ELSE tick.reward_growths_outside[i]]]

\* Mutant: the convention the other way round.
OutsideAtInitReversed(tick_index, current, growth) == IF current >= tick_index THEN 0 ELSE growth

\* The growths an update writes: by convention all growth so far happened
\* below a tick that becomes initialized.
OutsideAtInit(tick_index, current, growth) == IF current >= tick_index THEN growth ELSE 0

\* The update of a tick, as a pair of the conditions under which the code
\* returns an error and the new tick.
GrossAfter(tick, delta) == add_liquidity_delta(tick.liquidity_gross, delta)

NetAfter(tick, delta, is_upper_tick) ==
  IF is_upper_tick THEN tick.liquidity_net - delta ELSE tick.liquidity_net + delta

TickUpdateFails(tick, delta, is_upper_tick) ==
  \/ GrossAfter(tick, delta) = Err
  \/ /\ GrossAfter(tick, delta) # 0
     /\ NetAfter(tick, delta, is_upper_tick) \notin (-I128_MAX - 1) .. I128_MAX

next_tick_modify_liquidity_update(tick, tick_index, current, fee_growth_global, reward_infos, delta, is_upper_tick) ==
  IF delta = 0 THEN tick
  ELSE IF GrossAfter(tick, delta) = 0 THEN DefaultTick
  ELSE [initialized     |-> TRUE,
        liquidity_gross |-> GrossAfter(tick, delta),
        liquidity_net   |-> NetAfter(tick, delta, is_upper_tick),
        fee_growth_outside |->
          IF tick.liquidity_gross # 0 THEN tick.fee_growth_outside
          ELSE [x \in Token |-> OutsideAtInit(tick_index, current, fee_growth_global[x])],
        reward_growths_outside |->
          IF tick.liquidity_gross # 0 THEN tick.reward_growths_outside
          ELSE [i \in RewardIndex |->
                  OutsideAtInit(tick_index, current, reward_infos[i].growth_global_x64)]]

\* Growth below the lower tick and above the upper one, from the growth
\* outside each: an uninitialized tick has all growth below it.
GrowthBelow(lower, lower_index, current, global, outside) ==
  IF ~lower.initialized THEN global
  ELSE IF current < lower_index THEN WrapU128(global - outside) ELSE outside

\* Mutant: the upper tick itself counts as inside the range.
GrowthAboveInclusive(upper, upper_index, current, global, outside) ==
  IF ~upper.initialized THEN 0
  ELSE IF current <= upper_index THEN outside ELSE WrapU128(global - outside)

GrowthAbove(upper, upper_index, current, global, outside) ==
  IF ~upper.initialized THEN 0
  ELSE IF current < upper_index THEN outside ELSE WrapU128(global - outside)

\* Each of the two differences wraps.
GrowthBetween(global, below, above) == WrapU128(WrapU128(global - below) - above)

next_fee_growths_inside(current, lower, lower_index, upper, upper_index, fee_growth_global) ==
  [x \in Token |->
     GrowthBetween(fee_growth_global[x],
       GrowthBelow(lower, lower_index, current, fee_growth_global[x],
                   lower.fee_growth_outside[x]),
       GrowthAbove(upper, upper_index, current, fee_growth_global[x],
                   upper.fee_growth_outside[x]))]

next_reward_growths_inside(current, lower, lower_index, upper, upper_index, reward_infos) ==
  [i \in RewardIndex |->
     IF ~reward_infos[i].initialized THEN 0
     ELSE GrowthBetween(reward_infos[i].growth_global_x64,
            GrowthBelow(lower, lower_index, current, reward_infos[i].growth_global_x64,
                        lower.reward_growths_outside[i]),
            GrowthAbove(upper, upper_index, current, reward_infos[i].growth_global_x64,
                        upper.reward_growths_outside[i]))]

-----------------------------------------------------------------------------
(* position_manager.rs *)

\* What a position's liquidity earned while the growth inside its range went
\* from the checkpoint to its present value; nothing when that overflows.
GrowthEarned(liquidity, growth_inside, checkpoint) ==
  OrZero(checked_mul_shift_right(liquidity, WrapU128(growth_inside - checkpoint)))

\* Mutant: what was owed before is overwritten.
PositionUpdateOverwritesOwed(position, delta, fee_growths_inside, reward_growths_inside) ==
  [position EXCEPT
     !.liquidity = add_liquidity_delta(position.liquidity, delta),
     !.fee_growth_checkpoint = fee_growths_inside,
     !.fee_owed = [x \in Token |-> GrowthEarned(position.liquidity, fee_growths_inside[x],
                                               position.fee_growth_checkpoint[x])]]

\* Mutant: the checkpoints are left where they were.
PositionUpdateKeepsCheckpoint(position, delta, fee_growths_inside, reward_growths_inside) ==
  [position EXCEPT
     !.liquidity = add_liquidity_delta(position.liquidity, delta),
     !.fee_owed = [x \in Token |->
        WrapU64(position.fee_owed[x] + GrowthEarned(position.liquidity, fee_growths_inside[x],
                                                    position.fee_growth_checkpoint[x]))]]

next_position_modify_liquidity_update(position, delta, fee_growths_inside, reward_growths_inside) ==
  [position EXCEPT
     !.liquidity = add_liquidity_delta(position.liquidity, delta),
     !.fee_growth_checkpoint = fee_growths_inside,
     !.fee_owed = [x \in Token |->
        WrapU64(position.fee_owed[x] + GrowthEarned(position.liquidity, fee_growths_inside[x],
                                                    position.fee_growth_checkpoint[x]))],
     !.growth_inside_checkpoint = reward_growths_inside,
     !.amount_owed = [i \in RewardIndex |->
        WrapU64(position.amount_owed[i]
                + GrowthEarned(position.liquidity, reward_growths_inside[i],
                               position.growth_inside_checkpoint[i]))]]

-----------------------------------------------------------------------------
(* whirlpool_manager.rs *)

\* Mutant: time passes for the rewards even when nobody provides liquidity in
\* range, at the rate of one unit of liquidity.
RewardInfosWithoutLiquidityCheck(reward_infos, liquidity, last, timestamp) ==
  [i \in RewardIndex |->
     [reward_infos[i] EXCEPT !.growth_global_x64 =
        WrapU128(@ + (timestamp - last) * reward_infos[i].emissions_per_second_x64)]]

\* The caller has checked that the timestamp is not before the last one.
next_whirlpool_reward_infos(reward_infos, liquidity, last, timestamp) ==
  [i \in RewardIndex |->
     IF liquidity = 0 \/ timestamp = last \/ ~reward_infos[i].initialized
     THEN reward_infos[i]
     ELSE [reward_infos[i] EXCEPT !.growth_global_x64 =
             WrapU128(@ + OrZero(checked_mul_div(timestamp - last,
                                                 reward_infos[i].emissions_per_second_x64,
                                                 liquidity)))]]

next_whirlpool_liquidity(liquidity, current, lower_index, upper_index, delta) ==
  IF lower_index <= current /\ current < upper_index
  THEN add_liquidity_delta(liquidity, delta) ELSE liquidity
=============================================================================
