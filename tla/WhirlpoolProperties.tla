-------------------------- MODULE WhirlpoolProperties --------------------------
(***************************************************************************)
(* What makes a pool correct.  While a swap runs, the state that matters   *)
(* is the one its loop has reached: Curr... is the loop's value then, and  *)
(* the account's otherwise.                                                *)
(***************************************************************************)
EXTENDS Whirlpool

CurrTick      == IF Idle THEN tick_current_index ELSE swap.curr_tick_index
CurrPrice     == IF Idle THEN sqrt_price ELSE swap.curr_sqrt_price
CurrLiquidity == IF Idle THEN liquidity ELSE swap.curr_liquidity
CurrTicks     == IF Idle THEN ticks ELSE swap.ticks
CurrGrowth    == IF Idle THEN fee_growth_global
                 ELSE [fee_growth_global EXCEPT ![InputToken(swap)] = swap.curr_growth]

\* The sum of f[1], ..., f[NumPositions].
Sum(f) ==
  LET partial[n \in 0 .. NumPositions] == IF n = 0 THEN 0 ELSE partial[n - 1] + f[n]
  IN  partial[NumPositions]

InRange(position, t) == position.tick_lower_index <= t /\ t < position.tick_upper_index

LiquidityInRange(t) ==
  Sum([p \in PositionIds |-> IF InRange(positions[p], t) THEN positions[p].liquidity ELSE 0])

LiquidityFrom(t) ==
  Sum([p \in PositionIds |->
         IF positions[p].tick_lower_index = t THEN positions[p].liquidity ELSE 0])

LiquidityUpTo(t) ==
  Sum([p \in PositionIds |->
         IF positions[p].tick_upper_index = t THEN positions[p].liquidity ELSE 0])

-----------------------------------------------------------------------------
(* The liquidity book *)

LiquidityMatchesPositions == CurrLiquidity = LiquidityInRange(CurrTick)

TicksMatchPositions ==
  \A t \in UsableTicks :
    /\ CurrTicks[t].liquidity_gross = LiquidityFrom(t) + LiquidityUpTo(t)
    /\ CurrTicks[t].liquidity_net = LiquidityFrom(t) - LiquidityUpTo(t)
    /\ CurrTicks[t].initialized <=> CurrTicks[t].liquidity_gross > 0

\* The pool's liquidity is that of the positions whose range holds the current
\* tick, and a tick holds that of the positions that begin or end there, being
\* initialized exactly when there is some: after every deposit and withdrawal,
\* and after every iteration of the swap loop, whichever way and however far it
\* has moved (manager/swap_manager.rs:65, manager/liquidity_manager.rs:122).
LiquidityBook == LiquidityMatchesPositions /\ TicksMatchPositions

\* A tick holds a price from its own price on.  The price may equal that of the
\* next tick above, after that tick was crossed to the left, and below the lowest
\* tick there is only the minimum price.
TickHoldsPrice(tick, price) ==
  /\ tick \in (MIN_TICK_INDEX - 1) .. MAX_TICK_INDEX
  /\ tick >= MIN_TICK_INDEX => SqrtPrice[tick] <= price
  /\ tick < MAX_TICK_INDEX => price <= SqrtPrice[tick + 1]
  /\ price \in MIN_SQRT_PRICE_X64 .. MAX_SQRT_PRICE_X64

\* The current tick and the price agree, in the middle of a swap too.
PriceMatchesTick == TickHoldsPrice(CurrTick, CurrPrice)

-----------------------------------------------------------------------------
(* Fees *)

\* The growth inside a position's range, as the loop of a running swap has it.
GrowthInsideNow(position) ==
  next_fee_growths_inside(CurrTick,
    CurrTicks[position.tick_lower_index], position.tick_lower_index,
    CurrTicks[position.tick_upper_index], position.tick_upper_index, CurrGrowth)

Provides(p) == positions[p].state = "open" /\ positions[p].liquidity > 0

\* What a position's liquidity has earned since its checkpoint, however much that
\* is: unlike the settlement's, this product does not overflow.
Unsettled(position, growth_inside, checkpoint) ==
  (position.liquidity * WrapU128(growth_inside - checkpoint)) \div TO_Q64

\* Everything a position is due: what it is owed, and what is unsettled.
FeesOf(p) ==
  [x \in Token |->
     positions[p].fee_owed[x] +
       IF Provides(p)
       THEN Unsettled(positions[p], FeeGrowthsInside(positions[p])[x],
                      positions[p].fee_growth_checkpoint[x])
       ELSE 0]

\* What closing a position out at the current price pays.
PrincipalOf(p) ==
  IF Provides(p) THEN TokenDeltas(p, -positions[p].liquidity) ELSE [x \in Token |-> 0]

\* The vaults cover the protocol's fees, every position's fees and every
\* position's liquidity at the current price: no order of collects and
\* withdrawals finds a vault short.
PoolSolvent ==
  Idle => \A x \in Token :
            vault[x] >= protocol_fee_owed[x]
                        + Sum([p \in PositionIds |-> FeesOf(p)[x] + PrincipalOf(p)[x]])

\* An iteration of the swap loop credits its fee to the ranges that hold the
\* tick it started from, and to no other range, whether or not it then crosses
\* a boundary.
FeesGoToRangesInUse ==
  [][ (~Idle /\ ~Idle') =>
        \A p \in PositionIds : Provides(p) =>
          \A x \in Token :
            GrowthInsideNow(positions[p])'[x] =
              IF InRange(positions[p], CurrTick)
              THEN WrapU128(GrowthInsideNow(positions[p])[x] + CurrGrowth'[x] - CurrGrowth[x])
              ELSE GrowthInsideNow(positions[p])[x] ]_vars

\* What a position is due falls only when it collects, and then by what it was
\* owed and is paid.  No settlement, overflowing product or wrapped sum, no swap and
\* no instruction on another position takes anything from it
\* (manager/position_manager.rs:20).
FeesNeverForfeited ==
  [][ \A p \in PositionIds, x \in Token :
        FeesOf(p)'[x] < FeesOf(p)[x] =>
          /\ CollectFees(p)
          /\ FeesOf(p)'[x] = FeesOf(p)[x] - positions[p].fee_owed[x] ]_vars

-----------------------------------------------------------------------------
(* Swaps *)

\* The price moves in the direction of the trade, not past the limit, and the
\* trader neither pays nor receives more than specified.
SwapWithinLimits ==
  ~Idle =>
    LET r == swap.request
    IN  /\ IF r.a_to_b THEN r.sqrt_price_limit <= CurrPrice /\ CurrPrice <= sqrt_price
           ELSE r.sqrt_price_limit >= CurrPrice /\ CurrPrice >= sqrt_price
        /\ swap.amount_remaining <= r.amount

\* A disabled pool's price and liquidity stand still, and its vaults only pay
\* out fees (state/whirlpool.rs:15).
DisabledPoolStandsStill ==
  [][ ~is_enabled => /\ UNCHANGED <<curve, ticks>>
                     /\ \A p \in PositionIds : positions'[p].state = positions[p].state
                     /\ \A x \in Token : vault'[x] <= vault[x] ]_vars

-----------------------------------------------------------------------------
(* Rewards *)

\* Rewards are initialized from index 0 upwards and stay initialized; the
\* accumulators of the others have never moved.
RewardsInitializedInOrder ==
  \A i \in RewardIndex :
    IF reward_infos[i].initialized
    THEN \A j \in 0 .. i : reward_infos[j].initialized
    ELSE reward_infos[i].growth_global_x64 = 0 /\ reward_vault[i] = 0

\* What a position could claim of a reward if its growth were settled now.
RewardOf(p, i) ==
  positions[p].amount_owed[i] +
    IF Provides(p)
    THEN GrowthEarned(positions[p].liquidity, RewardGrowthsInside(positions[p], reward_infos)[i],
                      positions[p].growth_inside_checkpoint[i])
    ELSE 0

\* The same, however much it is.
RewardDue(p, i) ==
  positions[p].amount_owed[i] +
    IF Provides(p)
    THEN Unsettled(positions[p], RewardGrowthsInside(positions[p], reward_infos)[i],
                   positions[p].growth_inside_checkpoint[i])
    ELSE 0
=============================================================================
