-------------------------- MODULE AccountingProofs ---------------------------
(***************************************************************************)
(* What a pool owes, for every number of positions.                        *)
(*                                                                         *)
(* The book (BookIInv) is what the fee of an iteration depends on: the     *)
(* ticks that bound a range in use are initialized, so that every crossing *)
(* of them flips their growth (FeesReachRangesInUse).                      *)
(*                                                                         *)
(* Rewards cost no more than was emitted, for every number of positions    *)
(* and rewards (RewardsWithinEmission).                                    *)
(*                                                                         *)
(* What a position can claim is rounded down when it is settled, so that   *)
(* the invariant speaks of what is due before rounding, in Q64.64: what    *)
(* all positions are due and what was paid is at most what was emitted.    *)
(* An instruction moves the growth of a reward first, which raises what    *)
(* the positions in range are due by no more than its seconds emit, since  *)
(* their liquidity is the pool's (LiquidityMatchesPositions).  What it     *)
(* then does to ticks and positions raises what nobody is due:             *)
(*   a settled position is owed no more than it was due;                   *)
(*   a tick that becomes initialized starts with the growth outside of it  *)
(*   that an uninitialized one stands for;                                 *)
(*   a reward that becomes initialized has no growth anywhere;             *)
(*   a swap moves all growth forward at its end, but writes it into the    *)
(*   ticks it crosses before, so that the growth inside every range, with  *)
(*   the growth there will be, is the same with the loop's ticks as with   *)
(*   the account's.                                                        *)
(*                                                                         *)
(* The vaults cover what the pool owes (PoolSolvent), for every number of  *)
(* positions, every table of prices and every history. What closing a      *)
(* position pays is rounded over its own range, and what it is owed in     *)
(* fees is rounded when it is settled, so that the invariant (SolvencyInv) *)
(* speaks of the exact claims. These are fractions with the prices of      *)
(* ticks as denominators; a common multiple of the prices (Multiple) makes *)
(* integers of them, and a sum of claims over positions with different     *)
(* ranges becomes a sum of integers. A step then pays for what it adds to  *)
(* the claims (PaidForChange, PaidForMove) and to the fees due             *)
(* (FeeDuesOfIteration), and every rounding favours the pool.              *)
(*                                                                         *)
(* From solvency follows that no fee is forfeited (FeesNeverForfeited).    *)
(* What a position is due is covered by a vault, which is a word, so that  *)
(* neither the product of a settlement overflows nor the sum of what is    *)
(* owed wraps. For the same reason the growth of a running swap cannot     *)
(* wrap past what is unsettled (DuesRise): before it did, the swap would   *)
(* be paid more than a vault can hold, and could not end.                  *)
(***************************************************************************)
EXTENDS WhirlpoolProofs, RewardEmission

-----------------------------------------------------------------------------
(* Where the fees of an iteration go *)

\* The current tick moves to the other side of an initialized tick exactly when the
\* iteration reaches that tick's price (swap_manager.rs:121).
LEMMA FlippedIsReached ==
  ASSUME IInv, NEW c, StepComputed(swap, c),
         NEW b \in UsableTicks, swap.ticks[b].initialized
  PROVE  IF ReachesTick(swap, c) /\ b = NextInitTick(swap).tick_index
         THEN (swap.curr_tick_index < b) # (TickAfter(swap, c) < b)
         ELSE (swap.curr_tick_index < b) = (TickAfter(swap, c) < b)
<1> DEFINE a_to_b == swap.request.a_to_b
           t      == swap.curr_tick_index
           t2     == TickAfter(swap, c)
           n      == NextInitTick(swap).tick_index
           tk     == swap.ticks
<1>1. ~Idle /\ n \in TickIndices /\ IF a_to_b THEN n <= t ELSE n > t
  BY DEF StepComputed
<1>2. swap \in SwapState
  BY <1>1 DEF IInv, TypeOK, Idle
<1>3. a_to_b \in BOOLEAN /\ t \in Int /\ n \in Int /\ b \in Int
  <2>1. a_to_b \in BOOLEAN /\ t \in Int
    BY <1>2 DEF SwapState, SwapRequest
  <2> QED
    BY <1>1, <2>1, ArrayTypes
<1>4. IF a_to_b THEN b <= t => b <= n ELSE t < b => n <= b
  BY NothingSkipped
<1>5. ReachesTick(swap, c) => t2 = IF a_to_b THEN n - 1 ELSE n
  BY DEF TickAfter
<1>6. ~ReachesTick(swap, c) => /\ t2 \in Int
                               /\ IF a_to_b THEN n <= t2 /\ t2 <= t ELSE t <= t2 /\ t2 < n
  BY TickNotPassed
<1> HIDE DEF a_to_b, t, t2, n
<1>7. CASE ReachesTick(swap, c) /\ b = n
  <2>1. (t < b) # (t2 < b)
    BY <1>1, <1>3, <1>5, <1>7
  <2> QED
    BY <1>7, <2>1 DEF t, t2, n
<1>8. CASE ~(ReachesTick(swap, c) /\ b = n)
  <2>1. (t < b) <=> (t2 < b)
    <3>1. CASE a_to_b
      BY <1>1, <1>3, <1>4, <1>5, <1>6, <1>8, <3>1
    <3>2. CASE ~a_to_b
      BY <1>1, <1>3, <1>4, <1>5, <1>6, <1>8, <3>2
    <3> QED
      BY <3>1, <3>2
  <2>2. (t < b) = (t2 < b)
    BY <2>1
  <2> QED
    BY <1>8, <2>2 DEF t, t2, n
<1> QED
  BY <1>7, <1>8

\* An iteration crosses an initialized tick exactly when the current tick moves to its
\* other side (swap_manager.rs:121).
LEMMA CrossedOrKept ==
  ASSUME IInv, NEW c, StepComputed(swap, c),
         NEW b \in UsableTicks, swap.ticks[b].initialized
  PROVE  TicksAfter(swap, c)[b] =
           IF (swap.curr_tick_index < b) = (TickAfter(swap, c) < b) THEN swap.ticks[b]
           ELSE next_tick_cross_update(swap.ticks[b], GrowthsAtCrossing(swap, c),
                                       RewardInfosAt(swap.timestamp))
<1> DEFINE n  == NextInitTick(swap).tick_index
           tk == swap.ticks
           crossed == next_tick_cross_update(tk[n], GrowthsAtCrossing(swap, c),
                                             RewardInfosAt(swap.timestamp))
<1>1. ~Idle
  BY DEF StepComputed
<1>2. swap \in SwapState
  BY <1>1 DEF IInv, TypeOK, Idle
<1>3. tk \in [UsableTicks -> Tick]
  BY <1>2 DEF SwapState
<1>4. CrossesInitialized(swap, c) <=>
        ReachesTick(swap, c) /\ n \in UsableTicks /\ tk[n].initialized
  BY NothingSkipped
<1>5. TicksAfter(swap, c) = IF CrossesInitialized(swap, c)
                           THEN [tk EXCEPT ![n] = crossed] ELSE tk
  BY <1>3 DEF TicksAfter, next_tick_cross_update
<1>6. CASE ReachesTick(swap, c) /\ b = n
  <2>1. TicksAfter(swap, c)[b] = crossed
    BY <1>3, <1>4, <1>5, <1>6
  <2>2. (swap.curr_tick_index < b) # (TickAfter(swap, c) < b)
    BY <1>6, FlippedIsReached
  <2> QED
    BY <1>6, <2>1, <2>2
<1>7. CASE ~(ReachesTick(swap, c) /\ b = n)
  <2>1. TicksAfter(swap, c)[b] = tk[b]
    BY <1>3, <1>4, <1>5, <1>7
  <2>2. (swap.curr_tick_index < b) = (TickAfter(swap, c) < b)
    BY <1>7, FlippedIsReached
  <2> QED
    BY <2>1, <2>2
<1> QED
  BY <1>6, <1>7

\* The arrays of a running swap hold ticks.
LEMMA SwapTicks ==
  ASSUME IInv, ~Idle, NEW b \in UsableTicks
  PROVE  swap.ticks[b] \in Tick
<1>1. swap \in SwapState
  BY DEF IInv, TypeOK, Idle
<1>2. swap.ticks \in [UsableTicks -> Tick]
  BY <1>1 DEF SwapState
<1> QED
  BY <1>2

\* An iteration flips the growth outside of an initialized tick exactly when the
\* current tick moves to its other side (swap_manager.rs:121, tick_manager.rs:17).
LEMMA InitializedTicksFlip ==
  ASSUME IInv, NEW c, StepComputed(swap, c),
         NEW b \in UsableTicks, swap.ticks[b].initialized, NEW x \in Token
  PROVE  /\ TicksAfter(swap, c)[b].initialized
         /\ Flips(b, swap.curr_tick_index, TickAfter(swap, c), GrowthsAtCrossing(swap, c)[x],
                  swap.ticks[b].fee_growth_outside[x], TicksAfter(swap, c)[b].fee_growth_outside[x])
<1> DEFINE tick    == swap.ticks[b]
           growths == GrowthsAtCrossing(swap, c)
           infos   == RewardInfosAt(swap.timestamp)
           crossed == next_tick_cross_update(tick, growths, infos)
<1>1. tick \in Tick
  BY SwapTicks DEF StepComputed
<1>2. TicksAfter(swap, c)[b] = IF (swap.curr_tick_index < b) = (TickAfter(swap, c) < b) THEN tick
                               ELSE crossed
  BY CrossedOrKept
<1>3. /\ crossed.initialized = tick.initialized
      /\ crossed.fee_growth_outside[x] = WrapU128(growths[x] - tick.fee_growth_outside[x])
  <2> HIDE DEF growths, infos, tick
  <2> QED
    BY <1>1 DEF next_tick_cross_update, Tick
<1> HIDE DEF crossed
<1> QED
  BY <1>2, <1>3 DEF Flips

\* The boundary ticks of a position with liquidity are initialized in the arrays
\* of a running swap.
LEMMA BoundariesInitialized ==
  ASSUME BookIInv, ~Idle, NEW p \in PositionIds, Provides(p)
  PROVE  /\ positions[p].tick_lower_index \in UsableTicks
         /\ positions[p].tick_upper_index \in UsableTicks
         /\ positions[p].tick_lower_index < positions[p].tick_upper_index
         /\ swap.ticks[positions[p].tick_lower_index].initialized
         /\ swap.ticks[positions[p].tick_upper_index].initialized
<1>1. /\ positions \in AllPositions /\ RangesSound(positions) /\ swap \in SwapState
      /\ \A t \in UsableTicks : TickBooked(positions, t, swap.ticks[t])
  BY DEF BookIInv, Book, IInv, TypeOK, AllPositions, SwapBooked, Booked, Idle
<1>2. swap.ticks \in [UsableTicks -> Tick]
  BY <1>1 DEF SwapState
<1>3. positions[p].state = "open" /\ positions[p].liquidity > 0
  BY DEF Provides
<1>4. /\ positions[p].tick_lower_index \in UsableTicks
      /\ positions[p].tick_upper_index \in UsableTicks
      /\ positions[p].tick_lower_index < positions[p].tick_upper_index
  BY <1>1, <1>3 DEF RangesSound
<1>5. ASSUME NEW t \in UsableTicks, ~swap.ticks[t].initialized
      PROVE  positions[p].tick_lower_index # t /\ positions[p].tick_upper_index # t
  BY <1>1, <1>2, <1>3, <1>5, NoBoundary
<1> QED
  BY <1>4, <1>5

\* The growth of the fees inside a position's range with given ticks.
FeesInside(current, all_ticks, position, growths) ==
  next_fee_growths_inside(current,
    all_ticks[position.tick_lower_index], position.tick_lower_index,
    all_ticks[position.tick_upper_index], position.tick_upper_index, growths)

\* The global growths as a running swap has them.
SwapGrowths == [fee_growth_global EXCEPT ![InputToken(swap)] = swap.curr_growth]

\* The global growths before and after an iteration are words.
LEMMA SwapGrowthTypes ==
  ASSUME IInv, NEW c, StepComputed(swap, c)
  PROVE  SwapGrowths \in [Token -> U128] /\ GrowthsAtCrossing(swap, c) \in [Token -> U128]
<1> USE DEF fees
<1>1. TypeOK /\ swap \in SwapState
  BY DEF StepComputed, IInv, TypeOK, Idle
<1>2. swap.curr_growth \in U128 /\ StepFees(swap, c).growth \in U128
  BY <1>1 DEF SwapState, StepComputed
<1>3. fee_growth_global \in [Token -> U128]
  BY <1>1 DEF TypeOK
<1> QED
  BY <1>2, <1>3 DEF SwapGrowths, GrowthsAtCrossing

\* An iteration credits a position's range with its fee if the range holds the
\* tick the iteration started from, and with nothing otherwise.
LEMMA FeesInsideOfIteration ==
  ASSUME BookIInv, NEW c, StepComputed(swap, c),
         NEW p \in PositionIds, Provides(p), NEW x \in Token
  PROVE  FeesInside(TickAfter(swap, c), TicksAfter(swap, c), positions[p],
                    GrowthsAtCrossing(swap, c))[x] =
           LET inside == FeesInside(swap.curr_tick_index, swap.ticks, positions[p], SwapGrowths)[x]
           IN  IF InRange(positions[p], swap.curr_tick_index)
               THEN WrapU128(inside + GrowthsAtCrossing(swap, c)[x] - SwapGrowths[x])
               ELSE inside
<1>1. IInv
  BY DEF BookIInv
<1>2. swap \in SwapState /\ ~Idle
  BY <1>1 DEF StepComputed, IInv, TypeOK, Idle
<1> DEFINE l  == positions[p].tick_lower_index
           u  == positions[p].tick_upper_index
           t  == swap.curr_tick_index
           t2 == TickAfter(swap, c)
           g  == SwapGrowths
           g2 == GrowthsAtCrossing(swap, c)
           tk == swap.ticks
           tk2 == TicksAfter(swap, c)
<1>3. /\ FeesInside(t, tk, positions[p], g)[x]
           = GrowthBetween(g[x], GrowthBelow(tk[l], l, t, g[x], tk[l].fee_growth_outside[x]),
                                 GrowthAbove(tk[u], u, t, g[x], tk[u].fee_growth_outside[x]))
      /\ FeesInside(t2, tk2, positions[p], g2)[x]
           = GrowthBetween(g2[x], GrowthBelow(tk2[l], l, t2, g2[x], tk2[l].fee_growth_outside[x]),
                                  GrowthAbove(tk2[u], u, t2, g2[x], tk2[u].fee_growth_outside[x]))
  BY DEF FeesInside, next_fee_growths_inside
<1>4. /\ l \in UsableTicks /\ u \in UsableTicks /\ l < u
      /\ tk[l].initialized /\ tk[u].initialized
  BY <1>2, BoundariesInitialized
<1>5. /\ tk2[l].initialized /\ tk2[u].initialized
      /\ Flips(l, t, t2, g2[x], tk[l].fee_growth_outside[x], tk2[l].fee_growth_outside[x])
      /\ Flips(u, t, t2, g2[x], tk[u].fee_growth_outside[x], tk2[u].fee_growth_outside[x])
  BY <1>1, <1>4, InitializedTicksFlip
<1>6. /\ l \in Int /\ u \in Int /\ t \in Int /\ t2 \in Int /\ g[x] \in Int /\ g2[x] \in Int
      /\ tk[l].fee_growth_outside[x] \in Int /\ tk[u].fee_growth_outside[x] \in Int
      /\ tk2[l].fee_growth_outside[x] \in Int /\ tk2[u].fee_growth_outside[x] \in Int
  <2>1. U128 \subseteq Int
    BY Widths
  <2>2. l \in Int /\ u \in Int
    BY <1>4, ArrayTypes
  <2>3. t \in Int /\ tk \in [UsableTicks -> Tick]
    BY <1>2 DEF SwapState
  <2>4. tk2 \in [UsableTicks -> Tick] /\ TickHoldsPrice(t2, c.next_price)
    BY DEF StepComputed
  <2>5. t2 \in Int
    BY <2>4, TickRangeAssumption DEF TickHoldsPrice
  <2>6. g[x] \in U128 /\ g2[x] \in U128
    BY <1>1, SwapGrowthTypes
  <2>7. /\ tk[l] \in Tick /\ tk[u] \in Tick /\ tk2[l] \in Tick /\ tk2[u] \in Tick
    BY <1>4, <2>3, <2>4
  <2> HIDE DEF l, u, t, t2, g, g2, tk, tk2
  <2>8. /\ tk[l].fee_growth_outside[x] \in U128 /\ tk[u].fee_growth_outside[x] \in U128
        /\ tk2[l].fee_growth_outside[x] \in U128 /\ tk2[u].fee_growth_outside[x] \in U128
    BY <2>7 DEF Tick
  <2> QED
    BY <2>1, <2>2, <2>3, <2>5, <2>6, <2>8
<1>7. InRange(positions[p], t) <=> l <= t /\ t < u
  BY DEF InRange
<1> DEFINE ol  == tk[l].fee_growth_outside[x]
           ou  == tk[u].fee_growth_outside[x]
           ol2 == tk2[l].fee_growth_outside[x]
           ou2 == tk2[u].fee_growth_outside[x]
           inside  == GrowthBetween(g[x], GrowthBelow(tk[l], l, t, g[x], ol),
                                          GrowthAbove(tk[u], u, t, g[x], ou))
           inside2 == GrowthBetween(g2[x], GrowthBelow(tk2[l], l, t2, g2[x], ol2),
                                           GrowthAbove(tk2[u], u, t2, g2[x], ou2))
<1>8. inside2 = IF l <= t /\ t < u THEN WrapU128(inside + g2[x] - g[x]) ELSE inside
  <2> DEFINE h == g[x]  h2 == g2[x]  lower == tk[l]  upper == tk[u]
             lower2 == tk2[l]  upper2 == tk2[u]
  <2>1. /\ l \in Int /\ u \in Int /\ l < u /\ t \in Int /\ t2 \in Int /\ h \in Int /\ h2 \in Int
        /\ ol \in Int /\ ou \in Int /\ ol2 \in Int /\ ou2 \in Int
        /\ lower.initialized /\ upper.initialized /\ lower2.initialized /\ upper2.initialized
        /\ Flips(l, t, t2, h2, ol, ol2) /\ Flips(u, t, t2, h2, ou, ou2)
    BY <1>4, <1>5, <1>6
  <2> HIDE DEF l, u, t, t2, g, g2, tk, tk2, ol, ou, ol2, ou2, h, h2, lower, upper, lower2, upper2
  <2>2. GrowthBetween(h2, GrowthBelow(lower2, l, t2, h2, ol2), GrowthAbove(upper2, u, t2, h2, ou2))
          = LET within == GrowthBetween(h, GrowthBelow(lower, l, t, h, ol),
                                           GrowthAbove(upper, u, t, h, ou))
            IN  IF l <= t /\ t < u THEN WrapU128(within + h2 - h) ELSE within
    BY <2>1, GrowthInsideMoves, SMTT(60)
  <2> QED
    BY <2>2 DEF h, h2, lower, upper, lower2, upper2
<1>9. /\ FeesInside(t, tk, positions[p], g)[x] = inside
      /\ FeesInside(t2, tk2, positions[p], g2)[x] = inside2
  BY <1>3
<1> HIDE DEF l, u, t, t2, g, g2, tk, tk2, inside, inside2
<1>10. FeesInside(t2, tk2, positions[p], g2)[x]
         = IF InRange(positions[p], t)
           THEN WrapU128(FeesInside(t, tk, positions[p], g)[x] + g2[x] - g[x])
           ELSE FeesInside(t, tk, positions[p], g)[x]
  BY <1>7, <1>8, <1>9
<1> QED
  BY <1>10 DEF t, t2, g, g2, tk, tk2

\* The same of the growth a running swap shows.
LEMMA FeesOfIteration ==
  ASSUME BookIInv, SwapStep, NEW p \in PositionIds, Provides(p), NEW x \in Token
  PROVE  GrowthInsideNow(positions[p])'[x] =
           IF InRange(positions[p], CurrTick)
           THEN WrapU128(GrowthInsideNow(positions[p])[x] + CurrGrowth'[x] - CurrGrowth[x])
           ELSE GrowthInsideNow(positions[p])[x]
<1> USE DEF fees
<1>1. IInv
  BY DEF BookIInv
<1>2. PICK c : StepComputed(swap, c) /\ SwapMoves(swap, c)
  BY <1>1, SwapIteration
<1>3. swap \in SwapState /\ ~Idle
  BY <1>1, <1>2 DEF StepComputed, IInv, TypeOK, Idle
<1>4. /\ swap'.curr_growth = StepFees(swap, c).growth
      /\ swap'.ticks = TicksAfter(swap, c) /\ swap'.curr_tick_index = TickAfter(swap, c)
      /\ swap'.request = swap.request
      /\ fee_growth_global' = fee_growth_global /\ positions' = positions
  BY <1>2, <1>3 DEF SwapMoves, SwapState
<1>5. ~Idle'
  <2>1. swap' # NoSwap
    BY <1>2, <1>3 DEF SwapMoves, NoSwap, SwapState, SwapRequest
  <2> QED
    BY <2>1 DEF Idle
<1>6. CurrTick = swap.curr_tick_index /\ CurrTicks = swap.ticks /\ CurrGrowth = SwapGrowths
  BY <1>3 DEF CurrTick, CurrTicks, CurrGrowth, SwapGrowths
<1>7. /\ CurrTick' = TickAfter(swap, c) /\ CurrTicks' = TicksAfter(swap, c)
      /\ CurrGrowth' = GrowthsAtCrossing(swap, c)
  BY <1>4, <1>5 DEF CurrTick, CurrTicks, CurrGrowth, GrowthsAtCrossing, InputToken
<1>8. /\ GrowthInsideNow(positions[p])
           = FeesInside(swap.curr_tick_index, swap.ticks, positions[p], SwapGrowths)
      /\ GrowthInsideNow(positions[p])'
           = FeesInside(TickAfter(swap, c), TicksAfter(swap, c), positions[p],
                        GrowthsAtCrossing(swap, c))
  BY <1>4, <1>6, <1>7 DEF GrowthInsideNow, FeesInside
<1> QED
  BY <1>2, <1>6, <1>7, <1>8, FeesInsideOfIteration

\* The fee of an iteration goes to the ranges that hold the tick it started from,
\* and to no other, whether or not it then crosses a boundary
\* (swap_manager.rs:88, 121).
THEOREM FeesReachRangesInUse == Spec => FeesGoToRangesInUse
<1>1. BookIInv /\ [Next]_vars =>
        [ (~Idle /\ ~Idle') =>
            \A p \in PositionIds : Provides(p) =>
              \A x \in Token :
                GrowthInsideNow(positions[p])'[x] =
                  IF InRange(positions[p], CurrTick)
                  THEN WrapU128(GrowthInsideNow(positions[p])[x] + CurrGrowth'[x] - CurrGrowth[x])
                  ELSE GrowthInsideNow(positions[p])[x] ]_vars
  <2> SUFFICES ASSUME BookIInv, Next, ~Idle, ~Idle'
               PROVE  \A p \in PositionIds : Provides(p) =>
                        \A x \in Token :
                          GrowthInsideNow(positions[p])'[x] =
                            IF InRange(positions[p], CurrTick)
                            THEN WrapU128(GrowthInsideNow(positions[p])[x]
                                          + CurrGrowth'[x] - CurrGrowth[x])
                            ELSE GrowthInsideNow(positions[p])[x]
    OBVIOUS
  <2>1. SwapProgress
    BY DEF Next, InitializeTickArray, PositionNext, OpenPosition, IncreaseLiquidity,
           DecreaseLiquidity, UpdateFeesAndRewards, CollectFees, CollectReward, ClosePosition,
           RewardNext, InitializeReward, DepositReward, SetRewardEmissions, ConfigNext,
           SetEnableFlag, SetFeeRate, SetProtocolFeeRate, CollectProtocolFees, SwapBegin
  <2>2. SwapStep
    BY <2>1 DEF SwapProgress, SwapCommit, UpdateAndSwap, SwapFail, Idle
  <2> QED
    BY <2>2, FeesOfIteration
<1> QED
  BY <1>1, BooksKept, PTL DEF Spec, FeesGoToRangesInUse

-----------------------------------------------------------------------------
(* Rewards *)

\* The growth inside a position's range with given ticks.
RewardsInside(current, all_ticks, position, infos) ==
  next_reward_growths_inside(current,
    all_ticks[position.tick_lower_index], position.tick_lower_index,
    all_ticks[position.tick_upper_index], position.tick_upper_index, infos)

\* What a position is due of a reward, in Q64.64, with given growth inside.
Due(position, i, growth) ==
  TO_Q64 * position.amount_owed[i]
  + IF position.liquidity = 0 THEN 0
    ELSE position.liquidity * WrapU128(growth - position.growth_inside_checkpoint[i])

\* What every position of pos is due of reward i.
Dues(pos, current, all_ticks, infos, i) ==
  [p \in PositionIds |-> Due(pos[p], i, RewardsInside(current, all_ticks, pos[p], infos)[i])]

EmittedCovers ==
  \A i \in RewardIndex :
    Sum(Dues(positions, tick_current_index, ticks, reward_infos, i)) + TO_Q64 * paid[i]
      <= emitted[i]

\* No tick has growth of a reward that is not initialized.
NoGrowthOf(i, all_ticks) == \A t \in UsableTicks : all_ticks[t].reward_growths_outside[i] = 0

NoGrowthUninitialized ==
  \A i \in RewardIndex :
    ~reward_infos[i].initialized =>
      /\ reward_infos[i].growth_global_x64 = 0
      /\ NoGrowthOf(i, ticks)
      /\ ~Idle => NoGrowthOf(i, swap.ticks)

\* The growth the account will have when the running swap ends.
SwapKeepsInside ==
  ~Idle =>
    \A p \in PositionIds : positions[p].liquidity > 0 =>
      RewardsInside(swap.curr_tick_index, swap.ticks, positions[p], RewardInfosAt(swap.timestamp))
        = RewardsInside(tick_current_index, ticks, positions[p], RewardInfosAt(swap.timestamp))

EmissionInv ==
  /\ emitted \in [RewardIndex -> Nat] /\ paid \in [RewardIndex -> Nat]
  /\ NoGrowthUninitialized
  /\ SwapKeepsInside
  /\ EmittedCovers

-----------------------------------------------------------------------------
(* Sums and roundings *)

\* A sum is at most another when no summand is greater.
LEMMA SumAtMost ==
  ASSUME NEW f \in Amounts, NEW g \in Amounts, \A p \in PositionIds : f[p] <= g[p]
  PROVE  Sum(f) <= Sum(g)
<1> DEFINE F == Partial(f)
           G == Partial(g)
           S == {n \in 0 .. NumPositions : F[n] <= G[n]}
<1>1. NumPositions \in Nat
  BY PoolAssumption
<1>2. /\ F[0] = 0 /\ G[0] = 0
      /\ \A n \in 0 .. NumPositions :
           n < NumPositions => F[n + 1] = F[n] + f[n + 1] /\ G[n + 1] = G[n] + g[n + 1]
      /\ \A n \in 0 .. NumPositions : F[n] \in Int /\ G[n] \in Int
  BY PartialSums, SumOfInts
<1>3. Sum(f) = F[NumPositions] /\ Sum(g) = G[NumPositions]
  BY PartialSums
<1> HIDE DEF F, G
<1>4. 0 \in S
  BY <1>1, <1>2
<1>5. ASSUME NEW n \in 0 .. NumPositions, n \in S, n < NumPositions PROVE n + 1 \in S
  <2>1. n + 1 \in 0 .. NumPositions /\ n + 1 \in PositionIds
    BY <1>1, <1>5 DEF PositionIds
  <2>2. f[n + 1] \in Int /\ g[n + 1] \in Int /\ f[n + 1] <= g[n + 1] /\ F[n] <= G[n]
    BY <1>5, <2>1 DEF Amounts
  <2>3. F[n + 1] <= G[n + 1]
    BY <1>2, <1>5, <2>2
  <2> QED
    BY <2>1, <2>3
<1>6. \A n \in 0 .. NumPositions : n \in S
  <2> HIDE DEF S
  <2> QED
    BY <1>4, <1>5, CountPositions
<1> QED
  BY <1>1, <1>3, <1>6

\* A common factor of the summands is one of the sum.
LEMMA SumScales ==
  ASSUME NEW f \in Amounts, NEW g \in Amounts, NEW k \in Int,
         \A p \in PositionIds : g[p] = k * f[p]
  PROVE  Sum(g) = k * Sum(f)
<1> DEFINE F == Partial(f)
           G == Partial(g)
           S == {n \in 0 .. NumPositions : G[n] = k * F[n]}
<1>1. NumPositions \in Nat
  BY PoolAssumption
<1>2. /\ F[0] = 0 /\ G[0] = 0
      /\ \A n \in 0 .. NumPositions :
           n < NumPositions => F[n + 1] = F[n] + f[n + 1] /\ G[n + 1] = G[n] + g[n + 1]
      /\ \A n \in 0 .. NumPositions : F[n] \in Int /\ G[n] \in Int
  BY PartialSums, SumOfInts
<1>3. Sum(f) = F[NumPositions] /\ Sum(g) = G[NumPositions]
  BY PartialSums
<1> HIDE DEF F, G
<1>4. 0 \in S
  BY <1>1, <1>2
<1>5. ASSUME NEW n \in 0 .. NumPositions, n \in S, n < NumPositions PROVE n + 1 \in S
  <2>1. n + 1 \in 0 .. NumPositions /\ n + 1 \in PositionIds
    BY <1>1, <1>5 DEF PositionIds
  <2>2. f[n + 1] \in Int /\ F[n] \in Int /\ g[n + 1] = k * f[n + 1] /\ G[n] = k * F[n]
    BY <1>2, <1>5, <2>1 DEF Amounts
  <2>3. G[n + 1] = k * F[n] + k * f[n + 1] /\ F[n + 1] = F[n] + f[n + 1]
    BY <1>2, <1>5, <2>2
  <2>4. k * F[n] + k * f[n + 1] = k * (F[n] + f[n + 1])
    BY <2>2
  <2>5. G[n + 1] = k * F[n + 1]
    BY <2>3, <2>4
  <2> QED
    BY <2>1, <2>5
<1>6. \A n \in 0 .. NumPositions : n \in S
  <2> HIDE DEF S
  <2> QED
    BY <1>4, <1>5, CountPositions
<1> QED
  BY <1>1, <1>3, <1>6

\* A remainder is at most what it remains of.
LEMMA RemainderAtMost ==
  ASSUME NEW n \in Nat, NEW d \in Nat \ {0}
  PROVE  n % d \in Nat /\ n % d <= n
<1> DEFINE q == n \div d
           r == n % d
<1>1. q \in Int /\ r \in 0 .. (d - 1) /\ n = q * d + r /\ n < q * d + d
  BY DivMod
<1> HIDE DEF q, r
<1>2. 0 <= q
  <2>1. 0 * d < (q + 1) * d
    BY <1>1
  <2>2. 0 < q + 1
    BY <1>1, <2>1, MulCancelStrict
  <2> QED
    BY <1>1, <2>2
<1>3. 0 * d <= q * d
  BY <1>1, <1>2, MulMonotone
<1> QED
  BY <1>1, <1>3 DEF r

\* Wrapping keeps an increase from being greater than it is.
LEMMA WrapAtMost ==
  ASSUME NEW x \in Int, NEW d \in Nat
  PROVE  WrapU128(x) \in Nat /\ WrapU128(x + d) <= WrapU128(x) + d
<1>1. WrapU128(x) \in Nat /\ TO_Q128 \in Nat \ {0}
  BY Conversions, Widths DEF U128
<1>2. WrapU128(x + d) = WrapU128(WrapU128(x) + d)
  BY WrapTerm
<1>3. WrapU128(x) + d \in Nat
  BY <1>1
<1> QED
  BY <1>1, <1>2, <1>3, RemainderAtMost DEF WrapU128

\* What growth earned is rounded down.
LEMMA EarnedAtMost ==
  ASSUME NEW L \in U128, NEW inside \in U128, NEW checkpoint \in U128
  PROVE  /\ GrowthEarned(L, inside, checkpoint) \in Nat
         /\ TO_Q64 * GrowthEarned(L, inside, checkpoint) <= L * WrapU128(inside - checkpoint)
<1> DEFINE w == WrapU128(inside - checkpoint)
           n == L * w
           e == GrowthEarned(L, inside, checkpoint)
<1>1. w \in Nat /\ L \in Nat /\ TO_Q64 \in Nat \ {0}
  <2>1. inside \in Int /\ checkpoint \in Int /\ L \in Nat
    BY WordsAreIntegers
  <2>2. w \in U128
    BY <2>1, Conversions
  <2>3. w \in Nat
    BY <2>2, WordsAreIntegers
  <2> QED
    BY <2>1, <2>3, Widths
<1>2. n \in Nat
  BY <1>1
<1> DEFINE up == FALSE
           d  == DivRound(n, TO_Q64, up)
<1>3. e = OrZero(IF n >= TO_Q128 THEN Err ELSE CheckU64(d))
  BY DEF GrowthEarned, checked_mul_shift_right, checked_mul_shift_right_round_up_if
<1>4. d \in Int /\ d * TO_Q64 <= n
  <2>1. up \in BOOLEAN /\ ~up
    OBVIOUS
  <2> HIDE DEF n, up
  <2> QED
    BY <1>1, <1>2, <2>1, DivRoundBounds
<1> HIDE DEF w, n, e, d
<1>5. e = 0 \/ (e = d /\ d \in U64)
  BY <1>3, <1>4, Conversions DEF OrZero
<1>6. CASE e = 0
  BY <1>1, <1>2, <1>6 DEF n, e, w
<1>7. CASE e = d /\ d \in U64
  <2>1. e \in Nat
    BY <1>7, WordsAreIntegers
  <2>2. TO_Q64 * e = d * TO_Q64
    BY <1>1, <1>7, <2>1
  <2> QED
    BY <1>4, <2>1, <2>2 DEF n, e, w, d
<1> QED
  BY <1>5, <1>6, <1>7

-----------------------------------------------------------------------------
(* What a position is due *)

\* The growth inside a range is a word.
LEMMA InsideType ==
  ASSUME NEW current \in Int, NEW all_ticks \in [UsableTicks -> Tick], NEW position \in Position,
         position.tick_lower_index \in UsableTicks, position.tick_upper_index \in UsableTicks,
         NEW infos \in [RewardIndex -> WhirlpoolRewardInfo]
  PROVE  RewardsInside(current, all_ticks, position, infos) \in [RewardIndex -> U128]
<1> DEFINE l == position.tick_lower_index
           u == position.tick_upper_index
<1>1. l \in UsableTicks /\ u \in UsableTicks /\ all_ticks[l] \in Tick /\ all_ticks[u] \in Tick
  OBVIOUS
<1>2. l \in Int /\ u \in Int
  BY <1>1, ArrayTypes
<1>3. RewardsInside(current, all_ticks, position, infos)
        = next_reward_growths_inside(current, all_ticks[l], l, all_ticks[u], u, infos)
  BY DEF RewardsInside
<1> HIDE DEF l, u
<1> DEFINE f == [x \in Token |-> 0]
<1>4. f \in [Token -> U128]
  <2>1. 0 \in U128
    BY Widths DEF U128
  <2> QED
    BY <2>1
<1>5. next_reward_growths_inside(current, all_ticks[l], l, all_ticks[u], u, infos)
        \in [RewardIndex -> U128]
  <2> HIDE DEF f
  <2> QED
    BY <1>1, <1>2, <1>4, GrowthsInsideType
<1> QED
  BY <1>3, <1>5

\* What a position is due is an amount; one without liquidity is due what it is owed.
LEMMA DueType ==
  ASSUME NEW position \in Position, NEW i \in RewardIndex, NEW growth,
         position.liquidity = 0 \/ growth \in U128
  PROVE  /\ position.amount_owed[i] \in Nat
         /\ Due(position, i, growth) \in Nat
         /\ TO_Q64 * position.amount_owed[i] \in Nat
         /\ TO_Q64 * position.amount_owed[i] <= Due(position, i, growth)
<1> DEFINE o == position.amount_owed[i]
           L == position.liquidity
           c == position.growth_inside_checkpoint[i]
           w == WrapU128(growth - c)
<1>1. o \in Nat /\ L \in Nat /\ c \in Int /\ TO_Q64 \in Nat
  <2>1. o \in U64 /\ L \in U128 /\ c \in U128
    BY DEF Position
  <2> QED
    BY <2>1, WordsAreIntegers, Widths
<1>2. Due(position, i, growth) = TO_Q64 * o + IF L = 0 THEN 0 ELSE L * w
  BY DEF Due
<1>3. TO_Q64 * o \in Nat
  BY <1>1
<1>4. L # 0 => L * w \in Nat
  <2> SUFFICES ASSUME L # 0 PROVE L * w \in Nat
    OBVIOUS
  <2>1. growth \in Int
    BY WordsAreIntegers
  <2>2. w \in U128
    BY <1>1, <2>1, Conversions
  <2>3. w \in Nat
    BY <2>2, WordsAreIntegers
  <2> QED
    BY <1>1, <2>3
<1> DEFINE a == TO_Q64 * o
           b == L * w
<1> HIDE DEF o, L, w, a, b
<1> QED
  BY <1>1, <1>2, <1>3, <1>4 DEF a, b, o

\* Settling rounds what a position is due down, and keeps it.
LEMMA SettledDue ==
  ASSUME NEW position \in Position, NEW i \in RewardIndex, NEW inside \in U128
  PROVE  TO_Q64 * WrapU64(position.amount_owed[i]
                          + GrowthEarned(position.liquidity, inside,
                                         position.growth_inside_checkpoint[i]))
           <= Due(position, i, inside)
<1> DEFINE o == position.amount_owed[i]
           L == position.liquidity
           c == position.growth_inside_checkpoint[i]
           e == GrowthEarned(L, inside, c)
           w == WrapU128(inside - c)
<1>1. o \in U64 /\ L \in U128 /\ c \in U128
  BY DEF Position
<1>2. o \in Nat /\ L \in Nat /\ TO_Q64 \in Nat \ {0}
  <2>1. TO_Q64 \in Nat \ {0}
    BY Widths
  <2> HIDE DEF o, L
  <2> QED
    BY <1>1, <2>1, WordsAreIntegers
<1>3. e \in Nat /\ TO_Q64 * e <= L * w
  BY <1>1, EarnedAtMost
<1>4. w \in Nat
  <2>1. inside \in Int /\ c \in Int
    BY <1>1, WordsAreIntegers
  <2>2. w \in U128
    BY <2>1, Conversions
  <2> HIDE DEF w
  <2> QED
    BY <2>2, WordsAreIntegers
<1>5. Due(position, i, inside) = TO_Q64 * o + L * w
  <2>1. L = 0 => L * w = 0
    BY <1>4
  <2> QED
    BY <2>1 DEF Due
<1> DEFINE s == WrapU64(o + e)
<1>6. s \in Nat /\ s <= o + e
  BY <1>2, <1>3, RemainderAtMost DEF WrapU64
<1> DEFINE b == L * w
<1>7. b \in Int
  BY <1>2, <1>4
<1>8. TO_Q64 * s <= TO_Q64 * o + TO_Q64 * e
  <2> HIDE DEF o, e, s, w
  <2>1. s * TO_Q64 <= (o + e) * TO_Q64
    BY <1>2, <1>3, <1>6, MulMonotone
  <2>2. (o + e) * TO_Q64 = TO_Q64 * o + TO_Q64 * e /\ s * TO_Q64 = TO_Q64 * s
    BY <1>2, <1>3, <1>6
  <2> QED
    BY <2>1, <2>2
<1>9. TO_Q64 * s \in Int /\ TO_Q64 * o \in Int /\ TO_Q64 * e \in Int
  BY <1>2, <1>3, <1>6
<1> DEFINE x == TO_Q64 * s
           y == TO_Q64 * o
           z == TO_Q64 * e
<1>10. x <= y + b
  <2>1. x <= y + z /\ z <= b /\ x \in Int /\ y \in Int /\ z \in Int /\ b \in Int
    BY <1>3, <1>7, <1>8, <1>9
  <2> HIDE DEF x, y, z, b
  <2> QED
    BY <2>1
<1> QED
  BY <1>5, <1>10

\* What positions with sound ranges are due are amounts.
LEMMA DuesType ==
  ASSUME NEW pos \in AllPositions, RangesSound(pos), NEW current \in Int,
         NEW all_ticks \in [UsableTicks -> Tick],
         NEW infos \in [RewardIndex -> WhirlpoolRewardInfo], NEW i \in RewardIndex
  PROVE  /\ Dues(pos, current, all_ticks, infos, i) \in [PositionIds -> Nat]
         /\ Dues(pos, current, all_ticks, infos, i) \in Amounts
         /\ Sum(Dues(pos, current, all_ticks, infos, i)) \in Int
<1>1. ASSUME NEW p \in PositionIds
      PROVE  Due(pos[p], i, RewardsInside(current, all_ticks, pos[p], infos)[i]) \in Nat
  <2>1. pos[p] \in Position
    BY DEF AllPositions
  <2>2. pos[p].liquidity = 0
        \/ (pos[p].tick_lower_index \in UsableTicks /\ pos[p].tick_upper_index \in UsableTicks)
    BY DEF RangesSound
  <2>3. pos[p].liquidity = 0 \/ RewardsInside(current, all_ticks, pos[p], infos)[i] \in U128
    BY <2>1, <2>2, InsideType
  <2> QED
    BY <2>1, <2>3, DueType
<1>2. Dues(pos, current, all_ticks, infos, i) \in [PositionIds -> Nat]
  BY <1>1 DEF Dues
<1>3. Dues(pos, current, all_ticks, infos, i) \in Amounts
  BY <1>2 DEF Amounts
<1> QED
  BY <1>2, <1>3, SumOfInts

-----------------------------------------------------------------------------
(* Accrual *)

\* What an instruction at a time emits.
Accruing(i, timestamp) ==
  IF liquidity = 0 THEN 0
  ELSE (timestamp - reward_last_updated_timestamp) * reward_infos[i].emissions_per_second_x64

\* The growth of a reward rises by the emission per unit of liquidity, rounded down.
LEMMA AccruedGrowth ==
  ASSUME TypeOK, NEW timestamp \in U64, timestamp >= reward_last_updated_timestamp,
         NEW i \in RewardIndex
  PROVE  /\ Accruing(i, timestamp) \in Nat
         /\ \E d \in Nat :
              /\ RewardInfosAt(timestamp)[i].growth_global_x64
                   = WrapU128(reward_infos[i].growth_global_x64 + d)
              /\ d * liquidity <= Accruing(i, timestamp)
<1> USE DEF rewards
<1> DEFINE L == liquidity
           g == reward_infos[i].growth_global_x64
           e == reward_infos[i].emissions_per_second_x64
           s == timestamp - reward_last_updated_timestamp
           A == Accruing(i, timestamp)
<1>1. reward_infos[i] \in WhirlpoolRewardInfo /\ L \in U128
      /\ reward_last_updated_timestamp \in U64
  BY DEF TypeOK
<1>2. g \in U128 /\ e \in U128
  BY <1>1 DEF WhirlpoolRewardInfo
<1>3. L \in Nat /\ g \in Nat /\ e \in Nat
  <2> HIDE DEF L, g, e
  <2> QED
    BY <1>1, <1>2, WordsAreIntegers
<1>4. s \in Nat
  <2>1. timestamp \in Nat /\ reward_last_updated_timestamp \in Nat
    BY <1>1, WordsAreIntegers
  <2> QED
    BY <2>1
<1>5. A = IF L = 0 THEN 0 ELSE s * e
  BY DEF Accruing
<1>6. s * e \in Nat
  <2> HIDE DEF s, e
  <2> QED
    BY <1>3, <1>4
<1>7. A \in Nat
  <2> HIDE DEF A, s, e, L
  <2> QED
    BY <1>5, <1>6
<1>8. RewardInfosAt(timestamp)[i] =
        IF L = 0 \/ timestamp = reward_last_updated_timestamp \/ ~reward_infos[i].initialized
        THEN reward_infos[i]
        ELSE [reward_infos[i] EXCEPT !.growth_global_x64 =
                WrapU128(g + OrZero(checked_mul_div(s, e, L)))]
  BY DEF RewardInfosAt, next_whirlpool_reward_infos
<1>9. CASE L = 0 \/ timestamp = reward_last_updated_timestamp \/ ~reward_infos[i].initialized
  <2>1. RewardInfosAt(timestamp)[i].growth_global_x64 = g
    BY <1>8, <1>9
  <2>2. WrapU128(g + 0) = g
    <3>1. g + 0 = g
      BY <1>3
    <3> HIDE DEF g
    <3> QED
      BY <1>2, <3>1, WrapWord
  <2>3. 0 * liquidity <= A
    <3> HIDE DEF A
    <3> QED
      BY <1>3, <1>7
  <2> QED
    BY <1>7, <2>1, <2>2, <2>3
<1>10. CASE ~(L = 0 \/ timestamp = reward_last_updated_timestamp \/ ~reward_infos[i].initialized)
  <2> DEFINE m == checked_mul_div(s, e, L)
             d == OrZero(m)
             up == FALSE
  <2>1. RewardInfosAt(timestamp)[i].growth_global_x64 = WrapU128(g + d)
    BY <1>1, <1>8, <1>10 DEF WhirlpoolRewardInfo
  <2>2. m = IF L = 0 \/ s * e >= TO_Q128 THEN Err ELSE DivRound(s * e, L, up)
    BY DEF checked_mul_div, checked_mul_div_round_up_if
  <2>3. L \in Nat \ {0} /\ A = s * e
    BY <1>3, <1>5, <1>10
  <2> DEFINE n == s * e
             q == DivRound(n, L, up)
  <2>4. n \in Nat
    BY <1>6
  <2>5. q \in Int /\ q * L <= n
    <3>1. up \in BOOLEAN /\ ~up
      OBVIOUS
    <3> HIDE DEF n, L, up
    <3> QED
      BY <2>3, <2>4, <3>1, DivRoundBounds
  <2>6. m \in U128 \cup {Err}
    <3> HIDE DEF s, e, L
    <3> QED
      BY <1>3, <1>4, MulDivTypes
  <2>7. d \in Nat
    <3> HIDE DEF m
    <3>1. m \in Nat \/ m = Err
      BY <2>6, WordsAreIntegers
    <3> QED
      BY <3>1 DEF OrZero
  <2>8. d = 0 \/ d = q
    BY <2>2 DEF OrZero
  <2>9. d * L <= A
    <3> HIDE DEF d, q, n, L, A
    <3>1. CASE d = 0
      BY <1>3, <1>7, <3>1
    <3>2. CASE d = q
      BY <2>3, <2>5, <3>2 DEF n
    <3> QED
      BY <2>8, <3>1, <3>2
  <2> HIDE DEF d, A
  <2> QED
    BY <1>7, <2>1, <2>7, <2>9 DEF A
<1> QED
  BY <1>9, <1>10

\* The boundary ticks of a position with liquidity are initialized.
LEMMA AccountBoundaries ==
  ASSUME BookIInv, NEW p \in PositionIds, positions[p].liquidity > 0
  PROVE  /\ positions[p].tick_lower_index \in UsableTicks
         /\ positions[p].tick_upper_index \in UsableTicks
         /\ positions[p].tick_lower_index < positions[p].tick_upper_index
         /\ ticks[positions[p].tick_lower_index].initialized
         /\ ticks[positions[p].tick_upper_index].initialized
         /\ positions[p].state = "open"
<1>1. /\ positions \in AllPositions /\ RangesSound(positions)
      /\ ticks \in [UsableTicks -> Tick]
      /\ \A t \in UsableTicks : TickBooked(positions, t, ticks[t])
  BY DEF BookIInv, Book, IInv, TypeOK, AllPositions, AccountBooked, Booked
<1>2. /\ positions[p].state = "open"
      /\ positions[p].tick_lower_index \in UsableTicks
      /\ positions[p].tick_upper_index \in UsableTicks
      /\ positions[p].tick_lower_index < positions[p].tick_upper_index
  BY <1>1 DEF RangesSound
<1>3. ASSUME NEW t \in UsableTicks, ~ticks[t].initialized
      PROVE  positions[p].tick_lower_index # t /\ positions[p].tick_upper_index # t
  BY <1>1, <1>3, NoBoundary
<1> QED
  BY <1>2, <1>3

\* When the growth of a reward rises by d, the growth inside a range since a
\* checkpoint rises by no more, and only if the range holds the current tick.
LEMMA RangeAccrued ==
  ASSUME NEW t \in Int, NEW l \in Int, NEW u \in Int, l < u, NEW g \in Int, NEW d \in Nat,
         NEW ol \in Int, NEW ou \in Int, NEW checkpoint \in Int,
         NEW lower, NEW upper, lower.initialized, upper.initialized,
         NEW inside, NEW inside2,
         inside = GrowthBetween(g, GrowthBelow(lower, l, t, g, ol), GrowthAbove(upper, u, t, g, ou)),
         inside2 = GrowthBetween(WrapU128(g + d), GrowthBelow(lower, l, t, WrapU128(g + d), ol),
                                 GrowthAbove(upper, u, t, WrapU128(g + d), ou))
  PROVE  WrapU128(inside2 - checkpoint)
           <= WrapU128(inside - checkpoint) + IF l <= t /\ t < u THEN d ELSE 0
<1> DEFINE g2 == WrapU128(g + d)
<1>1. g2 \in Int
  BY WrapMultiple
<1>2. Flips(l, t, t, g2, ol, ol) /\ Flips(u, t, t, g2, ou, ou)
  BY DEF Flips
<1>3. inside2 = IF l <= t /\ t < u THEN WrapU128(inside + g2 - g) ELSE inside
  <2> HIDE DEF g2
  <2>1. GrowthBetween(g2, GrowthBelow(lower, l, t, g2, ol), GrowthAbove(upper, u, t, g2, ou))
          = LET within == GrowthBetween(g, GrowthBelow(lower, l, t, g, ol),
                                           GrowthAbove(upper, u, t, g, ou))
            IN  IF l <= t /\ t < u THEN WrapU128(within + g2 - g) ELSE within
    BY <1>1, <1>2, GrowthInsideMoves
  <2> QED
    BY <2>1 DEF g2
<1>4. inside \in Int
  <2>1. inside = IF t < l THEN WrapU128(ol - ou) ELSE IF t < u THEN WrapU128((g - ol) - ou)
                 ELSE WrapU128(ou - ol)
    BY GrowthInsideRange
  <2>2. ol - ou \in Int /\ (g - ol) - ou \in Int /\ ou - ol \in Int
    OBVIOUS
  <2> QED
    BY <2>1, <2>2, WrapMultiple
<1>5. WrapU128(inside - checkpoint) \in Nat
      /\ WrapU128((inside - checkpoint) + d) <= WrapU128(inside - checkpoint) + d
  BY <1>4, WrapAtMost
<1>6. CASE l <= t /\ t < u
  <2>1. inside + g2 - g = g2 + (inside - g)
    BY <1>1, <1>4
  <2>2. WrapU128(g2 + (inside - g)) = WrapU128((g + d) + (inside - g))
    BY <1>4, WrapTerm
  <2>3. (g + d) + (inside - g) = inside + d
    BY <1>4
  <2>4. inside2 = WrapU128(inside + d)
    BY <1>3, <1>6, <2>1, <2>2, <2>3
  <2>5. WrapU128(inside2 - checkpoint) = WrapU128((inside + d) - checkpoint)
    BY <1>4, <2>4, WrapTerm
  <2>6. (inside + d) - checkpoint = (inside - checkpoint) + d
    BY <1>4
  <2> QED
    BY <1>5, <1>6, <2>5, <2>6
<1>7. CASE ~(l <= t /\ t < u)
  BY <1>3, <1>5, <1>7
<1> QED
  BY <1>6, <1>7

\* The same for a position's range and the growth of one reward.
LEMMA InsideAccrued ==
  ASSUME BookIInv, NEW timestamp \in U64, NEW p \in PositionIds, positions[p].liquidity > 0,
         NEW i \in RewardIndex, NEW d \in Nat,
         RewardInfosAt(timestamp)[i].growth_global_x64
           = WrapU128(reward_infos[i].growth_global_x64 + d),
         NEW inside, NEW inside2,
         inside = RewardsInside(tick_current_index, ticks, positions[p], reward_infos)[i],
         inside2 = RewardsInside(tick_current_index, ticks, positions[p],
                                 RewardInfosAt(timestamp))[i]
  PROVE  WrapU128(inside2 - positions[p].growth_inside_checkpoint[i])
           <= WrapU128(inside - positions[p].growth_inside_checkpoint[i])
              + IF InRange(positions[p], tick_current_index) THEN d ELSE 0
<1> DEFINE l  == positions[p].tick_lower_index
           u  == positions[p].tick_upper_index
           t  == tick_current_index
           c  == positions[p].growth_inside_checkpoint[i]
           lower == ticks[l]
           upper == ticks[u]
           ol == lower.reward_growths_outside[i]
           ou == upper.reward_growths_outside[i]
           g  == reward_infos[i].growth_global_x64
<1>1. TypeOK
  BY DEF BookIInv, IInv
<1>2. /\ l \in UsableTicks /\ u \in UsableTicks /\ l < u
      /\ lower.initialized /\ upper.initialized
  BY AccountBoundaries
<1>3. /\ l \in Int /\ u \in Int /\ t \in Int /\ c \in Int /\ g \in Int
      /\ ol \in Int /\ ou \in Int
  <2>1. l \in Int /\ u \in Int
    BY <1>2, ArrayTypes
  <2>2. t \in Int /\ lower \in Tick /\ upper \in Tick /\ positions[p] \in Position
        /\ reward_infos[i] \in WhirlpoolRewardInfo
    BY <1>1, <1>2 DEF TypeOK
  <2>3. ol \in U128 /\ ou \in U128
    BY <2>2 DEF Tick
  <2>4. c \in U128 /\ g \in U128
    BY <2>2 DEF Position, WhirlpoolRewardInfo
  <2> HIDE DEF l, u, t, c, g, ol, ou
  <2> QED
    BY <2>1, <2>2, <2>3, <2>4, WordsAreIntegers
<1>4. /\ RewardInfosAt(timestamp)[i].initialized <=> reward_infos[i].initialized
      /\ ~reward_infos[i].initialized => RewardInfosAt(timestamp)[i] = reward_infos[i]
  BY <1>1, AccrualKeepsUninitialized
<1>5. /\ inside = IF ~reward_infos[i].initialized THEN 0
                  ELSE GrowthBetween(g, GrowthBelow(lower, l, t, g, ol), GrowthAbove(upper, u, t, g, ou))
      /\ inside2 = IF ~RewardInfosAt(timestamp)[i].initialized THEN 0
                   ELSE GrowthBetween(WrapU128(g + d), GrowthBelow(lower, l, t, WrapU128(g + d), ol),
                                      GrowthAbove(upper, u, t, WrapU128(g + d), ou))
  BY DEF RewardsInside, next_reward_growths_inside
<1>6. InRange(positions[p], tick_current_index) <=> l <= t /\ t < u
  BY DEF InRange
<1> HIDE DEF l, u, t, c, g, lower, upper, ol, ou
<1>7. CASE reward_infos[i].initialized
  <2>1. WrapU128(inside2 - c) <= WrapU128(inside - c) + IF l <= t /\ t < u THEN d ELSE 0
    <3>1. /\ inside = GrowthBetween(g, GrowthBelow(lower, l, t, g, ol), GrowthAbove(upper, u, t, g, ou))
          /\ inside2 = GrowthBetween(WrapU128(g + d), GrowthBelow(lower, l, t, WrapU128(g + d), ol),
                                     GrowthAbove(upper, u, t, WrapU128(g + d), ou))
      BY <1>4, <1>5, <1>7
    <3>2. lower.initialized /\ upper.initialized /\ l < u
      BY <1>2
    <3> QED
      BY <1>3, <3>1, <3>2, RangeAccrued, ZenonT(60)
  <2> QED
    BY <1>6, <2>1 DEF c
<1>8. CASE ~reward_infos[i].initialized
  <2>1. inside = 0 /\ inside2 = 0
    BY <1>4, <1>5, <1>8
  <2> DEFINE since == inside - c
  <2>2. since \in Int
    BY <1>3, <2>1
  <2> HIDE DEF since
  <2>3. WrapU128(since) \in U128
    BY <2>2, Conversions
  <2>4. WrapU128(inside - c) \in Nat
    BY <2>3, WordsAreIntegers DEF since
  <2> QED
    BY <2>1, <2>4 DEF c
<1> QED
  BY <1>7, <1>8

\* An instruction's accrual raises what a position is due by its liquidity's part,
\* if its range holds the current tick.
LEMMA DueAccrues ==
  ASSUME BookIInv, NEW timestamp \in U64, timestamp >= reward_last_updated_timestamp,
         NEW p \in PositionIds, NEW i \in RewardIndex, NEW d \in Nat,
         RewardInfosAt(timestamp)[i].growth_global_x64
           = WrapU128(reward_infos[i].growth_global_x64 + d)
  PROVE  Dues(positions, tick_current_index, ticks, RewardInfosAt(timestamp), i)[p]
           <= Dues(positions, tick_current_index, ticks, reward_infos, i)[p]
              + d * RangeShare(positions, tick_current_index)[p]
<1> DEFINE L  == positions[p].liquidity
           c  == positions[p].growth_inside_checkpoint[i]
           a  == TO_Q64 * positions[p].amount_owed[i]
           I1 == RewardsInside(tick_current_index, ticks, positions[p], reward_infos)[i]
           I2 == RewardsInside(tick_current_index, ticks, positions[p], RewardInfosAt(timestamp))[i]
           w1 == WrapU128(I1 - c)
           w2 == WrapU128(I2 - c)
           x  == IF InRange(positions[p], tick_current_index) THEN d ELSE 0
           R  == RangeShare(positions, tick_current_index)[p]
<1>1. TypeOK /\ positions \in AllPositions /\ RangesSound(positions)
  BY DEF BookIInv, Book, IInv, TypeOK, AllPositions
<1>2. /\ positions[p] \in Position /\ tick_current_index \in Int
      /\ ticks \in [UsableTicks -> Tick] /\ reward_infos \in [RewardIndex -> WhirlpoolRewardInfo]
      /\ RewardInfosAt(timestamp) \in [RewardIndex -> WhirlpoolRewardInfo]
  BY <1>1, RewardInfosAtType DEF TypeOK
<1>3. L \in Nat
  <2>1. L \in U128
    BY <1>2 DEF Position
  <2> HIDE DEF L
  <2> QED
    BY <2>1, WordsAreIntegers
<1>4. a \in Nat
  <2>1. L = 0 \/ I1 \in U128
    BY <1>1, <1>2, InsideType DEF RangesSound
  <2> QED
    BY <1>2, <2>1, DueType
<1>5. /\ Dues(positions, tick_current_index, ticks, reward_infos, i)[p]
           = a + IF L = 0 THEN 0 ELSE L * w1
      /\ Dues(positions, tick_current_index, ticks, RewardInfosAt(timestamp), i)[p]
           = a + IF L = 0 THEN 0 ELSE L * w2
  BY DEF Dues, Due
<1>6. R = IF InRange(positions[p], tick_current_index) THEN L ELSE 0
  BY DEF RangeShare
<1>7. CASE L = 0
  <2>1. d * R = 0
    BY <1>6, <1>7
  <2> HIDE DEF L, R, a
  <2> QED
    BY <1>4, <1>5, <1>7, <2>1 DEF R
<1>8. CASE L # 0
  <2>1. positions[p].liquidity > 0
    BY <1>3, <1>8
  <2>2. w2 <= w1 + x
    BY <2>1, InsideAccrued
  <2>3. w1 \in Nat /\ w2 \in Nat
    <3>1. positions[p].tick_lower_index \in UsableTicks
          /\ positions[p].tick_upper_index \in UsableTicks
      BY <2>1, AccountBoundaries
    <3>2. I1 \in U128 /\ I2 \in U128
      BY <1>2, <3>1, InsideType
    <3>3. c \in U128
      BY <1>2 DEF Position
    <3> HIDE DEF I1, I2, c
    <3>4. I1 \in Int /\ I2 \in Int /\ c \in Int
      BY <3>2, <3>3, WordsAreIntegers
    <3>5. w1 \in U128 /\ w2 \in U128
      BY <3>4, Conversions
    <3> HIDE DEF w1, w2
    <3> QED
      BY <3>5, WordsAreIntegers
  <2>4. x \in Nat
    OBVIOUS
  <2>5. d * R = L * x
    <3>1. CASE InRange(positions[p], tick_current_index)
      <4>1. R = L /\ x = d
        BY <1>6, <3>1
      <4> HIDE DEF R, L, x
      <4> QED
        BY <1>3, <4>1
    <3>2. CASE ~InRange(positions[p], tick_current_index)
      <4>1. R = 0 /\ x = 0
        BY <1>6, <3>2
      <4> HIDE DEF R, L, x
      <4> QED
        BY <1>3, <4>1
    <3> QED
      BY <3>1, <3>2
  <2> HIDE DEF L, a, w1, w2, x, R
  <2>6. L * w2 <= L * w1 + L * x
    <3>1. w2 * L <= (w1 + x) * L
      BY <1>3, <2>2, <2>3, <2>4, MulMonotone
    <3>2. (w1 + x) * L = L * w1 + L * x /\ w2 * L = L * w2
      BY <1>3, <2>3, <2>4
    <3> QED
      BY <3>1, <3>2
  <2> DEFINE y1 == L * w1
             y2 == L * w2
             z  == L * x
  <2>7. y1 \in Int /\ y2 \in Int /\ z \in Int
    BY <1>3, <2>3, <2>4
  <2>8. a + y2 <= (a + y1) + z
    <3>1. y2 <= y1 + z
      BY <2>6
    <3> HIDE DEF y1, y2, z
    <3> QED
      BY <1>4, <2>7, <3>1
  <2> QED
    BY <1>5, <1>8, <2>5, <2>8 DEF R
<1> QED
  BY <1>7, <1>8

\* All positions together are due no more by it than its seconds emit.
LEMMA DuesAccrue ==
  ASSUME BookIInv, NEW timestamp \in U64, timestamp >= reward_last_updated_timestamp,
         NEW i \in RewardIndex
  PROVE  Sum(Dues(positions, tick_current_index, ticks, RewardInfosAt(timestamp), i))
           <= Sum(Dues(positions, tick_current_index, ticks, reward_infos, i))
              + Accruing(i, timestamp)
<1> DEFINE D1 == Dues(positions, tick_current_index, ticks, reward_infos, i)
           D2 == Dues(positions, tick_current_index, ticks, RewardInfosAt(timestamp), i)
           R  == RangeShare(positions, tick_current_index)
<1>1. TypeOK /\ positions \in AllPositions /\ RangesSound(positions) /\ liquidity = Sum(R)
  BY DEF BookIInv, Book, IInv, TypeOK, AllPositions, AccountBooked, Booked
<1>2. /\ tick_current_index \in Int /\ ticks \in [UsableTicks -> Tick]
      /\ reward_infos \in [RewardIndex -> WhirlpoolRewardInfo]
      /\ RewardInfosAt(timestamp) \in [RewardIndex -> WhirlpoolRewardInfo]
  BY <1>1, RewardInfosAtType DEF TypeOK
<1>3. D1 \in Amounts /\ D2 \in Amounts /\ Sum(D1) \in Int /\ Sum(D2) \in Int
  BY <1>1, <1>2, DuesType
<1>4. R \in Amounts /\ Sum(R) \in Int
  BY <1>1, <1>2, ShareTypes, SumOfInts
<1>5. Accruing(i, timestamp) \in Nat
  BY <1>1, AccruedGrowth
<1>6. PICK d \in Nat :
        /\ RewardInfosAt(timestamp)[i].growth_global_x64
             = WrapU128(reward_infos[i].growth_global_x64 + d)
        /\ d * liquidity <= Accruing(i, timestamp)
  BY <1>1, AccruedGrowth
<1>7. \A p \in PositionIds : D2[p] <= D1[p] + d * R[p]
  BY <1>6, DueAccrues
<1> HIDE DEF D1, D2, R
<1> DEFINE K == [p \in PositionIds |-> d * R[p]]
           H == [p \in PositionIds |-> D1[p] + K[p]]
<1>8. \A p \in PositionIds : D1[p] \in Int /\ R[p] \in Int
  BY <1>3, <1>4 DEF Amounts
<1>9. K \in Amounts /\ \A p \in PositionIds : K[p] = d * R[p]
  BY <1>8 DEF Amounts
<1> HIDE DEF K
<1>10. \A p \in PositionIds : K[p] \in Int
  BY <1>9 DEF Amounts
<1>11. H \in Amounts /\ \A p \in PositionIds : H[p] = D1[p] + K[p]
  BY <1>8, <1>10 DEF Amounts
<1>12. \A p \in PositionIds : D2[p] <= H[p]
  BY <1>7, <1>9, <1>11
<1> HIDE DEF H
<1>13. Sum(D2) <= Sum(H)
  BY <1>3, <1>11, <1>12, SumAtMost
<1>14. Sum(H) = Sum(D1) + Sum(K)
  BY <1>3, <1>9, <1>11, SumAdds
<1>15. Sum(K) = d * Sum(R)
  <2>1. d \in Int
    OBVIOUS
  <2> QED
    BY <1>4, <1>9, <2>1, SumScales
<1>16. Sum(K) \in Int /\ Sum(K) <= Accruing(i, timestamp)
  BY <1>1, <1>6, <1>9, <1>15, SumOfInts
<1>17. Sum(D2) <= Sum(D1) + Accruing(i, timestamp)
  BY <1>3, <1>5, <1>13, <1>14, <1>16
<1> QED
  BY <1>17 DEF D1, D2

-----------------------------------------------------------------------------
(* An instruction's records *)

\* At the time of the last update nothing accrues.
LEMMA NothingAccrued ==
  ASSUME TypeOK PROVE RewardInfosAt(reward_last_updated_timestamp) = reward_infos
BY DEF TypeOK, RewardInfosAt, next_whirlpool_reward_infos

\* What is emitted still covers what is due and what was paid, if what is paid now
\* and what is due then were due when the instruction's seconds had accrued.
LEMMA CoversStep ==
  ASSUME BookIInv, BookIInv', EmissionInv, Recorded,
         reward_last_updated_timestamp' >= reward_last_updated_timestamp,
         \A i \in RewardIndex :
           Sum(Dues(positions', tick_current_index', ticks', reward_infos', i))
             + TO_Q64 * Payment(i)
             <= Sum(Dues(positions, tick_current_index, ticks,
                         RewardInfosAt(reward_last_updated_timestamp'), i))
  PROVE  /\ emitted' \in [RewardIndex -> Nat] /\ paid' \in [RewardIndex -> Nat]
         /\ EmittedCovers'
<1> DEFINE timestamp == reward_last_updated_timestamp'
           Before(i) == Sum(Dues(positions, tick_current_index, ticks, reward_infos, i))
           Mid(i)    == Sum(Dues(positions, tick_current_index, ticks, RewardInfosAt(timestamp), i))
           After(i)  == Sum(Dues(positions', tick_current_index', ticks', reward_infos', i))
<1>1. /\ TypeOK /\ TypeOK' /\ timestamp \in U64
      /\ positions \in AllPositions /\ positions' \in AllPositions
      /\ RangesSound(positions) /\ RangesSound(positions')
  BY DEF BookIInv, Book, IInv, TypeOK, AllPositions, RangesSound
<1>2. /\ emitted \in [RewardIndex -> Nat] /\ paid \in [RewardIndex -> Nat]
      /\ \A i \in RewardIndex : Before(i) + TO_Q64 * paid[i] <= emitted[i]
  BY DEF EmissionInv, EmittedCovers
<1>3. ASSUME NEW i \in RewardIndex
      PROVE  /\ Emission(i) \in Nat /\ Payment(i) \in Nat
             /\ emitted'[i] = emitted[i] + Emission(i)
             /\ paid'[i] = paid[i] + Payment(i)
             /\ After(i) + TO_Q64 * paid'[i] <= emitted'[i]
  <2>1. Emission(i) = Accruing(i, timestamp)
    BY DEF Emission, Accruing
  <2>2. Emission(i) \in Nat
    BY <1>1, <2>1, AccruedGrowth
  <2>3. Payment(i) \in Nat
    <3>1. reward_vault[i] \in U64 /\ reward_vault'[i] \in U64
      BY <1>1 DEF TypeOK
    <3>2. reward_vault[i] \in Nat /\ reward_vault'[i] \in Nat
      BY <3>1, WordsAreIntegers
    <3> QED
      BY <3>2 DEF Payment
  <2>4. emitted'[i] = emitted[i] + Emission(i) /\ paid'[i] = paid[i] + Payment(i)
    BY DEF Recorded
  <2>5. Mid(i) <= Before(i) + Emission(i)
    BY <1>1, <2>1, DuesAccrue
  <2>6. After(i) + TO_Q64 * Payment(i) <= Mid(i)
    OBVIOUS
  <2>7. Before(i) \in Int /\ Mid(i) \in Int /\ After(i) \in Int
    <3>1. /\ tick_current_index \in Int /\ ticks \in [UsableTicks -> Tick]
          /\ reward_infos \in [RewardIndex -> WhirlpoolRewardInfo]
          /\ tick_current_index' \in Int /\ ticks' \in [UsableTicks -> Tick]
          /\ reward_infos' \in [RewardIndex -> WhirlpoolRewardInfo]
          /\ RewardInfosAt(timestamp) \in [RewardIndex -> WhirlpoolRewardInfo]
      BY <1>1, RewardInfosAtType DEF TypeOK
    <3> QED
      BY <1>1, <3>1, DuesType
  <2>8. Before(i) + TO_Q64 * paid[i] <= emitted[i] /\ paid[i] \in Nat /\ emitted[i] \in Nat
    BY <1>2
  <2>9. TO_Q64 \in Nat
    BY Widths
  <2> DEFINE x == TO_Q64 * paid[i]
             y == TO_Q64 * Payment(i)
             z == TO_Q64 * (paid[i] + Payment(i))
  <2>10. x \in Int /\ y \in Int /\ z = x + y
    BY <2>3, <2>8, <2>9
  <2>11. After(i) + z <= emitted[i] + Emission(i)
    <3>1. After(i) + y <= Mid(i) /\ Before(i) + x <= emitted[i]
      BY <2>6, <2>8
    <3> HIDE DEF x, y, z, Before, Mid, After
    <3> QED
      BY <2>2, <2>5, <2>7, <2>8, <2>10, <3>1
  <2> QED
    BY <2>2, <2>3, <2>4, <2>11
<1>4. emitted' \in [RewardIndex -> Nat] /\ paid' \in [RewardIndex -> Nat]
  <2>1. \A i \in RewardIndex : emitted[i] + Emission(i) \in Nat /\ paid[i] + Payment(i) \in Nat
    <3> TAKE i \in RewardIndex
    <3>1. Emission(i) \in Nat /\ Payment(i) \in Nat
      BY <1>3
    <3>2. emitted[i] \in Nat /\ paid[i] \in Nat
      BY <1>2
    <3> QED
      BY <3>1, <3>2
  <2> QED
    BY <2>1 DEF Recorded
<1>5. EmittedCovers'
  BY <1>3 DEF EmittedCovers
<1> QED
  BY <1>4, <1>5

\* In particular if nothing is paid and no position is due more.
LEMMA CoversWhenNoneDueMore ==
  ASSUME BookIInv, BookIInv', EmissionInv, Recorded,
         reward_last_updated_timestamp' >= reward_last_updated_timestamp,
         \A i \in RewardIndex : reward_vault'[i] >= reward_vault[i],
         \A i \in RewardIndex, p \in PositionIds :
           Due(positions'[p], i,
               RewardsInside(tick_current_index', ticks', positions'[p], reward_infos')[i])
             <= Due(positions[p], i,
                    RewardsInside(tick_current_index, ticks, positions[p],
                                  RewardInfosAt(reward_last_updated_timestamp'))[i])
  PROVE  /\ emitted' \in [RewardIndex -> Nat] /\ paid' \in [RewardIndex -> Nat]
         /\ EmittedCovers'
<1> DEFINE timestamp == reward_last_updated_timestamp'
<1>1. /\ TypeOK /\ TypeOK' /\ timestamp \in U64
      /\ positions \in AllPositions /\ positions' \in AllPositions
      /\ RangesSound(positions) /\ RangesSound(positions')
  BY DEF BookIInv, Book, IInv, TypeOK, AllPositions, RangesSound
<1>2. ASSUME NEW i \in RewardIndex
      PROVE  Sum(Dues(positions', tick_current_index', ticks', reward_infos', i))
               + TO_Q64 * Payment(i)
               <= Sum(Dues(positions, tick_current_index, ticks, RewardInfosAt(timestamp), i))
  <2> DEFINE D  == Dues(positions, tick_current_index, ticks, RewardInfosAt(timestamp), i)
             D2 == Dues(positions', tick_current_index', ticks', reward_infos', i)
  <2>1. /\ tick_current_index \in Int /\ ticks \in [UsableTicks -> Tick]
        /\ tick_current_index' \in Int /\ ticks' \in [UsableTicks -> Tick]
        /\ reward_infos' \in [RewardIndex -> WhirlpoolRewardInfo]
        /\ RewardInfosAt(timestamp) \in [RewardIndex -> WhirlpoolRewardInfo]
    BY <1>1, RewardInfosAtType DEF TypeOK
  <2>2. D \in Amounts /\ D2 \in Amounts /\ Sum(D2) \in Int
    BY <1>1, <2>1, DuesType
  <2>3. \A p \in PositionIds : D2[p] <= D[p]
    BY DEF Dues
  <2>4. Sum(D2) <= Sum(D)
    <3> HIDE DEF D, D2
    <3> QED
      BY <2>2, <2>3, SumAtMost
  <2>5. TO_Q64 * Payment(i) = 0
    <3>1. reward_vault[i] \in U64 /\ reward_vault'[i] \in U64
      BY <1>1 DEF TypeOK
    <3>2. reward_vault[i] \in Nat /\ reward_vault'[i] \in Nat /\ reward_vault'[i] >= reward_vault[i]
      BY <3>1, WordsAreIntegers
    <3>3. Payment(i) = 0
      BY <3>2 DEF Payment
    <3>4. TO_Q64 \in Nat
      BY Widths
    <3> QED
      BY <3>3, <3>4
  <2> HIDE DEF D, D2
  <2> QED
    BY <2>2, <2>4, <2>5 DEF D, D2
<1> QED
  BY <1>2, CoversStep

-----------------------------------------------------------------------------
(* Instructions that leave ticks and price alone *)

\* Of a reward's account entry only whether it is initialized and its growth
\* decide what is inside a range.
LEMMA InsideReads ==
  ASSUME NEW current, NEW all_ticks, NEW position, NEW infos, NEW infos2, NEW i \in RewardIndex,
         infos2[i].initialized <=> infos[i].initialized,
         infos2[i].growth_global_x64 = infos[i].growth_global_x64
  PROVE  RewardsInside(current, all_ticks, position, infos2)[i]
           = RewardsInside(current, all_ticks, position, infos)[i]
BY DEF RewardsInside, next_reward_growths_inside

\* The invariant outlasts an instruction that moves neither ticks nor price, accrues
\* growth up to its time, and leaves no position due more than that.
LEMMA AccountStep ==
  ASSUME BookIInv, BookIInv', EmissionInv, Recorded, Idle, swap' = swap,
         UNCHANGED <<tick_current_index, ticks>>,
         reward_last_updated_timestamp' >= reward_last_updated_timestamp,
         \A i \in RewardIndex :
           /\ reward_vault'[i] >= reward_vault[i]
           /\ reward_infos'[i].initialized
                <=> RewardInfosAt(reward_last_updated_timestamp')[i].initialized
           /\ reward_infos'[i].growth_global_x64
                = RewardInfosAt(reward_last_updated_timestamp')[i].growth_global_x64,
         \A i \in RewardIndex, p \in PositionIds :
           Due(positions'[p], i,
               RewardsInside(tick_current_index, ticks, positions'[p],
                             RewardInfosAt(reward_last_updated_timestamp'))[i])
             <= Due(positions[p], i,
                    RewardsInside(tick_current_index, ticks, positions[p],
                                  RewardInfosAt(reward_last_updated_timestamp'))[i])
  PROVE  EmissionInv'
<1> DEFINE infos == RewardInfosAt(reward_last_updated_timestamp')
<1>1. TypeOK /\ TypeOK'
  BY DEF BookIInv, IInv
<1>2. \A i \in RewardIndex, p \in PositionIds :
        RewardsInside(tick_current_index', ticks', positions'[p], reward_infos')[i]
          = RewardsInside(tick_current_index, ticks, positions'[p], infos)[i]
  BY InsideReads
<1>3. \A i \in RewardIndex, p \in PositionIds :
        Due(positions'[p], i,
            RewardsInside(tick_current_index', ticks', positions'[p], reward_infos')[i])
          <= Due(positions[p], i,
                 RewardsInside(tick_current_index, ticks, positions[p], infos)[i])
  BY <1>2
<1>4. /\ emitted' \in [RewardIndex -> Nat] /\ paid' \in [RewardIndex -> Nat]
      /\ EmittedCovers'
  BY <1>3, CoversWhenNoneDueMore
<1>5. Idle'
  BY DEF Idle
<1>6. NoGrowthUninitialized'
  <2> SUFFICES ASSUME NEW i \in RewardIndex, ~reward_infos'[i].initialized
               PROVE  reward_infos'[i].growth_global_x64 = 0 /\ NoGrowthOf(i, ticks')
    BY <1>5 DEF NoGrowthUninitialized
  <2>1. ~reward_infos[i].initialized /\ infos[i] = reward_infos[i]
    BY <1>1, AccrualKeepsUninitialized
  <2> QED
    BY <2>1 DEF EmissionInv, NoGrowthUninitialized
<1>7. SwapKeepsInside'
  BY <1>5 DEF SwapKeepsInside
<1> QED
  BY <1>4, <1>6, <1>7 DEF EmissionInv

\* What a position is due depends only on its liquidity, range, checkpoint and what
\* it is owed.
SameClaim(position, pos2) ==
  /\ pos2.liquidity = position.liquidity
  /\ pos2.tick_lower_index = position.tick_lower_index
  /\ pos2.tick_upper_index = position.tick_upper_index
  /\ pos2.growth_inside_checkpoint = position.growth_inside_checkpoint
  /\ pos2.amount_owed = position.amount_owed

NoClaim(position) ==
  position.liquidity = 0 /\ \A i \in RewardIndex : position.amount_owed[i] = 0

\* A position that stays as it is is due as much, a blank one nothing.
LEMMA ClaimDue ==
  ASSUME BookIInv, NEW p \in PositionIds, NEW i \in RewardIndex, NEW pos2,
         SameClaim(positions[p], pos2) \/ NoClaim(pos2),
         NEW infos \in [RewardIndex -> WhirlpoolRewardInfo]
  PROVE  Due(pos2, i, RewardsInside(tick_current_index, ticks, pos2, infos)[i])
           <= Due(positions[p], i, RewardsInside(tick_current_index, ticks, positions[p], infos)[i])
<1> DEFINE position == positions[p]
           inside == RewardsInside(tick_current_index, ticks, position, infos)[i]
           inside2 == RewardsInside(tick_current_index, ticks, pos2, infos)[i]
<1>1. /\ position \in Position /\ tick_current_index \in Int /\ ticks \in [UsableTicks -> Tick]
      /\ RangesSound(positions)
  BY DEF BookIInv, Book, IInv, TypeOK
<1>2. position.liquidity = 0 \/ inside \in U128
  BY <1>1, InsideType DEF RangesSound
<1>3. Due(position, i, inside) \in Nat
  BY <1>1, <1>2, DueType
<1>4. CASE SameClaim(position, pos2)
  <2>1. inside2 = inside
    BY <1>4 DEF SameClaim, RewardsInside
  <2>2. Due(pos2, i, inside) = Due(position, i, inside)
    BY <1>4 DEF SameClaim, Due
  <2> HIDE DEF inside, inside2, position
  <2>3. Due(pos2, i, inside2) = Due(position, i, inside)
    BY <2>1, <2>2
  <2>4. Due(position, i, inside) <= Due(position, i, inside)
    BY <1>3
  <2> QED
    BY <2>3, <2>4 DEF inside, inside2, position
<1>5. CASE NoClaim(pos2)
  <2>1. Due(pos2, i, inside2) = 0
    <3>1. TO_Q64 \in Nat
      BY Widths
    <3> QED
      BY <1>5, <3>1 DEF NoClaim, Due
  <2> HIDE DEF inside, inside2, position
  <2>2. Due(pos2, i, inside2) <= Due(position, i, inside)
    BY <1>3, <2>1
  <2> QED
    BY <2>2 DEF inside, inside2, position
<1> QED
  BY <1>4, <1>5 DEF position

\* So the invariant outlasts an instruction that leaves the rewards alone too.
LEMMA QuietStep ==
  ASSUME BookIInv, BookIInv', EmissionInv, Recorded, Idle, swap' = swap,
         UNCHANGED <<tick_current_index, ticks, reward_infos, reward_last_updated_timestamp>>,
         \A i \in RewardIndex : reward_vault'[i] >= reward_vault[i],
         \A p \in PositionIds : SameClaim(positions[p], positions'[p]) \/ NoClaim(positions'[p])
  PROVE  EmissionInv'
<1>1. TypeOK
  BY DEF BookIInv, IInv
<1>2. RewardInfosAt(reward_last_updated_timestamp') = reward_infos
  BY <1>1, NothingAccrued
<1>3. reward_infos \in [RewardIndex -> WhirlpoolRewardInfo]
      /\ reward_last_updated_timestamp' >= reward_last_updated_timestamp
  <2>1. reward_last_updated_timestamp \in Nat
    BY <1>1, WordsAreIntegers DEF TypeOK
  <2> QED
    BY <1>1, <2>1 DEF TypeOK
<1>4. \A i \in RewardIndex, p \in PositionIds :
        Due(positions'[p], i,
            RewardsInside(tick_current_index, ticks, positions'[p], reward_infos)[i])
          <= Due(positions[p], i,
                 RewardsInside(tick_current_index, ticks, positions[p], reward_infos)[i])
  BY <1>3, ClaimDue
<1> QED
  BY <1>2, <1>3, <1>4, AccountStep

\* A reward that becomes initialized has no growth inside any range
\* (initialize_reward, state/whirlpool.rs).
LEMMA InitializationKeeps ==
  ASSUME BookIInv, BookIInv', EmissionInv, Recorded,
         NEW j \in RewardIndex, InitializeReward(j)
  PROVE  EmissionInv'
<1> USE DEF config, curve, fees
<1>1. /\ TypeOK /\ TypeOK' /\ RangesSound(positions)
  BY DEF BookIInv, Book, IInv
<1>2. /\ Idle /\ swap' = swap
      /\ UNCHANGED <<tick_current_index, ticks, reward_last_updated_timestamp, positions, reward_vault>>
      /\ ~reward_infos[j].initialized
      /\ reward_infos' = [reward_infos EXCEPT ![j].initialized = TRUE]
  BY DEF InitializeReward
<1>3. /\ reward_infos'[j].initialized
      /\ \A i \in RewardIndex : /\ i # j => reward_infos'[i] = reward_infos[i]
                                /\ reward_infos'[i].growth_global_x64
                                     = reward_infos[i].growth_global_x64
  <2>1. reward_infos \in [RewardIndex -> WhirlpoolRewardInfo]
    BY <1>1 DEF TypeOK
  <2> QED
    BY <1>2, <2>1 DEF WhirlpoolRewardInfo
<1>4. RewardInfosAt(reward_last_updated_timestamp') = reward_infos
  BY <1>1, <1>2, NothingAccrued
<1>5. reward_infos[j].growth_global_x64 = 0 /\ NoGrowthOf(j, ticks)
  BY <1>2 DEF EmissionInv, NoGrowthUninitialized
<1>6. WrapU128(0) = 0 /\ 0 - 0 = 0
  <2>1. 0 \in U128
    BY Widths DEF U128
  <2> QED
    BY <2>1, WrapWord
<1>7. ASSUME NEW i \in RewardIndex, NEW p \in PositionIds, positions[p].liquidity # 0
      PROVE  RewardsInside(tick_current_index', ticks', positions[p], reward_infos')[i]
               = RewardsInside(tick_current_index, ticks, positions[p], reward_infos)[i]
  <2>1. CASE i # j
    <3>1. /\ reward_infos'[i].initialized <=> reward_infos[i].initialized
          /\ reward_infos'[i].growth_global_x64 = reward_infos[i].growth_global_x64
      BY <1>3, <2>1
    <3>2. RewardsInside(tick_current_index, ticks, positions[p], reward_infos')[i]
            = RewardsInside(tick_current_index, ticks, positions[p], reward_infos)[i]
      BY <3>1, InsideReads
    <3>3. tick_current_index' = tick_current_index /\ ticks' = ticks
      BY <1>2
    <3> QED
      BY <3>2, <3>3
  <2>2. CASE i = j
    <3> DEFINE l == positions[p].tick_lower_index
               u == positions[p].tick_upper_index
               lower == ticks[l]
               upper == ticks[u]
               t == tick_current_index
    <3>1. l \in UsableTicks /\ u \in UsableTicks
      BY <1>1, <1>7 DEF RangesSound
    <3>2. lower.reward_growths_outside[j] = 0 /\ upper.reward_growths_outside[j] = 0
      BY <1>5, <3>1 DEF NoGrowthOf
    <3> HIDE DEF lower, upper, l, u, t
    <3>3. GrowthBelow(lower, l, t, 0, 0) = 0 /\ GrowthAbove(upper, u, t, 0, 0) = 0
      BY <1>6 DEF GrowthBelow, GrowthAbove
    <3>4. GrowthBetween(0, GrowthBelow(lower, l, t, 0, 0), GrowthAbove(upper, u, t, 0, 0)) = 0
      BY <1>6, <3>3 DEF GrowthBetween
    <3>5. RewardsInside(tick_current_index', ticks', positions[p], reward_infos')[j] = 0
      BY <1>2, <1>3, <1>5, <3>2, <3>4
      DEF RewardsInside, next_reward_growths_inside, lower, upper, l, u, t
    <3>6. RewardsInside(tick_current_index, ticks, positions[p], reward_infos)[j] = 0
      BY <1>2 DEF RewardsInside, next_reward_growths_inside
    <3> QED
      BY <2>2, <3>5, <3>6
  <2> QED
    BY <2>1, <2>2
<1>8. ASSUME NEW i \in RewardIndex, NEW p \in PositionIds
      PROVE  Due(positions'[p], i,
                 RewardsInside(tick_current_index', ticks', positions'[p], reward_infos')[i])
               <= Due(positions[p], i,
                      RewardsInside(tick_current_index, ticks, positions[p], reward_infos)[i])
  <2> DEFINE inside  == RewardsInside(tick_current_index, ticks, positions[p], reward_infos)[i]
             inside2 == RewardsInside(tick_current_index', ticks', positions[p], reward_infos')[i]
  <2>1. Due(positions[p], i, inside2) = Due(positions[p], i, inside)
    BY <1>7 DEF Due
  <2>2. reward_infos \in [RewardIndex -> WhirlpoolRewardInfo] /\ SameClaim(positions[p], positions[p])
    BY <1>1 DEF TypeOK, SameClaim
  <2>3. Due(positions[p], i, inside) <= Due(positions[p], i, inside)
    BY <2>2, ClaimDue
  <2> HIDE DEF inside, inside2
  <2>4. Due(positions[p], i, inside2) <= Due(positions[p], i, inside)
    BY <2>1, <2>3
  <2> QED
    BY <1>2, <2>4 DEF inside, inside2
<1>9. reward_last_updated_timestamp' >= reward_last_updated_timestamp
  <2>1. reward_last_updated_timestamp \in Nat
    BY <1>1, WordsAreIntegers DEF TypeOK
  <2> QED
    BY <1>2, <2>1
<1>10. \A i \in RewardIndex : reward_vault'[i] >= reward_vault[i]
  <2>1. \A i \in RewardIndex : reward_vault[i] \in Nat
    BY <1>1, WordsAreIntegers DEF TypeOK
  <2> QED
    BY <1>2, <2>1
<1>11. /\ emitted' \in [RewardIndex -> Nat] /\ paid' \in [RewardIndex -> Nat]
       /\ EmittedCovers'
  BY <1>4, <1>8, <1>9, <1>10, CoversWhenNoneDueMore
<1>12. Idle'
  BY <1>2 DEF Idle
<1>13. NoGrowthUninitialized'
  <2> SUFFICES ASSUME NEW i \in RewardIndex, ~reward_infos'[i].initialized
               PROVE  reward_infos'[i].growth_global_x64 = 0 /\ NoGrowthOf(i, ticks')
    BY <1>12 DEF NoGrowthUninitialized
  <2>1. i # j
    BY <1>3
  <2> QED
    BY <1>2, <1>3, <2>1 DEF EmissionInv, NoGrowthUninitialized
<1>14. SwapKeepsInside'
  BY <1>12 DEF SwapKeepsInside
<1> QED
  BY <1>11, <1>13, <1>14 DEF EmissionInv

\* The instructions on rewards keep the invariant.
LEMMA EmissionRewardStep ==
  ASSUME BookIInv, BookIInv', EmissionInv, Recorded, RewardNext
  PROVE  EmissionInv'
<1> USE DEF config, curve, fees, rewards
<1>1. TypeOK
  BY DEF BookIInv, IInv
<1>2. /\ reward_infos \in [RewardIndex -> WhirlpoolRewardInfo]
      /\ reward_last_updated_timestamp \in Nat
      /\ \A i \in RewardIndex : reward_vault[i] \in Nat
  <2>1. reward_last_updated_timestamp \in U64
        /\ \A i \in RewardIndex : reward_vault[i] \in U64
    BY <1>1 DEF TypeOK
  <2> QED
    BY <1>1, <2>1, WordsAreIntegers DEF TypeOK
<1>3. PICK j \in RewardIndex :
        \/ InitializeReward(j)
        \/ \E amount \in RewardDeposits : DepositReward(j, amount)
        \/ \E e \in EmissionRates, timestamp \in Timestamps : SetRewardEmissions(j, e, timestamp)
  BY DEF RewardNext
<1>4. CASE InitializeReward(j)
  BY <1>4, InitializationKeeps
<1>5. ASSUME NEW amount \in RewardDeposits, DepositReward(j, amount)
      PROVE  EmissionInv'
  <2>1. /\ Idle /\ swap' = swap
        /\ UNCHANGED <<tick_current_index, ticks, reward_infos, reward_last_updated_timestamp,
                       positions>>
        /\ reward_vault' = [reward_vault EXCEPT ![j] = @ + amount]
    BY <1>5 DEF DepositReward
  <2>2. amount \in Nat
    BY PoolAssumption, WordsAreIntegers
  <2>3. \A i \in RewardIndex : reward_vault'[i] >= reward_vault[i]
    <3>1. \A i \in RewardIndex : reward_vault'[i] = IF i = j THEN reward_vault[i] + amount
                                                    ELSE reward_vault[i]
      BY <1>1, <2>1 DEF TypeOK
    <3> QED
      BY <1>2, <2>2, <3>1
  <2>4. \A p \in PositionIds : SameClaim(positions[p], positions'[p])
    BY <2>1 DEF SameClaim
  <2> QED
    BY <2>1, <2>3, <2>4, QuietStep
<1>6. ASSUME NEW e \in EmissionRates, NEW timestamp \in Timestamps,
             SetRewardEmissions(j, e, timestamp)
      PROVE  EmissionInv'
  <2> DEFINE infos == RewardInfosAt(timestamp)
  <2>1. /\ Idle /\ swap' = swap /\ timestamp >= reward_last_updated_timestamp
        /\ UNCHANGED <<tick_current_index, ticks, positions, reward_vault>>
        /\ reward_infos' = [infos EXCEPT ![j].emissions_per_second_x64 = e]
        /\ reward_last_updated_timestamp' = timestamp
    BY <1>6 DEF SetRewardEmissions
  <2>2. infos \in [RewardIndex -> WhirlpoolRewardInfo]
    <3>1. timestamp \in U64
      BY PoolAssumption
    <3> QED
      BY <1>1, <2>1, <3>1, RewardInfosAtType
  <2>3. \A i \in RewardIndex :
          /\ reward_vault'[i] >= reward_vault[i]
          /\ reward_infos'[i].initialized <=> infos[i].initialized
          /\ reward_infos'[i].growth_global_x64 = infos[i].growth_global_x64
    <3> HIDE DEF infos
    <3>1. \A i \in RewardIndex : infos[i] \in WhirlpoolRewardInfo
      BY <2>2
    <3>2. \A i \in RewardIndex :
            reward_infos'[i] = IF i = j THEN [infos[i] EXCEPT !.emissions_per_second_x64 = e]
                               ELSE infos[i]
      BY <2>1, <2>2
    <3>3. \A i \in RewardIndex :
            /\ reward_infos'[i].initialized <=> infos[i].initialized
            /\ reward_infos'[i].growth_global_x64 = infos[i].growth_global_x64
      BY <3>1, <3>2 DEF WhirlpoolRewardInfo
    <3> QED
      BY <1>2, <2>1, <3>3
  <2>4. \A p \in PositionIds : SameClaim(positions[p], positions'[p])
    BY <2>1 DEF SameClaim
  <2>5. \A i \in RewardIndex, p \in PositionIds :
          Due(positions'[p], i, RewardsInside(tick_current_index, ticks, positions'[p], infos)[i])
            <= Due(positions[p], i, RewardsInside(tick_current_index, ticks, positions[p], infos)[i])
    <3> HIDE DEF infos
    <3> QED
      BY <2>2, <2>4, ClaimDue
  <2> QED
    BY <2>1, <2>3, <2>5, AccountStep
<1> QED
  BY <1>3, <1>4, <1>5, <1>6

\* So do the instructions on the pool itself.
LEMMA EmissionPoolStep ==
  ASSUME BookIInv, BookIInv', EmissionInv, Recorded,
         \/ ConfigNext \/ CollectProtocolFees
         \/ \E start \in MIN_ARRAY_START .. MAX_TICK_INDEX : InitializeTickArray(start)
  PROVE  EmissionInv'
<1> USE DEF config, curve, fees, rewards
<1>1. /\ Idle /\ swap' = swap
      /\ UNCHANGED <<tick_current_index, ticks, reward_infos, reward_last_updated_timestamp,
                     positions, reward_vault>>
  BY DEF ConfigNext, SetEnableFlag, SetFeeRate, SetProtocolFeeRate, CollectProtocolFees,
         InitializeTickArray
<1>2. \A i \in RewardIndex : reward_vault[i] \in Nat
  BY WordsAreIntegers DEF BookIInv, IInv, TypeOK
<1>3. \A i \in RewardIndex : reward_vault'[i] >= reward_vault[i]
  BY <1>1, <1>2
<1>4. \A p \in PositionIds : SameClaim(positions[p], positions'[p])
  BY <1>1 DEF SameClaim
<1> QED
  BY <1>1, <1>3, <1>4, QuietStep

-----------------------------------------------------------------------------
(* Instructions on positions *)

\* The boundary ticks of positions with liquidity are initialized, in any arrays
\* that agree with the positions.
LEMMA BoundariesBooked ==
  ASSUME NEW pos \in AllPositions, RangesSound(pos), NEW all_ticks \in [UsableTicks -> Tick],
         \A t \in UsableTicks : TickBooked(pos, t, all_ticks[t]),
         NEW p \in PositionIds, pos[p].liquidity # 0
  PROVE  /\ pos[p].tick_lower_index \in UsableTicks /\ pos[p].tick_upper_index \in UsableTicks
         /\ pos[p].tick_lower_index < pos[p].tick_upper_index
         /\ all_ticks[pos[p].tick_lower_index].initialized
         /\ all_ticks[pos[p].tick_upper_index].initialized
<1>1. /\ pos[p].tick_lower_index \in UsableTicks /\ pos[p].tick_upper_index \in UsableTicks
      /\ pos[p].tick_lower_index < pos[p].tick_upper_index
  BY DEF RangesSound
<1>2. pos[p].liquidity > 0
  <2>1. pos[p].liquidity \in U128
    BY DEF AllPositions, Position
  <2>2. pos[p].liquidity \in Nat
    BY <2>1, WordsAreIntegers
  <2> QED
    BY <2>2
<1>3. ASSUME NEW t \in UsableTicks, ~all_ticks[t].initialized
      PROVE  pos[p].tick_lower_index # t /\ pos[p].tick_upper_index # t
  BY <1>2, <1>3, NoBoundary
<1> QED
  BY <1>1, <1>3

\* A tick that is initialized after its update keeps the growth outside it, or
\* becomes initialized with all growth so far below it.
LEMMA TickContinues ==
  ASSUME NEW tick \in Tick, tick.initialized <=> tick.liquidity_gross > 0,
         NEW tick_index, NEW current, NEW growths,
         NEW infos \in [RewardIndex -> WhirlpoolRewardInfo], NEW delta, NEW is_upper_tick,
         NEW t2,
         t2 = next_tick_modify_liquidity_update(tick, tick_index, current, growths, infos, delta,
                                                is_upper_tick),
         NEW i \in RewardIndex
  PROVE  /\ t2.initialized => Continued(tick, t2, tick_index, current, infos[i].growth_global_x64,
                                        tick.reward_growths_outside[i], t2.reward_growths_outside[i])
         /\ infos[i].growth_global_x64 = 0 /\ tick.reward_growths_outside[i] = 0
              => t2.reward_growths_outside[i] = 0
<1> DEFINE g == infos[i].growth_global_x64
           new == [initialized     |-> TRUE,
                   liquidity_gross |-> GrossAfter(tick, delta),
                   liquidity_net   |-> NetAfter(tick, delta, is_upper_tick),
                   fee_growth_outside |->
                     IF tick.liquidity_gross # 0 THEN tick.fee_growth_outside
                     ELSE [x \in Token |-> OutsideAtInit(tick_index, current, growths[x])],
                   reward_growths_outside |->
                     IF tick.liquidity_gross # 0 THEN tick.reward_growths_outside
                     ELSE [j \in RewardIndex |->
                             OutsideAtInit(tick_index, current, infos[j].growth_global_x64)]]
<1>1. tick.liquidity_gross \in Nat
  <2>1. tick.liquidity_gross \in U128
    BY DEF Tick
  <2> QED
    BY <2>1, WordsAreIntegers
<1>2. CASE delta = 0
  BY <1>2 DEF next_tick_modify_liquidity_update, Continued
<1>3. CASE delta # 0 /\ GrossAfter(tick, delta) = 0
  <2>1. t2 = DefaultTick
    BY <1>3 DEF next_tick_modify_liquidity_update
  <2> QED
    BY <2>1 DEF DefaultTick
<1>4. CASE delta # 0 /\ GrossAfter(tick, delta) # 0
  <2>1. t2 = new
    BY <1>4 DEF next_tick_modify_liquidity_update
  <2>2. /\ t2.initialized
        /\ t2.reward_growths_outside[i] = IF tick.liquidity_gross # 0
                                          THEN tick.reward_growths_outside[i]
                                          ELSE OutsideAtInit(tick_index, current, g)
    BY <2>1
  <2>3. CASE tick.liquidity_gross # 0
    BY <1>1, <2>2, <2>3 DEF Continued
  <2>4. CASE tick.liquidity_gross = 0
    BY <1>1, <2>2, <2>4 DEF Continued, OutsideAtInit
  <2> QED
    BY <2>3, <2>4
<1> QED
  BY <1>2, <1>3, <1>4

\* An update of tick t continues its growth of reward i.
RewardContinued(all_ticks, ticks2, t, current, infos, i) ==
  Continued(all_ticks[t], ticks2[t], t, current, infos[i].growth_global_x64,
            all_ticks[t].reward_growths_outside[i], ticks2[t].reward_growths_outside[i])

\* The growth inside a range is the same after an update of its boundary ticks.
LEMMA InsideContinues ==
  ASSUME NEW current \in Int, NEW all_ticks, NEW ticks2, NEW position,
         NEW infos \in [RewardIndex -> WhirlpoolRewardInfo], NEW i \in RewardIndex,
         position.tick_lower_index \in Int, position.tick_upper_index \in Int,
         RewardContinued(all_ticks, ticks2, position.tick_lower_index, current, infos, i),
         RewardContinued(all_ticks, ticks2, position.tick_upper_index, current, infos, i)
  PROVE  RewardsInside(current, ticks2, position, infos)[i]
           = RewardsInside(current, all_ticks, position, infos)[i]
<1> DEFINE l == position.tick_lower_index
           u == position.tick_upper_index
           g == infos[i].growth_global_x64
           ol == all_ticks[l].reward_growths_outside[i]
           ou == all_ticks[u].reward_growths_outside[i]
           ol2 == ticks2[l].reward_growths_outside[i]
           ou2 == ticks2[u].reward_growths_outside[i]
<1>1. g \in U128
  BY DEF WhirlpoolRewardInfo
<1>2. /\ Continued(all_ticks[l], ticks2[l], l, current, g, ol, ol2)
      /\ Continued(all_ticks[u], ticks2[u], u, current, g, ou, ou2)
      /\ l \in Int /\ u \in Int
  BY DEF RewardContinued
<1> DEFINE lower == all_ticks[l]
           upper == all_ticks[u]
           lower2 == ticks2[l]
           upper2 == ticks2[u]
<1>3. GrowthBelow(lower2, l, current, g, ol2) = GrowthBelow(lower, l, current, g, ol)
  <2> HIDE DEF l, g, ol, ol2, lower, lower2
  <2> QED
    BY <1>1, <1>2, GrowthContinues DEF lower, lower2
<1>4. GrowthAbove(upper2, u, current, g, ou2) = GrowthAbove(upper, u, current, g, ou)
  <2> HIDE DEF u, g, ou, ou2, upper, upper2
  <2> QED
    BY <1>1, <1>2, GrowthContinues DEF upper, upper2
<1> QED
  BY <1>3, <1>4 DEF RewardsInside, next_reward_growths_inside

\* A position that is settled is due no more afterwards.
LEMMA SettledPosition ==
  ASSUME NEW position \in Position, NEW delta, NEW fee_growths,
         NEW inside \in [RewardIndex -> U128], NEW pos2,
         pos2 = next_position_modify_liquidity_update(position, delta, fee_growths, inside),
         NEW i \in RewardIndex, NEW growth, pos2.liquidity = 0 \/ growth = inside[i],
         pos2.liquidity \in U128
  PROVE  Due(pos2, i, growth) <= Due(position, i, inside[i])
<1> DEFINE o2 == WrapU64(position.amount_owed[i]
                         + GrowthEarned(position.liquidity, inside[i],
                                        position.growth_inside_checkpoint[i]))
<1>1. /\ pos2.growth_inside_checkpoint[i] = inside[i]
      /\ pos2.amount_owed[i] = o2
  BY DEF next_position_modify_liquidity_update, Position
<1>2. TO_Q64 * o2 <= Due(position, i, inside[i])
  BY SettledDue
<1>3. TO_Q64 * o2 \in Nat
  <2> DEFINE e == GrowthEarned(position.liquidity, inside[i], position.growth_inside_checkpoint[i])
  <2>1. position.amount_owed[i] \in U64 /\ e \in U64
    <3>1. /\ position.liquidity \in U128 /\ position.growth_inside_checkpoint[i] \in U128
          /\ position.amount_owed[i] \in U64
      BY DEF Position
    <3> QED
      BY <3>1, GrowthEarnedType
  <2> HIDE DEF e
  <2>2. position.amount_owed[i] + e \in Int
    BY <2>1, WordsAreIntegers
  <2>3. o2 \in U64
    BY <2>2, Conversions DEF e
  <2> HIDE DEF o2
  <2>4. o2 \in Nat /\ TO_Q64 \in Nat
    BY <2>3, WordsAreIntegers, Widths
  <2> QED
    BY <2>4
<1> HIDE DEF o2
<1>4. pos2.liquidity # 0 => pos2.liquidity * WrapU128(growth - inside[i]) = 0
  <2> SUFFICES ASSUME pos2.liquidity # 0
               PROVE  pos2.liquidity * WrapU128(growth - inside[i]) = 0
    OBVIOUS
  <2>1. inside[i] \in Int /\ growth = inside[i] /\ pos2.liquidity \in Int
    BY WordsAreIntegers
  <2>2. growth - inside[i] = 0
    BY <2>1
  <2>3. WrapU128(0) = 0
    <3>1. 0 \in U128
      BY Widths DEF U128
    <3> QED
      BY <3>1, WrapWord
  <2> QED
    BY <2>1, <2>2, <2>3
<1>5. Due(pos2, i, growth) = TO_Q64 * o2
  <2> DEFINE a == TO_Q64 * o2
             b == pos2.liquidity * WrapU128(growth - inside[i])
  <2>1. Due(pos2, i, growth) = a + IF pos2.liquidity = 0 THEN 0 ELSE b
    BY <1>1 DEF Due
  <2>2. a \in Nat /\ (pos2.liquidity # 0 => b = 0)
    BY <1>3, <1>4
  <2> HIDE DEF a, b
  <2>3. Due(pos2, i, growth) = a
    BY <2>1, <2>2
  <2> QED
    BY <2>3 DEF a
<1> QED
  BY <1>2, <1>5

\* Deposits and withdrawals keep the invariant: growth accrues, the position is
\* settled, and its boundary ticks are updated (manager/liquidity_manager.rs).
LEMMA EmissionModify ==
  ASSUME BookIInv, BookIInv', EmissionInv, Recorded, Idle,
         NEW p \in PositionIds, NEW delta \in Int, NEW timestamp \in U64,
         positions[p].state = "open", ModifyLiquidity(p, delta, timestamp),
         tick_current_index' = tick_current_index, swap' = swap, reward_vault' = reward_vault
  PROVE  EmissionInv'
<1> DEFINE position == positions[p]
           infos    == RewardInfosAt(timestamp)
           current  == tick_current_index
           inside   == RewardGrowthsInside(position, infos)
           fee_growths == FeeGrowthsInside(position)
<1>1. /\ TypeOK /\ TypeOK' /\ positions \in AllPositions /\ positions' \in AllPositions
      /\ ticks \in [UsableTicks -> Tick] /\ ticks' \in [UsableTicks -> Tick]
      /\ current \in Int /\ position \in Position
      /\ RangesSound(positions) /\ RangesSound(positions')
      /\ \A t \in UsableTicks : TickBooked(positions, t, ticks[t])
      /\ \A t \in UsableTicks : TickBooked(positions', t, ticks'[t])
  BY DEF BookIInv, Book, IInv, TypeOK, AllPositions, AccountBooked, Booked, RangesSound
<1>2. /\ ~ModifyLiquidityFails(position, delta, timestamp)
      /\ positions' = [positions EXCEPT ![p] = PositionUpdate(position, delta, infos)]
      /\ ticks' = [t \in UsableTicks |->
                     IF t \in {position.tick_lower_index, position.tick_upper_index}
                     THEN TickUpdate(position, t, delta, infos) ELSE ticks[t]]
      /\ reward_infos' = infos /\ reward_last_updated_timestamp' = timestamp
  BY DEF ModifyLiquidity
<1>3. HasTickArrays(position) /\ timestamp >= reward_last_updated_timestamp
  BY <1>1, <1>2, NotBefore DEF ModifyLiquidityFails
<1>4. infos \in [RewardIndex -> WhirlpoolRewardInfo]
  BY <1>1, <1>3, RewardInfosAtType
<1>5. inside \in [RewardIndex -> U128] /\ fee_growths \in [Token -> U128]
  <2> HIDE DEF infos
  <2> QED
    BY <1>1, <1>3, <1>4, PositionGrowths
<1>6. /\ positions'[p] = next_position_modify_liquidity_update(position, delta, fee_growths, inside)
      /\ \A q \in PositionIds : q # p => positions'[q] = positions[q]
  BY <1>1, <1>2 DEF AllPositions, PositionUpdate
<1>7. ASSUME NEW t \in UsableTicks, NEW i \in RewardIndex
      PROVE  /\ ticks'[t].initialized =>
                  Continued(ticks[t], ticks'[t], t, current, infos[i].growth_global_x64,
                            ticks[t].reward_growths_outside[i], ticks'[t].reward_growths_outside[i])
             /\ infos[i].growth_global_x64 = 0 /\ ticks[t].reward_growths_outside[i] = 0
                  => ticks'[t].reward_growths_outside[i] = 0
  <2>1. ticks[t] \in Tick /\ (ticks[t].initialized <=> ticks[t].liquidity_gross > 0)
    BY <1>1 DEF TickBooked
  <2>2. CASE t \in {position.tick_lower_index, position.tick_upper_index}
    <3> DEFINE is_upper_tick == t = position.tick_upper_index
    <3>1. ticks'[t] = next_tick_modify_liquidity_update(ticks[t], t, current, fee_growth_global,
                                                        infos, delta, is_upper_tick)
      BY <1>2, <2>2 DEF TickUpdate
    <3> HIDE DEF infos, is_upper_tick, current
    <3> QED
      BY <1>4, <2>1, <3>1, TickContinues
  <2>3. CASE t \notin {position.tick_lower_index, position.tick_upper_index}
    <3>1. ticks'[t] = ticks[t]
      BY <1>2, <2>3
    <3> QED
      BY <3>1 DEF Continued
  <2> QED
    BY <2>2, <2>3
<1>8. ASSUME NEW q \in PositionIds, positions'[q].liquidity # 0, NEW i \in RewardIndex
      PROVE  RewardsInside(current, ticks', positions'[q], infos)[i]
               = RewardsInside(current, ticks, positions'[q], infos)[i]
  <2> DEFINE l == positions'[q].tick_lower_index
             u == positions'[q].tick_upper_index
  <2>1. /\ l \in UsableTicks /\ u \in UsableTicks
        /\ ticks'[l].initialized /\ ticks'[u].initialized
    BY <1>1, <1>8, BoundariesBooked
  <2>2. l \in Int /\ u \in Int
    BY <2>1, ArrayTypes
  <2>3. /\ RewardContinued(ticks, ticks', l, current, infos, i)
        /\ RewardContinued(ticks, ticks', u, current, infos, i)
    <3> HIDE DEF l, u, infos
    <3> QED
      BY <1>7, <2>1 DEF RewardContinued
  <2>4. /\ current \in Int /\ infos \in [RewardIndex -> WhirlpoolRewardInfo]
        /\ l \in Int /\ u \in Int
    BY <1>1, <1>4, <2>2
  <2> HIDE DEF infos, current
  <2> QED
    BY <2>3, <2>4, InsideContinues
<1>9. ASSUME NEW q \in PositionIds, NEW i \in RewardIndex
      PROVE  Due(positions'[q], i, RewardsInside(current, ticks', positions'[q], infos)[i])
               <= Due(positions[q], i, RewardsInside(current, ticks, positions[q], infos)[i])
  <2>1. CASE q = p
    <3> DEFINE pos2   == positions'[p]
               growth == RewardsInside(current, ticks', positions'[p], infos)[i]
    <3>1. RewardsInside(current, ticks, position, infos) = inside
      BY DEF RewardsInside, RewardGrowthsInside
    <3>2. /\ pos2.tick_lower_index = position.tick_lower_index
          /\ pos2.tick_upper_index = position.tick_upper_index
      BY <1>1, <1>6 DEF next_position_modify_liquidity_update, Position
    <3>3. RewardsInside(current, ticks, pos2, infos) = inside
      BY <3>2 DEF RewardsInside, RewardGrowthsInside
    <3>4. pos2.liquidity = 0 \/ growth = inside[i]
      BY <1>8, <3>3
    <3>5. pos2.liquidity \in U128
      BY <1>1 DEF AllPositions, Position
    <3>6. Due(pos2, i, growth) <= Due(position, i, inside[i])
      <4> HIDE DEF pos2, growth, inside, fee_growths, position
      <4> QED
        BY <1>1, <1>5, <1>6, <3>4, <3>5, SettledPosition DEF pos2
    <3> QED
      BY <2>1, <3>1, <3>6
  <2>2. CASE q # p
    <3> DEFINE growth == RewardsInside(current, ticks, positions[q], infos)[i]
               growth2 == RewardsInside(current, ticks', positions[q], infos)[i]
    <3>1. positions'[q] = positions[q]
      BY <1>6, <2>2
    <3>2. positions[q].liquidity = 0 \/ growth2 = growth
      BY <1>8, <3>1
    <3>3. Due(positions[q], i, growth2) = Due(positions[q], i, growth)
      BY <3>2 DEF Due
    <3>4. SameClaim(positions[q], positions[q])
      BY DEF SameClaim
    <3>5. Due(positions[q], i, growth) <= Due(positions[q], i, growth)
      <4> HIDE DEF infos
      <4> QED
        BY <1>4, <3>4, ClaimDue
    <3>6. Due(positions[q], i, growth2) <= Due(positions[q], i, growth)
      <4> HIDE DEF growth, growth2
      <4> QED
        BY <3>3, <3>5
    <3> QED
      BY <3>1, <3>6
  <2> QED
    BY <2>1, <2>2
<1>10. \A i \in RewardIndex : reward_vault'[i] >= reward_vault[i]
  <2>1. \A i \in RewardIndex : reward_vault[i] \in Nat
    BY <1>1, WordsAreIntegers DEF TypeOK
  <2> QED
    BY <2>1
<1>11. /\ emitted' \in [RewardIndex -> Nat] /\ paid' \in [RewardIndex -> Nat]
       /\ EmittedCovers'
  <2>1. \A i \in RewardIndex, q \in PositionIds :
          Due(positions'[q], i,
              RewardsInside(tick_current_index', ticks', positions'[q], reward_infos')[i])
            <= Due(positions[q], i,
                   RewardsInside(tick_current_index, ticks, positions[q],
                                 RewardInfosAt(reward_last_updated_timestamp'))[i])
    BY <1>2, <1>9
  <2> QED
    BY <1>2, <1>3, <1>10, <2>1, CoversWhenNoneDueMore
<1>12. Idle'
  BY DEF Idle
<1>13. NoGrowthUninitialized'
  <2> SUFFICES ASSUME NEW i \in RewardIndex, ~reward_infos'[i].initialized
               PROVE  reward_infos'[i].growth_global_x64 = 0 /\ NoGrowthOf(i, ticks')
    BY <1>12 DEF NoGrowthUninitialized
  <2>1. ~reward_infos[i].initialized /\ infos[i] = reward_infos[i]
    BY <1>1, <1>2, AccrualKeepsUninitialized
  <2>2. reward_infos[i].growth_global_x64 = 0 /\ NoGrowthOf(i, ticks)
    BY <2>1 DEF EmissionInv, NoGrowthUninitialized
  <2>3. ASSUME NEW t \in UsableTicks PROVE ticks'[t].reward_growths_outside[i] = 0
    BY <1>7, <2>1, <2>2 DEF NoGrowthOf
  <2> QED
    BY <1>2, <2>1, <2>2, <2>3 DEF NoGrowthOf
<1>14. SwapKeepsInside'
  BY <1>12 DEF SwapKeepsInside
<1> QED
  BY <1>11, <1>13, <1>14 DEF EmissionInv

\* Updating a position's fees and rewards keeps it: the position is settled, and
\* nothing else changes (update_fees_and_rewards.rs).
LEMMA EmissionUpdate ==
  ASSUME BookIInv, BookIInv', EmissionInv, Recorded,
         NEW p \in PositionIds, NEW timestamp \in U64, UpdateFeesAndRewards(p, timestamp)
  PROVE  EmissionInv'
<1> USE DEF config, curve, fees
<1> DEFINE position == positions[p]
           infos    == RewardInfosAt(timestamp)
           current  == tick_current_index
           inside   == RewardGrowthsInside(position, infos)
           fee_growths == FeeGrowthsInside(position)
           pos2     == positions'[p]
<1>1. /\ TypeOK /\ TypeOK' /\ position \in Position /\ positions \in AllPositions
  BY DEF BookIInv, IInv, TypeOK, AllPositions
<1>2. /\ Idle /\ swap' = swap /\ ~ModifyLiquidityFails(position, 0, timestamp)
      /\ positions' = [positions EXCEPT ![p] = PositionUpdate(position, 0, infos)]
      /\ reward_infos' = infos /\ reward_last_updated_timestamp' = timestamp
      /\ UNCHANGED <<tick_current_index, ticks, reward_vault>>
  BY DEF UpdateFeesAndRewards
<1>3. HasTickArrays(position) /\ timestamp >= reward_last_updated_timestamp
  BY <1>1, <1>2, NotBefore DEF ModifyLiquidityFails
<1>4. infos \in [RewardIndex -> WhirlpoolRewardInfo]
  BY <1>1, <1>3, RewardInfosAtType
<1>5. inside \in [RewardIndex -> U128] /\ fee_growths \in [Token -> U128]
  <2> HIDE DEF infos
  <2> QED
    BY <1>1, <1>3, <1>4, PositionGrowths
<1>6. /\ pos2 = next_position_modify_liquidity_update(position, 0, fee_growths, inside)
      /\ \A q \in PositionIds : q # p => positions'[q] = positions[q]
  BY <1>1, <1>2 DEF AllPositions, PositionUpdate
<1>7. /\ pos2.tick_lower_index = position.tick_lower_index
      /\ pos2.tick_upper_index = position.tick_upper_index
      /\ pos2.liquidity \in U128
  <2>1. pos2 \in Position
    BY <1>1 DEF TypeOK
  <2>2. pos2.liquidity \in U128
    BY <2>1 DEF Position
  <2>3. /\ pos2.tick_lower_index = position.tick_lower_index
        /\ pos2.tick_upper_index = position.tick_upper_index
    BY <1>1, <1>6 DEF next_position_modify_liquidity_update, Position
  <2> QED
    BY <2>2, <2>3
<1>8. RewardsInside(current, ticks, position, infos) = inside
      /\ RewardsInside(current, ticks, pos2, infos) = inside
  BY <1>7 DEF RewardsInside, RewardGrowthsInside
<1>9. ASSUME NEW q \in PositionIds, NEW i \in RewardIndex
      PROVE  Due(positions'[q], i, RewardsInside(current, ticks, positions'[q], infos)[i])
               <= Due(positions[q], i, RewardsInside(current, ticks, positions[q], infos)[i])
  <2>1. CASE q = p
    <3> DEFINE growth == inside[i]
    <3>1. Due(pos2, i, growth) <= Due(position, i, growth)
      <4> HIDE DEF pos2, inside, fee_growths, position
      <4> QED
        BY <1>1, <1>5, <1>6, <1>7, SettledPosition
    <3> QED
      BY <1>8, <2>1, <3>1
  <2>2. CASE q # p
    <3>1. positions'[q] = positions[q] /\ SameClaim(positions[q], positions[q])
      BY <1>6, <2>2 DEF SameClaim
    <3> HIDE DEF infos
    <3> QED
      BY <1>4, <3>1, ClaimDue
  <2> QED
    BY <2>1, <2>2
<1>10. \A i \in RewardIndex : reward_vault'[i] >= reward_vault[i]
  <2>1. \A i \in RewardIndex : reward_vault[i] \in Nat
    BY <1>1, WordsAreIntegers DEF TypeOK
  <2> QED
    BY <1>2, <2>1
<1>11. \A i \in RewardIndex, q \in PositionIds :
         Due(positions'[q], i,
             RewardsInside(tick_current_index, ticks, positions'[q],
                           RewardInfosAt(reward_last_updated_timestamp'))[i])
           <= Due(positions[q], i,
                  RewardsInside(tick_current_index, ticks, positions[q],
                                RewardInfosAt(reward_last_updated_timestamp'))[i])
  BY <1>2, <1>9
<1> HIDE DEF infos
<1>12. \A i \in RewardIndex :
         /\ reward_infos'[i].initialized
              <=> RewardInfosAt(reward_last_updated_timestamp')[i].initialized
         /\ reward_infos'[i].growth_global_x64
              = RewardInfosAt(reward_last_updated_timestamp')[i].growth_global_x64
  BY <1>2 DEF infos
<1> QED
  BY <1>2, <1>3, <1>10, <1>11, <1>12, AccountStep

\* A reward that is paid is no longer due (collect_reward.rs).
LEMMA EmissionCollect ==
  ASSUME BookIInv, BookIInv', EmissionInv, Recorded,
         NEW p \in PositionIds, NEW j \in RewardIndex, CollectReward(p, j)
  PROVE  EmissionInv'
<1> USE DEF config, curve, fees, rewards
<1> DEFINE owed   == positions[p].amount_owed[j]
           amount == CollectedReward(owed, reward_vault[j])
           D(i)   == Dues(positions, tick_current_index, ticks, reward_infos, i)
           D2(i)  == Dues(positions', tick_current_index', ticks', reward_infos', i)
<1>1. /\ TypeOK /\ TypeOK' /\ positions \in AllPositions /\ positions' \in AllPositions
      /\ RangesSound(positions) /\ RangesSound(positions') /\ positions[p] \in Position
      /\ tick_current_index \in Int /\ ticks \in [UsableTicks -> Tick]
      /\ reward_infos \in [RewardIndex -> WhirlpoolRewardInfo]
  BY DEF BookIInv, Book, IInv, TypeOK, AllPositions, RangesSound
<1>2. /\ Idle /\ swap' = swap
      /\ UNCHANGED <<tick_current_index, ticks, reward_infos, reward_last_updated_timestamp>>
      /\ positions' = [positions EXCEPT ![p].amount_owed[j] = owed - amount]
      /\ reward_vault' = [reward_vault EXCEPT ![j] = reward_vault[j] - amount]
  BY <1>1 DEF CollectReward, AllPositions
<1>3. owed \in Nat /\ amount \in Nat /\ \A i \in RewardIndex : reward_vault[i] \in Nat
  <2>1. owed \in U64 /\ \A i \in RewardIndex : reward_vault[i] \in U64
    BY <1>1 DEF TypeOK, Position
  <2>2. owed \in Nat /\ reward_vault[j] \in Nat
    BY <2>1, WordsAreIntegers
  <2>3. amount \in Nat
    BY <2>2 DEF CollectedReward
  <2> QED
    BY <2>1, <2>2, <2>3, WordsAreIntegers
<1>4. /\ positions'[p].liquidity = positions[p].liquidity
      /\ positions'[p].tick_lower_index = positions[p].tick_lower_index
      /\ positions'[p].tick_upper_index = positions[p].tick_upper_index
      /\ positions'[p].growth_inside_checkpoint = positions[p].growth_inside_checkpoint
      /\ positions'[p].amount_owed[j] = owed - amount
      /\ \A i \in RewardIndex : i # j => positions'[p].amount_owed[i] = positions[p].amount_owed[i]
      /\ \A q \in PositionIds : q # p => positions'[q] = positions[q]
  <2> DEFINE left == owed - amount
             pos2 == [positions[p] EXCEPT !.amount_owed[j] = left]
  <2>1. /\ positions'[p] = pos2
        /\ \A q \in PositionIds : q # p => positions'[q] = positions[q]
    BY <1>1, <1>2 DEF AllPositions
  <2> HIDE DEF left
  <2>2. /\ pos2.liquidity = positions[p].liquidity
        /\ pos2.tick_lower_index = positions[p].tick_lower_index
        /\ pos2.tick_upper_index = positions[p].tick_upper_index
        /\ pos2.growth_inside_checkpoint = positions[p].growth_inside_checkpoint
        /\ pos2.amount_owed[j] = left
        /\ \A i \in RewardIndex : i # j => pos2.amount_owed[i] = positions[p].amount_owed[i]
    BY <1>1 DEF Position
  <2> HIDE DEF pos2
  <2> QED
    BY <2>1, <2>2 DEF left
<1>5. ASSUME NEW i \in RewardIndex
      PROVE  /\ D(i) \in Amounts /\ D2(i) \in Amounts /\ Sum(D(i)) \in Int /\ Sum(D2(i)) \in Int
  <2>1. /\ tick_current_index' \in Int /\ ticks' \in [UsableTicks -> Tick]
        /\ reward_infos' \in [RewardIndex -> WhirlpoolRewardInfo]
    BY <1>1, <1>2
  <2> QED
    BY <1>1, <2>1, DuesType
<1>6. ASSUME NEW i \in RewardIndex, NEW q \in PositionIds, q # p
      PROVE  D2(i)[q] = D(i)[q]
  BY <1>2, <1>4, <1>6 DEF Dues
<1>7. ASSUME NEW i \in RewardIndex
      PROVE  D2(i)[p] = D(i)[p] - (IF i = j THEN TO_Q64 * amount ELSE 0)
  <2> DEFINE L == positions[p].liquidity
             inside == RewardsInside(tick_current_index, ticks, positions[p], reward_infos)[i]
             c == positions[p].growth_inside_checkpoint[i]
             b == IF L = 0 THEN 0 ELSE L * WrapU128(inside - c)
             o == positions[p].amount_owed[i]
             o2 == positions'[p].amount_owed[i]
  <2>1. RewardsInside(tick_current_index', ticks', positions'[p], reward_infos')[i] = inside
    BY <1>2, <1>4 DEF RewardsInside
  <2>2. D(i)[p] = TO_Q64 * o + b
    BY DEF Dues, Due
  <2>3. D2(i)[p] = Due(positions'[p], i, inside)
    BY <2>1 DEF Dues
  <2>4. Due(positions'[p], i, inside) = TO_Q64 * o2 + b
    <3> HIDE DEF inside
    <3> QED
      BY <1>4 DEF Due
  <2>5. o \in Nat /\ TO_Q64 \in Nat /\ o2 = IF i = j THEN o - amount ELSE o
    <3>1. o \in U64
      BY <1>1 DEF Position
    <3> HIDE DEF o
    <3>2. o \in Nat /\ TO_Q64 \in Nat
      BY <3>1, WordsAreIntegers, Widths
    <3> QED
      BY <1>4, <3>2 DEF o
  <2>6. b \in Int
    <3>1. D(i)[p] \in Int
      BY <1>5 DEF Amounts
    <3>2. L \in U128 /\ c \in U128
      BY <1>1 DEF Position
    <3>3. L = 0 \/ inside \in U128
      BY <1>1, InsideType DEF RangesSound
    <3> HIDE DEF L, c, inside
    <3>4. L \in Int /\ c \in Int /\ (L = 0 \/ inside \in Int)
      BY <3>2, <3>3, WordsAreIntegers
    <3>5. L # 0 => WrapU128(inside - c) \in Int
      BY <3>4, WrapMultiple
    <3> QED
      BY <3>4, <3>5
  <2> HIDE DEF o, o2, b, D, D2, inside
  <2>7. TO_Q64 * o2 = TO_Q64 * o - (IF i = j THEN TO_Q64 * amount ELSE 0)
    BY <1>3, <2>5
  <2>8. TO_Q64 * o \in Int /\ TO_Q64 * amount \in Int
    BY <1>3, <2>5
  <2> DEFINE x == TO_Q64 * o
             y == TO_Q64 * amount
             z == TO_Q64 * o2
  <2>9. D(i)[p] = x + b /\ D2(i)[p] = z + b /\ z = x - (IF i = j THEN y ELSE 0)
        /\ x \in Int /\ y \in Int
    BY <2>2, <2>3, <2>4, <2>7, <2>8
  <2> HIDE DEF x, y, z
  <2>10. D2(i)[p] = D(i)[p] - (IF i = j THEN y ELSE 0)
    BY <2>6, <2>9
  <2> QED
    BY <2>10 DEF y
<1>8. ASSUME NEW i \in RewardIndex
      PROVE  Payment(i) = IF i = j THEN amount ELSE 0
  <2>1. reward_vault'[i] = IF i = j THEN reward_vault[i] - amount ELSE reward_vault[i]
    BY <1>1, <1>2 DEF TypeOK
  <2> HIDE DEF amount
  <2> QED
    BY <1>3, <2>1 DEF Payment
<1>9. ASSUME NEW i \in RewardIndex
      PROVE  Sum(D2(i)) + TO_Q64 * Payment(i) <= Sum(D(i))
  <2>1. Sum(D2(i)) = Sum(D(i)) + (D2(i)[p] - D(i)[p])
    <3> DEFINE f == D(i)
               g == D2(i)
    <3>1. f \in Amounts /\ g \in Amounts /\ \A q \in PositionIds : q # p => g[q] = f[q]
      BY <1>5, <1>6
    <3> HIDE DEF f, g
    <3>2. Sum(g) = Sum(f) + (g[p] - f[p])
      BY <3>1, SumOfOneChange
    <3> QED
      BY <3>2 DEF f, g
  <2>2. D(i)[p] \in Int
    BY <1>5 DEF Amounts
  <2>3. TO_Q64 \in Nat
    BY Widths
  <2>4. TO_Q64 * Payment(i) = IF i = j THEN TO_Q64 * amount ELSE 0
    BY <1>8, <2>3
  <2> DEFINE y == IF i = j THEN TO_Q64 * amount ELSE 0
  <2>5. y \in Int /\ TO_Q64 * Payment(i) = y /\ D2(i)[p] = D(i)[p] - y
    <3>1. TO_Q64 * amount \in Int
      BY <1>3, <2>3
    <3> QED
      BY <1>7, <2>4, <3>1
  <2> HIDE DEF y, D, D2
  <2> QED
    BY <1>5, <2>1, <2>2, <2>5
<1>10. RewardInfosAt(reward_last_updated_timestamp') = reward_infos
  BY <1>1, <1>2, NothingAccrued
<1>11. reward_last_updated_timestamp' >= reward_last_updated_timestamp
  <2>1. reward_last_updated_timestamp \in Nat
    BY <1>1, WordsAreIntegers DEF TypeOK
  <2> QED
    BY <1>2, <2>1
<1>12. /\ emitted' \in [RewardIndex -> Nat] /\ paid' \in [RewardIndex -> Nat]
       /\ EmittedCovers'
  BY <1>9, <1>10, <1>11, CoversStep
<1>13. Idle'
  BY <1>2 DEF Idle
<1>14. NoGrowthUninitialized'
  BY <1>2, <1>13 DEF EmissionInv, NoGrowthUninitialized
<1>15. SwapKeepsInside'
  BY <1>13 DEF SwapKeepsInside
<1> QED
  BY <1>12, <1>14, <1>15 DEF EmissionInv

\* Every instruction on a position keeps the invariant.
LEMMA EmissionPositionStep ==
  ASSUME BookIInv, BookIInv', EmissionInv, Recorded, PositionNext
  PROVE  EmissionInv'
<1> USE DEF config, curve, fees, rewards
<1>1. PICK p \in PositionIds :
        \/ \E range \in PositionRanges : OpenPosition(p, range[1], range[2])
        \/ \E amount \in LiquidityAmounts, timestamp \in Timestamps :
             \/ IncreaseLiquidity(p, amount, timestamp)
             \/ DecreaseLiquidity(p, amount, timestamp)
        \/ \E timestamp \in Timestamps : UpdateFeesAndRewards(p, timestamp)
        \/ CollectFees(p)
        \/ \E i \in RewardIndex : CollectReward(p, i)
        \/ ClosePosition(p)
  BY DEF PositionNext
<1>2. /\ TypeOK /\ positions \in AllPositions /\ positions[p] \in Position
  BY DEF BookIInv, IInv, TypeOK, AllPositions
<1>3. \A i \in RewardIndex : reward_vault[i] >= reward_vault[i]
  <2>1. \A i \in RewardIndex : reward_vault[i] \in Nat
    BY <1>2, WordsAreIntegers DEF TypeOK
  <2> QED
    BY <2>1
<1>4. ASSUME NEW pos2, SameClaim(positions[p], pos2) \/ NoClaim(pos2),
             positions' = [positions EXCEPT ![p] = pos2], Idle, swap' = swap,
             UNCHANGED <<tick_current_index, ticks, reward_infos, reward_last_updated_timestamp,
                         reward_vault>>
      PROVE  EmissionInv'
  <2>1. \A q \in PositionIds : SameClaim(positions[q], positions'[q]) \/ NoClaim(positions'[q])
    <3> TAKE q \in PositionIds
    <3>1. CASE q = p
      <4>1. positions'[q] = pos2
        BY <1>2, <1>4, <3>1 DEF AllPositions
      <4> QED
        BY <1>4, <3>1, <4>1
    <3>2. CASE q # p
      <4>1. positions'[q] = positions[q]
        BY <1>2, <1>4, <3>2 DEF AllPositions
      <4> QED
        BY <4>1 DEF SameClaim
    <3> QED
      BY <3>1, <3>2
  <2> QED
    BY <1>3, <1>4, <2>1, QuietStep
<1>5. \A state, lower, upper : NoClaim(BlankPosition(state, lower, upper))
  BY DEF NoClaim, BlankPosition
<1>6. CASE \/ \E range \in PositionRanges : OpenPosition(p, range[1], range[2])
           \/ ClosePosition(p)
  BY <1>4, <1>5, <1>6 DEF OpenPosition, ClosePosition
<1>7. ASSUME NEW amount \in LiquidityAmounts, NEW timestamp \in Timestamps,
             \/ IncreaseLiquidity(p, amount, timestamp)
             \/ DecreaseLiquidity(p, amount, timestamp)
      PROVE  EmissionInv'
  <2>1. amount \in Int /\ timestamp \in U64
    BY PoolAssumption, Widths
  <2>2. PICK delta \in {amount, -amount} :
          /\ Idle /\ positions[p].state = "open"
          /\ ModifyLiquidity(p, delta, timestamp)
          /\ tick_current_index' = tick_current_index /\ swap' = swap /\ reward_vault' = reward_vault
    BY <1>7 DEF IncreaseLiquidity, DecreaseLiquidity, convert_to_liquidity_delta
  <2>3. delta \in Int
    BY <2>1
  <2> QED
    BY <2>1, <2>2, <2>3, EmissionModify
<1>8. ASSUME NEW timestamp \in Timestamps, UpdateFeesAndRewards(p, timestamp)
      PROVE  EmissionInv'
  BY <1>8, PoolAssumption, EmissionUpdate
<1>9. CASE CollectFees(p)
  <2> DEFINE pos2 == [positions[p] EXCEPT !.fee_owed = [x \in Token |-> 0]]
  <2>1. /\ Idle /\ swap' = swap /\ positions' = [positions EXCEPT ![p] = pos2]
        /\ UNCHANGED <<tick_current_index, ticks, reward_infos, reward_last_updated_timestamp,
                       reward_vault>>
    BY <1>9 DEF CollectFees
  <2>2. SameClaim(positions[p], pos2)
    BY <1>2 DEF SameClaim, Position
  <2> HIDE DEF pos2
  <2> QED
    BY <1>4, <2>1, <2>2
<1>10. ASSUME NEW i \in RewardIndex, CollectReward(p, i)
       PROVE  EmissionInv'
  BY <1>10, EmissionCollect
<1> QED
  BY <1>1, <1>6, <1>7, <1>8, <1>9, <1>10

-----------------------------------------------------------------------------
(* Swaps *)

\* An iteration flips the growth of an initialized reward outside of an initialized
\* tick exactly when the current tick moves to its other side (tick_manager.rs:17).
LEMMA RewardTicksFlip ==
  ASSUME IInv, NEW c, StepComputed(swap, c),
         NEW b \in UsableTicks, swap.ticks[b].initialized, NEW i \in RewardIndex,
         RewardInfosAt(swap.timestamp)[i].initialized
  PROVE  /\ TicksAfter(swap, c)[b].initialized
         /\ Flips(b, swap.curr_tick_index, TickAfter(swap, c),
                  RewardInfosAt(swap.timestamp)[i].growth_global_x64,
                  swap.ticks[b].reward_growths_outside[i],
                  TicksAfter(swap, c)[b].reward_growths_outside[i])
<1> DEFINE tick    == swap.ticks[b]
           growths == GrowthsAtCrossing(swap, c)
           infos   == RewardInfosAt(swap.timestamp)
           crossed == next_tick_cross_update(tick, growths, infos)
<1>1. tick \in Tick
  BY SwapTicks DEF StepComputed
<1>2. TicksAfter(swap, c)[b] = IF (swap.curr_tick_index < b) = (TickAfter(swap, c) < b) THEN tick
                               ELSE crossed
  BY CrossedOrKept
<1>3. /\ crossed.initialized = tick.initialized
      /\ crossed.reward_growths_outside[i]
           = WrapU128(infos[i].growth_global_x64 - tick.reward_growths_outside[i])
  <2>1. infos[i].initialized
    OBVIOUS
  <2> HIDE DEF growths, infos, tick
  <2> QED
    BY <1>1, <2>1 DEF next_tick_cross_update, Tick
<1> HIDE DEF crossed
<1> QED
  BY <1>2, <1>3 DEF Flips

\* It leaves the growth of a reward that is not initialized at 0.
LEMMA NoGrowthCrossed ==
  ASSUME IInv, NEW c, StepComputed(swap, c), NEW i \in RewardIndex,
         ~RewardInfosAt(swap.timestamp)[i].initialized, NoGrowthOf(i, swap.ticks)
  PROVE  NoGrowthOf(i, TicksAfter(swap, c))
<1> DEFINE n == NextInitTick(swap).tick_index
           infos == RewardInfosAt(swap.timestamp)
           growths == GrowthsAtCrossing(swap, c)
           crossed == next_tick_cross_update(swap.ticks[n], growths, infos)
<1>1. swap.ticks \in [UsableTicks -> Tick]
  <2>1. swap \in SwapState
    BY DEF IInv, TypeOK, Idle, StepComputed
  <2> QED
    BY <2>1 DEF SwapState
<1>2. TicksAfter(swap, c) = IF CrossesInitialized(swap, c)
                            THEN [swap.ticks EXCEPT ![n] = crossed] ELSE swap.ticks
  BY <1>1 DEF TicksAfter, next_tick_cross_update
<1> SUFFICES ASSUME NEW t \in UsableTicks
             PROVE  TicksAfter(swap, c)[t].reward_growths_outside[i] = 0
  BY DEF NoGrowthOf
<1>3. swap.ticks[t] \in Tick /\ swap.ticks[t].reward_growths_outside[i] = 0
  BY <1>1 DEF NoGrowthOf
<1>4. CASE TicksAfter(swap, c)[t] = swap.ticks[t]
  BY <1>3, <1>4
<1>5. CASE TicksAfter(swap, c)[t] # swap.ticks[t]
  <2>1. t = n /\ TicksAfter(swap, c)[t] = crossed
    BY <1>1, <1>2, <1>5
  <2>2. ~infos[i].initialized /\ swap.ticks[n] \in Tick
        /\ swap.ticks[n].reward_growths_outside[i] = 0
    BY <1>3, <2>1
  <2> HIDE DEF infos, growths
  <2>3. crossed.reward_growths_outside[i] = 0
    BY <2>2 DEF next_tick_cross_update, Tick
  <2> QED
    BY <2>1, <2>3
<1> QED
  BY <1>4, <1>5

\* It leaves the growth inside every range in use what it was, when the growth that
\* there will be at the end of the swap is that already.
LEMMA InsideOfIteration ==
  ASSUME BookIInv, NEW c, StepComputed(swap, c),
         NEW p \in PositionIds, positions[p].liquidity # 0
  PROVE  RewardsInside(TickAfter(swap, c), TicksAfter(swap, c), positions[p],
                       RewardInfosAt(swap.timestamp))
           = RewardsInside(swap.curr_tick_index, swap.ticks, positions[p],
                           RewardInfosAt(swap.timestamp))
<1> DEFINE l  == positions[p].tick_lower_index
           u  == positions[p].tick_upper_index
           t  == swap.curr_tick_index
           t2 == TickAfter(swap, c)
           tk == swap.ticks
           tk2 == TicksAfter(swap, c)
           infos == RewardInfosAt(swap.timestamp)
<1>1. /\ IInv /\ TypeOK /\ ~Idle /\ swap \in SwapState
      /\ positions \in AllPositions /\ RangesSound(positions)
      /\ \A x \in UsableTicks : TickBooked(positions, x, swap.ticks[x])
  BY DEF BookIInv, Book, IInv, TypeOK, AllPositions, SwapBooked, Booked, Idle, StepComputed
<1>2. /\ t \in Int /\ tk \in [UsableTicks -> Tick] /\ swap.timestamp \in U64
      /\ swap.timestamp >= reward_last_updated_timestamp
  <2>1. swap.timestamp >= reward_last_updated_timestamp
    BY <1>1 DEF IInv, SwapInv
  <2> QED
    BY <1>1, <2>1 DEF SwapState
<1>3. infos \in [RewardIndex -> WhirlpoolRewardInfo]
  BY <1>1, <1>2, RewardInfosAtType
<1>4. /\ l \in UsableTicks /\ u \in UsableTicks /\ l < u
      /\ tk[l].initialized /\ tk[u].initialized
  BY <1>1, <1>2, BoundariesBooked
<1>5. l \in Int /\ u \in Int
  BY <1>4, ArrayTypes
<1>6. t2 \in Int /\ tk2 \in [UsableTicks -> Tick]
  <2>1. TickHoldsPrice(t2, c.next_price) /\ tk2 \in [UsableTicks -> Tick]
    BY DEF StepComputed
  <2>2. t2 \in Int
    BY <2>1, TickRangeAssumption DEF TickHoldsPrice
  <2> QED
    BY <2>1, <2>2
<1>7. ASSUME NEW i \in RewardIndex, infos[i].initialized
      PROVE  LET g == infos[i].growth_global_x64
             IN  GrowthBetween(g, GrowthBelow(tk2[l], l, t2, g, tk2[l].reward_growths_outside[i]),
                                  GrowthAbove(tk2[u], u, t2, g, tk2[u].reward_growths_outside[i]))
                   = GrowthBetween(g, GrowthBelow(tk[l], l, t, g, tk[l].reward_growths_outside[i]),
                                      GrowthAbove(tk[u], u, t, g, tk[u].reward_growths_outside[i]))
  <2> DEFINE g == infos[i].growth_global_x64
             ol == tk[l].reward_growths_outside[i]
             ou == tk[u].reward_growths_outside[i]
             ol2 == tk2[l].reward_growths_outside[i]
             ou2 == tk2[u].reward_growths_outside[i]
             lower == tk[l]
             upper == tk[u]
             lower2 == tk2[l]
             upper2 == tk2[u]
  <2>1. /\ lower2.initialized /\ upper2.initialized
        /\ Flips(l, t, t2, g, ol, ol2) /\ Flips(u, t, t2, g, ou, ou2)
    BY <1>1, <1>4, <1>7, RewardTicksFlip
  <2>2. g \in U128 /\ ol \in U128 /\ ou \in U128 /\ ol2 \in U128 /\ ou2 \in U128
    <3>1. lower \in Tick /\ upper \in Tick /\ lower2 \in Tick /\ upper2 \in Tick
      BY <1>2, <1>4, <1>6
    <3>2. infos[i] \in WhirlpoolRewardInfo
      BY <1>3
    <3> HIDE DEF lower, upper, lower2, upper2, infos
    <3>3. /\ lower.reward_growths_outside[i] \in U128 /\ upper.reward_growths_outside[i] \in U128
          /\ lower2.reward_growths_outside[i] \in U128 /\ upper2.reward_growths_outside[i] \in U128
      BY <3>1 DEF Tick
    <3>4. infos[i].growth_global_x64 \in U128
      BY <3>2 DEF WhirlpoolRewardInfo
    <3> QED
      BY <3>3, <3>4 DEF lower, upper, lower2, upper2
  <2>3. lower.initialized /\ upper.initialized
    BY <1>4
  <2> HIDE DEF l, u, t, t2, g, tk, tk2, ol, ou, ol2, ou2, lower, upper, lower2, upper2, infos
  <2>4. g \in Int /\ ol \in Int /\ ou \in Int /\ ol2 \in Int /\ ou2 \in Int
    BY <2>2, WordsAreIntegers
  <2>5. t \in Int /\ l \in Int /\ u \in Int /\ l < u
    BY <1>2, <1>4, <1>5
  <2>6. GrowthBetween(g, GrowthBelow(lower, l, t, g, ol), GrowthAbove(upper, u, t, g, ou))
           = IF t < l THEN WrapU128(ol - ou)
             ELSE IF t < u THEN WrapU128((g - ol) - ou)
             ELSE WrapU128(ou - ol)
    BY <2>3, <2>4, <2>5, GrowthInsideRange, SMTT(60)
  <2> DEFINE inside == GrowthBetween(g, GrowthBelow(lower, l, t, g, ol), GrowthAbove(upper, u, t, g, ou))
             inside2 == GrowthBetween(g, GrowthBelow(lower2, l, t2, g, ol2),
                                         GrowthAbove(upper2, u, t2, g, ou2))
  <2>7. inside2 = IF l <= t /\ t < u THEN WrapU128(inside + g - g) ELSE inside
    <3>1. GrowthBetween(g, GrowthBelow(lower2, l, t2, g, ol2), GrowthAbove(upper2, u, t2, g, ou2))
            = LET within == GrowthBetween(g, GrowthBelow(lower, l, t, g, ol),
                                             GrowthAbove(upper, u, t, g, ou))
              IN  IF l <= t /\ t < u THEN WrapU128(within + g - g) ELSE within
      BY <1>2, <1>4, <1>5, <1>6, <2>1, <2>3, <2>4, GrowthInsideMoves
    <3> QED
      BY <3>1
  <2>8. inside \in U128
    <3>1. inside = IF t < l THEN WrapU128(ol - ou) ELSE IF t < u THEN WrapU128((g - ol) - ou)
                   ELSE WrapU128(ou - ol)
      BY <2>6
    <3>2. ol - ou \in Int /\ (g - ol) - ou \in Int /\ ou - ol \in Int
      BY <2>4
    <3> HIDE DEF inside
    <3> QED
      BY <3>1, <3>2, Conversions
  <2> HIDE DEF inside, inside2
  <2>9. inside \in Int /\ WrapU128(inside) = inside
    BY <2>8, WrapWord, WordsAreIntegers
  <2>10. inside + g - g = inside
    BY <2>4, <2>9
  <2>11. inside2 = inside
    BY <2>7, <2>9, <2>10
  <2> QED
    BY <2>11 DEF inside, inside2, g, ol, ou, ol2, ou2, lower, upper, lower2, upper2
<1>8. ASSUME NEW i \in RewardIndex
      PROVE  RewardsInside(t2, tk2, positions[p], infos)[i] = RewardsInside(t, tk, positions[p], infos)[i]
  <2>1. CASE infos[i].initialized
    <3> HIDE DEF t, t2, tk, tk2, infos
    <3> QED
      BY <1>7, <2>1 DEF RewardsInside, next_reward_growths_inside
  <2>2. CASE ~infos[i].initialized
    <3> HIDE DEF t, t2, tk, tk2, infos
    <3> QED
      BY <2>2 DEF RewardsInside, next_reward_growths_inside
  <2> QED
    BY <2>1, <2>2
<1> DEFINE f == RewardsInside(t, tk, positions[p], infos)
           f2 == RewardsInside(t2, tk2, positions[p], infos)
<1>9. f \in [RewardIndex -> U128] /\ f2 \in [RewardIndex -> U128]
  <2>1. positions[p] \in Position
    BY <1>1 DEF AllPositions
  <2> HIDE DEF t, t2, tk, tk2, infos
  <2> QED
    BY <1>2, <1>3, <1>4, <1>6, <2>1, InsideType
<1>10. \A i \in RewardIndex : f2[i] = f[i]
  BY <1>8
<1> HIDE DEF f, f2
<1>11. f2 = f
  BY <1>9, <1>10
<1> QED
  BY <1>11 DEF f, f2

\* Before a swap ends, no position is due more and nothing is emitted or paid.
LEMMA AccountUntouched ==
  ASSUME BookIInv, BookIInv', EmissionInv, Recorded,
         UNCHANGED <<tick_current_index, ticks, reward_infos, reward_last_updated_timestamp,
                     positions, reward_vault>>
  PROVE  /\ emitted' \in [RewardIndex -> Nat] /\ paid' \in [RewardIndex -> Nat]
         /\ EmittedCovers'
<1>1. TypeOK
  BY DEF BookIInv, IInv
<1>2. RewardInfosAt(reward_last_updated_timestamp') = reward_infos
  BY <1>1, NothingAccrued
<1>3. /\ reward_last_updated_timestamp' >= reward_last_updated_timestamp
      /\ \A i \in RewardIndex : reward_vault'[i] >= reward_vault[i]
      /\ reward_infos \in [RewardIndex -> WhirlpoolRewardInfo]
  <2>1. reward_last_updated_timestamp \in Nat /\ \A i \in RewardIndex : reward_vault[i] \in Nat
    BY <1>1, WordsAreIntegers DEF TypeOK
  <2> QED
    BY <1>1, <2>1 DEF TypeOK
<1>4. \A p \in PositionIds : SameClaim(positions[p], positions[p])
  BY DEF SameClaim
<1>5. \A i \in RewardIndex, p \in PositionIds :
        Due(positions[p], i, RewardsInside(tick_current_index, ticks, positions[p], reward_infos)[i])
          <= Due(positions[p], i,
                 RewardsInside(tick_current_index, ticks, positions[p], reward_infos)[i])
  BY <1>3, <1>4, ClaimDue
<1>6. \A i \in RewardIndex, p \in PositionIds :
        Due(positions'[p], i,
            RewardsInside(tick_current_index', ticks', positions'[p], reward_infos')[i])
          <= Due(positions[p], i,
                 RewardsInside(tick_current_index, ticks, positions[p],
                               RewardInfosAt(reward_last_updated_timestamp'))[i])
  BY <1>2, <1>5
<1> QED
  BY <1>3, <1>6, CoversWhenNoneDueMore

\* A swap keeps the invariant when it starts, with the account's ticks.
LEMMA EmissionBegin ==
  ASSUME BookIInv, BookIInv', EmissionInv, Recorded,
         NEW r \in SwapRequests, NEW timestamp \in Timestamps, SwapBegin(r, timestamp)
  PROVE  EmissionInv'
<1> USE DEF config, curve, fees, rewards
<1>1. /\ Idle /\ swap' = StartedSwap(r, timestamp)
      /\ UNCHANGED <<tick_current_index, ticks, reward_infos, reward_last_updated_timestamp,
                     liquidity, positions, reward_vault>>
  BY DEF SwapBegin
<1>2. swap'.ticks = ticks /\ swap'.curr_tick_index = tick_current_index
  BY <1>1 DEF StartedSwap
<1>3. /\ emitted' \in [RewardIndex -> Nat] /\ paid' \in [RewardIndex -> Nat]
      /\ EmittedCovers'
  BY <1>1, AccountUntouched
<1>4. NoGrowthUninitialized'
  BY <1>1, <1>2 DEF EmissionInv, NoGrowthUninitialized
<1>5. SwapKeepsInside'
  BY <1>1, <1>2 DEF SwapKeepsInside
<1> QED
  BY <1>3, <1>4, <1>5 DEF EmissionInv

\* Every iteration of its loop keeps it.
LEMMA EmissionIteration ==
  ASSUME BookIInv, BookIInv', EmissionInv, Recorded, SwapStep
  PROVE  EmissionInv'
<1> USE DEF config, curve, fees, rewards
<1>1. IInv /\ TypeOK
  BY DEF BookIInv, IInv
<1>2. PICK c : StepComputed(swap, c) /\ SwapMoves(swap, c)
  BY <1>1, SwapIteration
<1>3. ~Idle /\ swap \in SwapState
  BY <1>1, <1>2 DEF StepComputed, TypeOK, Idle
<1>4. /\ swap'.ticks = TicksAfter(swap, c) /\ swap'.curr_tick_index = TickAfter(swap, c)
      /\ swap'.timestamp = swap.timestamp
      /\ UNCHANGED <<tick_current_index, ticks, reward_infos, reward_last_updated_timestamp,
                     liquidity, positions, reward_vault>>
  BY <1>2, <1>3 DEF SwapMoves, SwapState
<1>5. /\ emitted' \in [RewardIndex -> Nat] /\ paid' \in [RewardIndex -> Nat]
      /\ EmittedCovers'
  BY <1>4, AccountUntouched
<1>6. NoGrowthUninitialized'
  <2> SUFFICES ASSUME NEW i \in RewardIndex, ~reward_infos'[i].initialized
               PROVE  /\ reward_infos'[i].growth_global_x64 = 0
                      /\ NoGrowthOf(i, ticks') /\ NoGrowthOf(i, swap'.ticks)
    BY DEF NoGrowthUninitialized
  <2>1. /\ reward_infos[i].growth_global_x64 = 0
        /\ NoGrowthOf(i, ticks) /\ NoGrowthOf(i, swap.ticks)
    BY <1>3, <1>4 DEF EmissionInv, NoGrowthUninitialized
  <2>2. ~RewardInfosAt(swap.timestamp)[i].initialized
    BY <1>1, <1>4, AccrualKeepsUninitialized
  <2>3. NoGrowthOf(i, TicksAfter(swap, c))
    BY <1>1, <1>2, <2>1, <2>2, NoGrowthCrossed
  <2> QED
    BY <1>4, <2>1, <2>3
<1>7. SwapKeepsInside'
  <2> DEFINE infos == RewardInfosAt(swap.timestamp)
  <2>1. RewardInfosAt(swap.timestamp)' = infos
    BY <1>4 DEF RewardInfosAt
  <2>2. ASSUME NEW p \in PositionIds, positions[p].liquidity > 0
        PROVE  RewardsInside(TickAfter(swap, c), TicksAfter(swap, c), positions[p], infos)
                 = RewardsInside(tick_current_index, ticks, positions[p], infos)
    <3>1. positions[p].liquidity # 0
      BY <2>2
    <3>2. RewardsInside(swap.curr_tick_index, swap.ticks, positions[p], infos)
            = RewardsInside(tick_current_index, ticks, positions[p], infos)
      BY <1>3, <2>2 DEF EmissionInv, SwapKeepsInside
    <3> QED
      BY <1>2, <3>1, <3>2, InsideOfIteration
  <2> HIDE DEF infos
  <2> QED
    BY <1>4, <2>1, <2>2 DEF SwapKeepsInside
<1> QED
  BY <1>5, <1>6, <1>7 DEF EmissionInv

\* And so do its end and its failure: the growth that goes into the account with the
\* loop's ticks makes the same growth inside every range as with the account's
\* (update_and_swap_whirlpool, util/swap_utils.rs).
LEMMA EmissionEnd ==
  ASSUME BookIInv, BookIInv', EmissionInv, Recorded, SwapCommit \/ SwapFail
  PROVE  EmissionInv'
<1> USE DEF config, curve, fees, rewards
<1>1. IInv /\ TypeOK /\ ~Idle /\ swap \in SwapState
  BY DEF BookIInv, IInv, TypeOK, Idle, SwapCommit, SwapFail
<1>2. Idle'
  BY DEF SwapCommit, UpdateAndSwap, SwapFail, Idle
<1>3. SwapKeepsInside'
  BY <1>2 DEF SwapKeepsInside
<1>4. CASE SwapFail
  <2>1. UNCHANGED <<tick_current_index, ticks, reward_infos, reward_last_updated_timestamp,
                    positions, reward_vault>>
    BY <1>4 DEF SwapFail
  <2>2. /\ emitted' \in [RewardIndex -> Nat] /\ paid' \in [RewardIndex -> Nat]
        /\ EmittedCovers'
    BY <2>1, AccountUntouched
  <2>3. NoGrowthUninitialized'
    BY <1>2, <2>1 DEF EmissionInv, NoGrowthUninitialized
  <2> QED
    BY <1>3, <2>2, <2>3 DEF EmissionInv
<1>5. CASE SwapCommit
  <2> DEFINE infos == RewardInfosAt(swap.timestamp)
  <2>1. /\ tick_current_index' = swap.curr_tick_index /\ ticks' = swap.ticks
        /\ reward_infos' = infos /\ reward_last_updated_timestamp' = swap.timestamp
        /\ positions' = positions /\ reward_vault' = reward_vault
    BY <1>5 DEF SwapCommit, UpdateAndSwap
  <2>2. swap.timestamp >= reward_last_updated_timestamp /\ swap.timestamp \in U64
    BY <1>1 DEF IInv, SwapInv, SwapState
  <2>3. infos \in [RewardIndex -> WhirlpoolRewardInfo]
    BY <1>1, <2>2, RewardInfosAtType
  <2>4. \A i \in RewardIndex : reward_vault'[i] >= reward_vault[i]
    <3>1. \A i \in RewardIndex : reward_vault[i] \in Nat
      BY <1>1, WordsAreIntegers DEF TypeOK
    <3> QED
      BY <2>1, <3>1
  <2>5. ASSUME NEW i \in RewardIndex, NEW p \in PositionIds
        PROVE  Due(positions[p], i,
                   RewardsInside(swap.curr_tick_index, swap.ticks, positions[p], infos)[i])
                 <= Due(positions[p], i,
                        RewardsInside(tick_current_index, ticks, positions[p], infos)[i])
    <3> DEFINE growth  == RewardsInside(tick_current_index, ticks, positions[p], infos)[i]
               growth2 == RewardsInside(swap.curr_tick_index, swap.ticks, positions[p], infos)[i]
    <3>1. positions[p].liquidity = 0 \/ positions[p].liquidity > 0
      <4>1. positions[p] \in Position
        BY <1>1 DEF TypeOK
      <4>2. positions[p].liquidity \in U128
        BY <4>1 DEF Position
      <4>3. positions[p].liquidity \in Nat
        BY <4>2, WordsAreIntegers
      <4> QED
        BY <4>3
    <3>2. positions[p].liquidity > 0 => growth2 = growth
      BY <1>1 DEF EmissionInv, SwapKeepsInside
    <3>3. positions[p].liquidity = 0 \/ growth2 = growth
      BY <3>1, <3>2
    <3>4. Due(positions[p], i, growth2) = Due(positions[p], i, growth)
      BY <3>3 DEF Due
    <3>5. SameClaim(positions[p], positions[p])
      BY DEF SameClaim
    <3>6. Due(positions[p], i, growth) <= Due(positions[p], i, growth)
      <4> HIDE DEF infos
      <4> QED
        BY <2>3, <3>5, ClaimDue
    <3> HIDE DEF growth, growth2
    <3>7. Due(positions[p], i, growth2) <= Due(positions[p], i, growth)
      BY <3>4, <3>6
    <3> QED
      BY <3>7 DEF growth, growth2
  <2>6. \A i \in RewardIndex, p \in PositionIds :
          Due(positions'[p], i,
              RewardsInside(tick_current_index', ticks', positions'[p], reward_infos')[i])
            <= Due(positions[p], i,
                   RewardsInside(tick_current_index, ticks, positions[p],
                                 RewardInfosAt(reward_last_updated_timestamp'))[i])
    BY <2>1, <2>5
  <2>7. /\ emitted' \in [RewardIndex -> Nat] /\ paid' \in [RewardIndex -> Nat]
        /\ EmittedCovers'
    BY <2>1, <2>2, <2>4, <2>6, CoversWhenNoneDueMore
  <2>8. NoGrowthUninitialized'
    <3> SUFFICES ASSUME NEW i \in RewardIndex, ~reward_infos'[i].initialized
                 PROVE  reward_infos'[i].growth_global_x64 = 0 /\ NoGrowthOf(i, ticks')
      BY <1>2 DEF NoGrowthUninitialized
    <3>1. ~reward_infos[i].initialized /\ infos[i] = reward_infos[i]
      BY <1>1, <2>1, AccrualKeepsUninitialized
    <3> QED
      BY <1>1, <2>1, <3>1 DEF EmissionInv, NoGrowthUninitialized
  <2> QED
    BY <1>3, <2>7, <2>8 DEF EmissionInv
<1> QED
  BY <1>4, <1>5

-----------------------------------------------------------------------------
(* The theorem *)

\* In a new pool nothing is due.
LEMMA EmissionInit ==
  ASSUME Init, RecordsInit, BookIInv PROVE EmissionInv
<1>1. /\ positions = [p \in PositionIds |-> BlankPosition("none", 0, 0)]
      /\ ticks = [t \in UsableTicks |-> DefaultTick] /\ swap = NoSwap
      /\ \A i \in RewardIndex : reward_infos[i].growth_global_x64 = 0
  BY DEF Init, InitializePool
<1>2. /\ emitted = [i \in RewardIndex |-> 0] /\ paid = [i \in RewardIndex |-> 0]
  BY DEF RecordsInit
<1>3. Idle
  BY <1>1 DEF Idle
<1>4. NoGrowthUninitialized
  BY <1>1, <1>3 DEF NoGrowthUninitialized, NoGrowthOf, DefaultTick
<1>5. ASSUME NEW i \in RewardIndex
      PROVE  Sum(Dues(positions, tick_current_index, ticks, reward_infos, i)) + TO_Q64 * paid[i]
               <= emitted[i]
  <2> DEFINE D == Dues(positions, tick_current_index, ticks, reward_infos, i)
  <2>1. TO_Q64 \in Nat
    BY Widths
  <2>2. ASSUME NEW p \in PositionIds PROVE D[p] = 0
    <3>1. positions[p].liquidity = 0 /\ positions[p].amount_owed[i] = 0
      BY <1>1 DEF BlankPosition
    <3> QED
      BY <2>1, <3>1 DEF Dues, Due
  <2>3. D \in Amounts
    <3>1. D \in [PositionIds -> Int]
      <4>1. D = [p \in PositionIds |-> D[p]]
        BY DEF Dues
      <4> HIDE DEF D
      <4> QED
        BY <2>2, <4>1
    <3> QED
      BY <3>1 DEF Amounts
  <2>4. Sum(D) = 0
    <3> HIDE DEF D
    <3> QED
      BY <2>2, <2>3, SumOfZeros
  <2> HIDE DEF D
  <2>5. TO_Q64 * paid[i] = 0 /\ emitted[i] = 0
    BY <1>2, <2>1
  <2>6. Sum(D) + TO_Q64 * paid[i] <= emitted[i]
    BY <2>4, <2>5
  <2> QED
    BY <2>6 DEF D
<1> QED
  BY <1>2, <1>3, <1>4, <1>5 DEF EmissionInv, EmittedCovers, SwapKeepsInside

\* Each step keeps the invariant.
LEMMA EmissionStep ==
  ASSUME BookIInv, BookIInv', EmissionInv, Next, Recorded
  PROVE  EmissionInv'
<1>1. CASE PositionNext
  BY <1>1, EmissionPositionStep
<1>2. CASE RewardNext
  BY <1>2, EmissionRewardStep
<1>3. CASE \/ ConfigNext \/ CollectProtocolFees
           \/ \E start \in MIN_ARRAY_START .. MAX_TICK_INDEX : InitializeTickArray(start)
  BY <1>3, EmissionPoolStep
<1>4. CASE \E r \in SwapRequests, timestamp \in Timestamps : SwapBegin(r, timestamp)
  BY <1>4, EmissionBegin
<1>5. CASE SwapProgress
  BY <1>5, EmissionIteration, EmissionEnd DEF SwapProgress
<1> QED
  BY <1>1, <1>2, <1>3, <1>4, <1>5 DEF Next

\* What a position can claim is at most what it is due.
LEMMA ClaimedIsDue ==
  ASSUME BookIInv, NEW p \in PositionIds, NEW i \in RewardIndex
  PROVE  /\ RewardOf(p, i) \in Nat
         /\ TO_Q64 * RewardOf(p, i)
              <= Dues(positions, tick_current_index, ticks, reward_infos, i)[p]
<1> DEFINE position == positions[p]
           inside   == RewardsInside(tick_current_index, ticks, position, reward_infos)[i]
           L        == position.liquidity
           c        == position.growth_inside_checkpoint[i]
           o        == position.amount_owed[i]
           e        == GrowthEarned(L, inside, c)
<1>1. /\ position \in Position /\ tick_current_index \in Int /\ ticks \in [UsableTicks -> Tick]
      /\ RangesSound(positions) /\ reward_infos \in [RewardIndex -> WhirlpoolRewardInfo]
  BY DEF BookIInv, Book, IInv, TypeOK
<1>2. L = 0 \/ inside \in U128
  BY <1>1, InsideType DEF RangesSound
<1>3. L \in U128 /\ c \in U128 /\ o \in U64
  BY <1>1 DEF Position
<1>4. Provides(p) <=> L # 0
  <2>1. L \in Nat
    <3> HIDE DEF L
    <3> QED
      BY <1>3, WordsAreIntegers
  <2>2. L # 0 => position.state = "open"
    BY <1>1 DEF RangesSound
  <2> QED
    BY <2>1, <2>2 DEF Provides
<1>5. Dues(positions, tick_current_index, ticks, reward_infos, i)[p] = Due(position, i, inside)
  BY DEF Dues
<1>6. /\ o \in Nat /\ TO_Q64 * o \in Nat /\ TO_Q64 * o <= Due(position, i, inside)
      /\ Due(position, i, inside) \in Nat
  BY <1>1, <1>2, DueType
<1>7. RewardOf(p, i) = o + IF L # 0 THEN e ELSE 0
  BY <1>4 DEF RewardOf, RewardGrowthsInside, RewardsInside
<1>8. CASE L = 0
  <2>1. RewardOf(p, i) = o
    BY <1>6, <1>7, <1>8
  <2> QED
    BY <1>5, <1>6, <2>1
<1>9. CASE L # 0
  <2> DEFINE b == L * WrapU128(inside - c)
             x == TO_Q64 * o
             y == TO_Q64 * e
  <2>1. e \in Nat /\ y <= b
    BY <1>2, <1>3, <1>9, EarnedAtMost
  <2>2. Due(position, i, inside) = x + b
    BY <1>9 DEF Due
  <2>3. b \in Int
    <3>1. inside \in Int /\ c \in Int /\ L \in Int
      <4> HIDE DEF inside, c, L
      <4> QED
        BY <1>2, <1>3, <1>9, WordsAreIntegers
    <3>2. WrapU128(inside - c) \in Int
      <4> HIDE DEF inside, c
      <4> QED
        BY <3>1, WrapMultiple
    <3> QED
      BY <3>1, <3>2
  <2>4. TO_Q64 \in Nat
    BY Widths
  <2>5. RewardOf(p, i) = o + e
    BY <1>7, <1>9
  <2> HIDE DEF o, e
  <2>6. TO_Q64 * (o + e) = x + y /\ x \in Int /\ y \in Int
    BY <1>6, <2>1, <2>4
  <2>7. x + y <= x + b
    <3> HIDE DEF x, y, b
    <3> QED
      BY <2>1, <2>3, <2>6
  <2>8. o + e \in Nat
    BY <1>6, <2>1
  <2> HIDE DEF b, x, y, inside
  <2> QED
    BY <1>5, <2>2, <2>5, <2>6, <2>7, <2>8
<1> QED
  BY <1>8, <1>9

\* All that positions can still claim of a reward and all they were paid was
\* emitted, for every number of positions and rewards and every interleaving of
\* instructions: after accruals, settlements, payments, changes of the rate, and
\* swaps that cross ticks at any growth (whirlpool_manager.rs, position_manager.rs).
THEOREM RewardsWereEmitted == EmissionSpec => []RewardsWithinEmission
<1>1. Init /\ RecordsInit /\ BookIInv => EmissionInv
  BY EmissionInit
<1>2. BookIInv /\ BookIInv' /\ EmissionInv /\ [Next /\ Recorded]_emissionvars => EmissionInv'
  <2> SUFFICES ASSUME BookIInv, BookIInv', EmissionInv, [Next /\ Recorded]_emissionvars
               PROVE  EmissionInv'
    OBVIOUS
  <2>1. CASE Next /\ Recorded
    BY <2>1, EmissionStep
  <2>2. CASE UNCHANGED emissionvars
    <3>1. UNCHANGED <<liquidity, tick_current_index, ticks, positions, reward_infos,
                      reward_last_updated_timestamp, swap, emitted, paid>>
      BY <2>2 DEF emissionvars, vars, curve, rewards
    <3> QED
      BY <3>1
      DEF EmissionInv, NoGrowthUninitialized, SwapKeepsInside, EmittedCovers, Idle, RewardInfosAt
  <2> QED
    BY <2>1, <2>2
<1>3. BookIInv /\ EmissionInv => RewardsWithinEmission
  <2> SUFFICES ASSUME BookIInv, EmissionInv, NEW i \in RewardIndex
               PROVE  (Sum([p \in PositionIds |-> RewardOf(p, i)]) + paid[i]) * TO_Q64 <= emitted[i]
    BY DEF RewardsWithinEmission
  <2> DEFINE R == [p \in PositionIds |-> RewardOf(p, i)]
             K == [p \in PositionIds |-> TO_Q64 * RewardOf(p, i)]
             D == Dues(positions, tick_current_index, ticks, reward_infos, i)
  <2>1. TO_Q64 \in Nat /\ TO_Q64 \in Int
    BY Widths
  <2>2. \A p \in PositionIds : RewardOf(p, i) \in Nat /\ TO_Q64 * RewardOf(p, i) <= D[p]
    BY ClaimedIsDue
  <2>3. D \in Amounts /\ Sum(D) \in Int
    <3>1. /\ positions \in AllPositions /\ RangesSound(positions) /\ tick_current_index \in Int
          /\ ticks \in [UsableTicks -> Tick] /\ reward_infos \in [RewardIndex -> WhirlpoolRewardInfo]
      BY DEF BookIInv, Book, IInv, TypeOK, AllPositions
    <3> QED
      BY <3>1, DuesType
  <2>4. R \in Amounts
    BY <2>2 DEF Amounts
  <2>5. K \in Amounts
    <3>1. \A p \in PositionIds : TO_Q64 * RewardOf(p, i) \in Int
      BY <2>1, <2>2
    <3> QED
      BY <3>1 DEF Amounts
  <2>6. \A p \in PositionIds : K[p] = TO_Q64 * R[p] /\ K[p] <= D[p]
    BY <2>2
  <2> HIDE DEF R, K, D
  <2>7. Sum(K) = TO_Q64 * Sum(R)
    BY <2>1, <2>4, <2>5, <2>6, SumScales
  <2>8. Sum(K) <= Sum(D)
    BY <2>3, <2>5, <2>6, SumAtMost
  <2>9. Sum(R) \in Int
    BY <2>4, SumOfInts
  <2>10. /\ Sum(D) + TO_Q64 * paid[i] <= emitted[i]
         /\ paid[i] \in Nat /\ emitted[i] \in Nat
    BY DEF EmissionInv, EmittedCovers, D
  <2> DEFINE x == TO_Q64 * Sum(R)
             y == TO_Q64 * paid[i]
  <2>11. (Sum(R) + paid[i]) * TO_Q64 = x + y /\ x \in Int /\ y \in Int
    BY <2>1, <2>9, <2>10
  <2>12. x <= Sum(D) /\ Sum(D) + y <= emitted[i]
    BY <2>7, <2>8, <2>10
  <2>13. x + y <= emitted[i]
    <3> HIDE DEF x, y
    <3> QED
      BY <2>3, <2>10, <2>11, <2>12
  <2> HIDE DEF x, y
  <2>14. (Sum(R) + paid[i]) * TO_Q64 <= emitted[i]
    BY <2>11, <2>13
  <2> QED
    BY <2>14 DEF R
<1>4. [Next /\ Recorded]_emissionvars => [Next]_vars
  BY DEF emissionvars
<1>5. Spec => []BookIInv
  BY BooksKept
<1> QED
  BY <1>1, <1>2, <1>3, <1>4, <1>5, PTL DEF EmissionSpec, Spec

-----------------------------------------------------------------------------
(* Solvency *)

\* What a position is due, in Q64.64: what it is owed, and what its liquidity earned
\* since the checkpoint.
DueOf(owed, L, checkpoint, growth) ==
  TO_Q64 * owed + IF L = 0 THEN 0 ELSE L * WrapU128(growth - checkpoint)

\* What a position is due in fees, with given growth inside.
FeeDue(position, x, growth) ==
  DueOf(position.fee_owed[x], position.liquidity, position.fee_growth_checkpoint[x], growth)

\* What every position of pos is due.
FeeDues(pos, current, all_ticks, growths, x) ==
  [p \in PositionIds |-> FeeDue(pos[p], x, FeesInside(current, all_ticks, pos[p], growths)[x])]

\* A common multiple of the prices of all ticks.
CommonMultiple(m) == m \in Nat \ {0} /\ \A t \in TickIndices : \E k \in Nat : m = k * SqrtPrice[t]

Multiple == CHOOSE m : CommonMultiple(m)

\* Multiple times the inverse of a tick's price.
Inverse(t) == CHOOSE k \in Nat : Multiple = k * SqrtPrice[t]

Ahead(b, current) == IF current < b THEN Inverse(b) ELSE 0

Behind(b, current) == IF current < b THEN 0 ELSE SqrtPrice[b]

\* The part of a position's token a, and of its token b, which its boundaries alone decide.
HeldAhead(pos, current) ==
  [p \in PositionIds |->
     IF pos[p].liquidity = 0 THEN 0
     ELSE pos[p].liquidity * (Ahead(pos[p].tick_lower_index, current)
                              - Ahead(pos[p].tick_upper_index, current))]

HeldBehind(pos, current) ==
  [p \in PositionIds |->
     IF pos[p].liquidity = 0 THEN 0
     ELSE pos[p].liquidity * (Behind(pos[p].tick_upper_index, current)
                              - Behind(pos[p].tick_lower_index, current))]

ClaimsA(pos, current, price) ==
  Multiple * Sum(RangeShare(pos, current)) + price * Sum(HeldAhead(pos, current))

ClaimsB(pos, current, price) ==
  price * Sum(RangeShare(pos, current)) + Sum(HeldBehind(pos, current))

\* A reserve in Q64.64 covers what all positions hold of a token at a price.
Covered(x, reserve, pos, current, price) ==
  IF x = "a"
  THEN TO_Q128 * ClaimsA(pos, current, price) <= reserve * (price * Multiple)
  ELSE ClaimsB(pos, current, price) <= reserve

Reserve(x, funds, pos, current, all_ticks, growths) ==
  TO_Q64 * funds - Sum(FeeDues(pos, current, all_ticks, growths, x))

Solvent(pos, current, price, all_ticks, growths, funds) ==
  \A x \in Token :
    Covered(x, Reserve(x, funds[x], pos, current, all_ticks, growths), pos, current, price)

\* What is in the vaults beside the protocol's fees: the account's, and what a
\* running swap will make it.
Funds == [x \in Token |-> vault[x] - protocol_fee_owed[x]]

SwapFunds ==
  [x \in Token |-> Funds[x] + IF x = InputToken(swap) THEN AmountPaid(swap) - swap.curr_protocol_fee
                              ELSE -AmountReceived(swap)]

AccountSolvent ==
  Solvent(positions, tick_current_index, sqrt_price, ticks, fee_growth_global, Funds)

SwapSolvent ==
  ~Idle => Solvent(positions, swap.curr_tick_index, swap.curr_sqrt_price, swap.ticks,
                   SwapGrowths, SwapFunds)

SolvencyInv == AccountSolvent /\ SwapSolvent
-----------------------------------------------------------------------------
(* What is due *)

\* What is due is an amount, and no less than what is owed.
LEMMA DueOfType ==
  ASSUME NEW owed \in U64, NEW L \in U128, NEW checkpoint \in U128, NEW growth,
         L = 0 \/ growth \in U128
  PROVE  /\ owed \in Nat /\ TO_Q64 * owed \in Nat
         /\ DueOf(owed, L, checkpoint, growth) \in Nat
         /\ TO_Q64 * owed <= DueOf(owed, L, checkpoint, growth)
<1> DEFINE w == WrapU128(growth - checkpoint)
           a == TO_Q64 * owed
           b == IF L = 0 THEN 0 ELSE L * w
<1>1. owed \in Nat /\ L \in Nat /\ checkpoint \in Int /\ TO_Q64 \in Nat
  BY WordsAreIntegers, Widths
<1>2. a \in Nat
  BY <1>1
<1>3. b \in Nat
  <2>1. CASE L = 0
    BY <2>1
  <2>2. CASE L # 0
    <3>1. growth \in Int
      BY <2>2, WordsAreIntegers
    <3>2. w \in U128
      BY <1>1, <3>1, Conversions
    <3>3. w \in Nat
      BY <3>2, WordsAreIntegers
    <3> QED
      BY <1>1, <2>2, <3>3
  <2> QED
    BY <2>1, <2>2
<1>4. DueOf(owed, L, checkpoint, growth) = a + b
  BY DEF DueOf
<1> HIDE DEF a, b
<1>5. a + b \in Nat /\ a <= a + b
  BY <1>2, <1>3
<1> QED
  BY <1>1, <1>2, <1>4, <1>5 DEF a

\* Settling rounds what is due down, before the sum is a word and after.
LEMMA SettledDueOf ==
  ASSUME NEW owed \in U64, NEW L \in U128, NEW checkpoint \in U128, NEW inside \in U128
  PROVE  /\ GrowthEarned(L, inside, checkpoint) \in Nat
         /\ TO_Q64 * (owed + GrowthEarned(L, inside, checkpoint))
              <= DueOf(owed, L, checkpoint, inside)
         /\ WrapU64(owed + GrowthEarned(L, inside, checkpoint)) \in Nat
         /\ TO_Q64 * WrapU64(owed + GrowthEarned(L, inside, checkpoint))
              <= DueOf(owed, L, checkpoint, inside)
<1> DEFINE e == GrowthEarned(L, inside, checkpoint)
           w == WrapU128(inside - checkpoint)
           s == WrapU64(owed + e)
           b == L * w
<1>1. owed \in Nat /\ L \in Nat /\ TO_Q64 \in Nat \ {0}
  BY Widths, WordsAreIntegers
<1>2. e \in Nat /\ TO_Q64 * e <= b
  BY EarnedAtMost
<1>3. w \in Nat
  <2>1. inside \in Int /\ checkpoint \in Int
    BY WordsAreIntegers
  <2>2. w \in U128
    BY <2>1, Conversions
  <2> QED
    BY <2>2, WordsAreIntegers
<1>4. DueOf(owed, L, checkpoint, inside) = TO_Q64 * owed + b
  <2>1. L = 0 => b = 0
    BY <1>3
  <2> QED
    BY <2>1 DEF DueOf
<1>5. b \in Int
  BY <1>1, <1>3
<1> HIDE DEF e, w, b
<1>6. s \in Nat /\ s <= owed + e
  BY <1>1, <1>2, RemainderAtMost DEF WrapU64
<1> HIDE DEF s
<1> DEFINE x == TO_Q64 * owed
           y == TO_Q64 * e
           z == TO_Q64 * (owed + e)
           v == TO_Q64 * s
<1>7. x \in Int /\ y \in Int /\ z = x + y /\ v \in Int
  BY <1>1, <1>2, <1>6
<1>8. v <= z
  <2>1. s * TO_Q64 <= (owed + e) * TO_Q64
    BY <1>1, <1>2, <1>6, MulMonotone
  <2> QED
    BY <1>1, <1>2, <1>6, <2>1
<1>9. z <= x + b /\ v <= x + b
  <2> HIDE DEF x, y, z, v
  <2>1. y <= b
    BY <1>2 DEF y
  <2> QED
    BY <1>5, <1>7, <1>8, <2>1
<1> QED
  BY <1>2, <1>4, <1>6, <1>9 DEF e, s

\* Growth raises what is due by no more than the liquidity times it.
LEMMA DueOfAccrues ==
  ASSUME NEW owed \in U64, NEW L \in U128, NEW checkpoint \in U128, NEW growth \in U128,
         NEW d \in Nat
  PROVE  DueOf(owed, L, checkpoint, WrapU128(growth + d))
           <= DueOf(owed, L, checkpoint, growth) + L * d
<1> DEFINE w == WrapU128(growth - checkpoint)
           w2 == WrapU128(WrapU128(growth + d) - checkpoint)
           a == TO_Q64 * owed
<1>1. owed \in Nat /\ L \in Nat /\ checkpoint \in Int /\ growth \in Int /\ TO_Q64 \in Nat
  BY WordsAreIntegers, Widths
<1>2. w \in Nat /\ w2 \in Nat /\ w2 <= w + d
  <2>1. w2 = WrapU128((growth + d) - checkpoint)
    BY <1>1, WrapTerm
  <2>2. (growth + d) - checkpoint = (growth - checkpoint) + d /\ growth - checkpoint \in Int
    BY <1>1
  <2>3. w \in Nat /\ WrapU128((growth - checkpoint) + d) <= w + d
    BY <2>2, WrapAtMost
  <2>4. w2 \in U128
    BY <1>1, <2>1, Conversions
  <2>5. w2 \in Nat
    BY <2>4, WordsAreIntegers
  <2> QED
    BY <2>1, <2>2, <2>3, <2>5
<1> HIDE DEF w, w2
<1>3. L * w2 <= L * w + L * d
  <2>1. w2 * L <= (w + d) * L
    BY <1>1, <1>2, MulMonotone
  <2> QED
    BY <1>1, <1>2, <2>1
<1>4. /\ DueOf(owed, L, checkpoint, WrapU128(growth + d)) = a + IF L = 0 THEN 0 ELSE L * w2
      /\ DueOf(owed, L, checkpoint, growth) = a + IF L = 0 THEN 0 ELSE L * w
  BY DEF DueOf, w, w2
<1>5. a \in Int /\ L * w \in Int /\ L * w2 \in Int /\ L * d \in Int /\ (L = 0 => L * d = 0)
  BY <1>1, <1>2
<1> DEFINE x == L * w  y == L * w2  z == L * d
<1> HIDE DEF a, x, y, z
<1>6. (a + IF L = 0 THEN 0 ELSE y) <= (a + IF L = 0 THEN 0 ELSE x) + z
  BY <1>3, <1>5 DEF x, y, z
<1> QED
  BY <1>4, <1>6 DEF x, y, z

\* The growth of the fees inside a range is a word.
LEMMA FeesInsideType ==
  ASSUME NEW current \in Int, NEW all_ticks \in [UsableTicks -> Tick], NEW position,
         position.tick_lower_index \in UsableTicks, position.tick_upper_index \in UsableTicks,
         NEW growths \in [Token -> U128]
  PROVE  FeesInside(current, all_ticks, position, growths) \in [Token -> U128]
<1> DEFINE l == position.tick_lower_index
           u == position.tick_upper_index
           none == [initialized |-> FALSE, emissions_per_second_x64 |-> 0, growth_global_x64 |-> 0]
           infos == [i \in RewardIndex |-> none]
<1>1. l \in UsableTicks /\ u \in UsableTicks /\ all_ticks[l] \in Tick /\ all_ticks[u] \in Tick
  OBVIOUS
<1>2. l \in Int /\ u \in Int
  BY <1>1, ArrayTypes
<1>3. FeesInside(current, all_ticks, position, growths)
        = next_fee_growths_inside(current, all_ticks[l], l, all_ticks[u], u, growths)
  BY DEF FeesInside
<1>4. infos \in [RewardIndex -> WhirlpoolRewardInfo]
  <2>1. 0 \in U128
    BY Widths DEF U128
  <2>2. none \in WhirlpoolRewardInfo
    BY <2>1 DEF WhirlpoolRewardInfo
  <2> HIDE DEF none
  <2> QED
    BY <2>2
<1> HIDE DEF l, u, infos
<1>5. next_fee_growths_inside(current, all_ticks[l], l, all_ticks[u], u, growths) \in [Token -> U128]
  BY <1>1, <1>2, <1>4, GrowthsInsideType
<1> QED
  BY <1>3, <1>5

\* What a position is due in fees is an amount.
LEMMA FeeDueType ==
  ASSUME NEW position \in Position, NEW x \in Token, NEW growth,
         position.liquidity = 0 \/ growth \in U128
  PROVE  /\ FeeDue(position, x, growth) \in Nat
         /\ position.fee_owed[x] \in U64 /\ position.fee_owed[x] \in Nat
         /\ TO_Q64 * position.fee_owed[x] <= FeeDue(position, x, growth)
<1> DEFINE owed == position.fee_owed[x]
           L == position.liquidity
           checkpoint == position.fee_growth_checkpoint[x]
<1>1. owed \in U64 /\ L \in U128 /\ checkpoint \in U128
  BY DEF Position
<1>2. FeeDue(position, x, growth) = DueOf(owed, L, checkpoint, growth)
  BY DEF FeeDue
<1>3. L = 0 \/ growth \in U128
  OBVIOUS
<1> HIDE DEF owed, L, checkpoint
<1>4. /\ owed \in Nat /\ DueOf(owed, L, checkpoint, growth) \in Nat
      /\ TO_Q64 * owed <= DueOf(owed, L, checkpoint, growth)
  BY <1>1, <1>3, DueOfType
<1> QED
  BY <1>1, <1>2, <1>4 DEF owed

\* What positions with sound ranges are due in fees are amounts.
LEMMA FeeDuesType ==
  ASSUME NEW pos \in AllPositions, RangesSound(pos), NEW current \in Int,
         NEW all_ticks \in [UsableTicks -> Tick], NEW growths \in [Token -> U128],
         NEW x \in Token
  PROVE  /\ \A p \in PositionIds :
              /\ pos[p].liquidity = 0 \/ FeesInside(current, all_ticks, pos[p], growths)[x] \in U128
              /\ FeeDue(pos[p], x, FeesInside(current, all_ticks, pos[p], growths)[x]) \in Nat
         /\ FeeDues(pos, current, all_ticks, growths, x) \in [PositionIds -> Nat]
         /\ FeeDues(pos, current, all_ticks, growths, x) \in Amounts
         /\ Sum(FeeDues(pos, current, all_ticks, growths, x)) \in Int
<1>1. ASSUME NEW p \in PositionIds
      PROVE  /\ pos[p].liquidity = 0 \/ FeesInside(current, all_ticks, pos[p], growths)[x] \in U128
             /\ FeeDue(pos[p], x, FeesInside(current, all_ticks, pos[p], growths)[x]) \in Nat
  <2>1. pos[p] \in Position
    BY DEF AllPositions
  <2>2. pos[p].liquidity = 0
        \/ (pos[p].tick_lower_index \in UsableTicks /\ pos[p].tick_upper_index \in UsableTicks)
    BY DEF RangesSound
  <2>3. pos[p].liquidity = 0 \/ FeesInside(current, all_ticks, pos[p], growths)[x] \in U128
    BY <2>1, <2>2, FeesInsideType
  <2> QED
    BY <2>1, <2>3, FeeDueType
<1>2. FeeDues(pos, current, all_ticks, growths, x) \in [PositionIds -> Nat]
  BY <1>1 DEF FeeDues
<1>3. FeeDues(pos, current, all_ticks, growths, x) \in Amounts
  BY <1>2 DEF Amounts
<1> QED
  BY <1>1, <1>2, <1>3, SumOfInts

\* A position that is settled is due no more fees afterwards
\* (manager/position_manager.rs).
LEMMA SettledFees ==
  ASSUME NEW position \in Position, NEW delta, NEW inside \in [Token -> U128], NEW reward_growths,
         NEW pos2,
         pos2 = next_position_modify_liquidity_update(position, delta, inside, reward_growths),
         NEW x \in Token, NEW growth, pos2.liquidity = 0 \/ growth = inside[x],
         pos2.liquidity \in U128
  PROVE  FeeDue(pos2, x, growth) <= FeeDue(position, x, inside[x])
<1> DEFINE owed == position.fee_owed[x]
           L == position.liquidity
           checkpoint == position.fee_growth_checkpoint[x]
           o2 == WrapU64(owed + GrowthEarned(L, inside[x], checkpoint))
           g == inside[x]
           L2 == pos2.liquidity
<1>1. owed \in U64 /\ L \in U128 /\ checkpoint \in U128 /\ g \in U128
  BY DEF Position
<1>2. pos2.fee_growth_checkpoint[x] = g /\ pos2.fee_owed[x] = o2
  BY DEF next_position_modify_liquidity_update, Position
<1>3. /\ FeeDue(pos2, x, growth) = TO_Q64 * o2 + IF L2 = 0 THEN 0 ELSE L2 * WrapU128(growth - g)
      /\ FeeDue(position, x, g) = DueOf(owed, L, checkpoint, g)
  BY <1>2 DEF FeeDue, DueOf
<1>4. L2 = 0 \/ growth = g
  OBVIOUS
<1>5. L2 \in U128
  OBVIOUS
<1> HIDE DEF owed, L, checkpoint, g, L2
<1>6. o2 \in Nat /\ TO_Q64 * o2 <= DueOf(owed, L, checkpoint, g) /\ TO_Q64 \in Nat
  BY <1>1, SettledDueOf, Widths DEF g
<1>7. L2 # 0 => L2 * WrapU128(growth - g) = 0
  <2> SUFFICES ASSUME L2 # 0 PROVE L2 * WrapU128(growth - g) = 0
    OBVIOUS
  <2>1. g \in Int /\ growth = g /\ L2 \in Int
    BY <1>1, <1>4, <1>5, WordsAreIntegers
  <2>2. growth - g = 0
    BY <2>1
  <2>3. WrapU128(0) = 0
    <3>1. 0 \in U128
      BY Widths DEF U128
    <3> QED
      BY <3>1, WrapWord
  <2> QED
    BY <2>1, <2>2, <2>3
<1> HIDE DEF o2
<1>8. FeeDue(pos2, x, growth) = TO_Q64 * o2
  BY <1>3, <1>6, <1>7
<1> QED
  BY <1>3, <1>6, <1>8 DEF g

\* A tick that is initialized after its update keeps the fees' growth outside it,
\* or becomes initialized with all growth so far below it (tick_manager.rs).
LEMMA FeeTickContinues ==
  ASSUME NEW tick \in Tick, tick.initialized <=> tick.liquidity_gross > 0,
         NEW tick_index, NEW current, NEW growths, NEW infos, NEW delta, NEW is_upper_tick,
         NEW t2,
         t2 = next_tick_modify_liquidity_update(tick, tick_index, current, growths, infos, delta,
                                                is_upper_tick),
         NEW x \in Token, t2.initialized
  PROVE  Continued(tick, t2, tick_index, current, growths[x],
                   tick.fee_growth_outside[x], t2.fee_growth_outside[x])
<1> DEFINE new == [initialized     |-> TRUE,
                   liquidity_gross |-> GrossAfter(tick, delta),
                   liquidity_net   |-> NetAfter(tick, delta, is_upper_tick),
                   fee_growth_outside |->
                     IF tick.liquidity_gross # 0 THEN tick.fee_growth_outside
                     ELSE [y \in Token |-> OutsideAtInit(tick_index, current, growths[y])],
                   reward_growths_outside |->
                     IF tick.liquidity_gross # 0 THEN tick.reward_growths_outside
                     ELSE [j \in RewardIndex |->
                             OutsideAtInit(tick_index, current, infos[j].growth_global_x64)]]
<1>1. tick.liquidity_gross \in Nat
  <2>1. tick.liquidity_gross \in U128
    BY DEF Tick
  <2> QED
    BY <2>1, WordsAreIntegers
<1>2. CASE delta = 0
  BY <1>2 DEF next_tick_modify_liquidity_update, Continued
<1>3. CASE delta # 0 /\ GrossAfter(tick, delta) = 0
  <2>1. t2 = DefaultTick
    BY <1>3 DEF next_tick_modify_liquidity_update
  <2> QED
    BY <2>1 DEF DefaultTick
<1>4. CASE delta # 0 /\ GrossAfter(tick, delta) # 0
  <2>1. t2 = new
    BY <1>4 DEF next_tick_modify_liquidity_update
  <2>2. /\ t2.initialized
        /\ t2.fee_growth_outside[x] = IF tick.liquidity_gross # 0
                                      THEN tick.fee_growth_outside[x]
                                      ELSE OutsideAtInit(tick_index, current, growths[x])
    BY <2>1
  <2>3. CASE tick.liquidity_gross # 0
    BY <1>1, <2>2, <2>3 DEF Continued
  <2>4. CASE tick.liquidity_gross = 0
    BY <1>1, <2>2, <2>4 DEF Continued, OutsideAtInit
  <2> QED
    BY <2>3, <2>4
<1> QED
  BY <1>2, <1>3, <1>4

\* An update of tick t continues its growth of the fees in x.
FeesContinued(all_ticks, ticks2, t, current, growths, x) ==
  Continued(all_ticks[t], ticks2[t], t, current, growths[x],
            all_ticks[t].fee_growth_outside[x], ticks2[t].fee_growth_outside[x])

\* The growth inside a range is the same after an update of its boundary ticks.
LEMMA FeesInsideContinue ==
  ASSUME NEW current \in Int, NEW all_ticks, NEW ticks2, NEW position,
         NEW growths \in [Token -> U128], NEW x \in Token,
         position.tick_lower_index \in Int, position.tick_upper_index \in Int,
         FeesContinued(all_ticks, ticks2, position.tick_lower_index, current, growths, x),
         FeesContinued(all_ticks, ticks2, position.tick_upper_index, current, growths, x)
  PROVE  FeesInside(current, ticks2, position, growths)[x]
           = FeesInside(current, all_ticks, position, growths)[x]
<1> DEFINE l == position.tick_lower_index
           u == position.tick_upper_index
           g == growths[x]
           ol == all_ticks[l].fee_growth_outside[x]
           ou == all_ticks[u].fee_growth_outside[x]
           ol2 == ticks2[l].fee_growth_outside[x]
           ou2 == ticks2[u].fee_growth_outside[x]
<1>1. g \in U128
  OBVIOUS
<1>2. /\ Continued(all_ticks[l], ticks2[l], l, current, g, ol, ol2)
      /\ Continued(all_ticks[u], ticks2[u], u, current, g, ou, ou2)
      /\ l \in Int /\ u \in Int
  BY DEF FeesContinued
<1> DEFINE lower == all_ticks[l]
           upper == all_ticks[u]
           lower2 == ticks2[l]
           upper2 == ticks2[u]
<1>3. GrowthBelow(lower2, l, current, g, ol2) = GrowthBelow(lower, l, current, g, ol)
  <2> HIDE DEF l, g, ol, ol2, lower, lower2
  <2> QED
    BY <1>1, <1>2, GrowthContinues DEF lower, lower2
<1>4. GrowthAbove(upper2, u, current, g, ou2) = GrowthAbove(upper, u, current, g, ou)
  <2> HIDE DEF u, g, ou, ou2, upper, upper2
  <2> QED
    BY <1>1, <1>2, GrowthContinues DEF upper, upper2
<1> QED
  BY <1>3, <1>4 DEF FeesInside, next_fee_growths_inside

-----------------------------------------------------------------------------
(* Inverses of prices *)

\* The prices of the ticks have a common multiple.
LEMMA MultipleExists == \E m : CommonMultiple(m)
<1> DEFINE top == MAX_TICK_INDEX - MIN_TICK_INDEX
           Upto(m, n) == m \in Nat \ {0}
                         /\ \A t \in TickIndices : t <= MIN_TICK_INDEX + n =>
                              \E k \in Nat : m = k * SqrtPrice[t]
           Missing == {n \in 0 .. top : ~\E m : Upto(m, n)}
<1>1. /\ MIN_TICK_INDEX \in Int /\ MAX_TICK_INDEX \in Int /\ top \in Nat
      /\ TickIndices = MIN_TICK_INDEX .. MAX_TICK_INDEX
  BY ArrayTypes DEF TickIndices
<1>2. \A t \in TickIndices : SqrtPrice[t] \in Nat \ {0}
  BY PriceBounds
<1>3. 0 \notin Missing
  <2> DEFINE m == SqrtPrice[MIN_TICK_INDEX]
  <2>1. MIN_TICK_INDEX \in TickIndices
    BY PriceBounds
  <2>2. m \in Nat \ {0} /\ m = 1 * m
    BY <1>2, <2>1
  <2>3. ASSUME NEW t \in TickIndices, t <= MIN_TICK_INDEX + 0
        PROVE  \E k \in Nat : m = k * SqrtPrice[t]
    <3>1. t = MIN_TICK_INDEX
      BY <1>1, <2>3
    <3> QED
      BY <2>2, <3>1
  <2> HIDE DEF m
  <2>4. Upto(m, 0)
    BY <2>2, <2>3
  <2> HIDE DEF Upto
  <2> QED
    BY <2>4
<1>4. ASSUME NEW n \in 0 .. top, n \notin Missing, n + 1 \in 0 .. top PROVE n + 1 \notin Missing
  <2>1. PICK m : Upto(m, n)
    BY <1>4
  <2> DEFINE u == MIN_TICK_INDEX + (n + 1)
             q == SqrtPrice[u]
             m2 == m * q
  <2>2. u \in TickIndices
    BY <1>1, <1>4
  <2>3. q \in Nat \ {0} /\ m \in Nat \ {0}
    BY <1>2, <2>1, <2>2
  <2>4. m2 \in Nat \ {0}
    <3> HIDE DEF q
    <3>1. m * q > 0 * q
      BY <2>3
    <3> QED
      BY <2>3, <3>1
  <2>5. ASSUME NEW t \in TickIndices, t <= MIN_TICK_INDEX + (n + 1)
        PROVE  \E k \in Nat : m2 = k * SqrtPrice[t]
    <3>1. CASE t = u
      BY <2>3, <3>1
    <3>2. CASE t # u
      <4>1. t <= MIN_TICK_INDEX + n
        BY <1>1, <1>4, <2>5, <3>2
      <4>2. PICK k \in Nat : m = k * SqrtPrice[t]
        BY <2>1, <4>1
      <4>3. SqrtPrice[t] \in Nat
        BY <1>2
      <4> DEFINE s == SqrtPrice[t]
                 k2 == k * q
      <4> HIDE DEF q, s
      <4>4. m2 = k2 * s /\ k2 \in Nat
        BY <2>3, <4>2, <4>3 DEF s
      <4> QED
        BY <4>4 DEF s
    <3> QED
      BY <3>1, <3>2
  <2> HIDE DEF m2
  <2>6. Upto(m2, n + 1)
    BY <2>4, <2>5
  <2> HIDE DEF Upto
  <2> QED
    BY <2>6
<1>5. Missing = {}
  <2> SUFFICES ASSUME Missing # {} PROVE FALSE
    OBVIOUS
  <2>1. Missing \in SUBSET Nat /\ Missing \subseteq 0 .. top
    BY <1>1
  <2> HIDE DEF Missing
  <2>2. PICK n \in Missing : \A k \in Missing : n <= k
    BY <2>1, NatMin
  <2>3. n \in 0 .. top /\ n # 0
    BY <1>3, <2>1, <2>2
  <2>4. n - 1 \in 0 .. top /\ (n - 1) + 1 = n /\ ~(n <= n - 1)
    BY <1>1, <2>3
  <2>5. n - 1 \notin Missing
    BY <2>2, <2>4
  <2> QED
    BY <1>4, <2>2, <2>3, <2>4, <2>5
<1>6. top \in 0 .. top /\ top \notin Missing
  <2>1. top \in 0 .. top
    BY <1>1
  <2> HIDE DEF Missing
  <2> QED
    BY <1>5, <2>1
<1>7. PICK m : Upto(m, top)
  BY <1>6
<1>8. CommonMultiple(m)
  <2>1. MIN_TICK_INDEX + top = MAX_TICK_INDEX
    BY <1>1
  <2>2. \A t \in TickIndices : t <= MIN_TICK_INDEX + top
    BY <1>1, <2>1
  <2> QED
    BY <1>7, <2>2 DEF CommonMultiple
<1> QED
  BY <1>8

\* The multiple and the inverses of prices are naturals.
LEMMA Inverses ==
  /\ Multiple \in Nat \ {0}
  /\ \A t \in TickIndices : /\ Inverse(t) \in Nat
                            /\ SqrtPrice[t] \in Nat \ {0}
                            /\ Multiple = Inverse(t) * SqrtPrice[t]
<1>1. CommonMultiple(Multiple)
  BY MultipleExists DEF Multiple
<1>2. ASSUME NEW t \in TickIndices
      PROVE  Inverse(t) \in Nat /\ Multiple = Inverse(t) * SqrtPrice[t]
  <2>1. \E k \in Nat : Multiple = k * SqrtPrice[t]
    BY <1>1 DEF CommonMultiple
  <2> QED
    BY <2>1 DEF Inverse
<1> QED
  BY <1>1, <1>2, PriceBounds DEF CommonMultiple

-----------------------------------------------------------------------------
(* What a position holds *)

\* What a unit of liquidity in a range holds, as ClaimsA and ClaimsB count it.
HoldsA(l, u, current, price) ==
  (IF l <= current /\ current < u THEN Multiple ELSE 0)
  + price * (Ahead(l, current) - Ahead(u, current))

HoldsB(l, u, current, price) ==
  (IF l <= current /\ current < u THEN price ELSE 0)
  + (Behind(u, current) - Behind(l, current))

ClaimsOfA(pos, current, price) ==
  [p \in PositionIds |->
     IF pos[p].liquidity = 0 THEN 0
     ELSE pos[p].liquidity
          * HoldsA(pos[p].tick_lower_index, pos[p].tick_upper_index, current, price)]

ClaimsOfB(pos, current, price) ==
  [p \in PositionIds |->
     IF pos[p].liquidity = 0 THEN 0
     ELSE pos[p].liquidity
          * HoldsB(pos[p].tick_lower_index, pos[p].tick_upper_index, current, price)]

\* The sum of a combination is the combination of the sums.
LEMMA SumCombines ==
  ASSUME NEW f \in Amounts, NEW g \in Amounts, NEW h \in Amounts, NEW k \in Int, NEW m \in Int,
         \A p \in PositionIds : h[p] = k * f[p] + m * g[p]
  PROVE  Sum(h) = k * Sum(f) + m * Sum(g)
<1> DEFINE f2 == [p \in PositionIds |-> k * f[p]]
           g2 == [p \in PositionIds |-> m * g[p]]
<1>1. /\ f2 \in Amounts /\ \A p \in PositionIds : f2[p] = k * f[p]
      /\ g2 \in Amounts /\ \A p \in PositionIds : g2[p] = m * g[p]
  BY DEF Amounts
<1> HIDE DEF f2, g2
<1>2. Sum(f2) = k * Sum(f) /\ Sum(g2) = m * Sum(g)
  BY <1>1, SumScales
<1>3. \A p \in PositionIds : h[p] = f2[p] + g2[p]
  BY <1>1
<1>4. Sum(h) = Sum(f2) + Sum(g2)
  BY <1>1, <1>3, SumAdds
<1> QED
  BY <1>2, <1>4

\* A boundary's terms are naturals.
LEMMA BoundaryTypes ==
  ASSUME NEW b \in TickIndices, NEW current \in Int
  PROVE  Ahead(b, current) \in Nat /\ Behind(b, current) \in Nat
BY Inverses DEF Ahead, Behind

\* What a unit holds is an integer.
LEMMA HoldsTypes ==
  ASSUME NEW l \in TickIndices, NEW u \in TickIndices, NEW current \in Int, NEW price \in Nat
  PROVE  HoldsA(l, u, current, price) \in Int /\ HoldsB(l, u, current, price) \in Int
<1>1. /\ Ahead(l, current) \in Nat /\ Ahead(u, current) \in Nat
      /\ Behind(l, current) \in Nat /\ Behind(u, current) \in Nat
  BY BoundaryTypes
<1>2. Multiple \in Nat
  BY Inverses
<1> QED
  BY <1>1, <1>2 DEF HoldsA, HoldsB

\* A position with liquidity has boundaries on the tick line.
LEMMA RangeOfPosition ==
  ASSUME NEW pos \in AllPositions, RangesSound(pos), NEW p \in PositionIds
  PROVE  /\ pos[p] \in Position /\ pos[p].liquidity \in U128 /\ pos[p].liquidity \in Nat
         /\ pos[p].liquidity # 0 =>
              /\ pos[p].tick_lower_index \in UsableTicks /\ pos[p].tick_lower_index \in TickIndices
              /\ pos[p].tick_upper_index \in UsableTicks /\ pos[p].tick_upper_index \in TickIndices
              /\ pos[p].tick_lower_index < pos[p].tick_upper_index
<1>1. pos[p] \in Position
  BY DEF AllPositions
<1>2. pos[p].liquidity \in U128
  BY <1>1 DEF Position
<1>3. pos[p].liquidity \in Nat
  BY <1>2, WordsAreIntegers
<1> QED
  BY <1>1, <1>2, <1>3, ArrayTypes DEF RangesSound

\* The terms of positions with sound ranges are amounts.
LEMMA HeldTypes ==
  ASSUME NEW pos \in AllPositions, RangesSound(pos), NEW current \in Int
  PROVE  /\ HeldAhead(pos, current) \in Amounts /\ Sum(HeldAhead(pos, current)) \in Int
         /\ HeldBehind(pos, current) \in Amounts /\ Sum(HeldBehind(pos, current)) \in Int
         /\ RangeShare(pos, current) \in Amounts /\ Sum(RangeShare(pos, current)) \in Int
<1>1. ASSUME NEW p \in PositionIds
      PROVE  /\ HeldAhead(pos, current)[p] \in Int
             /\ HeldBehind(pos, current)[p] \in Int
  <2> DEFINE L == pos[p].liquidity
             l == pos[p].tick_lower_index
             u == pos[p].tick_upper_index
  <2>1. L \in Nat /\ (L # 0 => l \in TickIndices /\ u \in TickIndices)
    BY RangeOfPosition
  <2>2. /\ HeldAhead(pos, current)[p] = IF L = 0 THEN 0 ELSE L * (Ahead(l, current) - Ahead(u, current))
        /\ HeldBehind(pos, current)[p] = IF L = 0 THEN 0 ELSE L * (Behind(u, current) - Behind(l, current))
    BY DEF HeldAhead, HeldBehind
  <2> HIDE DEF L, l, u
  <2>3. CASE L = 0
    BY <2>2, <2>3
  <2>4. CASE L # 0
    BY <2>1, <2>2, <2>4, BoundaryTypes
  <2> QED
    BY <2>3, <2>4
<1>2. HeldAhead(pos, current) \in Amounts /\ HeldBehind(pos, current) \in Amounts
  BY <1>1 DEF HeldAhead, HeldBehind, Amounts
<1>3. RangeShare(pos, current) \in Amounts
  BY ShareTypes
<1> QED
  BY <1>2, <1>3, SumOfInts

\* The claims are the sums of what the positions hold.
LEMMA ClaimsAreSums ==
  ASSUME NEW pos \in AllPositions, RangesSound(pos), NEW current \in Int, NEW price \in Nat
  PROVE  /\ ClaimsOfA(pos, current, price) \in Amounts
         /\ ClaimsA(pos, current, price) = Sum(ClaimsOfA(pos, current, price))
         /\ ClaimsA(pos, current, price) \in Int
         /\ ClaimsOfB(pos, current, price) \in Amounts
         /\ ClaimsB(pos, current, price) = Sum(ClaimsOfB(pos, current, price))
         /\ ClaimsB(pos, current, price) \in Int
<1> DEFINE R == RangeShare(pos, current)
           HA == HeldAhead(pos, current)
           HB == HeldBehind(pos, current)
           CA == ClaimsOfA(pos, current, price)
           CB == ClaimsOfB(pos, current, price)
<1>1. R \in Amounts /\ HA \in Amounts /\ HB \in Amounts /\ Multiple \in Int
  BY HeldTypes, Inverses
<1>2. ASSUME NEW p \in PositionIds
      PROVE  /\ CA[p] \in Int /\ CA[p] = Multiple * R[p] + price * HA[p]
             /\ CB[p] \in Int /\ CB[p] = price * R[p] + 1 * HB[p]
  <2> DEFINE L == pos[p].liquidity
             l == pos[p].tick_lower_index
             u == pos[p].tick_upper_index
             aa == Ahead(l, current) - Ahead(u, current)
             bb == Behind(u, current) - Behind(l, current)
             in == l <= current /\ current < u
  <2>1. L \in Nat /\ (L # 0 => l \in TickIndices /\ u \in TickIndices)
    BY RangeOfPosition
  <2>2. /\ HA[p] = IF L = 0 THEN 0 ELSE L * aa
        /\ HB[p] = IF L = 0 THEN 0 ELSE L * bb
        /\ R[p] = IF in THEN L ELSE 0
        /\ CA[p] = IF L = 0 THEN 0 ELSE L * ((IF in THEN Multiple ELSE 0) + price * aa)
        /\ CB[p] = IF L = 0 THEN 0 ELSE L * ((IF in THEN price ELSE 0) + bb)
    BY DEF HeldAhead, HeldBehind, RangeShare, InRange, ClaimsOfA, ClaimsOfB, HoldsA, HoldsB
  <2>3. L # 0 => aa \in Int /\ bb \in Int
    BY <2>1, BoundaryTypes
  <2>4. in \in BOOLEAN
    OBVIOUS
  <2> HIDE DEF L, l, u, aa, bb, in, R, HA, HB, CA, CB
  <2>5. CASE L = 0
    BY <1>1, <2>2, <2>5
  <2>6. CASE L # 0 /\ in
    <3>1. /\ CA[p] = L * (Multiple + price * aa) /\ CB[p] = L * (price + bb)
          /\ HA[p] = L * aa /\ HB[p] = L * bb /\ R[p] = L
      BY <2>2, <2>6
    <3>2. L * (Multiple + price * aa) = Multiple * L + price * (L * aa)
      BY <1>1, <2>1, <2>3, <2>6
    <3>3. L * (price + bb) = price * L + 1 * (L * bb)
      BY <1>1, <2>1, <2>3, <2>6
    <3> QED
      BY <1>1, <2>1, <2>3, <2>6, <3>1, <3>2, <3>3
  <2>7. CASE L # 0 /\ ~in
    <3>1. /\ CA[p] = L * (0 + price * aa) /\ CB[p] = L * (0 + bb)
          /\ HA[p] = L * aa /\ HB[p] = L * bb /\ R[p] = 0
      BY <2>2, <2>7
    <3>2. L * (0 + price * aa) = Multiple * 0 + price * (L * aa)
      BY <1>1, <2>1, <2>3, <2>7
    <3>3. L * (0 + bb) = price * 0 + 1 * (L * bb)
      BY <1>1, <2>1, <2>3, <2>7
    <3> QED
      BY <1>1, <2>1, <2>3, <2>7, <3>1, <3>2, <3>3
  <2> QED
    BY <2>4, <2>5, <2>6, <2>7
<1>3. CA \in Amounts /\ CB \in Amounts
  BY <1>2 DEF Amounts, ClaimsOfA, ClaimsOfB
<1> HIDE DEF R, HA, HB, CA, CB
<1>4. /\ Sum(CA) = Multiple * Sum(R) + price * Sum(HA)
      /\ Sum(CB) = price * Sum(R) + 1 * Sum(HB)
  <2>1. price \in Int /\ 1 \in Int
    OBVIOUS
  <2>2. Sum(CA) = Multiple * Sum(R) + price * Sum(HA)
    <3> DEFINE M == Multiple
    <3>1. \A p \in PositionIds : CA[p] = M * R[p] + price * HA[p]
      BY <1>2
    <3>2. M \in Int /\ price \in Int /\ R \in Amounts /\ HA \in Amounts /\ CA \in Amounts
      BY <1>1, <1>3, <2>1
    <3> HIDE DEF M
    <3>3. Sum(CA) = M * Sum(R) + price * Sum(HA)
      BY <3>1, <3>2, SumCombines
    <3> QED
      BY <3>3 DEF M
  <2>3. Sum(CB) = price * Sum(R) + 1 * Sum(HB)
    <3> DEFINE k == 1
    <3>1. k \in Int /\ \A p \in PositionIds : CB[p] = price * R[p] + k * HB[p]
      BY <1>2
    <3> HIDE DEF k
    <3>2. Sum(CB) = price * Sum(R) + k * Sum(HB)
      BY <1>1, <1>3, <2>1, <3>1, SumCombines
    <3> QED
      BY <3>2 DEF k
  <2> QED
    BY <2>2, <2>3
<1>5. Sum(R) \in Int /\ Sum(HA) \in Int /\ Sum(HB) \in Int /\ Sum(CA) \in Int /\ Sum(CB) \in Int
  BY <1>1, <1>3, SumOfInts
<1>6. /\ ClaimsA(pos, current, price) = Multiple * Sum(R) + price * Sum(HA)
      /\ ClaimsB(pos, current, price) = price * Sum(R) + Sum(HB)
  BY DEF ClaimsA, ClaimsB, R, HA, HB
<1>7. ClaimsA(pos, current, price) = Sum(CA) /\ ClaimsB(pos, current, price) = Sum(CB)
  BY <1>4, <1>5, <1>6
<1> QED
  BY <1>3, <1>5, <1>7 DEF CA, CB

\* A price that a tick holds lies between the prices of the ticks around it.
LEMMA PriceAround ==
  ASSUME NEW current, NEW price, TickHoldsPrice(current, price), NEW b \in TickIndices
  PROVE  /\ current \in Int /\ price \in PriceRange /\ price \in Nat \ {0}
         /\ b <= current => SqrtPrice[b] <= price
         /\ current < b => price <= SqrtPrice[b]
<1>1. /\ current \in (MIN_TICK_INDEX - 1) .. MAX_TICK_INDEX
      /\ current >= MIN_TICK_INDEX => SqrtPrice[current] <= price
      /\ current < MAX_TICK_INDEX => price <= SqrtPrice[current + 1]
      /\ price \in PriceRange
  BY DEF TickHoldsPrice, PriceRange
<1>2. /\ MIN_TICK_INDEX \in Int /\ MAX_TICK_INDEX \in Int /\ b \in Int
      /\ TickIndices = MIN_TICK_INDEX .. MAX_TICK_INDEX
  BY ArrayTypes DEF TickIndices
<1>3. current \in Int /\ price \in Nat \ {0} /\ SqrtPrice[b] \in Nat
  <2>1. current \in Int
    BY <1>1, <1>2
  <2>2. price \in Nat \ {0}
    BY <1>1, PriceBounds
  <2>3. SqrtPrice[b] \in Nat
    BY PriceBounds
  <2> QED
    BY <2>1, <2>2, <2>3
<1>4. ASSUME b <= current PROVE SqrtPrice[b] <= price
  <2>1. current \in TickIndices /\ current >= MIN_TICK_INDEX
    BY <1>1, <1>2, <1>3, <1>4
  <2>2. SqrtPrice[b] <= SqrtPrice[current] /\ SqrtPrice[current] \in Nat
    BY <1>4, <2>1, PricesIncrease, PriceBounds
  <2> QED
    BY <1>1, <1>3, <2>1, <2>2
<1>5. ASSUME current < b PROVE price <= SqrtPrice[b]
  <2>1. current + 1 \in TickIndices /\ current < MAX_TICK_INDEX /\ current + 1 <= b
    BY <1>1, <1>2, <1>3, <1>5
  <2>2. SqrtPrice[current + 1] <= SqrtPrice[b] /\ SqrtPrice[current + 1] \in Nat
    BY <2>1, PricesIncrease, PriceBounds
  <2> QED
    BY <1>1, <1>3, <2>1, <2>2
<1> QED
  BY <1>1, <1>3, <1>4, <1>5

\* The inverse of a greater price is not greater.
LEMMA InverseOrder ==
  ASSUME NEW l \in TickIndices, NEW u \in TickIndices, l < u
  PROVE  Inverse(u) <= Inverse(l)
<1> DEFINE i == Inverse(l)  j == Inverse(u)  p == SqrtPrice[l]  q == SqrtPrice[u]
<1>1. /\ i \in Nat /\ j \in Nat /\ p \in Nat \ {0} /\ q \in Nat \ {0} /\ i * p = j * q
  BY Inverses
<1>2. p <= q
  <2>1. l \in Int /\ u \in Int
    BY ArrayTypes
  <2> QED
    BY <2>1, PricesIncrease
<1> HIDE DEF i, j, p, q
<1>3. p * j <= q * j
  BY <1>1, <1>2, MulMonotone
<1>4. j * p <= i * p
  BY <1>1, <1>3
<1>5. j <= i
  BY <1>1, <1>4, MulCancel
<1> QED
  BY <1>5 DEF i, j

\* No position holds less than nothing.
LEMMA HoldsNatural ==
  ASSUME NEW l \in TickIndices, NEW u \in TickIndices, l < u,
         NEW current, NEW price, TickHoldsPrice(current, price)
  PROVE  HoldsA(l, u, current, price) \in Nat /\ HoldsB(l, u, current, price) \in Nat
<1> DEFINE i == Inverse(l)  j == Inverse(u)  p == SqrtPrice[l]  q == SqrtPrice[u]
           M == Multiple
<1>1. /\ i \in Nat /\ j \in Nat /\ p \in Nat \ {0} /\ q \in Nat \ {0} /\ M \in Nat
      /\ M = i * p /\ M = j * q
  BY Inverses
<1>2. j <= i
  BY InverseOrder
<1>3. /\ current \in Int /\ price \in Nat /\ l \in Int /\ u \in Int
      /\ l <= current => p <= price
      /\ current < u => price <= q
      /\ p <= q
  <2>1. l \in Int /\ u \in Int
    BY ArrayTypes
  <2> QED
    BY <2>1, PriceAround, PricesIncrease
<1>4. /\ HoldsA(l, u, current, price)
           = (IF l <= current /\ current < u THEN M ELSE 0)
             + price * ((IF current < l THEN i ELSE 0) - (IF current < u THEN j ELSE 0))
      /\ HoldsB(l, u, current, price)
           = (IF l <= current /\ current < u THEN price ELSE 0)
             + ((IF current < u THEN 0 ELSE q) - (IF current < l THEN 0 ELSE p))
  BY DEF HoldsA, HoldsB, Ahead, Behind
<1> HIDE DEF i, j, p, q, M
<1>5. CASE current < l
  <2>1. HoldsA(l, u, current, price) = price * (i - j) /\ HoldsB(l, u, current, price) = 0
    BY <1>1, <1>3, <1>4, <1>5
  <2>2. i - j \in Nat
    BY <1>1, <1>2
  <2> DEFINE d == i - j
  <2> HIDE DEF d
  <2>3. price * d \in Nat
    BY <1>3, <2>2 DEF d
  <2> QED
    BY <2>1, <2>3 DEF d
<1>6. CASE l <= current /\ current < u
  <2>1. HoldsA(l, u, current, price) = M + price * (0 - j) /\ HoldsB(l, u, current, price) = price - p
    BY <1>1, <1>3, <1>4, <1>6
  <2>2. price * j <= q * j
    BY <1>1, <1>3, <1>6, MulMonotone
  <2>3. price * (0 - j) = -(price * j) /\ price * j \in Nat /\ q * j = j * q
    BY <1>1, <1>3
  <2>4. M + price * (0 - j) \in Nat
    BY <1>1, <2>2, <2>3
  <2>5. price - p \in Nat
    BY <1>1, <1>3, <1>6
  <2> QED
    BY <2>1, <2>4, <2>5
<1>7. CASE u <= current
  <2>1. HoldsA(l, u, current, price) = 0 /\ HoldsB(l, u, current, price) = q - p
    BY <1>1, <1>3, <1>4, <1>7
  <2> QED
    BY <1>1, <1>3, <2>1
<1> QED
  BY <1>3, <1>5, <1>6, <1>7
-----------------------------------------------------------------------------
(* What a range is worth *)

\* x is y rounded, up or down, and perhaps more than once.
Rounds(round_up, x, y) == IF round_up THEN y <= x ELSE x <= y

\* Rounded amounts may be multiplied.
LEMMA RoundsTimes ==
  ASSUME NEW round_up \in BOOLEAN, NEW x \in Int, NEW y \in Int, NEW c \in Nat,
         Rounds(round_up, x, y)
  PROVE  Rounds(round_up, x * c, y * c)
BY MulMonotone DEF Rounds

\* A factor of both may be dropped.
LEMMA RoundsOver ==
  ASSUME NEW round_up \in BOOLEAN, NEW x \in Int, NEW y \in Int, NEW c \in Nat \ {0},
         Rounds(round_up, x * c, y * c)
  PROVE  Rounds(round_up, x, y)
BY MulCancel DEF Rounds

\* Token a of a range above the price, in terms of the inverses of its prices.
LEMMA WorthAbove ==
  ASSUME NEW round_up \in BOOLEAN, NEW p \in Nat, NEW q \in Nat, NEW i \in Nat, NEW j \in Nat,
         NEW M \in Nat \ {0}, M = i * p, M = j * q,
         NEW Q \in Nat, NEW L \in Nat, NEW v \in Nat, NEW price \in Nat,
         Rounds(round_up, v * (q * p), (L * (q - p)) * Q)
  PROVE  Rounds(round_up, v * (price * M), Q * (L * (price * (i - j))))
<1> DEFINE x == v * (q * p)
           y == (L * (q - p)) * Q
           c == i * j
           d == i - j
           z == Q * (L * d)
<1>1. x \in Int /\ y \in Int /\ c \in Nat /\ d \in Int
  <2>1. q * p \in Int /\ L * (q - p) \in Int
    OBVIOUS
  <2> QED
    BY <2>1
<1>2. z \in Int /\ v * M \in Int
  <2> HIDE DEF d
  <2> QED
    BY <1>1
<1>3. Rounds(round_up, x * c, y * c)
  <2> HIDE DEF x, y, c
  <2> QED
    BY <1>1, RoundsTimes DEF x, y
<1>4. x * c = (v * M) * M
  <2>1. x * c = v * ((i * p) * (j * q))
    OBVIOUS
  <2>2. v * (M * M) = (v * M) * M
    OBVIOUS
  <2> QED
    BY <2>1, <2>2
<1>5. y * c = z * M
  <2>1. (q - p) * c = (j * q) * i - (i * p) * j
    OBVIOUS
  <2>2. M * i - M * j = d * M
    OBVIOUS
  <2>3. (q - p) * c = d * M
    BY <2>1, <2>2
  <2>4. y * c = (Q * L) * ((q - p) * c)
    <3> DEFINE w == q - p
    <3>1. w \in Int
      OBVIOUS
    <3> HIDE DEF w, c
    <3>2. ((L * w) * Q) * c = (Q * L) * (w * c)
      BY <1>1, <3>1
    <3> QED
      BY <3>2 DEF w
  <2>5. z * M = (Q * L) * (d * M)
    <3> HIDE DEF d
    <3> QED
      BY <1>1
  <2> QED
    BY <2>3, <2>4, <2>5
<1>6. Rounds(round_up, v * M, z)
  <2> HIDE DEF x, y, c, z
  <2>1. Rounds(round_up, (v * M) * M, z * M)
    BY <1>3, <1>4, <1>5
  <2> QED
    BY <1>2, <2>1, RoundsOver
<1>7. Rounds(round_up, (v * M) * price, z * price)
  <2> HIDE DEF z
  <2> QED
    BY <1>2, <1>6, RoundsTimes
<1>8. (v * M) * price = v * (price * M) /\ z * price = Q * (L * (price * d))
  <2> HIDE DEF d
  <2> QED
    BY <1>1
<1> QED
  BY <1>7, <1>8

\* Token a of a range around the price.
LEMMA WorthAround ==
  ASSUME NEW round_up \in BOOLEAN, NEW q \in Nat, NEW j \in Nat,
         NEW M \in Nat, M = j * q,
         NEW Q \in Nat, NEW L \in Nat, NEW v \in Nat, NEW price \in Nat,
         Rounds(round_up, v * (q * price), (L * (q - price)) * Q)
  PROVE  Rounds(round_up, v * (price * M), Q * (L * (M + price * (0 - j))))
<1> DEFINE x == v * (q * price)
           y == (L * (q - price)) * Q
<1>1. x \in Int /\ y \in Int
  <2>1. q * price \in Int /\ L * (q - price) \in Int
    OBVIOUS
  <2> QED
    BY <2>1
<1>2. Rounds(round_up, x * j, y * j)
  <2> HIDE DEF x, y
  <2> QED
    BY <1>1, RoundsTimes DEF x, y
<1>3. x * j = v * (price * M)
  <2>1. x * j = v * (price * (j * q))
    OBVIOUS
  <2> QED
    BY <2>1
<1>4. y * j = Q * (L * (M + price * (0 - j)))
  <2> DEFINE w == (q - price) * j
  <2>1. w = M + price * (0 - j) /\ w \in Int
    <3>1. w = j * q + price * (0 - j)
      OBVIOUS
    <3> QED
      BY <3>1
  <2>2. y * j = Q * (L * w)
    <3> DEFINE e == q - price
    <3>1. e \in Int
      OBVIOUS
    <3> HIDE DEF e
    <3>2. ((L * e) * Q) * j = Q * (L * (e * j))
      BY <3>1
    <3> QED
      BY <3>2 DEF e
  <2> HIDE DEF w
  <2> QED
    BY <2>1, <2>2
<1> QED
  BY <1>2, <1>3, <1>4

\* The amount of a token for a range, as the program computes it.
RangeAmount(x, l, u, current, price, L, round_up) ==
  IF x = "a"
  THEN IF current < l THEN get_amount_delta_a(SqrtPrice[l], SqrtPrice[u], L, round_up)
       ELSE IF current < u THEN get_amount_delta_a(price, SqrtPrice[u], L, round_up)
       ELSE 0
  ELSE IF current < l THEN 0
       ELSE IF current < u THEN get_amount_delta_b(SqrtPrice[l], price, L, round_up)
       ELSE get_amount_delta_b(SqrtPrice[l], SqrtPrice[u], L, round_up)

\* Token a of a range is what the range holds of it, rounded.
LEMMA WorthOfA ==
  ASSUME NEW l \in TickIndices, NEW u \in TickIndices, l < u,
         NEW current, NEW price, TickHoldsPrice(current, price),
         NEW L \in U128, NEW round_up \in BOOLEAN,
         NEW v, v = RangeAmount("a", l, u, current, price, L, round_up), v # Err
  PROVE  /\ v \in Nat /\ v \in U64
         /\ Rounds(round_up, v * (price * Multiple),
                   TO_Q64 * (L * HoldsA(l, u, current, price)))
<1> DEFINE i == Inverse(l)  j == Inverse(u)  p == SqrtPrice[l]  q == SqrtPrice[u]
           M == Multiple
           H == HoldsA(l, u, current, price)
<1>1. /\ i \in Nat /\ j \in Nat /\ p \in Nat \ {0} /\ q \in Nat \ {0} /\ M \in Nat \ {0}
      /\ M = i * p /\ M = j * q
  BY Inverses
<1>2. /\ current \in Int /\ price \in Nat /\ l \in Int /\ u \in Int /\ price \in PriceRange
      /\ p \in PriceRange /\ q \in PriceRange
      /\ current < u => price <= q
      /\ p <= q
  <2>1. l \in Int /\ u \in Int
    BY ArrayTypes
  <2> QED
    BY <2>1, PriceAround, PricesIncrease, PriceBounds
<1>3. H = (IF l <= current /\ current < u THEN M ELSE 0)
          + price * ((IF current < l THEN i ELSE 0) - (IF current < u THEN j ELSE 0))
  BY DEF HoldsA, Ahead
<1>4. L \in Nat /\ TO_Q64 \in Nat /\ 0 \in U64
  BY WordsAreIntegers, Widths DEF U64
<1> HIDE DEF i, j, p, q, M, H
<1>5. CASE current < l
  <2>1. v = get_amount_delta_a(p, q, L, round_up)
    BY <1>5 DEF RangeAmount, p, q
  <2>2. H = price * (i - j)
    BY <1>1, <1>2, <1>3, <1>5
  <2>3. Lower(p, q) = p /\ Upper(p, q) = q
    BY <1>1, <1>2 DEF Lower, Upper
  <2>4. /\ v \in Nat /\ v \in U64
        /\ round_up => v * (q * p) >= (L * (q - p)) * TO_Q64
        /\ ~round_up => v * (q * p) <= (L * (q - p)) * TO_Q64
    BY <1>2, <2>1, <2>3, DeltaABounds
  <2>5. Rounds(round_up, v * (q * p), (L * (q - p)) * TO_Q64)
    BY <1>1, <1>4, <2>4 DEF Rounds
  <2>6. Rounds(round_up, v * (price * M), TO_Q64 * (L * (price * (i - j))))
    BY <1>1, <1>2, <1>4, <2>4, <2>5, WorthAbove
  <2> QED
    BY <2>2, <2>4, <2>6 DEF H, M
<1>6. CASE l <= current /\ current < u
  <2>1. v = get_amount_delta_a(price, q, L, round_up)
    BY <1>2, <1>6 DEF RangeAmount, q
  <2>2. H = M + price * (0 - j)
    BY <1>1, <1>2, <1>3, <1>6
  <2>3. Lower(price, q) = price /\ Upper(price, q) = q
    BY <1>1, <1>2, <1>6 DEF Lower, Upper
  <2>4. /\ v \in Nat /\ v \in U64
        /\ round_up => v * (q * price) >= (L * (q - price)) * TO_Q64
        /\ ~round_up => v * (q * price) <= (L * (q - price)) * TO_Q64
    BY <1>2, <2>1, <2>3, DeltaABounds
  <2>5. Rounds(round_up, v * (q * price), (L * (q - price)) * TO_Q64)
    BY <1>1, <1>2, <1>4, <2>4 DEF Rounds
  <2>6. Rounds(round_up, v * (price * M), TO_Q64 * (L * (M + price * (0 - j))))
    BY <1>1, <1>2, <1>4, <2>4, <2>5, WorthAround
  <2> QED
    BY <2>2, <2>4, <2>6 DEF H, M
<1>7. CASE u <= current
  <2>1. v = 0 /\ v \in Nat /\ v \in U64
    BY <1>2, <1>4, <1>7 DEF RangeAmount
  <2>2. H = 0
    BY <1>1, <1>2, <1>3, <1>7
  <2>3. v * (price * M) = 0 /\ TO_Q64 * (L * H) = 0
    <3>1. price * M \in Int
      BY <1>1, <1>2
    <3> QED
      BY <1>4, <2>1, <2>2, <3>1
  <2>4. Rounds(round_up, v * (price * M), TO_Q64 * (L * H))
    BY <2>3 DEF Rounds
  <2> QED
    BY <2>1, <2>4 DEF H, M
<1> QED
  BY <1>2, <1>5, <1>6, <1>7

\* And so is token b.
LEMMA WorthOfB ==
  ASSUME NEW l \in TickIndices, NEW u \in TickIndices, l < u,
         NEW current, NEW price, TickHoldsPrice(current, price),
         NEW L \in U128, NEW round_up \in BOOLEAN,
         NEW v, v = RangeAmount("b", l, u, current, price, L, round_up), v # Err
  PROVE  /\ v \in Nat /\ v \in U64
         /\ Rounds(round_up, v * TO_Q64, L * HoldsB(l, u, current, price))
<1> DEFINE p == SqrtPrice[l]  q == SqrtPrice[u]
           H == HoldsB(l, u, current, price)
<1>1. p \in Nat \ {0} /\ q \in Nat \ {0}
  BY Inverses
<1>2. /\ current \in Int /\ price \in Nat /\ l \in Int /\ u \in Int /\ price \in PriceRange
      /\ p \in PriceRange /\ q \in PriceRange
      /\ l <= current => p <= price
      /\ p <= q
  <2>1. l \in Int /\ u \in Int
    BY ArrayTypes
  <2> QED
    BY <2>1, PriceAround, PricesIncrease, PriceBounds
<1>3. H = (IF l <= current /\ current < u THEN price ELSE 0)
          + ((IF current < u THEN 0 ELSE q) - (IF current < l THEN 0 ELSE p))
  BY DEF HoldsB, Behind
<1>4. L \in Nat /\ TO_Q64 \in Nat /\ 0 \in U64
  BY WordsAreIntegers, Widths DEF U64
<1> HIDE DEF p, q, H
<1>5. CASE current < l
  <2>1. v = 0 /\ v \in Nat /\ v \in U64
    BY <1>4, <1>5 DEF RangeAmount
  <2>2. H = 0
    BY <1>1, <1>2, <1>3, <1>5
  <2>3. Rounds(round_up, v * TO_Q64, L * H)
    BY <1>4, <2>1, <2>2 DEF Rounds
  <2> QED
    BY <2>1, <2>3 DEF H
<1>6. CASE l <= current /\ current < u
  <2>1. v = get_amount_delta_b(p, price, L, round_up)
    BY <1>2, <1>6 DEF RangeAmount, p
  <2>2. H = price - p
    BY <1>1, <1>2, <1>3, <1>6
  <2>3. Lower(p, price) = p /\ Upper(p, price) = price
    BY <1>1, <1>2, <1>6 DEF Lower, Upper
  <2>4. /\ v \in Nat /\ v \in U64
        /\ round_up => v * TO_Q64 >= L * (price - p)
        /\ ~round_up => v * TO_Q64 <= L * (price - p)
    BY <1>2, <2>1, <2>3, DeltaBBounds
  <2>5. Rounds(round_up, v * TO_Q64, L * H)
    BY <1>1, <1>2, <1>4, <2>2, <2>4 DEF Rounds
  <2> QED
    BY <2>4, <2>5 DEF H
<1>7. CASE u <= current
  <2>1. v = get_amount_delta_b(p, q, L, round_up)
    BY <1>2, <1>7 DEF RangeAmount, p, q
  <2>2. H = q - p
    BY <1>1, <1>2, <1>3, <1>7
  <2>3. Lower(p, q) = p /\ Upper(p, q) = q
    BY <1>1, <1>2 DEF Lower, Upper
  <2>4. /\ v \in Nat /\ v \in U64
        /\ round_up => v * TO_Q64 >= L * (q - p)
        /\ ~round_up => v * TO_Q64 <= L * (q - p)
    BY <1>2, <2>1, <2>3, DeltaBBounds
  <2>5. Rounds(round_up, v * TO_Q64, L * H)
    BY <1>1, <1>4, <2>2, <2>4 DEF Rounds
  <2> QED
    BY <2>4, <2>5 DEF H
<1> QED
  BY <1>2, <1>5, <1>6, <1>7

\* Both tokens alike: what a unit of liquidity in a range holds, the weight of a
\* reserve at a price, and the scale in which the two are compared.
Holds(x, l, u, current, price) ==
  IF x = "a" THEN HoldsA(l, u, current, price) ELSE HoldsB(l, u, current, price)

Weight(x, price) == IF x = "a" THEN price * Multiple ELSE 1

Scale(x) == IF x = "a" THEN TO_Q128 ELSE 1

ClaimsOf(x, pos, current, price) ==
  [p \in PositionIds |->
     IF pos[p].liquidity = 0 THEN 0
     ELSE pos[p].liquidity
          * Holds(x, pos[p].tick_lower_index, pos[p].tick_upper_index, current, price)]

\* Weights and scales are positive.
LEMMA WeightsPositive ==
  ASSUME NEW x \in Token, NEW price \in Nat \ {0}
  PROVE  Weight(x, price) \in Nat \ {0} /\ Scale(x) \in Nat \ {0}
<1> DEFINE M == Multiple
           w == price * M
<1>1. M \in Nat \ {0} /\ TO_Q128 \in Nat \ {0}
  BY Inverses, Widths
<1>2. w \in Nat \ {0}
  <2> HIDE DEF M
  <2>1. price * M \in Nat /\ price * M > 0 * M
    BY <1>1
  <2> QED
    BY <1>1, <2>1
<1>3. Weight(x, price) = IF x = "a" THEN w ELSE 1
  BY DEF Weight
<1> HIDE DEF w
<1> QED
  BY <1>1, <1>2, <1>3 DEF Scale

\* The amount of a token for a range is what the range holds, rounded.
LEMMA RangeWorth ==
  ASSUME NEW x \in Token, NEW l \in TickIndices, NEW u \in TickIndices, l < u,
         NEW current, NEW price, TickHoldsPrice(current, price),
         NEW L \in U128, NEW round_up \in BOOLEAN,
         NEW v, v = RangeAmount(x, l, u, current, price, L, round_up), v # Err
  PROVE  /\ v \in Nat /\ v \in U64
         /\ Holds(x, l, u, current, price) \in Nat
         /\ Rounds(round_up, (TO_Q64 * v) * Weight(x, price),
                   Scale(x) * (L * Holds(x, l, u, current, price)))
<1>1. L \in Nat /\ TO_Q64 \in Nat /\ Multiple \in Nat
  BY WordsAreIntegers, Widths, Inverses
<1>2. price \in Nat
  BY PriceAround
<1>3. HoldsA(l, u, current, price) \in Nat /\ HoldsB(l, u, current, price) \in Nat
  BY HoldsNatural
<1>4. CASE x = "a"
  <2> DEFINE H == HoldsA(l, u, current, price)
             w == price * Multiple
             e == L * H
             a == v * w
             b == TO_Q64 * e
  <2>1. v \in Nat /\ v \in U64 /\ Rounds(round_up, a, b)
    BY <1>4, WorthOfA
  <2>2. w \in Nat /\ e \in Nat
    BY <1>1, <1>2, <1>3
  <2> HIDE DEF w, e
  <2>3. a \in Int /\ b \in Int
    BY <1>1, <2>1, <2>2
  <2>4. a * TO_Q64 = (TO_Q64 * v) * w /\ b * TO_Q64 = TO_Q128 * e
    BY <1>1, <2>1, <2>2 DEF TO_Q128
  <2> HIDE DEF a, b
  <2>5. Rounds(round_up, a * TO_Q64, b * TO_Q64)
    BY <1>1, <2>1, <2>3, RoundsTimes
  <2> QED
    BY <1>3, <1>4, <2>1, <2>4, <2>5 DEF Holds, Weight, Scale, w, e
<1>5. CASE x = "b"
  <2> DEFINE H == HoldsB(l, u, current, price)
             e == L * H
  <2>1. v \in Nat /\ v \in U64 /\ Rounds(round_up, v * TO_Q64, e)
    BY <1>5, WorthOfB
  <2>2. e \in Nat
    BY <1>1, <1>3
  <2> HIDE DEF e
  <2>3. v * TO_Q64 = (TO_Q64 * v) * 1 /\ e = 1 * e
    BY <1>1, <2>1, <2>2
  <2>4. Weight(x, price) = 1 /\ Scale(x) = 1 /\ Holds(x, l, u, current, price) = H
    BY <1>5 DEF Weight, Scale, Holds
  <2> HIDE DEF H
  <2>5. Rounds(round_up, (TO_Q64 * v) * 1, 1 * e)
    BY <2>1, <2>3
  <2> QED
    BY <1>3, <2>1, <2>4, <2>5 DEF H, e
<1> QED
  BY <1>4, <1>5 DEF Token

\* What positions hold is an amount of each token, and not negative where the tick
\* holds the price.
LEMMA ClaimsTypes ==
  ASSUME NEW pos \in AllPositions, RangesSound(pos), NEW current \in Int, NEW price \in Nat,
         NEW x \in Token
  PROVE  /\ ClaimsOf(x, pos, current, price) \in Amounts
         /\ Sum(ClaimsOf(x, pos, current, price)) \in Int
         /\ TickHoldsPrice(current, price)
              => ClaimsOf(x, pos, current, price) \in [PositionIds -> Nat]
<1> DEFINE f == ClaimsOf(x, pos, current, price)
<1>1. ASSUME NEW p \in PositionIds
      PROVE  f[p] \in Int /\ (TickHoldsPrice(current, price) => f[p] \in Nat)
  <2> DEFINE L == pos[p].liquidity
             l == pos[p].tick_lower_index
             u == pos[p].tick_upper_index
             h == Holds(x, l, u, current, price)
  <2>1. L \in Nat /\ (L # 0 => l \in TickIndices /\ u \in TickIndices /\ l < u)
    BY RangeOfPosition
  <2>2. f[p] = IF L = 0 THEN 0 ELSE L * h
    BY DEF ClaimsOf
  <2>3. L # 0 => h \in Int /\ (TickHoldsPrice(current, price) => h \in Nat)
    BY <2>1, HoldsTypes, HoldsNatural DEF Holds
  <2> HIDE DEF L, h, f
  <2>4. CASE L = 0
    BY <2>2, <2>4
  <2>5. CASE L # 0
    <3>1. L * h \in Int
      BY <2>1, <2>3, <2>5
    <3>2. h \in Nat => L * h \in Nat
      BY <2>1
    <3> QED
      BY <2>2, <2>3, <2>5, <3>1, <3>2
  <2> QED
    BY <2>4, <2>5
<1>2. f \in Amounts
  BY <1>1 DEF Amounts, ClaimsOf
<1>3. TickHoldsPrice(current, price) => f \in [PositionIds -> Nat]
  BY <1>1 DEF ClaimsOf
<1> QED
  BY <1>2, <1>3, SumOfInts

\* A reserve covers the claims when it does so by weight.
LEMMA CoveredByWeight ==
  ASSUME NEW pos \in AllPositions, RangesSound(pos), NEW current \in Int, NEW price \in Nat,
         NEW x \in Token, NEW reserve \in Int
  PROVE  Covered(x, reserve, pos, current, price)
           <=> Scale(x) * Sum(ClaimsOf(x, pos, current, price)) <= reserve * Weight(x, price)
<1> DEFINE A == ClaimsOfA(pos, current, price)
           B == ClaimsOfB(pos, current, price)
<1>1. /\ ClaimsA(pos, current, price) = Sum(A) /\ Sum(A) \in Int
      /\ ClaimsB(pos, current, price) = Sum(B) /\ Sum(B) \in Int
  BY ClaimsAreSums
<1>2. CASE x = "a"
  <2>1. ClaimsOf(x, pos, current, price) = A
    BY <1>2 DEF ClaimsOf, ClaimsOfA, Holds
  <2> HIDE DEF A
  <2> QED
    BY <1>1, <1>2, <2>1 DEF Covered, Scale, Weight
<1>3. CASE x = "b"
  <2>1. ClaimsOf(x, pos, current, price) = B
    BY <1>3 DEF ClaimsOf, ClaimsOfB, Holds
  <2>2. Scale(x) = 1 /\ Weight(x, price) = 1
    BY <1>3 DEF Scale, Weight
  <2>3. Covered(x, reserve, pos, current, price) <=> ClaimsB(pos, current, price) <= reserve
    BY <1>3 DEF Covered
  <2> HIDE DEF B
  <2>4. 1 * Sum(B) = Sum(B) /\ reserve * 1 = reserve
    BY <1>1
  <2> QED
    BY <1>1, <2>1, <2>2, <2>3, <2>4
<1> QED
  BY <1>2, <1>3 DEF Token

\* The deltas of a change of liquidity are amounts for the position's range.
LEMMA DeltasAreAmounts ==
  ASSUME NEW p, NEW delta, NEW x \in Token
  PROVE  TokenDeltas(p, delta)[x]
           = RangeAmount(x, positions[p].tick_lower_index, positions[p].tick_upper_index,
                         tick_current_index, sqrt_price,
                         IF delta < 0 THEN -delta ELSE delta, delta > 0)
BY DEF TokenDeltas, calculate_liquidity_token_deltas, RangeAmount, sqrt_price_from_tick_index
-----------------------------------------------------------------------------
(* What the invariant says of the account *)

\* What the invariant rests on, of the account.
LEMMA AccountFacts ==
  ASSUME BookIInv
  PROVE  /\ positions \in AllPositions /\ RangesSound(positions)
         /\ tick_current_index \in Int /\ ticks \in [UsableTicks -> Tick]
         /\ fee_growth_global \in [Token -> U128]
         /\ TickHoldsPrice(tick_current_index, sqrt_price)
         /\ sqrt_price \in Nat \ {0} /\ sqrt_price \in PriceRange
         /\ \A x \in Token : /\ vault[x] \in U64 /\ vault[x] \in Nat
                             /\ protocol_fee_owed[x] \in U64 /\ protocol_fee_owed[x] \in Nat
                             /\ Funds[x] = vault[x] - protocol_fee_owed[x] /\ Funds[x] \in Int
<1>1. TypeOK /\ RangesSound(positions) /\ TickHoldsPrice(tick_current_index, sqrt_price)
  BY DEF BookIInv, Book, IInv, PoolInv
<1>2. MIN_TICK_INDEX \in TickIndices
  BY PriceBounds
<1>3. sqrt_price \in Nat \ {0} /\ sqrt_price \in PriceRange
  BY <1>1, <1>2, PriceAround
<1>4. ASSUME NEW x \in Token
      PROVE  /\ vault[x] \in U64 /\ vault[x] \in Nat
             /\ protocol_fee_owed[x] \in U64 /\ protocol_fee_owed[x] \in Nat
             /\ Funds[x] = vault[x] - protocol_fee_owed[x] /\ Funds[x] \in Int
  <2>1. vault[x] \in U64 /\ protocol_fee_owed[x] \in U64
    BY <1>1 DEF TypeOK
  <2>2. vault[x] \in Nat /\ protocol_fee_owed[x] \in Nat
    BY <2>1, WordsAreIntegers
  <2>3. Funds[x] = vault[x] - protocol_fee_owed[x]
    BY DEF Funds
  <2> QED
    BY <2>1, <2>2, <2>3
<1> QED
  BY <1>1, <1>3, <1>4 DEF TypeOK, AllPositions

\* The account's positions provide liquidity where they have it.
LEMMA ProvidesLiquidity ==
  ASSUME BookIInv, NEW p \in PositionIds
  PROVE  Provides(p) <=> positions[p].liquidity # 0
<1>1. positions[p].liquidity \in Nat
  BY AccountFacts, RangeOfPosition
<1>2. positions[p].liquidity # 0 => positions[p].state = "open"
  BY AccountFacts DEF RangesSound
<1> QED
  BY <1>1, <1>2 DEF Provides

\* What a position's liquidity earned is rounded down, by less than one unit.
LEMMA UnsettledBounds ==
  ASSUME NEW position, NEW L, L = position.liquidity, L \in U128,
         NEW growth \in U128, NEW checkpoint \in U128
  PROVE  /\ L * WrapU128(growth - checkpoint) \in Nat
         /\ Unsettled(position, growth, checkpoint) \in Nat
         /\ TO_Q64 * Unsettled(position, growth, checkpoint) <= L * WrapU128(growth - checkpoint)
         /\ L * WrapU128(growth - checkpoint)
              < TO_Q64 * Unsettled(position, growth, checkpoint) + TO_Q64
<1> DEFINE w == WrapU128(growth - checkpoint)
           n == L * w
           e == n \div TO_Q64
<1>1. w \in Nat /\ L \in Nat /\ TO_Q64 \in Nat \ {0}
  <2>1. growth \in Int /\ checkpoint \in Int /\ L \in Nat
    BY WordsAreIntegers
  <2>2. w \in U128
    BY <2>1, Conversions
  <2>3. w \in Nat
    BY <2>2, WordsAreIntegers
  <2> QED
    BY <2>1, <2>3, Widths
<1>2. Unsettled(position, growth, checkpoint) = e
  BY DEF Unsettled
<1>3. n \in Nat
  BY <1>1
<1> HIDE DEF n
<1>4. e \in Int /\ e * TO_Q64 <= n /\ n < e * TO_Q64 + TO_Q64
  BY <1>1, <1>3, DivMod
<1> HIDE DEF e
<1>5. 0 <= e
  <2>1. 0 * TO_Q64 < (e + 1) * TO_Q64
    BY <1>1, <1>3, <1>4
  <2>2. 0 < e + 1
    BY <1>1, <1>4, <2>1, MulCancelStrict
  <2> QED
    BY <1>4, <2>2
<1>6. e * TO_Q64 = TO_Q64 * e
  BY <1>1, <1>4
<1> QED
  BY <1>2, <1>3, <1>4, <1>5, <1>6 DEF n

\* With what it is owed, it is no more than the position is due.
LEMMA UnsettledDue ==
  ASSUME NEW position, NEW L, L = position.liquidity, L \in U128, NEW owed \in U64,
         NEW growth \in U128, NEW checkpoint \in U128
  PROVE  /\ Unsettled(position, growth, checkpoint) \in Nat
         /\ TO_Q64 * (owed + Unsettled(position, growth, checkpoint))
              <= DueOf(owed, L, checkpoint, growth)
<1> DEFINE e == Unsettled(position, growth, checkpoint)
           n == L * WrapU128(growth - checkpoint)
           x == TO_Q64 * owed
           y == TO_Q64 * e
<1>1. n \in Nat /\ e \in Nat /\ y <= n
  BY UnsettledBounds
<1>2. owed \in Nat /\ L \in Nat /\ TO_Q64 \in Nat
  BY WordsAreIntegers, Widths
<1>3. x \in Nat /\ y \in Nat
  BY <1>1, <1>2
<1>4. DueOf(owed, L, checkpoint, growth) = x + n
  <2>1. L = 0 => n = 0
    <3>1. growth \in Int /\ checkpoint \in Int
      BY WordsAreIntegers
    <3>2. WrapU128(growth - checkpoint) \in U128
      BY <3>1, Conversions
    <3>3. WrapU128(growth - checkpoint) \in Nat
      BY <3>2, WordsAreIntegers
    <3> QED
      BY <3>3
  <2> QED
    BY <2>1 DEF DueOf
<1> HIDE DEF e, n
<1>5. TO_Q64 * (owed + e) = x + y
  BY <1>1, <1>2
<1> HIDE DEF x, y
<1> QED
  BY <1>1, <1>3, <1>4, <1>5 DEF e

\* What a position can collect in fees is due to it.
LEMMA FeesAreDue ==
  ASSUME BookIInv, NEW p \in PositionIds, NEW x \in Token
  PROVE  /\ FeesOf(p)[x] \in Nat
         /\ TO_Q64 * FeesOf(p)[x]
              <= FeeDues(positions, tick_current_index, ticks, fee_growth_global, x)[p]
<1> DEFINE position == positions[p]
           inside   == FeesInside(tick_current_index, ticks, position, fee_growth_global)[x]
           L        == position.liquidity
           c        == position.fee_growth_checkpoint[x]
           o        == position.fee_owed[x]
           e        == Unsettled(position, inside, c)
           D        == FeeDues(positions, tick_current_index, ticks, fee_growth_global, x)
<1>1. position \in Position /\ L \in U128 /\ c \in U128 /\ o \in U64
  BY AccountFacts, RangeOfPosition DEF Position
<1>2. L = 0 \/ inside \in U128
  BY AccountFacts, FeeDuesType
<1>3. D[p] = FeeDue(position, x, inside) /\ FeeDue(position, x, inside) = DueOf(o, L, c, inside)
  BY DEF FeeDues, FeeDue
<1>4. FeesOf(p)[x] = o + IF L # 0 THEN e ELSE 0
  BY ProvidesLiquidity DEF FeesOf, FeeGrowthsInside, FeesInside
<1> HIDE DEF position, inside, L, c, o, D
<1>5. CASE L = 0
  <2>1. o \in Nat /\ TO_Q64 * o <= DueOf(o, L, c, inside)
    BY <1>1, <1>2, DueOfType
  <2>2. FeesOf(p)[x] = o
    BY <1>4, <1>5, <2>1
  <2> QED
    BY <1>3, <2>1, <2>2 DEF D
<1>6. CASE L # 0
  <2>1. e \in Nat /\ TO_Q64 * (o + e) <= DueOf(o, L, c, inside)
    BY <1>1, <1>2, <1>6, UnsettledDue DEF L
  <2>2. o \in Nat
    BY <1>1, WordsAreIntegers
  <2>3. FeesOf(p)[x] = o + e
    BY <1>4, <1>6
  <2> HIDE DEF e
  <2>4. o + e \in Nat
    BY <2>1, <2>2
  <2> QED
    BY <1>3, <2>1, <2>3, <2>4 DEF D
<1> QED
  BY <1>5, <1>6

\* What closing a position pays is no more than it holds.
LEMMA PrincipalIsHeld ==
  ASSUME BookIInv, NEW p \in PositionIds, NEW x \in Token
  PROVE  /\ PrincipalOf(p)[x] \in Int
         /\ (TO_Q64 * PrincipalOf(p)[x]) * Weight(x, sqrt_price)
              <= Scale(x) * ClaimsOf(x, positions, tick_current_index, sqrt_price)[p]
<1> DEFINE L == positions[p].liquidity
           l == positions[p].tick_lower_index
           u == positions[p].tick_upper_index
           v == PrincipalOf(p)[x]
           C == ClaimsOf(x, positions, tick_current_index, sqrt_price)
           W == Weight(x, sqrt_price)
           S == Scale(x)
<1>1. L \in U128 /\ L \in Nat /\ (L # 0 => l \in TickIndices /\ u \in TickIndices /\ l < u)
  BY AccountFacts, RangeOfPosition
<1>2. C[p] \in Nat
  BY AccountFacts, ClaimsTypes
<1>3. W \in Nat \ {0} /\ S \in Nat \ {0} /\ TO_Q64 \in Nat
  BY AccountFacts, WeightsPositive, Widths
<1>4. S * C[p] \in Nat
  <2> HIDE DEF S, C
  <2> QED
    BY <1>2, <1>3
<1>5. CASE L = 0
  <2>1. v = 0
    BY <1>5, ProvidesLiquidity DEF PrincipalOf
  <2> HIDE DEF v, W, S, C
  <2>2. (TO_Q64 * v) * W = 0
    BY <1>3, <2>1
  <2> QED
    BY <1>4, <2>1, <2>2 DEF v, W, S, C
<1>6. CASE L # 0
  <2> DEFINE delta == -L
             amount == IF delta < 0 THEN -delta ELSE delta
             round_up == delta > 0
  <2>1. amount = L /\ round_up \in BOOLEAN /\ ~round_up
    BY <1>1, <1>6
  <2>2. v = RangeAmount(x, l, u, tick_current_index, sqrt_price, amount, round_up)
    <3>1. v = TokenDeltas(p, delta)[x]
      BY <1>6, ProvidesLiquidity DEF PrincipalOf
    <3> QED
      BY <3>1, DeltasAreAmounts
  <2>3. C[p] = L * Holds(x, l, u, tick_current_index, sqrt_price)
    BY <1>6 DEF ClaimsOf
  <2> HIDE DEF amount, round_up, v, L, l, u
  <2>4. CASE v = Err
    <3>1. v = -1
      BY <2>4 DEF Err
    <3> HIDE DEF W, S, C
    <3>2. (TO_Q64 * v) * W <= 0
      <4>1. TO_Q64 * v = -TO_Q64
        BY <1>3, <3>1
      <4>2. (-TO_Q64) * W = -(TO_Q64 * W) /\ TO_Q64 * W \in Nat
        BY <1>3
      <4> QED
        BY <4>1, <4>2
    <3>3. (TO_Q64 * v) * W \in Int /\ v \in Int
      BY <1>3, <3>1
    <3> QED
      BY <1>4, <3>2, <3>3 DEF W, S, C, v
  <2>5. CASE v # Err
    <3>1. /\ v \in Nat
          /\ Rounds(round_up, (TO_Q64 * v) * W,
                    S * (amount * Holds(x, l, u, tick_current_index, sqrt_price)))
      BY <1>1, <1>6, <2>1, <2>2, <2>5, AccountFacts, RangeWorth
    <3>2. (TO_Q64 * v) * W <= S * C[p]
      BY <2>1, <2>3, <3>1 DEF Rounds
    <3> QED
      BY <3>1, <3>2 DEF v
  <2> QED
    BY <2>4, <2>5
<1> QED
  BY <1>5, <1>6

\* A pool with a covered account is solvent.
LEMMA CoveredIsSolvent ==
  ASSUME BookIInv, AccountSolvent PROVE PoolSolvent
<1> SUFFICES ASSUME NEW x \in Token
             PROVE  vault[x] >= protocol_fee_owed[x]
                          + Sum([p \in PositionIds |-> FeesOf(p)[x] + PrincipalOf(p)[x]])
  BY DEF PoolSolvent
<1> DEFINE F == [p \in PositionIds |-> FeesOf(p)[x]]
           P == [p \in PositionIds |-> PrincipalOf(p)[x]]
           T == [p \in PositionIds |-> FeesOf(p)[x] + PrincipalOf(p)[x]]
           QF == [p \in PositionIds |-> TO_Q64 * FeesOf(p)[x]]
           W == Weight(x, sqrt_price)
           S == Scale(x)
           k == TO_Q64 * W
           KP == [p \in PositionIds |-> k * PrincipalOf(p)[x]]
           C == ClaimsOf(x, positions, tick_current_index, sqrt_price)
           SC == [p \in PositionIds |-> S * C[p]]
           D == FeeDues(positions, tick_current_index, ticks, fee_growth_global, x)
           funds == Funds[x]
           r == Reserve(x, funds, positions, tick_current_index, ticks, fee_growth_global)
<1>1. W \in Nat \ {0} /\ S \in Nat \ {0} /\ TO_Q64 \in Nat \ {0} /\ TO_Q64 \in Int
  BY AccountFacts, WeightsPositive, Widths
<1>2. k \in Int
  <2> HIDE DEF W
  <2> QED
    BY <1>1
<1>3. D \in Amounts /\ Sum(D) \in Int /\ C \in Amounts /\ Sum(C) \in Int /\ funds \in Int
  BY AccountFacts, FeeDuesType, ClaimsTypes
<1>4. r = TO_Q64 * funds - Sum(D) /\ r \in Int
  <2>1. r = TO_Q64 * funds - Sum(D)
    BY DEF Reserve
  <2> HIDE DEF r, funds, D
  <2> QED
    BY <1>1, <1>3, <2>1
<1>5. S * Sum(C) <= r * W
  <2>1. Covered(x, r, positions, tick_current_index, sqrt_price)
    BY DEF AccountSolvent, Solvent
  <2>2. sqrt_price \in Nat
    BY AccountFacts
  <2> HIDE DEF r
  <2> QED
    BY <1>4, <2>1, <2>2, AccountFacts, CoveredByWeight DEF C, S, W
<1>6. ASSUME NEW p \in PositionIds
      PROVE  /\ F[p] \in Int /\ P[p] \in Int /\ T[p] = F[p] + P[p] /\ T[p] \in Int
             /\ QF[p] = TO_Q64 * F[p] /\ QF[p] \in Int /\ QF[p] <= D[p]
             /\ KP[p] = k * P[p] /\ KP[p] \in Int /\ KP[p] <= SC[p]
             /\ SC[p] = S * C[p] /\ SC[p] \in Int
  <2> DEFINE f == FeesOf(p)[x]  v == PrincipalOf(p)[x]  c == C[p]
  <2>1. f \in Nat /\ TO_Q64 * f <= D[p]
    BY FeesAreDue
  <2>2. v \in Int /\ (TO_Q64 * v) * W <= S * c
    BY PrincipalIsHeld
  <2>3. c \in Int
    BY <1>3 DEF Amounts
  <2>4. F[p] = f /\ P[p] = v /\ T[p] = f + v /\ QF[p] = TO_Q64 * f /\ KP[p] = k * v /\ SC[p] = S * c
    OBVIOUS
  <2> HIDE DEF f, v, c, F, P, T, QF, KP, SC, C, D
  <2>5. f + v \in Int /\ TO_Q64 * f \in Int
    BY <1>1, <2>1, <2>2
  <2>6. S * c \in Int
    <3> HIDE DEF S
    <3> QED
      BY <1>1, <2>3
  <2>7. k * v = (TO_Q64 * v) * W /\ k * v \in Int
    <3> HIDE DEF W
    <3> QED
      BY <1>1, <2>2
  <2> HIDE DEF k, S, W
  <2> QED
    BY <2>1, <2>2, <2>4, <2>5, <2>6, <2>7 DEF c
<1>7. /\ F \in Amounts /\ P \in Amounts /\ T \in Amounts
      /\ QF \in Amounts /\ KP \in Amounts /\ SC \in Amounts
  BY <1>6 DEF Amounts
<1> HIDE DEF F, P, T, QF, KP, SC, C, D, S, W, k, r, funds
<1>8. Sum(T) = Sum(F) + Sum(P)
  BY <1>6, <1>7, SumAdds
<1>9. Sum(QF) = TO_Q64 * Sum(F)
  BY <1>1, <1>6, <1>7, SumScales
<1>10. Sum(QF) <= Sum(D)
  BY <1>3, <1>6, <1>7, SumAtMost
<1>11. Sum(KP) = k * Sum(P)
  BY <1>2, <1>6, <1>7, SumScales
<1>12. Sum(KP) <= Sum(SC)
  BY <1>6, <1>7, SumAtMost
<1>13. Sum(SC) = S * Sum(C)
  <2>1. S \in Int
    BY <1>1
  <2> QED
    BY <1>3, <1>6, <1>7, <2>1, SumScales
<1> DEFINE f == Sum(F)  v == Sum(P)  d == Sum(D)
<1>14. f \in Int /\ v \in Int /\ d \in Int
  BY <1>3, <1>7, SumOfInts
<1>15. TO_Q64 * v <= r
  <2> HIDE DEF v
  <2>1. (TO_Q64 * v) * W = k * v /\ TO_Q64 * v \in Int
    BY <1>1, <1>14 DEF k
  <2>2. k * v <= r * W
    <3>1. k * v \in Int /\ S * Sum(C) \in Int /\ r * W \in Int
      BY <1>1, <1>2, <1>3, <1>4, <1>14
    <3> DEFINE a == k * v  b == S * Sum(C)  e == r * W
    <3> HIDE DEF a, b, e
    <3>2. a <= b /\ b <= e
      BY <1>5, <1>11, <1>12, <1>13 DEF a, b, e, v
    <3> QED
      BY <3>1, <3>2 DEF a, b, e
  <2> QED
    BY <1>1, <1>4, <2>1, <2>2, MulCancel
<1>16. f + v <= funds
  <2> HIDE DEF f, v, d
  <2>1. TO_Q64 * f <= d
    BY <1>9, <1>10 DEF f, d
  <2>2. r = TO_Q64 * funds - d
    BY <1>4 DEF d
  <2>3. (f + v) * TO_Q64 = TO_Q64 * f + TO_Q64 * v
    BY <1>1, <1>14
  <2>4. TO_Q64 * f \in Int /\ TO_Q64 * v \in Int /\ TO_Q64 * funds \in Int
    BY <1>1, <1>3, <1>14
  <2> DEFINE a == TO_Q64 * f  b == TO_Q64 * v  e == TO_Q64 * funds
  <2>5. a + b <= e
    <3>1. a <= d /\ b <= e - d /\ a \in Int /\ b \in Int /\ e \in Int /\ d \in Int
      BY <1>14, <1>15, <2>1, <2>2, <2>4
    <3> HIDE DEF a, b, e
    <3> QED
      BY <3>1
  <2>6. (f + v) * TO_Q64 <= funds * TO_Q64
    BY <1>1, <1>3, <2>3, <2>5
  <2>7. f + v \in Int
    BY <1>14
  <2> QED
    BY <1>1, <1>3, <2>6, <2>7, MulCancel
<1>17. /\ funds = vault[x] - protocol_fee_owed[x]
       /\ vault[x] \in Int /\ protocol_fee_owed[x] \in Int
  BY AccountFacts DEF funds
<1>18. vault[x] >= protocol_fee_owed[x] + Sum(T)
  <2> HIDE DEF f, v
  <2>1. Sum(T) = f + v
    BY <1>8 DEF f, v
  <2> QED
    BY <1>14, <1>16, <1>17, <2>1
<1> QED
  BY <1>18 DEF T
-----------------------------------------------------------------------------
(* Instructions on positions *)

\* A reserve that grows by what is claimed more still covers the claims.
LEMMA CoversGrowth ==
  ASSUME NEW S \in Nat, NEW W \in Nat, NEW C \in Int, NEW C2 \in Int,
         NEW r \in Int, NEW r2 \in Int, NEW e \in Int,
         S * C <= r * W, S * (C2 - C) <= e * W, r + e <= r2
  PROVE  S * C2 <= r2 * W
<1> DEFINE d == C2 - C
           a == S * C  b == S * d  x == r * W  y == e * W  z == r2 * W
<1>1. d \in Int /\ C2 = C + d
  OBVIOUS
<1>2. S * C2 = a + b /\ a \in Int /\ b \in Int
  <2> HIDE DEF d
  <2> QED
    BY <1>1
<1>3. (r + e) * W <= r2 * W
  <2>1. r + e \in Int
    OBVIOUS
  <2> QED
    BY <2>1, MulMonotone
<1>4. (r + e) * W = x + y /\ x \in Int /\ y \in Int /\ z \in Int
  OBVIOUS
<1>5. a <= x /\ b <= y /\ x + y <= z
  BY <1>3, <1>4
<1> HIDE DEF a, b, x, y, z, d
<1>6. a + b <= z
  BY <1>2, <1>4, <1>5
<1> QED
  BY <1>2, <1>6 DEF z

\* What the sums of the invariant are, for positions with sound ranges.
LEMMA SumsTypes ==
  ASSUME NEW pos \in AllPositions, RangesSound(pos), NEW current \in Int, NEW price \in Nat,
         NEW all_ticks \in [UsableTicks -> Tick], NEW growths \in [Token -> U128],
         NEW x \in Token, NEW funds \in Int
  PROVE  /\ Sum(FeeDues(pos, current, all_ticks, growths, x)) \in Int
         /\ Sum(ClaimsOf(x, pos, current, price)) \in Int
         /\ Reserve(x, funds, pos, current, all_ticks, growths)
              = TO_Q64 * funds - Sum(FeeDues(pos, current, all_ticks, growths, x))
         /\ Reserve(x, funds, pos, current, all_ticks, growths) \in Int
<1> DEFINE d == Sum(FeeDues(pos, current, all_ticks, growths, x))
<1>1. d \in Int /\ Sum(ClaimsOf(x, pos, current, price)) \in Int /\ TO_Q64 \in Int
  <2>1. Sum(FeeDues(pos, current, all_ticks, growths, x)) \in Int
    BY FeeDuesType
  <2>2. Sum(ClaimsOf(x, pos, current, price)) \in Int
    BY ClaimsTypes
  <2> QED
    BY <2>1, <2>2, Widths
<1>2. Reserve(x, funds, pos, current, all_ticks, growths) = TO_Q64 * funds - d
  BY DEF Reserve
<1> HIDE DEF d
<1>3. TO_Q64 * funds - d \in Int
  BY <1>1
<1> QED
  BY <1>1, <1>2, <1>3 DEF d

\* A step at one price keeps the claims covered when what it adds to the funds,
\* beyond what it adds to the fees that are due, pays for what it adds to the claims.
LEMMA StaysCovered ==
  ASSUME NEW pos \in AllPositions, RangesSound(pos),
         NEW pos2 \in AllPositions, RangesSound(pos2),
         NEW current \in Int, NEW price \in Nat \ {0},
         NEW all_ticks \in [UsableTicks -> Tick], NEW growths \in [Token -> U128],
         NEW ticks2 \in [UsableTicks -> Tick], NEW growths2 \in [Token -> U128],
         NEW x \in Token, NEW funds \in Int, NEW funds2 \in Int, NEW e \in Int,
         Covered(x, Reserve(x, funds, pos, current, all_ticks, growths), pos, current, price),
         Scale(x) * (Sum(ClaimsOf(x, pos2, current, price)) - Sum(ClaimsOf(x, pos, current, price)))
           <= e * Weight(x, price),
         Sum(FeeDues(pos2, current, ticks2, growths2, x)) + e
           <= Sum(FeeDues(pos, current, all_ticks, growths, x)) + TO_Q64 * (funds2 - funds)
  PROVE  Covered(x, Reserve(x, funds2, pos2, current, ticks2, growths2), pos2, current, price)
<1> DEFINE d  == Sum(FeeDues(pos, current, all_ticks, growths, x))
           d2 == Sum(FeeDues(pos2, current, ticks2, growths2, x))
           c  == Sum(ClaimsOf(x, pos, current, price))
           c2 == Sum(ClaimsOf(x, pos2, current, price))
           r  == Reserve(x, funds, pos, current, all_ticks, growths)
           r2 == Reserve(x, funds2, pos2, current, ticks2, growths2)
           S  == Scale(x)
           W  == Weight(x, price)
<1>0. price \in Nat
  OBVIOUS
<1>1. d \in Int /\ c \in Int /\ r = TO_Q64 * funds - d /\ r \in Int
  <2>1. d \in Int
    BY <1>0, SumsTypes
  <2>2. c \in Int
    BY <1>0, ClaimsTypes
  <2>3. r = TO_Q64 * funds - d
    BY DEF Reserve
  <2>4. r \in Int
    BY <1>0, SumsTypes
  <2> QED
    BY <2>1, <2>2, <2>3, <2>4
<1>2. d2 \in Int /\ c2 \in Int /\ r2 = TO_Q64 * funds2 - d2 /\ r2 \in Int
  <2>1. d2 \in Int
    BY <1>0, SumsTypes
  <2>2. c2 \in Int
    BY <1>0, ClaimsTypes
  <2>3. r2 = TO_Q64 * funds2 - d2
    BY DEF Reserve
  <2>4. r2 \in Int
    BY <1>0, SumsTypes
  <2> QED
    BY <2>1, <2>2, <2>3, <2>4
<1>3. S \in Nat /\ W \in Nat /\ TO_Q64 \in Int
  BY WeightsPositive, Widths
<1>4. S * (c2 - c) <= e * W /\ d2 + e <= d + TO_Q64 * (funds2 - funds)
  OBVIOUS
<1> HIDE DEF d, d2, c, c2, r, r2, S, W
<1>5. S * c <= r * W
  BY <1>1, CoveredByWeight DEF r, S, W, c
<1>6. r + e <= r2
  <2> DEFINE y == TO_Q64 * funds  y2 == TO_Q64 * funds2
  <2>1. TO_Q64 * (funds2 - funds) = y2 - y /\ y \in Int /\ y2 \in Int
    BY <1>3
  <2>2. d2 + e <= d + (y2 - y) /\ r = y - d /\ r2 = y2 - d2
    BY <1>1, <1>2, <1>4, <2>1
  <2> HIDE DEF y, y2
  <2> QED
    BY <1>1, <1>2, <2>1, <2>2
<1>7. S * c2 <= r2 * W
  BY <1>1, <1>2, <1>3, <1>4, <1>5, <1>6, CoversGrowth
<1> QED
  BY <1>2, <1>7, CoveredByWeight DEF r2, S, W, c2

\* A position's claims for the same liquidity and range are the same.
LEMMA SameClaims ==
  ASSUME NEW pos, NEW pos2, SameBook(pos, pos2), NEW x, NEW current, NEW price
  PROVE  ClaimsOf(x, pos2, current, price) = ClaimsOf(x, pos, current, price)
BY DEF SameBook, ClaimsOf

\* A step that changes no liquidity, raises no due and lowers no funds.
LEMMA StaysCoveredQuietly ==
  ASSUME NEW pos \in AllPositions, RangesSound(pos),
         NEW pos2 \in AllPositions, RangesSound(pos2), SameBook(pos, pos2),
         NEW current \in Int, NEW price \in Nat \ {0},
         NEW all_ticks \in [UsableTicks -> Tick], NEW growths \in [Token -> U128],
         NEW x \in Token, NEW funds \in Int, NEW funds2 \in Int, funds <= funds2,
         \A p \in PositionIds :
           FeeDue(pos2[p], x, FeesInside(current, all_ticks, pos2[p], growths)[x])
             <= FeeDue(pos[p], x, FeesInside(current, all_ticks, pos[p], growths)[x]),
         Covered(x, Reserve(x, funds, pos, current, all_ticks, growths), pos, current, price)
  PROVE  Covered(x, Reserve(x, funds2, pos2, current, all_ticks, growths), pos2, current, price)
<1> DEFINE D  == FeeDues(pos, current, all_ticks, growths, x)
           D2 == FeeDues(pos2, current, all_ticks, growths, x)
           c  == Sum(ClaimsOf(x, pos, current, price))
           c2 == Sum(ClaimsOf(x, pos2, current, price))
           e  == 0
<1>1. D \in Amounts /\ D2 \in Amounts /\ Sum(D) \in Int /\ Sum(D2) \in Int
  BY FeeDuesType
<1>2. \A p \in PositionIds : D2[p] <= D[p]
  BY DEF FeeDues
<1>3. Sum(D2) <= Sum(D)
  <2> HIDE DEF D, D2
  <2> QED
    BY <1>1, <1>2, SumAtMost
<1>4. c2 = c /\ c \in Int
  BY SameClaims, ClaimsTypes
<1>5. Scale(x) \in Nat /\ Weight(x, price) \in Nat /\ TO_Q64 \in Nat
  BY WeightsPositive, Widths
<1>6. Scale(x) * (c2 - c) <= e * Weight(x, price) /\ e \in Int
  <2>1. c2 - c = 0
    <3> HIDE DEF c, c2
    <3> QED
      BY <1>4
  <2> HIDE DEF c, c2
  <2> QED
    BY <1>5, <2>1
<1>7. Sum(D2) + e <= Sum(D) + TO_Q64 * (funds2 - funds)
  <2>1. TO_Q64 * (funds2 - funds) >= 0 /\ TO_Q64 * (funds2 - funds) \in Int
    <3>1. funds2 - funds \in Nat
      OBVIOUS
    <3> QED
      BY <1>5, <3>1
  <2> HIDE DEF D, D2
  <2> QED
    BY <1>1, <1>3, <2>1
<1> HIDE DEF e
<1> QED
  BY <1>6, <1>7, StaysCovered

\* What the invariant rests on, of the account after a step.
LEMMA NextAccountFacts ==
  ASSUME BookIInv'
  PROVE  /\ positions' \in AllPositions /\ RangesSound(positions')
         /\ tick_current_index' \in Int /\ ticks' \in [UsableTicks -> Tick]
         /\ fee_growth_global' \in [Token -> U128]
         /\ \A t \in UsableTicks : TickBooked(positions', t, ticks'[t])
         /\ \A x \in Token : /\ vault'[x] \in Nat /\ protocol_fee_owed'[x] \in Nat
                             /\ Funds'[x] = vault'[x] - protocol_fee_owed'[x]
                             /\ Funds'[x] \in Int
<1>1. /\ positions' \in AllPositions /\ RangesSound(positions')
      /\ tick_current_index' \in Int /\ ticks' \in [UsableTicks -> Tick]
      /\ fee_growth_global' \in [Token -> U128]
      /\ \A t \in UsableTicks : TickBooked(positions', t, ticks'[t])
      /\ vault' \in [Token -> U64] /\ protocol_fee_owed' \in [Token -> U64]
  BY DEF BookIInv, Book, IInv, TypeOK, AllPositions, AccountBooked, Booked, RangesSound
<1>2. ASSUME NEW x \in Token
      PROVE  /\ vault'[x] \in Nat /\ protocol_fee_owed'[x] \in Nat
             /\ Funds'[x] = vault'[x] - protocol_fee_owed'[x]
             /\ Funds'[x] \in Int
  <2>1. vault'[x] \in U64 /\ protocol_fee_owed'[x] \in U64
    BY <1>1
  <2>2. vault'[x] \in Nat /\ protocol_fee_owed'[x] \in Nat
    BY <2>1, WordsAreIntegers
  <2>3. Funds'[x] = vault'[x] - protocol_fee_owed'[x]
    BY DEF Funds
  <2> QED
    BY <2>2, <2>3
<1> QED
  BY <1>1, <1>2

\* An idle pool is sound when its account covers what it owes of each token.
LEMMA SolventWhenCovered ==
  ASSUME Idle',
         \A x \in Token :
           Covered(x, Reserve(x, Funds'[x], positions', tick_current_index', ticks',
                              fee_growth_global'),
                   positions', tick_current_index', sqrt_price')
  PROVE  SolvencyInv'
<1>1. AccountSolvent'
  BY DEF AccountSolvent, Solvent
<1> QED
  BY <1>1 DEF SolvencyInv, SwapSolvent

\* The account covers what it owes.
LEMMA AccountCovers ==
  ASSUME SolvencyInv, NEW x \in Token
  PROVE  Covered(x, Reserve(x, Funds[x], positions, tick_current_index, ticks, fee_growth_global),
                 positions, tick_current_index, sqrt_price)
BY DEF SolvencyInv, AccountSolvent, Solvent

\* A position earns the same fees as before, or none.
SameFees(position, pos2) ==
  /\ pos2.liquidity = position.liquidity
  /\ pos2.tick_lower_index = position.tick_lower_index
  /\ pos2.tick_upper_index = position.tick_upper_index
  /\ pos2.fee_growth_checkpoint = position.fee_growth_checkpoint
  /\ pos2.fee_owed = position.fee_owed

NoFees(position) == position.liquidity = 0 /\ \A x \in Token : position.fee_owed[x] = 0

\* A position that earns the same or nothing is due no more.
LEMMA SameFeeDue ==
  ASSUME BookIInv, NEW p \in PositionIds, NEW x \in Token, NEW pos2,
         SameFees(positions[p], pos2) \/ NoFees(pos2)
  PROVE  FeeDue(pos2, x, FeesInside(tick_current_index, ticks, pos2, fee_growth_global)[x])
           <= FeeDue(positions[p], x,
                     FeesInside(tick_current_index, ticks, positions[p], fee_growth_global)[x])
<1> DEFINE position == positions[p]
           inside == FeesInside(tick_current_index, ticks, position, fee_growth_global)[x]
           inside2 == FeesInside(tick_current_index, ticks, pos2, fee_growth_global)[x]
<1>1. FeeDue(position, x, inside) \in Nat
  BY AccountFacts, FeeDuesType
<1>2. CASE SameFees(position, pos2)
  <2>1. inside2 = inside
    BY <1>2 DEF SameFees, FeesInside
  <2>2. FeeDue(pos2, x, inside) = FeeDue(position, x, inside)
    BY <1>2 DEF SameFees, FeeDue
  <2> HIDE DEF inside, inside2, position
  <2>3. FeeDue(pos2, x, inside2) = FeeDue(position, x, inside)
    BY <2>1, <2>2
  <2>4. FeeDue(position, x, inside) <= FeeDue(position, x, inside)
    BY <1>1
  <2> QED
    BY <2>3, <2>4 DEF inside, inside2, position
<1>3. CASE NoFees(pos2)
  <2>1. FeeDue(pos2, x, inside2) = 0
    <3>1. TO_Q64 \in Nat
      BY Widths
    <3> QED
      BY <1>3, <3>1 DEF NoFees, FeeDue, DueOf
  <2> HIDE DEF inside, inside2, position
  <2>2. FeeDue(pos2, x, inside2) <= FeeDue(position, x, inside)
    BY <1>1, <2>1
  <2> QED
    BY <2>2 DEF inside, inside2, position
<1> QED
  BY <1>2, <1>3 DEF position

\* An instruction at the same price that changes no liquidity, raises no due and
\* lowers no funds keeps the pool solvent.
LEMMA SolvencyQuiet ==
  ASSUME BookIInv, BookIInv', SolvencyInv, Idle, swap' = swap,
         UNCHANGED <<tick_current_index, sqrt_price, ticks, fee_growth_global>>,
         SameBook(positions, positions'),
         \A x \in Token : Funds[x] <= Funds'[x],
         \A x \in Token, p \in PositionIds :
           FeeDue(positions'[p], x,
                  FeesInside(tick_current_index, ticks, positions'[p], fee_growth_global)[x])
             <= FeeDue(positions[p], x,
                       FeesInside(tick_current_index, ticks, positions[p], fee_growth_global)[x])
  PROVE  SolvencyInv'
<1>1. Idle'
  BY DEF Idle
<1>2. ASSUME NEW x \in Token
      PROVE  Covered(x, Reserve(x, Funds'[x], positions', tick_current_index', ticks',
                                fee_growth_global'),
                     positions', tick_current_index', sqrt_price')
  <2> DEFINE m == Funds[x]  m2 == Funds'[x]
  <2>1. /\ positions \in AllPositions /\ RangesSound(positions)
        /\ tick_current_index \in Int /\ ticks \in [UsableTicks -> Tick]
        /\ fee_growth_global \in [Token -> U128]
        /\ sqrt_price \in Nat \ {0} /\ m \in Int
    BY AccountFacts
  <2>2. positions' \in AllPositions /\ RangesSound(positions') /\ m2 \in Int
    BY NextAccountFacts
  <2>3. m <= m2
    OBVIOUS
  <2>4. Covered(x, Reserve(x, m, positions, tick_current_index, ticks, fee_growth_global),
                positions, tick_current_index, sqrt_price)
    BY AccountCovers
  <2> HIDE DEF m, m2
  <2>5. Covered(x, Reserve(x, m2, positions', tick_current_index, ticks, fee_growth_global),
                positions', tick_current_index, sqrt_price)
    BY <2>1, <2>2, <2>3, <2>4, StaysCoveredQuietly
  <2> QED
    BY <2>5 DEF m2
<1> QED
  BY <1>1, <1>2, SolventWhenCovered

\* So an instruction that leaves the positions' claims and the funds alone does.
LEMMA SolvencyUntouched ==
  ASSUME BookIInv, BookIInv', SolvencyInv, Idle, swap' = swap,
         UNCHANGED <<tick_current_index, sqrt_price, ticks, fee_growth_global>>,
         \A x \in Token : Funds'[x] = Funds[x],
         \A p \in PositionIds : \/ SameFees(positions[p], positions'[p])
                                \/ positions[p].liquidity = 0 /\ NoFees(positions'[p])
  PROVE  SolvencyInv'
<1>1. SameBook(positions, positions')
  BY DEF SameBook, SameFees, NoFees
<1>2. \A x \in Token : Funds[x] <= Funds'[x]
  <2>1. \A x \in Token : Funds[x] \in Int
    BY AccountFacts
  <2> QED
    BY <2>1
<1>3. \A x \in Token, p \in PositionIds :
        FeeDue(positions'[p], x,
               FeesInside(tick_current_index, ticks, positions'[p], fee_growth_global)[x])
          <= FeeDue(positions[p], x,
                    FeesInside(tick_current_index, ticks, positions[p], fee_growth_global)[x])
  <2> TAKE x \in Token, p \in PositionIds
  <2>1. SameFees(positions[p], positions'[p]) \/ NoFees(positions'[p])
    OBVIOUS
  <2> QED
    BY <2>1, SameFeeDue
<1> QED
  BY <1>1, <1>2, <1>3, SolvencyQuiet

\* Collecting a position's fees pays what it no longer is owed (collect_fees.rs).
LEMMA SolvencyCollect ==
  ASSUME BookIInv, BookIInv', SolvencyInv, NEW p \in PositionIds, CollectFees(p)
  PROVE  SolvencyInv'
<1> USE DEF config, curve, fees, rewards
<1> DEFINE position == positions[p]
           pos2     == [position EXCEPT !.fee_owed = [x \in Token |-> 0]]
<1>1. /\ positions \in AllPositions /\ RangesSound(positions) /\ position \in Position
      /\ tick_current_index \in Int /\ ticks \in [UsableTicks -> Tick]
      /\ fee_growth_global \in [Token -> U128] /\ sqrt_price \in Nat \ {0}
  BY AccountFacts, RangeOfPosition
<1>2. positions' \in AllPositions /\ RangesSound(positions')
  BY NextAccountFacts
<1>3. /\ Idle /\ swap' = swap
      /\ UNCHANGED <<tick_current_index, sqrt_price, ticks, fee_growth_global, protocol_fee_owed>>
      /\ positions' = [positions EXCEPT ![p].fee_owed = [x \in Token |-> 0]]
      /\ vault' = [x \in Token |-> vault[x] - position.fee_owed[x]]
  BY DEF CollectFees, TransferToOwner
<1>4. positions'[p] = pos2 /\ \A q \in PositionIds : q # p => positions'[q] = positions[q]
  BY <1>1, <1>3 DEF AllPositions
<1>5. /\ pos2.liquidity = position.liquidity
      /\ pos2.tick_lower_index = position.tick_lower_index
      /\ pos2.tick_upper_index = position.tick_upper_index
      /\ pos2.fee_growth_checkpoint = position.fee_growth_checkpoint
      /\ \A x \in Token : pos2.fee_owed[x] = 0
  BY <1>1 DEF Position
<1> HIDE DEF pos2
<1>6. SameBook(positions, positions')
  BY <1>4, <1>5 DEF SameBook
<1>7. Idle'
  BY <1>3 DEF Idle
<1>8. ASSUME NEW x \in Token
      PROVE  Covered(x, Reserve(x, Funds'[x], positions', tick_current_index', ticks',
                                fee_growth_global'),
                     positions', tick_current_index', sqrt_price')
  <2> DEFINE m  == Funds[x]
             m2 == Funds'[x]
             o  == position.fee_owed[x]
             D  == FeeDues(positions, tick_current_index, ticks, fee_growth_global, x)
             D2 == FeeDues(positions', tick_current_index, ticks, fee_growth_global, x)
             c  == Sum(ClaimsOf(x, positions, tick_current_index, sqrt_price))
             c2 == Sum(ClaimsOf(x, positions', tick_current_index, sqrt_price))
             e  == 0
  <2>1. o \in Nat /\ m \in Int /\ m2 \in Int /\ m2 = m - o
    <3>1. o \in U64
      BY <1>1 DEF Position
    <3>2. o \in Nat
      <4> HIDE DEF o
      <4> QED
        BY <3>1, WordsAreIntegers
    <3>3. /\ m = vault[x] - protocol_fee_owed[x] /\ m \in Int
          /\ vault[x] \in Int /\ protocol_fee_owed[x] \in Int
      BY AccountFacts
    <3>4. m2 = vault'[x] - protocol_fee_owed'[x]
      BY NextAccountFacts
    <3>5. vault'[x] = vault[x] - o /\ protocol_fee_owed'[x] = protocol_fee_owed[x]
      BY <1>3
    <3> HIDE DEF o, m, m2
    <3> QED
      BY <3>2, <3>3, <3>4, <3>5
  <2>2. D \in Amounts /\ D2 \in Amounts /\ Sum(D) \in Int /\ Sum(D2) \in Int
    BY <1>1, <1>2, FeeDuesType
  <2>3. \A q \in PositionIds : q # p => D2[q] = D[q]
    BY <1>4 DEF FeeDues
  <2>4. D[p] = TO_Q64 * o + D2[p] /\ TO_Q64 * o \in Int
    <3> DEFINE inside == FeesInside(tick_current_index, ticks, position, fee_growth_global)[x]
               L == position.liquidity
               b == IF L = 0 THEN 0 ELSE L * WrapU128(inside - position.fee_growth_checkpoint[x])
    <3>1. FeesInside(tick_current_index, ticks, pos2, fee_growth_global)[x] = inside
      BY <1>5 DEF FeesInside
    <3>2. D[p] = TO_Q64 * o + b
      BY DEF FeeDues, FeeDue, DueOf
    <3>3. D2[p] = FeeDue(pos2, x, inside)
      BY <1>4, <3>1 DEF FeeDues
    <3>4. FeeDue(pos2, x, inside) = TO_Q64 * 0 + b
      <4> HIDE DEF inside
      <4> QED
        BY <1>5 DEF FeeDue, DueOf
    <3>5. D2[p] \in Int /\ TO_Q64 \in Nat
      BY <2>2, Widths DEF Amounts
    <3> HIDE DEF b, o, D, D2
    <3>6. TO_Q64 * 0 = 0 /\ TO_Q64 * o \in Int
      BY <2>1, <3>5
    <3>7. b \in Int
      <4>1. D[p] \in Int
        BY <2>2 DEF Amounts
      <4>2. D[p] \in Nat
        BY <1>1, FeeDuesType DEF D
      <4>3. L \in U128 /\ position.fee_growth_checkpoint[x] \in U128
        BY <1>1 DEF Position
      <4>4. L = 0 \/ inside \in U128
        BY <1>1, FeeDuesType
      <4> HIDE DEF L, inside
      <4>5. L \in Int /\ position.fee_growth_checkpoint[x] \in Int /\ (L = 0 \/ inside \in Int)
        BY <4>3, <4>4, WordsAreIntegers
      <4>6. L # 0 => WrapU128(inside - position.fee_growth_checkpoint[x]) \in Int
        BY <4>5, WrapMultiple
      <4> QED
        BY <4>5, <4>6 DEF b
    <3> QED
      BY <3>2, <3>3, <3>4, <3>6, <3>7
  <2>5. Sum(D2) = Sum(D) + (D2[p] - D[p])
    <3> HIDE DEF D, D2
    <3> QED
      BY <2>2, <2>3, SumOfOneChange
  <2>6. c2 = c /\ c \in Int
    BY <1>1, <1>6, SameClaims, ClaimsTypes
  <2>7. Scale(x) \in Nat /\ Weight(x, sqrt_price) \in Nat /\ TO_Q64 \in Nat
    BY <1>1, WeightsPositive, Widths
  <2>8. Scale(x) * (c2 - c) <= e * Weight(x, sqrt_price) /\ e \in Int
    <3> HIDE DEF c, c2
    <3>1. c2 - c = 0
      BY <2>6
    <3> QED
      BY <2>7, <3>1
  <2>9. Sum(D2) + e <= Sum(D) + TO_Q64 * (m2 - m)
    <3>1. D2[p] \in Int /\ D[p] \in Int
      BY <2>2 DEF Amounts
    <3> HIDE DEF D, D2, m, m2, o
    <3>2. TO_Q64 * (m2 - m) = -(TO_Q64 * o)
      <4>1. m2 - m = -o
        BY <2>1
      <4> QED
        BY <2>1, <2>7, <4>1
    <3> DEFINE y == TO_Q64 * o
    <3>3. Sum(D2) = Sum(D) - y /\ y \in Int
      BY <2>2, <2>4, <2>5, <3>1
    <3> HIDE DEF y
    <3> QED
      BY <2>2, <3>2, <3>3 DEF y
  <2>10. Covered(x, Reserve(x, m, positions, tick_current_index, ticks, fee_growth_global),
                 positions, tick_current_index, sqrt_price)
    BY AccountCovers
  <2> HIDE DEF m, m2, e
  <2>11. Covered(x, Reserve(x, m2, positions', tick_current_index, ticks, fee_growth_global),
                 positions', tick_current_index, sqrt_price)
    BY <1>1, <1>2, <2>1, <2>8, <2>9, <2>10, StaysCovered
  <2> QED
    BY <1>3, <2>11 DEF m2
<1> QED
  BY <1>7, <1>8, SolventWhenCovered

\* Updating a position's fees and rewards settles it and changes nothing else it says of
\* itself.
LEMMA UpdateSettles ==
  ASSUME BookIInv, BookIInv',
         NEW p \in PositionIds, NEW timestamp \in U64, UpdateFeesAndRewards(p, timestamp)
  PROVE  /\ FeeGrowthsInside(positions[p]) \in [Token -> U128]
         /\ positions'[p] = next_position_modify_liquidity_update(positions[p], 0,
                              FeeGrowthsInside(positions[p]),
                              RewardGrowthsInside(positions[p], RewardInfosAt(timestamp)))
         /\ \A q \in PositionIds : q # p => positions'[q] = positions[q]
         /\ positions'[p].state = positions[p].state
         /\ positions'[p].tick_lower_index = positions[p].tick_lower_index
         /\ positions'[p].tick_upper_index = positions[p].tick_upper_index
         /\ positions'[p].liquidity = positions[p].liquidity
<1> USE DEF config, curve, fees
<1> DEFINE position == positions[p]
           infos    == RewardInfosAt(timestamp)
           inside   == FeeGrowthsInside(position)
           reward_growths == RewardGrowthsInside(position, infos)
           pos2     == positions'[p]
<1>1. /\ TypeOK /\ TypeOK' /\ position \in Position /\ positions \in AllPositions
      /\ tick_current_index \in Int /\ positions' \in AllPositions /\ pos2 \in Position
  BY DEF BookIInv, IInv, TypeOK, AllPositions
<1>2. /\ Idle /\ swap' = swap /\ ~ModifyLiquidityFails(position, 0, timestamp)
      /\ positions' = [positions EXCEPT ![p] = PositionUpdate(position, 0, infos)]
      /\ UNCHANGED <<tick_current_index, sqrt_price, ticks, fee_growth_global, protocol_fee_owed,
                     vault>>
  BY DEF UpdateFeesAndRewards
<1>3. HasTickArrays(position) /\ timestamp >= reward_last_updated_timestamp
  BY <1>1, <1>2, NotBefore DEF ModifyLiquidityFails
<1>4. inside \in [Token -> U128]
  <2>1. infos \in [RewardIndex -> WhirlpoolRewardInfo]
    BY <1>1, <1>3, RewardInfosAtType
  <2> HIDE DEF infos
  <2> QED
    BY <1>1, <1>3, <2>1, PositionGrowths
<1>5. /\ pos2 = next_position_modify_liquidity_update(position, 0, inside, reward_growths)
      /\ \A q \in PositionIds : q # p => positions'[q] = positions[q]
  BY <1>1, <1>2 DEF AllPositions, PositionUpdate
<1>6. LiquidityAdded(positions, positions', p, 0)
  <2>1. add_liquidity_delta(position.liquidity, 0) # Err
    BY <1>2 DEF ModifyLiquidityFails
  <2> DEFINE delta == 0
  <2>2. /\ delta \in Int /\ add_liquidity_delta(positions[p].liquidity, delta) # Err
        /\ positions' = [positions EXCEPT ![p] = PositionUpdate(positions[p], delta, infos)]
    BY <1>2, <2>1
  <2> HIDE DEF delta, infos
  <2>3. LiquidityAdded(positions, positions', p, delta)
    BY <1>1, <2>2, PositionAdded
  <2> QED
    BY <2>3 DEF delta
<1>7. /\ pos2.state = position.state
      /\ pos2.tick_lower_index = position.tick_lower_index
      /\ pos2.tick_upper_index = position.tick_upper_index
      /\ pos2.liquidity = position.liquidity /\ pos2.liquidity \in U128
  <2>1. position.liquidity \in U128 /\ pos2.liquidity \in U128
    BY <1>1 DEF Position
  <2>2. position.liquidity \in Int
    BY <2>1, WordsAreIntegers
  <2> QED
    BY <1>6, <2>1, <2>2 DEF LiquidityAdded
<1> QED
  BY <1>4, <1>5, <1>7

\* Updating a position's fees and rewards settles what it is due, rounded down
\* (update_fees_and_rewards.rs).
LEMMA SolvencyUpdate ==
  ASSUME BookIInv, BookIInv', SolvencyInv,
         NEW p \in PositionIds, NEW timestamp \in U64, UpdateFeesAndRewards(p, timestamp)
  PROVE  SolvencyInv'
<1> USE DEF config, curve, fees
<1> DEFINE position == positions[p]
           infos    == RewardInfosAt(timestamp)
           inside   == FeeGrowthsInside(position)
           reward_growths == RewardGrowthsInside(position, infos)
           pos2     == positions'[p]
<1>1. position \in Position /\ pos2 \in Position /\ pos2.liquidity \in U128
  BY AccountFacts, NextAccountFacts DEF AllPositions, Position
<1>2. /\ Idle /\ swap' = swap
      /\ UNCHANGED <<tick_current_index, sqrt_price, ticks, fee_growth_global, protocol_fee_owed,
                     vault>>
  BY DEF UpdateFeesAndRewards
<1>3. /\ inside \in [Token -> U128]
      /\ pos2 = next_position_modify_liquidity_update(position, 0, inside, reward_growths)
      /\ \A q \in PositionIds : q # p => positions'[q] = positions[q]
      /\ pos2.tick_lower_index = position.tick_lower_index
      /\ pos2.tick_upper_index = position.tick_upper_index
      /\ pos2.liquidity = position.liquidity
  BY UpdateSettles
<1>4. SameBook(positions, positions')
  BY <1>3 DEF SameBook
<1>5. /\ FeesInside(tick_current_index, ticks, position, fee_growth_global) = inside
      /\ FeesInside(tick_current_index, ticks, pos2, fee_growth_global) = inside
  BY <1>3 DEF FeesInside, FeeGrowthsInside
<1>6. \A x \in Token, q \in PositionIds :
         FeeDue(positions'[q], x,
                FeesInside(tick_current_index, ticks, positions'[q], fee_growth_global)[x])
           <= FeeDue(positions[q], x,
                     FeesInside(tick_current_index, ticks, positions[q], fee_growth_global)[x])
  <2> TAKE x \in Token, q \in PositionIds
  <2>1. CASE q = p
    <3> DEFINE growth == inside[x]
    <3>1. FeeDue(pos2, x, growth) <= FeeDue(position, x, growth)
      <4> HIDE DEF pos2, inside, reward_growths, position
      <4> QED
        BY <1>1, <1>3, SettledFees
    <3> QED
      BY <1>5, <2>1, <3>1
  <2>2. CASE q # p
    <3>1. positions'[q] = positions[q] /\ SameFees(positions[q], positions[q])
      BY <1>3, <2>2 DEF SameFees
    <3> QED
      BY <3>1, SameFeeDue
  <2> QED
    BY <2>1, <2>2
<1>7. \A x \in Token : Funds[x] <= Funds'[x]
  <2> TAKE x \in Token
  <2>1. Funds[x] \in Int /\ Funds[x] = vault[x] - protocol_fee_owed[x]
    BY AccountFacts
  <2>2. Funds'[x] = vault[x] - protocol_fee_owed[x]
    BY <1>2 DEF Funds
  <2> QED
    BY <2>1, <2>2
<1> HIDE DEF position, infos, inside, reward_growths, pos2
<1> QED
  BY <1>2, <1>4, <1>6, <1>7, SolvencyQuiet

\* A change of one position's liquidity changes the claims by the change times
\* what its range holds.
LEMMA ClaimsAfterChange ==
  ASSUME NEW pos \in AllPositions, RangesSound(pos), NEW pos2 \in AllPositions, RangesSound(pos2),
         NEW p \in PositionIds, pos[p].state = "open",
         NEW delta \in Int, LiquidityAdded(pos, pos2, p, delta),
         NEW current \in Int, NEW price \in Nat, NEW x \in Token
  PROVE  /\ Holds(x, pos[p].tick_lower_index, pos[p].tick_upper_index, current, price) \in Int
         /\ Sum(ClaimsOf(x, pos2, current, price)) =
              Sum(ClaimsOf(x, pos, current, price))
              + delta * Holds(x, pos[p].tick_lower_index, pos[p].tick_upper_index, current, price)
<1> DEFINE D  == ClaimsOf(x, pos, current, price)
           D2 == ClaimsOf(x, pos2, current, price)
           h  == Holds(x, pos[p].tick_lower_index, pos[p].tick_upper_index, current, price)
           L  == pos[p].liquidity
           L2 == pos2[p].liquidity
<1>1. D \in Amounts /\ D2 \in Amounts /\ Sum(D) \in Int /\ Sum(D2) \in Int
  BY ClaimsTypes
<1>2. pos[p].tick_lower_index \in TickIndices /\ pos[p].tick_upper_index \in TickIndices
  BY ArrayTypes DEF RangesSound
<1>3. h \in Int
  BY <1>2, HoldsTypes DEF Holds
<1>4. L \in Int /\ L2 \in Int /\ L2 = L + delta
  <2>1. L \in Nat /\ L2 \in Nat
    BY RangeOfPosition
  <2> QED
    BY <2>1 DEF LiquidityAdded
<1>5. \A q \in PositionIds : q # p => D2[q] = D[q]
  BY DEF LiquidityAdded, ClaimsOf
<1>6. D[p] = L * h
  <2>1. D[p] = IF L = 0 THEN 0 ELSE L * h
    BY DEF ClaimsOf
  <2> HIDE DEF D, L, h
  <2> QED
    BY <1>3, <1>4, <2>1
<1>7. D2[p] = L2 * h
  <2>1. D2[p] = IF L2 = 0 THEN 0 ELSE L2 * h
    BY DEF ClaimsOf, LiquidityAdded
  <2> HIDE DEF D2, L2, h
  <2> QED
    BY <1>3, <1>4, <2>1
<1> HIDE DEF D, D2, h, L, L2
<1>8. Sum(D2) = Sum(D) + (D2[p] - D[p])
  BY <1>1, <1>5, SumOfOneChange
<1>9. D2[p] - D[p] = delta * h
  <2>1. (L + delta) * h = L * h + delta * h
    BY <1>3, <1>4
  <2>2. L * h \in Int /\ delta * h \in Int
    BY <1>3, <1>4
  <2> QED
    BY <1>4, <1>6, <1>7, <2>1, <2>2
<1> QED
  BY <1>3, <1>8, <1>9 DEF D, D2, h

\* A change of liquidity costs at least, and yields at most, what it adds to or
\* takes from the claims (liquidity_manager.rs, calculate_liquidity_token_deltas).
LEMMA PaidForChange ==
  ASSUME BookIInv, NEW p \in PositionIds, positions[p].state = "open", NEW delta \in Int,
         (IF delta < 0 THEN -delta ELSE delta) \in U128,
         NEW x \in Token, TokenDeltas(p, delta)[x] # Err,
         NEW h, h = Holds(x, positions[p].tick_lower_index, positions[p].tick_upper_index,
                          tick_current_index, sqrt_price)
  PROVE  /\ TokenDeltas(p, delta)[x] \in Nat /\ h \in Nat
         /\ Scale(x) * (delta * h)
              <= (IF delta > 0 THEN TO_Q64 * TokenDeltas(p, delta)[x]
                  ELSE -(TO_Q64 * TokenDeltas(p, delta)[x])) * Weight(x, sqrt_price)
<1> DEFINE l == positions[p].tick_lower_index
           u == positions[p].tick_upper_index
           L == IF delta < 0 THEN -delta ELSE delta
           up == delta > 0
           v == TokenDeltas(p, delta)[x]
           S == Scale(x)
           W == Weight(x, sqrt_price)
<1>1. l \in TickIndices /\ u \in TickIndices /\ l < u
  <2>1. RangesSound(positions)
    BY AccountFacts
  <2> QED
    BY <2>1, ArrayTypes DEF RangesSound
<1>2. /\ TickHoldsPrice(tick_current_index, sqrt_price) /\ sqrt_price \in Nat \ {0}
      /\ L \in U128 /\ up \in BOOLEAN
  BY AccountFacts
<1>3. v = RangeAmount(x, l, u, tick_current_index, sqrt_price, L, up) /\ v # Err
  BY DeltasAreAmounts
<1>4. S \in Nat /\ W \in Nat /\ TO_Q64 \in Nat
  BY <1>2, WeightsPositive, Widths
<1>5. L \in Int /\ (up => delta = L) /\ (~up => delta = -L)
  OBVIOUS
<1>6. h = Holds(x, l, u, tick_current_index, sqrt_price)
  OBVIOUS
<1> HIDE DEF l, u, L, v, S, W
<1>7. v \in Nat /\ Holds(x, l, u, tick_current_index, sqrt_price) \in Nat
  <2> HIDE DEF up
  <2> QED
    BY <1>1, <1>2, <1>3, RangeWorth
<1>8. Rounds(up, (TO_Q64 * v) * W, S * (L * h))
  <2>1. Rounds(up, (TO_Q64 * v) * Weight(x, sqrt_price),
               Scale(x) * (L * Holds(x, l, u, tick_current_index, sqrt_price)))
    <3> HIDE DEF up
    <3> QED
      BY <1>1, <1>2, <1>3, RangeWorth
  <2> QED
    BY <1>6, <2>1 DEF S, W
<1> DEFINE y == TO_Q64 * v
<1>9. y \in Nat /\ h \in Nat
  BY <1>4, <1>6, <1>7
<1> HIDE DEF y
<1>10. CASE up
  <2>1. S * (L * h) <= y * W
    BY <1>8, <1>10 DEF Rounds, y
  <2>2. S * (delta * h) <= (IF delta > 0 THEN y ELSE -y) * W
    BY <1>5, <1>10, <2>1
  <2> QED
    BY <1>7, <1>9, <2>2 DEF v, S, W, y
<1>11. CASE ~up
  <2>1. y * W <= S * (L * h)
    BY <1>8, <1>11 DEF Rounds, y
  <2>2. delta * h = -(L * h) /\ L * h \in Int
    BY <1>5, <1>9, <1>11
  <2> DEFINE k == L * h
  <2>3. S * (delta * h) = -(S * k) /\ S * k \in Int
    <3>1. S * (-k) = -(S * k) /\ S * k \in Int
      <4> HIDE DEF k
      <4>1. k \in Int
        BY <2>2 DEF k
      <4> QED
        BY <1>4, <4>1
    <3> QED
      BY <2>2, <3>1
  <2>4. (-y) * W = -(y * W) /\ y * W \in Int
    BY <1>4, <1>9
  <2> DEFINE a == S * k  b == y * W
  <2>5. b <= a /\ a \in Int /\ b \in Int
    BY <2>1, <2>3, <2>4
  <2>6. -a <= -b
    <3> HIDE DEF a, b
    <3> QED
      BY <2>5
  <2>7. S * (delta * h) <= (IF delta > 0 THEN y ELSE -y) * W
    BY <1>11, <2>3, <2>4, <2>6
  <2> QED
    BY <1>7, <1>9, <2>7 DEF v, S, W, y
<1> QED
  BY <1>10, <1>11

\* A change of one position's liquidity settles that position, and leaves the fees'
\* growth inside the range of every position with liquidity as it was: a tick that it
\* initializes starts with the growth outside that it stood for (tick_manager.rs:68).
LEMMA ModifySettles ==
  ASSUME BookIInv, BookIInv', NEW p \in PositionIds, NEW delta \in Int, NEW timestamp \in U64,
         positions[p].state = "open", ModifyLiquidity(p, delta, timestamp),
         UNCHANGED <<tick_current_index, fee_growth_global>>
  PROVE  /\ FeeGrowthsInside(positions[p]) \in [Token -> U128]
         /\ positions'[p] = next_position_modify_liquidity_update(positions[p], delta,
                              FeeGrowthsInside(positions[p]),
                              RewardGrowthsInside(positions[p], RewardInfosAt(timestamp)))
         /\ LiquidityAdded(positions, positions', p, delta)
         /\ \A q \in PositionIds, x \in Token : positions'[q].liquidity # 0 =>
              FeesInside(tick_current_index, ticks', positions'[q], fee_growth_global)[x]
                = FeesInside(tick_current_index, ticks, positions'[q], fee_growth_global)[x]
<1> DEFINE position == positions[p]
           infos    == RewardInfosAt(timestamp)
           current  == tick_current_index
           inside   == FeeGrowthsInside(position)
           reward_growths == RewardGrowthsInside(position, infos)
<1>1. /\ TypeOK /\ positions \in AllPositions /\ position \in Position
      /\ RangesSound(positions) /\ RangesSound(positions') /\ positions' \in AllPositions
      /\ ticks \in [UsableTicks -> Tick] /\ ticks' \in [UsableTicks -> Tick]
      /\ current \in Int /\ fee_growth_global \in [Token -> U128]
      /\ \A t \in UsableTicks : TickBooked(positions, t, ticks[t])
      /\ \A t \in UsableTicks : TickBooked(positions', t, ticks'[t])
  BY DEF BookIInv, Book, IInv, TypeOK, AllPositions, AccountBooked, Booked, RangesSound
<1>2. /\ ~ModifyLiquidityFails(position, delta, timestamp)
      /\ positions' = [positions EXCEPT ![p] = PositionUpdate(position, delta, infos)]
      /\ ticks' = [t \in UsableTicks |->
                     IF t \in {position.tick_lower_index, position.tick_upper_index}
                     THEN TickUpdate(position, t, delta, infos) ELSE ticks[t]]
  BY DEF ModifyLiquidity
<1>3. HasTickArrays(position) /\ timestamp >= reward_last_updated_timestamp
  BY <1>1, <1>2, NotBefore DEF ModifyLiquidityFails
<1>4. inside \in [Token -> U128]
  <2>1. infos \in [RewardIndex -> WhirlpoolRewardInfo]
    BY <1>1, <1>3, RewardInfosAtType
  <2> HIDE DEF infos
  <2> QED
    BY <1>1, <1>3, <2>1, PositionGrowths
<1>5. /\ positions'[p] = next_position_modify_liquidity_update(position, delta, inside,
                                                               reward_growths)
      /\ \A q \in PositionIds : q # p => positions'[q] = positions[q]
  BY <1>1, <1>2 DEF AllPositions, PositionUpdate
<1>6. LiquidityAdded(positions, positions', p, delta)
  <2>1. add_liquidity_delta(positions[p].liquidity, delta) # Err
    BY <1>2 DEF ModifyLiquidityFails
  <2> HIDE DEF infos
  <2> QED
    BY <1>1, <1>2, <2>1, PositionAdded
<1>7. ASSUME NEW t \in UsableTicks, NEW x \in Token, ticks'[t].initialized
      PROVE  FeesContinued(ticks, ticks', t, current, fee_growth_global, x)
  <2>1. ticks[t] \in Tick /\ (ticks[t].initialized <=> ticks[t].liquidity_gross > 0)
    BY <1>1 DEF TickBooked
  <2>2. CASE t \in {position.tick_lower_index, position.tick_upper_index}
    <3> DEFINE is_upper_tick == t = position.tick_upper_index
               t2 == ticks'[t]
    <3>1. t2 = next_tick_modify_liquidity_update(ticks[t], t, current, fee_growth_global,
                                                 infos, delta, is_upper_tick)
      BY <1>2, <2>2 DEF TickUpdate
    <3>2. t2.initialized
      BY <1>7
    <3> HIDE DEF infos, is_upper_tick, current, t2
    <3>3. Continued(ticks[t], t2, t, current, fee_growth_global[x],
                    ticks[t].fee_growth_outside[x], t2.fee_growth_outside[x])
      BY <2>1, <3>1, <3>2, FeeTickContinues
    <3> QED
      BY <3>3 DEF FeesContinued, t2
  <2>3. CASE t \notin {position.tick_lower_index, position.tick_upper_index}
    <3>1. ticks'[t] = ticks[t]
      BY <1>2, <2>3
    <3> QED
      BY <3>1 DEF FeesContinued, Continued
  <2> QED
    BY <2>2, <2>3
<1>8. ASSUME NEW q \in PositionIds, positions'[q].liquidity # 0, NEW x \in Token
      PROVE  FeesInside(current, ticks', positions'[q], fee_growth_global)[x]
               = FeesInside(current, ticks, positions'[q], fee_growth_global)[x]
  <2> DEFINE l == positions'[q].tick_lower_index
             u == positions'[q].tick_upper_index
  <2>1. /\ l \in UsableTicks /\ u \in UsableTicks
        /\ ticks'[l].initialized /\ ticks'[u].initialized
    BY <1>1, <1>8, BoundariesBooked
  <2>2. l \in Int /\ u \in Int
    BY <2>1, ArrayTypes
  <2>3. /\ FeesContinued(ticks, ticks', l, current, fee_growth_global, x)
        /\ FeesContinued(ticks, ticks', u, current, fee_growth_global, x)
    <3> HIDE DEF l, u
    <3> QED
      BY <1>7, <2>1
  <2>4. current \in Int /\ fee_growth_global \in [Token -> U128]
    BY <1>1
  <2> HIDE DEF current
  <2> QED
    BY <2>2, <2>3, <2>4, FeesInsideContinue
<1> QED
  BY <1>4, <1>5, <1>6, <1>8

\* Changing a position's liquidity keeps the pool solvent: the position is settled
\* first, the fees of the others are as before, and what the change adds to the
\* claims is paid for (increase_liquidity.rs, decrease_liquidity.rs).
LEMMA SolvencyModify ==
  ASSUME BookIInv, BookIInv', SolvencyInv, Idle,
         NEW p \in PositionIds, NEW delta \in Int, NEW timestamp \in U64,
         (IF delta < 0 THEN -delta ELSE delta) \in U128,
         positions[p].state = "open", ModifyLiquidity(p, delta, timestamp),
         UNCHANGED <<tick_current_index, sqrt_price, fee_growth_global, protocol_fee_owed, swap>>,
         \A x \in Token : TokenDeltas(p, delta)[x] # Err,
         \A x \in Token : vault'[x] = IF delta > 0 THEN vault[x] + TokenDeltas(p, delta)[x]
                                      ELSE vault[x] - TokenDeltas(p, delta)[x]
  PROVE  SolvencyInv'
<1> DEFINE position == positions[p]
           infos    == RewardInfosAt(timestamp)
           current  == tick_current_index
           inside   == FeeGrowthsInside(position)
           reward_growths == RewardGrowthsInside(position, infos)
<1>1. /\ TypeOK /\ positions \in AllPositions /\ position \in Position
      /\ RangesSound(positions) /\ RangesSound(positions') /\ positions' \in AllPositions
      /\ ticks \in [UsableTicks -> Tick] /\ ticks' \in [UsableTicks -> Tick]
      /\ current \in Int /\ fee_growth_global \in [Token -> U128]
      /\ \A t \in UsableTicks : TickBooked(positions, t, ticks[t])
      /\ \A t \in UsableTicks : TickBooked(positions', t, ticks'[t])
  BY DEF BookIInv, Book, IInv, TypeOK, AllPositions, AccountBooked, Booked, RangesSound
<1>2. /\ inside \in [Token -> U128]
      /\ positions'[p] = next_position_modify_liquidity_update(position, delta, inside,
                                                               reward_growths)
      /\ LiquidityAdded(positions, positions', p, delta)
  BY ModifySettles
<1>3. ASSUME NEW q \in PositionIds, positions'[q].liquidity # 0, NEW x \in Token
      PROVE  FeesInside(current, ticks', positions'[q], fee_growth_global)[x]
               = FeesInside(current, ticks, positions'[q], fee_growth_global)[x]
  BY <1>3, ModifySettles
<1>4. \A q \in PositionIds : q # p => positions'[q] = positions[q]
  BY <1>2 DEF LiquidityAdded
<1>5. ASSUME NEW q \in PositionIds, NEW x \in Token
      PROVE  FeeDue(positions'[q], x,
                    FeesInside(current, ticks', positions'[q], fee_growth_global)[x])
               <= FeeDue(positions[q], x,
                         FeesInside(current, ticks, positions[q], fee_growth_global)[x])
  <2>1. CASE q = p
    <3> DEFINE pos2   == positions'[p]
               growth == FeesInside(current, ticks', positions'[p], fee_growth_global)[x]
    <3>1. FeesInside(current, ticks, position, fee_growth_global) = inside
      BY DEF FeesInside, FeeGrowthsInside
    <3>2. /\ pos2.tick_lower_index = position.tick_lower_index
          /\ pos2.tick_upper_index = position.tick_upper_index
      BY <1>2 DEF LiquidityAdded
    <3>3. FeesInside(current, ticks, pos2, fee_growth_global) = inside
      BY <3>2 DEF FeesInside, FeeGrowthsInside
    <3>4. pos2.liquidity = 0 \/ growth = inside[x]
      BY <1>3, <3>3
    <3>5. pos2.liquidity \in U128
      BY <1>1 DEF AllPositions, Position
    <3>6. FeeDue(pos2, x, growth) <= FeeDue(position, x, inside[x])
      <4> HIDE DEF pos2, growth, inside, reward_growths, position
      <4> QED
        BY <1>1, <1>2, <3>4, <3>5, SettledFees DEF pos2
    <3> QED
      BY <2>1, <3>1, <3>6
  <2>2. CASE q # p
    <3> DEFINE growth  == FeesInside(current, ticks, positions[q], fee_growth_global)[x]
               growth2 == FeesInside(current, ticks', positions[q], fee_growth_global)[x]
    <3>1. positions'[q] = positions[q]
      BY <1>4, <2>2
    <3>2. positions[q].liquidity = 0 \/ growth2 = growth
      BY <1>3, <3>1
    <3>3. FeeDue(positions[q], x, growth2) = FeeDue(positions[q], x, growth)
      BY <3>2 DEF FeeDue, DueOf
    <3>4. SameFees(positions[q], positions[q])
      BY DEF SameFees
    <3>5. FeeDue(positions[q], x, growth) <= FeeDue(positions[q], x, growth)
      BY <3>4, SameFeeDue
    <3>6. FeeDue(positions[q], x, growth2) <= FeeDue(positions[q], x, growth)
      <4> HIDE DEF growth, growth2
      <4> QED
        BY <3>3, <3>5
    <3> QED
      BY <3>1, <3>6
  <2> QED
    BY <2>1, <2>2
<1>6. Idle'
  BY DEF Idle
<1>7. ASSUME NEW x \in Token
       PROVE  Covered(x, Reserve(x, Funds'[x], positions', tick_current_index', ticks',
                                 fee_growth_global'),
                      positions', tick_current_index', sqrt_price')
  <2> DEFINE m  == Funds[x]
             m2 == Funds'[x]
             v  == TokenDeltas(p, delta)[x]
             D  == FeeDues(positions, tick_current_index, ticks, fee_growth_global, x)
             D2 == FeeDues(positions', tick_current_index, ticks', fee_growth_global, x)
             c  == Sum(ClaimsOf(x, positions, tick_current_index, sqrt_price))
             c2 == Sum(ClaimsOf(x, positions', tick_current_index, sqrt_price))
             h  == Holds(x, position.tick_lower_index, position.tick_upper_index,
                         tick_current_index, sqrt_price)
             e  == IF delta > 0 THEN TO_Q64 * v ELSE -(TO_Q64 * v)
  <2>1. sqrt_price \in Nat \ {0} /\ sqrt_price \in Nat /\ TO_Q64 \in Nat
    BY AccountFacts, Widths
  <2>2. v \in Nat /\ h \in Nat /\ Scale(x) * (delta * h) <= e * Weight(x, sqrt_price)
    <3>1. v # Err
      OBVIOUS
    <3> QED
      BY <3>1, PaidForChange
  <2>3. /\ m \in Int /\ m2 \in Int
        /\ m2 - m = IF delta > 0 THEN v ELSE -v
    <3>1. /\ m = vault[x] - protocol_fee_owed[x] /\ m \in Int
          /\ vault[x] \in Int /\ protocol_fee_owed[x] \in Int
      BY AccountFacts
    <3>2. m2 = vault'[x] - protocol_fee_owed'[x] /\ m2 \in Int
      BY NextAccountFacts
    <3>3. /\ vault'[x] = IF delta > 0 THEN vault[x] + v ELSE vault[x] - v
          /\ protocol_fee_owed'[x] = protocol_fee_owed[x]
      OBVIOUS
    <3> HIDE DEF m, m2, v
    <3> QED
      BY <2>2, <3>1, <3>2, <3>3
  <2>4. e \in Int /\ TO_Q64 * (m2 - m) = e
    <3>1. TO_Q64 * (-v) = -(TO_Q64 * v) /\ TO_Q64 * v \in Int
      <4> HIDE DEF v
      <4> QED
        BY <2>1, <2>2
    <3> HIDE DEF v, m, m2
    <3> QED
      BY <2>3, <3>1
  <2>5. D \in Amounts /\ D2 \in Amounts /\ Sum(D) \in Int /\ Sum(D2) \in Int
    BY <1>1, FeeDuesType
  <2>6. Sum(D2) <= Sum(D)
    <3>1. \A q \in PositionIds : D2[q] <= D[q]
      BY <1>5 DEF FeeDues
    <3> HIDE DEF D, D2
    <3> QED
      BY <2>5, <3>1, SumAtMost
  <2>7. Sum(D2) + e <= Sum(D) + TO_Q64 * (m2 - m)
    <3> HIDE DEF D, D2, e, m, m2
    <3> QED
      BY <2>4, <2>5, <2>6
  <2>8. c2 - c = delta * h
    <3>1. c \in Int /\ h \in Int
      BY <1>1, <2>1, <2>2, ClaimsTypes
    <3>2. c2 = c + delta * h
      <4> HIDE DEF c, c2, h
      <4>1. /\ positions[p].state = "open" /\ positions \in AllPositions /\ positions' \in AllPositions
            /\ RangesSound(positions) /\ RangesSound(positions') /\ tick_current_index \in Int
        BY <1>1
      <4> QED
        BY <1>2, <2>1, <4>1, ClaimsAfterChange DEF c, c2, h
    <3> HIDE DEF c, c2, h
    <3>3. delta * h \in Int
      BY <3>1
    <3> QED
      BY <3>1, <3>2, <3>3
  <2>9. Scale(x) * (c2 - c) <= e * Weight(x, sqrt_price)
    BY <2>2, <2>8
  <2>10. Covered(x, Reserve(x, m, positions, tick_current_index, ticks, fee_growth_global),
                 positions, tick_current_index, sqrt_price)
    BY AccountCovers
  <2>11. tick_current_index \in Int
    BY <1>1
  <2> HIDE DEF m, m2, e, current
  <2>12. Covered(x, Reserve(x, m2, positions', tick_current_index, ticks', fee_growth_global),
                 positions', tick_current_index, sqrt_price)
    BY <1>1, <2>1, <2>3, <2>4, <2>7, <2>9, <2>10, <2>11, StaysCovered
  <2> QED
    BY <2>12 DEF m2
<1> QED
  BY <1>6, <1>7, SolventWhenCovered

\* Every instruction on a position keeps the pool solvent.
LEMMA SolvencyPositionStep ==
  ASSUME BookIInv, BookIInv', SolvencyInv, PositionNext
  PROVE  SolvencyInv'
<1> USE DEF config, curve, fees, rewards
<1>1. PICK p \in PositionIds :
        \/ \E range \in PositionRanges : OpenPosition(p, range[1], range[2])
        \/ \E amount \in LiquidityAmounts, timestamp \in Timestamps :
             \/ IncreaseLiquidity(p, amount, timestamp)
             \/ DecreaseLiquidity(p, amount, timestamp)
        \/ \E timestamp \in Timestamps : UpdateFeesAndRewards(p, timestamp)
        \/ CollectFees(p)
        \/ \E i \in RewardIndex : CollectReward(p, i)
        \/ ClosePosition(p)
  BY DEF PositionNext
<1>2. positions \in AllPositions /\ positions[p] \in Position /\ RangesSound(positions)
  BY AccountFacts DEF AllPositions
<1>3. ASSUME NEW pos2,
             SameFees(positions[p], pos2) \/ (positions[p].liquidity = 0 /\ NoFees(pos2)),
             positions' = [positions EXCEPT ![p] = pos2], Idle, swap' = swap,
             UNCHANGED <<tick_current_index, sqrt_price, ticks, fee_growth_global,
                         protocol_fee_owed, vault>>
      PROVE  SolvencyInv'
  <2>1. \A q \in PositionIds : \/ SameFees(positions[q], positions'[q])
                               \/ positions[q].liquidity = 0 /\ NoFees(positions'[q])
    <3> TAKE q \in PositionIds
    <3>1. CASE q = p
      <4>1. positions'[q] = pos2
        BY <1>2, <1>3, <3>1 DEF AllPositions
      <4> QED
        BY <1>3, <3>1, <4>1
    <3>2. CASE q # p
      <4>1. positions'[q] = positions[q]
        BY <1>2, <1>3, <3>2 DEF AllPositions
      <4> QED
        BY <4>1 DEF SameFees
    <3> QED
      BY <3>1, <3>2
  <2>2. \A x \in Token : Funds'[x] = Funds[x]
    BY <1>3 DEF Funds
  <2> QED
    BY <1>3, <2>1, <2>2, SolvencyUntouched
<1>4. \A state, lower, upper : NoFees(BlankPosition(state, lower, upper))
  BY DEF NoFees, BlankPosition
<1>5. CASE \E range \in PositionRanges : OpenPosition(p, range[1], range[2])
  <2>1. PICK range \in PositionRanges : OpenPosition(p, range[1], range[2])
    BY <1>5
  <2>2. positions[p].liquidity = 0
    BY <1>2, <2>1 DEF OpenPosition, RangesSound
  <2> QED
    BY <1>3, <1>4, <2>1, <2>2 DEF OpenPosition
<1>6. CASE ClosePosition(p)
  <2>1. positions[p].liquidity = 0
    BY <1>6 DEF ClosePosition, is_position_empty
  <2> QED
    BY <1>3, <1>4, <1>6, <2>1 DEF ClosePosition
<1>7. ASSUME NEW i \in RewardIndex, CollectReward(p, i)
      PROVE  SolvencyInv'
  <2> DEFINE owed == positions[p].amount_owed
             amount == owed[i] - CollectedReward(owed[i], reward_vault[i])
             pos2 == [positions[p] EXCEPT !.amount_owed = [owed EXCEPT ![i] = amount]]
  <2>1. /\ Idle /\ swap' = swap
        /\ UNCHANGED <<tick_current_index, sqrt_price, ticks, fee_growth_global,
                       protocol_fee_owed, vault>>
        /\ positions' = [positions EXCEPT ![p].amount_owed[i] = amount]
    BY <1>2, <1>7 DEF CollectReward, AllPositions
  <2>2. positions' = [positions EXCEPT ![p] = pos2]
    BY <1>2, <2>1 DEF AllPositions, Position
  <2> HIDE DEF amount
  <2>3. SameFees(positions[p], pos2)
    BY <1>2 DEF SameFees, Position
  <2> HIDE DEF pos2
  <2> QED
    BY <1>3, <2>1, <2>2, <2>3
<1>8. ASSUME NEW amount \in LiquidityAmounts, NEW timestamp \in Timestamps,
             \/ IncreaseLiquidity(p, amount, timestamp)
             \/ DecreaseLiquidity(p, amount, timestamp)
      PROVE  SolvencyInv'
  <2>1. amount \in U128 /\ amount \in Nat /\ timestamp \in U64
    BY PoolAssumption, WordsAreIntegers
  <2>2. PICK delta \in {amount, -amount} :
          /\ Idle /\ positions[p].state = "open" /\ amount # 0
          /\ ModifyLiquidity(p, delta, timestamp)
          /\ UNCHANGED <<tick_current_index, sqrt_price, fee_growth_global, protocol_fee_owed, swap>>
          /\ \A x \in Token : TokenDeltas(p, delta)[x] # Err
          /\ IF delta = amount THEN TransferFromOwner(TokenDeltas(p, delta))
             ELSE TransferToOwner(TokenDeltas(p, delta))
    <3>1. CASE IncreaseLiquidity(p, amount, timestamp)
      BY <3>1 DEF IncreaseLiquidity, convert_to_liquidity_delta
    <3>2. CASE DecreaseLiquidity(p, amount, timestamp)
      <4>1. amount # 0 => -amount # amount
        BY <2>1
      <4> QED
        BY <3>2, <4>1 DEF DecreaseLiquidity, convert_to_liquidity_delta
    <3> QED
      BY <1>8, <3>1, <3>2
  <2>3. delta \in Int /\ (IF delta < 0 THEN -delta ELSE delta) = amount
        /\ (delta = amount <=> delta > 0)
    BY <2>1, <2>2
  <2>4. \A x \in Token : vault'[x] = IF delta > 0 THEN vault[x] + TokenDeltas(p, delta)[x]
                                     ELSE vault[x] - TokenDeltas(p, delta)[x]
    BY <2>2, <2>3 DEF TransferFromOwner, TransferToOwner
  <2>5. (IF delta < 0 THEN -delta ELSE delta) \in U128
    BY <2>1, <2>3
  <2> QED
    BY <2>1, <2>2, <2>3, <2>4, <2>5, SolvencyModify
<1>9. ASSUME NEW timestamp \in Timestamps, UpdateFeesAndRewards(p, timestamp)
      PROVE  SolvencyInv'
  BY <1>9, PoolAssumption, SolvencyUpdate
<1>10. CASE CollectFees(p)
  BY <1>10, SolvencyCollect
<1> QED
  BY <1>1, <1>5, <1>6, <1>7, <1>8, <1>9, <1>10

\* So do the instructions that leave the positions alone: collecting the protocol's
\* fees pays what was not counted among the funds.
LEMMA SolvencyOtherStep ==
  ASSUME BookIInv, BookIInv', SolvencyInv,
         \/ RewardNext \/ ConfigNext \/ CollectProtocolFees
         \/ \E start \in MIN_ARRAY_START .. MAX_TICK_INDEX : InitializeTickArray(start)
  PROVE  SolvencyInv'
<1> USE DEF config, curve, fees, rewards
<1>1. /\ Idle /\ swap' = swap
      /\ UNCHANGED <<tick_current_index, sqrt_price, ticks, fee_growth_global, positions>>
      /\ \/ UNCHANGED <<vault, protocol_fee_owed>>
         \/ CollectProtocolFees
  BY DEF RewardNext, InitializeReward, DepositReward, SetRewardEmissions,
         ConfigNext, SetEnableFlag, SetFeeRate, SetProtocolFeeRate, CollectProtocolFees,
         InitializeTickArray
<1>2. ASSUME NEW x \in Token PROVE Funds'[x] = Funds[x]
  <2>1. /\ Funds[x] = vault[x] - protocol_fee_owed[x]
        /\ vault[x] \in Int /\ protocol_fee_owed[x] \in Int
    BY AccountFacts
  <2>2. Funds'[x] = vault'[x] - protocol_fee_owed'[x]
    BY NextAccountFacts
  <2>3. CASE UNCHANGED <<vault, protocol_fee_owed>>
    BY <2>1, <2>2, <2>3
  <2>4. CASE CollectProtocolFees
    <3>1. vault'[x] = vault[x] - protocol_fee_owed[x] /\ protocol_fee_owed'[x] = 0
      BY <2>4 DEF CollectProtocolFees, TransferToOwner
    <3> QED
      BY <2>1, <2>2, <3>1
  <2> QED
    BY <1>1, <2>3, <2>4
<1>3. \A p \in PositionIds : SameFees(positions[p], positions'[p])
  BY <1>1 DEF SameFees
<1> QED
  BY <1>1, <1>2, <1>3, SolvencyUntouched

-----------------------------------------------------------------------------
(* What a swap's iteration moves *)

\* At the price of a boundary it does not matter on which side of the boundary the
\* current tick is: the range holds the same.
LEMMA HeldAcross ==
  ASSUME NEW l \in TickIndices, NEW u \in TickIndices, l < u,
         NEW t \in Int, NEW t2 \in Int, NEW price \in Nat, NEW x \in Token,
         (t < l) = (t2 < l) \/ SqrtPrice[l] = price,
         (t < u) = (t2 < u) \/ SqrtPrice[u] = price
  PROVE  Holds(x, l, u, t2, price) = Holds(x, l, u, t, price)
<1> DEFINE M == Multiple
           f(b, s) == IF s < b THEN price * Inverse(b) ELSE M
           g(b, s) == IF s < b THEN 0 ELSE price - SqrtPrice[b]
<1>1. /\ M \in Nat /\ Inverse(l) \in Nat /\ Inverse(u) \in Nat
      /\ SqrtPrice[l] \in Nat /\ SqrtPrice[u] \in Nat
      /\ M = Inverse(l) * SqrtPrice[l] /\ M = Inverse(u) * SqrtPrice[u]
      /\ l \in Int /\ u \in Int
  BY Inverses, ArrayTypes
<1>2. /\ SqrtPrice[l] = price => price * Inverse(l) = M
      /\ SqrtPrice[u] = price => price * Inverse(u) = M
  BY <1>1
<1>3. /\ price * Inverse(l) \in Int /\ price * Inverse(u) \in Int
  BY <1>1
<1>4. f(l, t2) = f(l, t) /\ f(u, t2) = f(u, t)
  <2> HIDE DEF M
  <2> QED
    BY <1>2
<1>5. g(l, t2) = g(l, t) /\ g(u, t2) = g(u, t)
  BY <1>1
<1>6. ASSUME NEW s \in Int
      PROVE  HoldsA(l, u, s, price) = f(l, s) - f(u, s)
  <2> DEFINE i == price * Inverse(l)
             j == price * Inverse(u)
  <2>1. /\ price * (Inverse(l) - Inverse(u)) = i - j /\ price * (0 - Inverse(u)) = 0 - j
        /\ price * (Inverse(l) - 0) = i /\ price * (0 - 0) = 0
    BY <1>1
  <2>2. HoldsA(l, u, s, price) =
          (IF l <= s /\ s < u THEN M ELSE 0)
          + price * ((IF s < l THEN Inverse(l) ELSE 0) - (IF s < u THEN Inverse(u) ELSE 0))
    BY DEF HoldsA, Ahead
  <2>3. f(l, s) = (IF s < l THEN i ELSE M) /\ f(u, s) = IF s < u THEN j ELSE M
    OBVIOUS
  <2>4. i \in Int /\ j \in Int /\ M \in Int
    BY <1>1, <1>3
  <2> HIDE DEF i, j, M, f
  <2>5. CASE s < l
    <3>1. s < u /\ ~(l <= s)
      BY <1>1, <2>5
    <3>2. HoldsA(l, u, s, price) = 0 + (i - j)
      BY <2>1, <2>2, <2>5, <3>1
    <3> QED
      BY <2>3, <2>4, <2>5, <3>1, <3>2
  <2>6. CASE l <= s /\ s < u
    <3>1. ~(s < l)
      BY <1>1, <2>6
    <3>2. HoldsA(l, u, s, price) = M + (0 - j)
      BY <2>1, <2>2, <2>6, <3>1
    <3> QED
      BY <2>3, <2>4, <2>6, <3>1, <3>2
  <2>7. CASE u <= s
    <3>1. ~(s < l) /\ ~(s < u)
      BY <1>1, <2>7
    <3>2. HoldsA(l, u, s, price) = 0 + 0
      BY <2>1, <2>2, <2>7, <3>1
    <3> QED
      BY <2>3, <2>4, <2>7, <3>1, <3>2
  <2> QED
    BY <1>1, <2>5, <2>6, <2>7
<1>7. ASSUME NEW s \in Int
      PROVE  HoldsB(l, u, s, price) = g(l, s) - g(u, s)
  <2>1. HoldsB(l, u, s, price) =
          (IF l <= s /\ s < u THEN price ELSE 0)
          + ((IF s < u THEN 0 ELSE SqrtPrice[u]) - (IF s < l THEN 0 ELSE SqrtPrice[l]))
    BY DEF HoldsB, Behind
  <2> QED
    BY <1>1, <2>1
<1> HIDE DEF f, g
<1>8. HoldsA(l, u, t2, price) = HoldsA(l, u, t, price)
  BY <1>4, <1>6
<1>9. HoldsB(l, u, t2, price) = HoldsB(l, u, t, price)
  BY <1>5, <1>7
<1> QED
  BY <1>8, <1>9 DEF Holds

\* So an iteration's claims at the price it reaches are the same whether the tick it
\* reaches is crossed or not.
LEMMA ClaimsAcross ==
  ASSUME BookIInv, NEW c, StepComputed(swap, c), NEW x \in Token
  PROVE  ClaimsOf(x, positions, TickAfter(swap, c), c.next_price)
           = ClaimsOf(x, positions, swap.curr_tick_index, c.next_price)
<1> DEFINE t  == swap.curr_tick_index
           t2 == TickAfter(swap, c)
           price == c.next_price
<1>1. IInv /\ ~Idle /\ positions \in AllPositions
  BY AccountFacts DEF StepComputed, BookIInv
<1>2. t \in Int /\ t2 \in Int /\ price \in Nat
  <2>1. TickHoldsPrice(t, swap.curr_sqrt_price) /\ TickHoldsPrice(t2, price)
    BY <1>1 DEF IInv, SwapInv, StepComputed
  <2>2. price \in PriceRange
    BY DEF StepComputed
  <2> QED
    BY <2>1, <2>2, TickRangeAssumption, PriceBounds DEF TickHoldsPrice
<1>3. ASSUME NEW b \in UsableTicks, swap.ticks[b].initialized
      PROVE  (t < b) = (t2 < b) \/ SqrtPrice[b] = price
  <2>1. CASE ReachesTick(swap, c) /\ b = NextInitTick(swap).tick_index
    BY <2>1 DEF ReachesTick, StepComputed
  <2>2. CASE ~(ReachesTick(swap, c) /\ b = NextInitTick(swap).tick_index)
    BY <1>1, <1>3, <2>2, FlippedIsReached
  <2> QED
    BY <2>1, <2>2
<1>4. ASSUME NEW p \in PositionIds, positions[p].liquidity # 0
      PROVE  Holds(x, positions[p].tick_lower_index, positions[p].tick_upper_index, t2, price)
               = Holds(x, positions[p].tick_lower_index, positions[p].tick_upper_index, t, price)
  <2> DEFINE l == positions[p].tick_lower_index
             u == positions[p].tick_upper_index
  <2>1. Provides(p)
    BY <1>4, ProvidesLiquidity
  <2>2. /\ l \in UsableTicks /\ u \in UsableTicks /\ l < u
        /\ swap.ticks[l].initialized /\ swap.ticks[u].initialized
    BY <1>1, <2>1, BoundariesInitialized
  <2>3. l \in TickIndices /\ u \in TickIndices
    BY <2>2, ArrayTypes
  <2>4. (t < l) = (t2 < l) \/ SqrtPrice[l] = price
    BY <1>3, <2>2
  <2>5. (t < u) = (t2 < u) \/ SqrtPrice[u] = price
    BY <1>3, <2>2
  <2> HIDE DEF l, u, t, t2, price
  <2> QED
    BY <1>2, <2>2, <2>3, <2>4, <2>5, HeldAcross DEF l, u
<1> HIDE DEF t, t2, price
<1>5. \A p \in PositionIds :
        (IF positions[p].liquidity = 0 THEN 0
         ELSE positions[p].liquidity
              * Holds(x, positions[p].tick_lower_index, positions[p].tick_upper_index, t2, price))
          = IF positions[p].liquidity = 0 THEN 0
            ELSE positions[p].liquidity
                 * Holds(x, positions[p].tick_lower_index, positions[p].tick_upper_index, t, price)
  BY <1>4
<1> QED
  BY <1>5 DEF ClaimsOf, t, t2, price

\* A reserve that covers the claims on token a at one price covers them at another, if
\* it grows by at least what the move of the liquidity in range costs: the claims times
\* the price are affine in the price.
LEMMA MoveA ==
  ASSUME NEW Q \in Nat, NEW M \in Nat, NEW L \in Nat, NEW K \in Int,
         NEW p \in Nat \ {0}, NEW q \in Nat, NEW r \in Int, NEW r2 \in Int, NEW s \in Int,
         (Q * Q) * (M * L + p * K) <= r * (p * M),
         (L * (p - q)) * Q <= s * (p * q),
         r + Q * s <= r2
  PROVE  (Q * Q) * (M * L + q * K) <= r2 * (q * M)
<1> DEFINE w == (p * q) * M
           m == (Q * Q) * (M * L)
           k == (Q * Q) * ((p * q) * K)
<1>1. /\ w \in Nat /\ m \in Nat /\ k \in Int /\ M * L \in Nat /\ p * K \in Int /\ q * K \in Int
      /\ p * M \in Nat /\ q * M \in Nat /\ Q * Q \in Nat /\ Q * M \in Nat /\ p * q \in Nat
      /\ Q * s \in Int
  OBVIOUS
<1>2. m * q + k <= r * w
  <2>1. ((Q * Q) * (M * L + p * K)) * q <= (r * (p * M)) * q
    <3> DEFINE a == (Q * Q) * (M * L + p * K)  b == r * (p * M)
    <3>1. a \in Int /\ b \in Int /\ a <= b
      BY <1>1
    <3> HIDE DEF a, b
    <3> QED
      BY <3>1, MulMonotone DEF a, b
  <2>2. ((Q * Q) * (M * L + p * K)) * q = m * q + k
    OBVIOUS
  <2>3. (r * (p * M)) * q = r * w
    OBVIOUS
  <2> QED
    BY <2>1, <2>2, <2>3
<1>3. m * p - m * q <= (Q * s) * w
  <2>1. ((L * (p - q)) * Q) * (Q * M) <= (s * (p * q)) * (Q * M)
    <3> DEFINE a == (L * (p - q)) * Q  b == s * (p * q)
    <3>1. a \in Int /\ b \in Int /\ a <= b
      OBVIOUS
    <3> HIDE DEF a, b
    <3> QED
      BY <1>1, <3>1, MulMonotone DEF a, b
  <2>2. ((L * (p - q)) * Q) * (Q * M) = m * p - m * q
    OBVIOUS
  <2>3. (s * (p * q)) * (Q * M) = (Q * s) * w
    OBVIOUS
  <2> QED
    BY <2>1, <2>2, <2>3
<1>4. r * w + (Q * s) * w <= r2 * w
  <2> DEFINE a == Q * s
  <2>1. a \in Int /\ r + a \in Int /\ r + a <= r2
    BY <1>1
  <2> HIDE DEF a, w
  <2>2. (r + a) * w <= r2 * w
    BY <1>1, <2>1, MulMonotone
  <2>3. (r + a) * w = r * w + a * w
    BY <1>1, <2>1
  <2> QED
    BY <2>2, <2>3 DEF a
<1>5. m * p + k <= r2 * w
  <2> DEFINE mp == m * p  mq == m * q  rw == r * w  rw2 == r2 * w  sw == (Q * s) * w
  <2>1. mp \in Int /\ mq \in Int /\ rw \in Int /\ rw2 \in Int /\ sw \in Int
    BY <1>1
  <2>2. mq + k <= rw /\ mp - mq <= sw /\ rw + sw <= rw2
    BY <1>2, <1>3, <1>4
  <2> HIDE DEF mp, mq, rw, rw2, sw, k
  <2>3. mp + k <= rw2
    BY <1>1, <2>1, <2>2
  <2> QED
    BY <2>3 DEF mp, rw2
<1>6. ((Q * Q) * (M * L + q * K)) * p <= (r2 * (q * M)) * p
  <2>1. ((Q * Q) * (M * L + q * K)) * p = m * p + k
    OBVIOUS
  <2>2. (r2 * (q * M)) * p = r2 * w
    OBVIOUS
  <2> QED
    BY <1>5, <2>1, <2>2
<1> DEFINE a == (Q * Q) * (M * L + q * K)  b == r2 * (q * M)
<1>7. a \in Int /\ b \in Int /\ a * p <= b * p
  BY <1>1, <1>6
<1>8. a <= b
  <2> HIDE DEF a, b
  <2> QED
    BY <1>7, MulCancel
<1> QED
  BY <1>8

\* The same for token b, whose claims are affine in the price.
LEMMA MoveB ==
  ASSUME NEW Q \in Nat, NEW L \in Nat, NEW K \in Int, NEW p \in Nat, NEW q \in Nat,
         NEW r \in Int, NEW r2 \in Int, NEW s \in Int,
         p * L + K <= r, L * (q - p) <= s * Q, r + Q * s <= r2
  PROVE  q * L + K <= r2
<1> DEFINE y == p * L  z == q * L  v == Q * s
<1>1. L * (q - p) = z - y /\ s * Q = v /\ y \in Int /\ z \in Int /\ v \in Int
  OBVIOUS
<1> HIDE DEF y, z, v
<1>2. y + K <= r /\ z - y <= v /\ r + v <= r2
  BY <1>1 DEF y, v
<1>3. z + K <= r2
  BY <1>1, <1>2
<1> QED
  BY <1>3 DEF z

\* What an iteration brings to the reserve of a token for the move of its price.
Moved(x, s, c) == IF x = InputToken(s) THEN c.amount_in ELSE -c.amount_out

\* It is at least what the move of the liquidity in range costs (swap_math.rs:14).
LEMMA MovedEnough ==
  ASSUME IInv, NEW c, StepComputed(swap, c),
         NEW L, L = swap.curr_liquidity, NEW p, p = swap.curr_sqrt_price,
         NEW q, q = c.next_price
  PROVE  /\ L \in Nat /\ p \in Nat \ {0} /\ q \in Nat \ {0}
         /\ Moved("a", swap, c) \in Int /\ Moved("b", swap, c) \in Int
         /\ (L * (p - q)) * TO_Q64 <= Moved("a", swap, c) * (p * q)
         /\ L * (q - p) <= Moved("b", swap, c) * TO_Q64
<1> DEFINE leftwards == swap.request.a_to_b
           is_input  == swap.request.is_input
           remaining == swap.amount_remaining
           target == SqrtPriceTarget(NextTickPrice(swap), swap.request.sqrt_price_limit, leftwards)
           lower  == Lower(p, q)
           upper  == Upper(p, q)
           in     == c.amount_in
           out    == c.amount_out
<1>1. /\ TypeOK /\ swap \in SwapState /\ c = Computation(swap) /\ c # SwapStepError
      /\ target \in PriceRange /\ p \in PriceRange /\ q \in PriceRange
      /\ IF leftwards THEN target <= p ELSE p <= target
      /\ IF leftwards THEN q <= p ELSE p <= q
  BY DEF StepComputed, IInv, TypeOK, Idle, ComputationFails
<1>2. /\ remaining \in U64 /\ fee_rate \in 0 .. MAX_FEE_RATE /\ L \in U128
      /\ is_input \in BOOLEAN /\ leftwards \in BOOLEAN
  BY <1>1 DEF SwapState, SwapRequest, TypeOK
<1>3. L \in Nat /\ p \in Nat \ {0} /\ q \in Nat \ {0} /\ TO_Q64 \in Nat
  BY <1>1, <1>2, WordsAreIntegers, PriceBounds, Widths
<1>4. c = compute_swap(remaining, fee_rate, L, p, target, is_input, leftwards)
  BY <1>1 DEF Computation
<1> HIDE DEF leftwards, is_input, remaining, target
<1>5. Settled(c, remaining, fee_rate, L, p, target, is_input, leftwards)
  BY <1>1, <1>2, <1>4, StepSettled
<1> HIDE DEF lower, upper
<1>6. /\ in \in Nat /\ out \in Nat
      /\ leftwards => /\ in * (upper * lower) >= (L * (upper - lower)) * TO_Q64
                      /\ out * TO_Q64 <= L * (upper - lower)
      /\ ~leftwards => /\ in * TO_Q64 >= L * (upper - lower)
                       /\ out * (upper * lower) <= (L * (upper - lower)) * TO_Q64
  BY <1>1, <1>2, <1>5, SettledAmounts DEF lower, upper
<1> HIDE DEF in, out
<1>7. CASE leftwards
  <2>1. lower = q /\ upper = p
    BY <1>1, <1>3, <1>7 DEF lower, upper, Lower, Upper
  <2>2. Moved("a", swap, c) = in /\ Moved("b", swap, c) = -out
    BY <1>7 DEF Moved, InputToken, leftwards, in, out
  <2>3. (L * (p - q)) * TO_Q64 <= in * (p * q)
    <3>1. (L * (p - q)) * TO_Q64 \in Int /\ in * (p * q) \in Int
      BY <1>3, <1>6
    <3> QED
      BY <1>6, <1>7, <2>1, <3>1
  <2>4. L * (q - p) <= (-out) * TO_Q64
    <3>1. L * (q - p) = -(L * (p - q)) /\ (-out) * TO_Q64 = -(out * TO_Q64)
      BY <1>3, <1>6
    <3> DEFINE a == L * (p - q)  b == out * TO_Q64
    <3>2. a \in Int /\ b \in Int /\ b <= a
      BY <1>3, <1>6, <1>7, <2>1
    <3> HIDE DEF a, b
    <3>3. -a <= -b
      BY <3>2
    <3> QED
      BY <3>1, <3>3 DEF a, b
  <2> QED
    BY <1>3, <1>6, <2>2, <2>3, <2>4
<1>8. CASE ~leftwards
  <2>1. lower = p /\ upper = q
    BY <1>1, <1>3, <1>8 DEF lower, upper, Lower, Upper
  <2>2. Moved("b", swap, c) = in /\ Moved("a", swap, c) = -out
    BY <1>8 DEF Moved, InputToken, leftwards, in, out
  <2>3. L * (q - p) <= in * TO_Q64
    <3>1. L * (q - p) \in Int /\ in * TO_Q64 \in Int
      BY <1>3, <1>6
    <3> QED
      BY <1>6, <1>8, <2>1, <3>1
  <2>4. (L * (p - q)) * TO_Q64 <= (-out) * (p * q)
    <3>1. /\ (L * (p - q)) * TO_Q64 = -((L * (q - p)) * TO_Q64)
          /\ (-out) * (p * q) = -(out * (q * p))
      BY <1>3, <1>6
    <3> DEFINE a == (L * (q - p)) * TO_Q64  b == out * (q * p)
    <3>2. a \in Int /\ b \in Int /\ b <= a
      BY <1>3, <1>6, <1>8, <2>1
    <3> HIDE DEF a, b
    <3>3. -a <= -b
      BY <3>2
    <3> QED
      BY <3>1, <3>3 DEF a, b
  <2> QED
    BY <1>3, <1>6, <2>2, <2>3, <2>4
<1> QED
  BY <1>7, <1>8

\* So the reserve covers the claims at the price and the tick the iteration reaches, if
\* it covered them before and grows by what the move brings.
LEMMA PaidForMove ==
  ASSUME BookIInv, NEW c, StepComputed(swap, c), NEW x \in Token,
         NEW r \in Int, NEW r2 \in Int,
         Covered(x, r, positions, swap.curr_tick_index, swap.curr_sqrt_price),
         r + TO_Q64 * Moved(x, swap, c) <= r2
  PROVE  Covered(x, r2, positions, TickAfter(swap, c), c.next_price)
<1> DEFINE t  == swap.curr_tick_index
           t2 == TickAfter(swap, c)
           p  == swap.curr_sqrt_price
           q  == c.next_price
           L  == swap.curr_liquidity
           M  == Multiple
           s  == Moved(x, swap, c)
<1>1. /\ IInv /\ ~Idle /\ positions \in AllPositions /\ RangesSound(positions)
      /\ L = Sum(RangeShare(positions, t))
  BY AccountFacts DEF StepComputed, BookIInv, Book, SwapBooked, Booked
<1>2. t \in Int /\ t2 \in Int
  <2>1. TickHoldsPrice(t, p) /\ TickHoldsPrice(t2, q)
    BY <1>1 DEF IInv, SwapInv, StepComputed
  <2> QED
    BY <2>1, TickRangeAssumption DEF TickHoldsPrice
<1>3. /\ L \in Nat /\ p \in Nat \ {0} /\ q \in Nat \ {0} /\ q \in Nat /\ p \in Nat /\ s \in Int
      /\ x = "a" => (L * (p - q)) * TO_Q64 <= s * (p * q)
      /\ x = "b" => L * (q - p) <= s * TO_Q64
  BY <1>1, MovedEnough DEF Token
<1>4. M \in Nat /\ TO_Q64 \in Nat
  BY Inverses, Widths
<1>5. CASE x = "a"
  <2> DEFINE K == Sum(HeldAhead(positions, t))
  <2>1. K \in Int
    BY <1>1, <1>2, HeldTypes
  <2>2. ClaimsA(positions, t, p) = M * L + p * K /\ ClaimsA(positions, t, q) = M * L + q * K
    BY <1>1 DEF ClaimsA
  <2>3. ClaimsA(positions, t2, q) = M * L + q * K
    <3>1. ClaimsOfA(positions, t2, q) = ClaimsOfA(positions, t, q)
      <4>1. ClaimsOf("a", positions, t2, q) = ClaimsOf("a", positions, t, q)
        BY ClaimsAcross DEF Token
      <4> QED
        BY <4>1 DEF ClaimsOf, ClaimsOfA, Holds
    <3>2. ClaimsA(positions, t2, q) = Sum(ClaimsOfA(positions, t2, q))
      BY <1>1, <1>2, <1>3, ClaimsAreSums
    <3>3. ClaimsA(positions, t, q) = Sum(ClaimsOfA(positions, t, q))
      BY <1>1, <1>2, <1>3, ClaimsAreSums
    <3> QED
      BY <2>2, <3>1, <3>2, <3>3
  <2>4. (TO_Q64 * TO_Q64) * (M * L + p * K) <= r * (p * M)
    BY <1>5, <2>2 DEF Covered, TO_Q128
  <2>5. (L * (p - q)) * TO_Q64 <= s * (p * q)
    BY <1>3, <1>5
  <2> HIDE DEF t, t2, p, q, L, M, s, K
  <2>6. (TO_Q64 * TO_Q64) * (M * L + q * K) <= r2 * (q * M)
    <3>1. r + TO_Q64 * s <= r2
      BY DEF s
    <3> QED
      BY <1>3, <1>4, <2>1, <2>4, <2>5, <3>1, MoveA
  <2> QED
    BY <1>5, <2>3, <2>6 DEF Covered, TO_Q128, t2, q, M
<1>6. CASE x = "b"
  <2> DEFINE K == Sum(HeldBehind(positions, t))
  <2>1. K \in Int
    BY <1>1, <1>2, HeldTypes
  <2>2. ClaimsB(positions, t, p) = p * L + K /\ ClaimsB(positions, t, q) = q * L + K
    BY <1>1 DEF ClaimsB
  <2>3. ClaimsB(positions, t2, q) = q * L + K
    <3>1. ClaimsOfB(positions, t2, q) = ClaimsOfB(positions, t, q)
      <4>1. ClaimsOf("b", positions, t2, q) = ClaimsOf("b", positions, t, q)
        BY ClaimsAcross DEF Token
      <4>2. "b" # "a"
        OBVIOUS
      <4> QED
        BY <4>1, <4>2 DEF ClaimsOf, ClaimsOfB, Holds
    <3>2. ClaimsB(positions, t2, q) = Sum(ClaimsOfB(positions, t2, q))
      BY <1>1, <1>2, <1>3, ClaimsAreSums
    <3>3. ClaimsB(positions, t, q) = Sum(ClaimsOfB(positions, t, q))
      BY <1>1, <1>2, <1>3, ClaimsAreSums
    <3> QED
      BY <2>2, <3>1, <3>2, <3>3
  <2>4. p * L + K <= r
    BY <1>6, <2>2 DEF Covered
  <2>5. L * (q - p) <= s * TO_Q64 /\ r + TO_Q64 * s <= r2
    BY <1>3, <1>6
  <2> HIDE DEF t, t2, p, q, L, M, s, K
  <2>6. q * L + K <= r2
    BY <1>3, <1>4, <2>1, <2>4, <2>5, MoveB
  <2> QED
    BY <1>6, <2>3, <2>6 DEF Covered, t2, q
<1> QED
  BY <1>5, <1>6 DEF Token

-----------------------------------------------------------------------------
(* What a swap's iteration adds to the fees that are due *)

\* What is left of a step's fee for the positions.
ShareOfFee(c) == c.fee_amount - calculate_protocol_fee(c.fee_amount, protocol_fee_rate)

\* The growth per unit of liquidity of an iteration's fee, and the protocol's part of it
\* (swap_manager.rs, calculate_fees).
LEMMA GrowthOfFee ==
  ASSUME IInv, NEW c, StepComputed(swap, c)
  PROVE  /\ ShareOfFee(c) \in Nat /\ c.fee_amount \in Nat
         /\ StepFees(swap, c).protocol_fee \in Nat /\ swap.curr_protocol_fee \in Nat
         /\ StepFees(swap, c).protocol_fee + ShareOfFee(c)
              <= swap.curr_protocol_fee + c.fee_amount
         /\ \E d \in Nat :
              /\ StepFees(swap, c).growth = WrapU128(swap.curr_growth + d)
              /\ d * swap.curr_liquidity <= TO_Q64 * ShareOfFee(c)
<1> DEFINE fee   == c.fee_amount
           rate  == protocol_fee_rate
           D     == PROTOCOL_FEE_RATE_MUL_VALUE
           delta == calculate_protocol_fee(fee, rate)
           share == ShareOfFee(c)
           L     == swap.curr_liquidity
           old   == swap.curr_protocol_fee
           g     == swap.curr_growth
<1>1. TypeOK /\ swap \in SwapState /\ c \in SwapStepComputation
  BY DEF StepComputed, IInv, TypeOK, Idle
<1>2. fee \in U64 /\ L \in U128 /\ old \in U64 /\ g \in U128
  BY <1>1 DEF SwapState, SwapStepComputation
<1>3. fee \in Nat /\ L \in Nat /\ old \in Nat /\ g \in Nat /\ TO_Q64 \in Nat \ {0}
  <2> HIDE DEF fee, L, old, g
  <2> QED
    BY <1>2, WordsAreIntegers, Widths
<1>4. rate \in Nat /\ D \in Nat \ {0} /\ rate <= D
  BY <1>1, FeeRateAssumption DEF TypeOK
<1> HIDE DEF fee, rate, D, L, old, g
<1>5. delta \in Nat /\ delta <= fee
  <2> DEFINE n == fee * rate
             k == n \div D
  <2>1. n \in Nat /\ n <= fee * D
    <3>1. rate * fee <= D * fee
      BY <1>3, <1>4, MulMonotone
    <3> QED
      BY <1>3, <1>4, <3>1
  <2>2. k \in Int /\ k * D <= n /\ n < k * D + D
    <3> HIDE DEF n
    <3> QED
      BY <1>4, <2>1, DivMod
  <2> HIDE DEF n, k
  <2>3. k <= fee
    <3>1. k * D <= fee * D
      <4>1. k * D \in Int /\ fee * D \in Int
        BY <1>3, <1>4, <2>2
      <4> QED
        BY <2>1, <2>2, <4>1
    <3> QED
      BY <1>3, <1>4, <2>2, <3>1, MulCancel
  <2>4. 0 <= k
    <3>1. 0 < k * D + D
      BY <1>4, <2>1, <2>2
    <3>2. 0 * D < (k + 1) * D
      BY <1>4, <2>2, <3>1
    <3>3. 0 < k + 1
      BY <1>4, <2>2, <3>2, MulCancelStrict
    <3> QED
      BY <2>2, <3>3
  <2>5. delta = k
    BY DEF calculate_protocol_fee, n, k, D
  <2> QED
    BY <2>2, <2>3, <2>4, <2>5
<1>6. share = fee - delta
  BY DEF ShareOfFee, fee, rate
<1>7. /\ StepFees(swap, c).protocol_fee = WrapU64(old + delta)
      /\ StepFees(swap, c).growth = IF L = 0 THEN g
                                    ELSE WrapU128(g + (((fee - delta) * TO_Q64) \div L))
  BY DEF StepFees, calculate_fees, fee, rate, L, old, g
<1> HIDE DEF delta, share
<1>8. share \in Nat
  BY <1>3, <1>5, <1>6
<1>9. WrapU64(old + delta) \in Nat /\ WrapU64(old + delta) <= old + delta
  <2>1. old + delta \in Nat
    BY <1>3, <1>5
  <2> QED
    BY <1>3, <2>1, RemainderAtMost DEF WrapU64
<1>10. StepFees(swap, c).protocol_fee + share <= old + fee
  <2> DEFINE w == WrapU64(old + delta)
  <2> HIDE DEF w
  <2>1. w \in Nat /\ w <= old + delta
    BY <1>9 DEF w
  <2>2. w + share <= old + fee
    BY <1>3, <1>5, <1>6, <2>1
  <2> QED
    BY <1>7, <2>2 DEF w
<1>11. \E d \in Nat : /\ StepFees(swap, c).growth = WrapU128(g + d)
                      /\ d * L <= TO_Q64 * share
  <2>1. CASE L = 0
    <3>1. StepFees(swap, c).growth = WrapU128(g + 0)
      <4>1. g + 0 = g
        BY <1>3
      <4>2. WrapU128(g) = g
        <5>1. g \in U128
          BY <1>2 DEF g
        <5> QED
          BY <5>1, WrapWord
      <4> QED
        BY <1>7, <2>1, <4>1, <4>2
    <3>2. 0 * L <= TO_Q64 * share
      BY <1>3, <1>8, <2>1
    <3> QED
      BY <3>1, <3>2
  <2>2. CASE L # 0
    <3> DEFINE n == (fee - delta) * TO_Q64
               d == n \div L
    <3>1. n \in Nat /\ n = TO_Q64 * share /\ L \in Nat \ {0}
      BY <1>3, <1>5, <1>6, <1>8, <2>2
    <3> HIDE DEF n
    <3>2. d \in Int /\ d * L <= n /\ n < d * L + L
      <4>1. n \in Int /\ L \in Nat \ {0}
        BY <3>1
      <4> QED
        BY <4>1, DivMod
    <3>3. StepFees(swap, c).growth = WrapU128(g + d)
      BY <1>7, <2>2 DEF n
    <3> HIDE DEF d
    <3>4. 0 <= d
      <4>1. 0 * L < (d + 1) * L
        <5>1. (d + 1) * L = d * L + L /\ 0 * L = 0 /\ d * L \in Int
          BY <3>1, <3>2
        <5> QED
          BY <3>1, <3>2, <5>1
      <4>2. 0 < d + 1
        BY <3>1, <3>2, <4>1, MulCancelStrict
      <4> QED
        BY <3>2, <4>2
    <3>5. d \in Nat /\ d * L <= TO_Q64 * share
      BY <3>1, <3>2, <3>4
    <3> QED
      BY <3>3, <3>5
  <2> QED
    BY <2>1, <2>2
<1>12. StepFees(swap, c).protocol_fee \in Nat
  BY <1>7, <1>9
<1> QED
  BY <1>3, <1>8, <1>10, <1>11, <1>12 DEF fee, share, L, old, g

\* What a running swap has taken from the account and reached.
LEMMA RunningFacts ==
  ASSUME BookIInv, ~Idle
  PROVE  /\ swap \in SwapState /\ swap.curr_tick_index \in Int
         /\ swap.ticks \in [UsableTicks -> Tick]
         /\ SwapGrowths \in [Token -> U128]
         /\ swap.curr_sqrt_price \in Nat \ {0}
         /\ swap.curr_liquidity \in Nat
         /\ swap.curr_liquidity = Sum(RangeShare(positions, swap.curr_tick_index))
<1>1. TypeOK /\ IInv
  BY DEF BookIInv, IInv
<1>2. swap \in SwapState
  BY <1>1 DEF TypeOK, Idle
<1>3. /\ swap.curr_tick_index \in Int /\ swap.ticks \in [UsableTicks -> Tick]
      /\ swap.curr_growth \in U128 /\ swap.curr_liquidity \in U128
  BY <1>2 DEF SwapState
<1>4. TickHoldsPrice(swap.curr_tick_index, swap.curr_sqrt_price)
  BY <1>1 DEF IInv, SwapInv
<1>5. swap.curr_sqrt_price \in Nat \ {0}
  BY <1>4, PriceBounds DEF TickHoldsPrice, PriceRange
<1>6. SwapGrowths \in [Token -> U128]
  BY <1>1, <1>3 DEF SwapGrowths, TypeOK
<1>7. swap.curr_liquidity \in Nat
  BY <1>3, WordsAreIntegers
<1>8. swap.curr_liquidity = Sum(RangeShare(positions, swap.curr_tick_index))
  BY DEF BookIInv, Book, SwapBooked, Booked
<1> QED
  BY <1>2, <1>3, <1>5, <1>6, <1>7, <1>8

\* A growth of d moves the growth inside by d.
LEMMA InsideMovesBy ==
  ASSUME NEW g \in U128, NEW d \in Nat, NEW inside \in U128
  PROVE  WrapU128(inside + WrapU128(g + d) - g) = WrapU128(inside + d)
<1>1. g \in Int /\ inside \in Int
  BY WordsAreIntegers
<1> DEFINE w == WrapU128(g + d)
<1>2. w \in Int
  BY <1>1, WrapMultiple
<1>3. inside + w - g = w + (inside - g)
  BY <1>1, <1>2
<1>4. WrapU128(w + (inside - g)) = WrapU128((g + d) + (inside - g))
  BY <1>1, WrapTerm
<1>5. (g + d) + (inside - g) = inside + d
  BY <1>1
<1> QED
  BY <1>3, <1>4, <1>5

\* When the growth moves by d, a position is due at most d for each unit of its
\* liquidity if its range holds the tick the iteration started from, and nothing
\* more otherwise.
LEMMA FeeDueOfIteration ==
  ASSUME BookIInv, NEW c, StepComputed(swap, c), NEW p \in PositionIds, NEW x \in Token,
         NEW d \in Nat, GrowthsAtCrossing(swap, c)[x] = WrapU128(SwapGrowths[x] + d)
  PROVE  FeeDues(positions, TickAfter(swap, c), TicksAfter(swap, c),
                 GrowthsAtCrossing(swap, c), x)[p]
           <= FeeDues(positions, swap.curr_tick_index, swap.ticks, SwapGrowths, x)[p]
              + d * RangeShare(positions, swap.curr_tick_index)[p]
<1> DEFINE t == swap.curr_tick_index
           inside  == FeesInside(t, swap.ticks, positions[p], SwapGrowths)[x]
           inside2 == FeesInside(TickAfter(swap, c), TicksAfter(swap, c), positions[p],
                                 GrowthsAtCrossing(swap, c))[x]
           owed == positions[p].fee_owed[x]
           L    == positions[p].liquidity
           checkpoint == positions[p].fee_growth_checkpoint[x]
           g == SwapGrowths[x]
           share == IF InRange(positions[p], t) THEN L ELSE 0
<1>1. IInv /\ ~Idle /\ positions \in AllPositions /\ RangesSound(positions)
  BY AccountFacts DEF BookIInv, StepComputed
<1>2. owed \in U64 /\ L \in U128 /\ checkpoint \in U128
  BY <1>1 DEF AllPositions, Position
<1>3. g \in U128 /\ t \in Int /\ swap.ticks \in [UsableTicks -> Tick]
      /\ SwapGrowths \in [Token -> U128]
  BY <1>1, RunningFacts
<1>4. /\ FeeDues(positions, TickAfter(swap, c), TicksAfter(swap, c),
                 GrowthsAtCrossing(swap, c), x)[p] = DueOf(owed, L, checkpoint, inside2)
      /\ FeeDues(positions, t, swap.ticks, SwapGrowths, x)[p] = DueOf(owed, L, checkpoint, inside)
      /\ RangeShare(positions, t)[p] = share
  BY DEF FeeDues, FeeDue, RangeShare
<1>5. DueOf(owed, L, checkpoint, inside2) <= DueOf(owed, L, checkpoint, inside) + d * share
  <2>1. CASE L = 0
    <3>1. DueOf(owed, L, checkpoint, inside2) = DueOf(owed, L, checkpoint, inside)
      BY <2>1 DEF DueOf
    <3>2. d * share = 0
      BY <2>1
    <3> HIDE DEF owed, L, checkpoint, inside, inside2, share
    <3>3. DueOf(owed, L, checkpoint, inside) \in Nat
      BY <1>2, <2>1, DueOfType
    <3> QED
      BY <3>1, <3>2, <3>3
  <2>2. CASE L # 0
    <3>1. Provides(p)
      BY <1>1, <2>2, ProvidesLiquidity
    <3>2. /\ positions[p].tick_lower_index \in UsableTicks
          /\ positions[p].tick_upper_index \in UsableTicks
      BY <1>1, <3>1, BoundariesInitialized
    <3>3. inside \in U128
      <4>1. FeesInside(t, swap.ticks, positions[p], SwapGrowths) \in [Token -> U128]
        BY <1>3, <3>2, FeesInsideType
      <4> QED
        BY <4>1
    <3>4. inside2 = IF InRange(positions[p], t)
                    THEN WrapU128(inside + GrowthsAtCrossing(swap, c)[x] - g) ELSE inside
      BY <3>1, FeesInsideOfIteration
    <3>5. CASE InRange(positions[p], t)
      <4>1. share = L
        BY <3>5
      <4> HIDE DEF owed, L, checkpoint, inside, inside2, g, share, t
      <4>2. inside2 = WrapU128(inside + d)
        <5>1. WrapU128(inside + WrapU128(g + d) - g) = WrapU128(inside + d)
          BY <1>3, <3>3, InsideMovesBy
        <5>2. GrowthsAtCrossing(swap, c)[x] = WrapU128(g + d)
          BY DEF g
        <5> QED
          BY <3>4, <3>5, <5>1, <5>2
      <4>3. DueOf(owed, L, checkpoint, inside2) <= DueOf(owed, L, checkpoint, inside) + L * d
        BY <1>2, <3>3, <4>2, DueOfAccrues
      <4>4. L * d = d * L
        BY <1>2, WordsAreIntegers
      <4> QED
        BY <4>1, <4>3, <4>4
    <3>6. CASE ~InRange(positions[p], t)
      <4>1. share = 0 /\ inside2 = inside
        BY <3>4, <3>6
      <4> HIDE DEF owed, L, checkpoint, inside, inside2, share
      <4>2. DueOf(owed, L, checkpoint, inside) \in Nat
        BY <1>2, <3>3, DueOfType
      <4> QED
        BY <4>1, <4>2
    <3> QED
      BY <3>5, <3>6
  <2> QED
    BY <2>1, <2>2
<1> QED
  BY <1>4, <1>5 DEF share, t

\* An iteration's share of its fee bounds the growth of the token that pays it; the other
\* token's stands still.
LEMMA GrowthOfIteration ==
  ASSUME BookIInv, NEW c, StepComputed(swap, c), NEW x \in Token
  PROVE  \E d \in Nat :
           /\ GrowthsAtCrossing(swap, c)[x] = WrapU128(SwapGrowths[x] + d)
           /\ d * swap.curr_liquidity
                <= IF x = InputToken(swap) THEN TO_Q64 * ShareOfFee(c) ELSE 0
           /\ x # InputToken(swap) => d = 0
<1> DEFINE L == swap.curr_liquidity
<1>1. IInv /\ ~Idle
  BY DEF BookIInv, StepComputed
<1>2. L \in Nat /\ SwapGrowths \in [Token -> U128]
  BY <1>1, RunningFacts
<1>3. fee_growth_global \in [Token -> U128]
  BY AccountFacts
<1>4. CASE x = InputToken(swap)
  <2>1. PICK d \in Nat : /\ StepFees(swap, c).growth = WrapU128(swap.curr_growth + d)
                         /\ d * L <= TO_Q64 * ShareOfFee(c)
    BY <1>1, GrowthOfFee
  <2>2. /\ GrowthsAtCrossing(swap, c)[x] = StepFees(swap, c).growth
        /\ SwapGrowths[x] = swap.curr_growth
    BY <1>3, <1>4 DEF GrowthsAtCrossing, SwapGrowths
  <2> QED
    BY <1>4, <2>1, <2>2
<1>5. CASE x # InputToken(swap)
  <2>1. GrowthsAtCrossing(swap, c)[x] = SwapGrowths[x]
    BY <1>3, <1>5 DEF GrowthsAtCrossing, SwapGrowths
  <2>2. WrapU128(SwapGrowths[x]) = SwapGrowths[x]
    BY <1>2, WrapWord
  <2>3. SwapGrowths[x] + 0 = SwapGrowths[x]
    BY <1>2, WordsAreIntegers
  <2>4. 0 * L <= 0
    BY <1>2
  <2> QED
    BY <1>5, <2>1, <2>2, <2>3, <2>4
<1> QED
  BY <1>4, <1>5

\* An iteration adds at most the providers' share of its fee to what is due in
\* the token that pays it, and nothing to what is due in the other.
LEMMA FeeDuesOfIteration ==
  ASSUME BookIInv, NEW c, StepComputed(swap, c), NEW x \in Token
  PROVE  Sum(FeeDues(positions, TickAfter(swap, c), TicksAfter(swap, c),
                     GrowthsAtCrossing(swap, c), x))
           <= Sum(FeeDues(positions, swap.curr_tick_index, swap.ticks, SwapGrowths, x))
              + IF x = InputToken(swap) THEN TO_Q64 * ShareOfFee(c) ELSE 0
<1> DEFINE t  == swap.curr_tick_index
           D1 == FeeDues(positions, t, swap.ticks, SwapGrowths, x)
           D2 == FeeDues(positions, TickAfter(swap, c), TicksAfter(swap, c),
                         GrowthsAtCrossing(swap, c), x)
           R  == RangeShare(positions, t)
           L  == swap.curr_liquidity
           most == IF x = InputToken(swap) THEN TO_Q64 * ShareOfFee(c) ELSE 0
<1>1. IInv /\ ~Idle /\ positions \in AllPositions /\ RangesSound(positions)
  BY AccountFacts DEF BookIInv, StepComputed
<1>2. /\ t \in Int /\ swap.ticks \in [UsableTicks -> Tick] /\ SwapGrowths \in [Token -> U128]
      /\ L \in Nat /\ L = Sum(R)
  BY <1>1, RunningFacts
<1>3. /\ TickAfter(swap, c) \in Int /\ TicksAfter(swap, c) \in [UsableTicks -> Tick]
      /\ GrowthsAtCrossing(swap, c) \in [Token -> U128]
  <2>1. TickHoldsPrice(TickAfter(swap, c), c.next_price)
    BY DEF StepComputed
  <2>2. TickAfter(swap, c) \in Int
    BY <2>1, TickRangeAssumption DEF TickHoldsPrice
  <2> QED
    BY <1>1, <2>2, SwapGrowthTypes DEF StepComputed
<1>4. D1 \in Amounts /\ Sum(D1) \in Int
  BY <1>1, <1>2, FeeDuesType
<1>5. D2 \in Amounts /\ Sum(D2) \in Int
  BY <1>1, <1>3, FeeDuesType
<1>6. R \in Amounts /\ Sum(R) \in Int
  BY <1>1, <1>2, ShareTypes, SumOfInts
<1>7. TO_Q64 \in Nat /\ ShareOfFee(c) \in Nat /\ TO_Q64 * ShareOfFee(c) \in Nat
  <2>1. TO_Q64 \in Nat /\ ShareOfFee(c) \in Nat
    BY <1>1, GrowthOfFee, Widths
  <2> QED
    BY <2>1
<1>8. \E d \in Nat : /\ GrowthsAtCrossing(swap, c)[x] = WrapU128(SwapGrowths[x] + d)
                     /\ d * L <= most
  BY GrowthOfIteration
<1>9. PICK d \in Nat : /\ GrowthsAtCrossing(swap, c)[x] = WrapU128(SwapGrowths[x] + d)
                       /\ d * L <= most
  BY <1>8
<1>10. \A p \in PositionIds : D2[p] <= D1[p] + d * R[p]
  BY <1>9, FeeDueOfIteration
<1>11. most \in Nat
  BY <1>7
<1> HIDE DEF D1, D2, R, L, most, t
<1> DEFINE K == [p \in PositionIds |-> d * R[p]]
           H == [p \in PositionIds |-> D1[p] + K[p]]
<1>12. \A p \in PositionIds : D1[p] \in Int /\ R[p] \in Int
  BY <1>4, <1>6 DEF Amounts
<1>13. K \in Amounts /\ \A p \in PositionIds : K[p] = d * R[p]
  BY <1>12 DEF Amounts
<1> HIDE DEF K
<1>14. \A p \in PositionIds : K[p] \in Int
  BY <1>13 DEF Amounts
<1>15. H \in Amounts /\ \A p \in PositionIds : H[p] = D1[p] + K[p]
  BY <1>12, <1>14 DEF Amounts
<1>16. \A p \in PositionIds : D2[p] <= H[p]
  BY <1>10, <1>13, <1>15
<1> HIDE DEF H
<1>17. Sum(D2) <= Sum(H)
  BY <1>5, <1>15, <1>16, SumAtMost
<1>18. Sum(H) = Sum(D1) + Sum(K)
  BY <1>4, <1>13, <1>15, SumAdds
<1>19. Sum(K) = d * L
  <2>1. d \in Int
    OBVIOUS
  <2>2. Sum(K) = d * Sum(R)
    BY <1>6, <1>13, <2>1, SumScales
  <2> QED
    BY <1>2, <2>2
<1>20. d * L \in Int
  BY <1>2
<1>21. Sum(H) \in Int
  BY <1>4, <1>18, <1>19, <1>20
<1>22. Sum(D2) <= Sum(D1) + most
  BY <1>4, <1>5, <1>9, <1>11, <1>17, <1>18, <1>19, <1>20, <1>21
<1> QED
  BY <1>22 DEF D1, D2, most, t

\* What a running swap will make of the funds grows by what an iteration moves, and by the
\* providers' share of its fee.
LEMMA FundsOfIteration ==
  ASSUME BookIInv, NEW c, StepComputed(swap, c), SwapMoves(swap, c), NEW x \in Token
  PROVE  /\ SwapFunds[x] \in Int /\ SwapFunds'[x] \in Int
         /\ SwapFunds[x] + Moved(x, swap, c)
              + (IF x = InputToken(swap) THEN ShareOfFee(c) ELSE 0) <= SwapFunds'[x]
<1> USE DEF config, curve, fees, rewards
<1>1. IInv
  BY DEF BookIInv
<1>2. StepComputed(swap, c) /\ SwapMoves(swap, c)
  OBVIOUS
<1>3. swap \in SwapState /\ ~Idle
  BY <1>1, <1>2 DEF StepComputed, IInv, TypeOK, Idle
<1>4. /\ swap'.curr_growth = StepFees(swap, c).growth
      /\ swap'.curr_protocol_fee = StepFees(swap, c).protocol_fee
      /\ swap'.amount_remaining = swap.amount_remaining - SpecifiedAmount(swap, c)
      /\ swap'.amount_calculated = swap.amount_calculated + OtherAmount(swap, c)
      /\ swap'.curr_sqrt_price = c.next_price
      /\ swap'.ticks = TicksAfter(swap, c) /\ swap'.curr_tick_index = TickAfter(swap, c)
      /\ swap'.request = swap.request
  BY <1>2, <1>3 DEF SwapMoves, SwapState
<1>5. /\ positions' = positions /\ fee_growth_global' = fee_growth_global
      /\ tick_current_index' = tick_current_index /\ sqrt_price' = sqrt_price /\ ticks' = ticks
      /\ vault' = vault /\ protocol_fee_owed' = protocol_fee_owed
  BY <1>2 DEF SwapMoves
<1>6. Funds' = Funds
  BY <1>5 DEF Funds
<1> QED
  <2> DEFINE F    == Funds[x]
             given == AmountPaid(swap)      given2 == AmountPaid(swap)'
             got  == AmountReceived(swap)  got2  == AmountReceived(swap)'
             kept == swap.curr_protocol_fee
             kept2 == StepFees(swap, c).protocol_fee
             in == c.amount_in  out == c.amount_out  fee == c.fee_amount  share == ShareOfFee(c)
  <2>1. F \in Int
    BY AccountFacts
  <2>2. /\ in \in Nat /\ out \in Nat /\ fee \in Nat
    <3>1. in \in U64 /\ out \in U64 /\ fee \in U64
      BY <1>2 DEF StepComputed, SwapStepComputation
    <3> HIDE DEF in, out, fee
    <3> QED
      BY <3>1, WordsAreIntegers
  <2>3. /\ given \in Int /\ got \in Int
        /\ given2 = given + (in + fee) /\ got2 = got + out
    <3> DEFINE amount == swap.request.amount
               rem == swap.amount_remaining  calc == swap.amount_calculated
    <3>1. rem \in Int /\ calc \in Int /\ amount \in Int
      <4>1. rem \in U64 /\ calc \in U64 /\ amount \in U64
        BY <1>3 DEF SwapState, SwapRequest
      <4> HIDE DEF rem, calc, amount
      <4> QED
        BY <4>1, WordsAreIntegers
    <3>2. CASE swap.request.is_input
      <4>1. /\ given = amount - rem /\ got = calc
            /\ given2 = amount - (rem - (in + fee)) /\ got2 = calc + out
        BY <1>4, <3>2 DEF AmountPaid, AmountReceived, SpecifiedTotal, SpecifiedAmount, OtherAmount
      <4> HIDE DEF given, got, given2, got2, amount, rem, calc, in, out, fee
      <4> QED
        BY <2>2, <3>1, <4>1
    <3>3. CASE ~swap.request.is_input
      <4>1. /\ given = calc /\ got = amount - rem
            /\ given2 = calc + (in + fee) /\ got2 = amount - (rem - out)
        BY <1>4, <3>3 DEF AmountPaid, AmountReceived, SpecifiedTotal, SpecifiedAmount, OtherAmount
      <4> HIDE DEF given, got, given2, got2, amount, rem, calc, in, out, fee
      <4> QED
        BY <2>2, <3>1, <4>1
    <3> QED
      BY <3>2, <3>3
  <2>4. share \in Nat /\ kept \in Nat /\ kept2 \in Nat /\ kept2 + share <= kept + fee
    BY <1>1, <1>2, GrowthOfFee
  <2>5. /\ SwapFunds[x] = F + IF x = InputToken(swap) THEN given - kept ELSE -got
        /\ SwapFunds'[x] = F + IF x = InputToken(swap) THEN given2 - kept2 ELSE -got2
        /\ Moved(x, swap, c) = IF x = InputToken(swap) THEN in ELSE -out
    BY <1>4, <1>6 DEF SwapFunds, InputToken, Moved
  <2>6. CASE x = InputToken(swap)
    <3>1. /\ SwapFunds[x] = F + (given - kept) /\ SwapFunds'[x] = F + (given2 - kept2)
          /\ Moved(x, swap, c) = in
      BY <2>5, <2>6
    <3> HIDE DEF F, given, given2, kept, kept2, in, out, fee, share, got, got2
    <3>2. /\ F + (given - kept) \in Int /\ F + (given2 - kept2) \in Int
          /\ (F + (given - kept)) + in + share <= F + (given2 - kept2)
      BY <2>1, <2>2, <2>3, <2>4
    <3> QED
      BY <2>6, <3>1, <3>2 DEF share
  <2>7. CASE x # InputToken(swap)
    <3>1. /\ SwapFunds[x] = F - got /\ SwapFunds'[x] = F - got2
          /\ Moved(x, swap, c) = -out
      BY <2>1, <2>2, <2>3, <2>5, <2>7
    <3> HIDE DEF F, given, given2, kept, kept2, in, out, fee, share, got, got2
    <3>2. F - got \in Int /\ F - got2 \in Int /\ (F - got) + (-out) + 0 <= F - got2
      BY <2>1, <2>2, <2>3
    <3> QED
      BY <2>7, <3>1, <3>2
  <2> QED
    BY <2>6, <2>7

\* After an iteration the swap would leave the pool solvent too.
LEMMA SolvencyIteration ==
  ASSUME BookIInv, BookIInv', SolvencyInv, SwapStep
  PROVE  SolvencyInv'
<1> USE DEF config, curve, fees, rewards
<1>1. IInv /\ AccountSolvent /\ SwapSolvent
  BY DEF BookIInv, SolvencyInv
<1>2. PICK c : StepComputed(swap, c) /\ SwapMoves(swap, c)
  BY <1>1, SwapIteration
<1>3. swap \in SwapState /\ ~Idle
  BY <1>1, <1>2 DEF StepComputed, IInv, TypeOK, Idle
<1>4. /\ swap'.curr_growth = StepFees(swap, c).growth
      /\ swap'.curr_protocol_fee = StepFees(swap, c).protocol_fee
      /\ swap'.amount_remaining = swap.amount_remaining - SpecifiedAmount(swap, c)
      /\ swap'.amount_calculated = swap.amount_calculated + OtherAmount(swap, c)
      /\ swap'.curr_sqrt_price = c.next_price
      /\ swap'.ticks = TicksAfter(swap, c) /\ swap'.curr_tick_index = TickAfter(swap, c)
      /\ swap'.request = swap.request
  BY <1>2, <1>3 DEF SwapMoves, SwapState
<1>5. /\ positions' = positions /\ fee_growth_global' = fee_growth_global
      /\ tick_current_index' = tick_current_index /\ sqrt_price' = sqrt_price /\ ticks' = ticks
      /\ vault' = vault /\ protocol_fee_owed' = protocol_fee_owed
  BY <1>2 DEF SwapMoves
<1>6. Funds' = Funds
  BY <1>5 DEF Funds
<1>7. AccountSolvent'
  <2>1. AccountSolvent' <=> AccountSolvent
    BY <1>5, <1>6 DEF AccountSolvent
  <2> QED
    BY <1>1, <2>1
<1>8. SwapGrowths' = GrowthsAtCrossing(swap, c)
  BY <1>4, <1>5 DEF SwapGrowths, GrowthsAtCrossing, InputToken
<1> DEFINE t  == swap.curr_tick_index
           t2 == TickAfter(swap, c)
           tk == swap.ticks
           tk2 == TicksAfter(swap, c)
           g  == SwapGrowths
           g2 == GrowthsAtCrossing(swap, c)
<1>9. ASSUME NEW x \in Token
      PROVE  /\ SwapFunds[x] \in Int /\ SwapFunds'[x] \in Int
             /\ SwapFunds[x] + Moved(x, swap, c)
                  + (IF x = InputToken(swap) THEN ShareOfFee(c) ELSE 0) <= SwapFunds'[x]
  BY <1>2, FundsOfIteration
<1>10. ASSUME NEW x \in Token
       PROVE  Covered(x, Reserve(x, SwapFunds'[x], positions, t2, tk2, g2),
                      positions, t2, c.next_price)
  <2> DEFINE F  == SwapFunds[x]
             F2 == SwapFunds'[x]
             s  == Moved(x, swap, c)
             share == IF x = InputToken(swap) THEN ShareOfFee(c) ELSE 0
             d  == Sum(FeeDues(positions, t, tk, g, x))
             d2 == Sum(FeeDues(positions, t2, tk2, g2, x))
             r  == Reserve(x, F, positions, t, tk, g)
             r2 == Reserve(x, F2, positions, t2, tk2, g2)
  <2>1. /\ positions \in AllPositions /\ RangesSound(positions)
        /\ t \in Int /\ tk \in [UsableTicks -> Tick] /\ g \in [Token -> U128]
    BY <1>3, AccountFacts, RunningFacts
  <2>2. t2 \in Int /\ tk2 \in [UsableTicks -> Tick] /\ g2 \in [Token -> U128]
    <3>1. TickHoldsPrice(t2, c.next_price)
      BY <1>2 DEF StepComputed
    <3>2. t2 \in Int
      BY <3>1, TickRangeAssumption DEF TickHoldsPrice
    <3>3. tk2 \in [UsableTicks -> Tick]
      BY <1>2 DEF StepComputed
    <3>4. g2 \in [Token -> U128]
      BY <1>1, <1>2, SwapGrowthTypes
    <3> QED
      BY <3>2, <3>3, <3>4
  <2>3. F \in Int /\ F2 \in Int /\ F + s + share <= F2
    BY <1>9
  <2>4. s \in Int /\ share \in Nat /\ TO_Q64 \in Nat
    <3>1. s \in Int
      BY <1>1, <1>2, MovedEnough DEF Token
    <3>2. ShareOfFee(c) \in Nat
      BY <1>1, <1>2, GrowthOfFee
    <3> QED
      BY <3>1, <3>2, Widths
  <2>5. d \in Int
    BY <2>1, FeeDuesType
  <2>6. d2 \in Int
    BY <2>2, <2>1, FeeDuesType
  <2>7. d2 <= d + TO_Q64 * share
    <3>1. d2 <= d + IF x = InputToken(swap) THEN TO_Q64 * ShareOfFee(c) ELSE 0
      BY <1>2, FeeDuesOfIteration
    <3>2. TO_Q64 * share = IF x = InputToken(swap) THEN TO_Q64 * ShareOfFee(c) ELSE 0
      <4>1. TO_Q64 * 0 = 0
        BY <2>4
      <4> QED
        BY <4>1
    <3> HIDE DEF d, d2, share
    <3> QED
      BY <3>1, <3>2
  <2>8. r = TO_Q64 * F - d /\ r2 = TO_Q64 * F2 - d2
    BY DEF Reserve
  <2>9. Covered(x, r, positions, t, swap.curr_sqrt_price)
    BY <1>1, <1>3 DEF SwapSolvent, Solvent
  <2> HIDE DEF F, F2, s, share, d, d2, r, r2
  <2>10. r \in Int /\ r2 \in Int
    BY <2>3, <2>4, <2>5, <2>6, <2>8
  <2>11. r + TO_Q64 * s <= r2
    <3>1. TO_Q64 * (F + s + share) <= TO_Q64 * F2
      <4> DEFINE f == F + s + share
      <4>1. f \in Int /\ f <= F2
        BY <2>3, <2>4
      <4> HIDE DEF f
      <4>2. f * TO_Q64 <= F2 * TO_Q64
        BY <2>3, <2>4, <4>1, MulMonotone
      <4>3. f * TO_Q64 = TO_Q64 * f /\ F2 * TO_Q64 = TO_Q64 * F2
        BY <2>3, <2>4, <4>1
      <4> QED
        BY <4>2, <4>3 DEF f
    <3>2. TO_Q64 * (F + s + share) = TO_Q64 * F + TO_Q64 * s + TO_Q64 * share
      BY <2>3, <2>4
    <3>3. /\ TO_Q64 * F \in Int /\ TO_Q64 * F2 \in Int /\ TO_Q64 * s \in Int
          /\ TO_Q64 * share \in Int
      BY <2>3, <2>4
    <3> DEFINE qF == TO_Q64 * F  qF2 == TO_Q64 * F2  qs == TO_Q64 * s  qh == TO_Q64 * share
    <3> HIDE DEF qF, qF2, qs, qh
    <3>4. /\ qF \in Int /\ qF2 \in Int /\ qs \in Int /\ qh \in Int
          /\ qF + qs + qh <= qF2 /\ d2 <= d + qh /\ r = qF - d /\ r2 = qF2 - d2
      BY <2>7, <2>8, <3>1, <3>2, <3>3 DEF qF, qF2, qs, qh
    <3>5. r + qs <= r2
      BY <2>5, <2>6, <3>4
    <3> QED
      BY <3>5 DEF qs
  <2>12. Covered(x, r2, positions, t2, c.next_price)
    <3>1. r + TO_Q64 * Moved(x, swap, c) <= r2
      BY <2>11 DEF s
    <3>2. Covered(x, r, positions, swap.curr_tick_index, swap.curr_sqrt_price)
      BY <2>9
    <3> QED
      BY <1>2, <2>10, <3>1, <3>2, PaidForMove
  <2> QED
    BY <2>12 DEF r2, F2
<1>11. SwapSolvent'
  <2>1. Solvent(positions', swap'.curr_tick_index, swap'.curr_sqrt_price, swap'.ticks,
                SwapGrowths', SwapFunds')
    BY <1>4, <1>5, <1>8, <1>10 DEF Solvent
  <2> QED
    BY <2>1 DEF SwapSolvent
<1> QED
  BY <1>7, <1>11 DEF SolvencyInv

\* A swap starts from the pool's account.
LEMMA SolvencyBegin ==
  ASSUME BookIInv, BookIInv', SolvencyInv,
         NEW r \in SwapRequests, NEW timestamp \in Timestamps, SwapBegin(r, timestamp)
  PROVE  SolvencyInv'
<1> USE DEF config, curve, fees, rewards
<1>1. AccountSolvent /\ TypeOK
  BY DEF BookIInv, SolvencyInv, IInv
<1>2. /\ swap' = StartedSwap(r, timestamp)
      /\ positions' = positions /\ fee_growth_global' = fee_growth_global
      /\ tick_current_index' = tick_current_index /\ sqrt_price' = sqrt_price /\ ticks' = ticks
      /\ vault' = vault /\ protocol_fee_owed' = protocol_fee_owed
  BY DEF SwapBegin
<1>3. Funds' = Funds
  BY <1>2 DEF Funds
<1>4. Solvent(positions, tick_current_index, sqrt_price, ticks, fee_growth_global, Funds)
  BY <1>1 DEF AccountSolvent
<1>5. AccountSolvent'
  BY <1>2, <1>3, <1>4 DEF AccountSolvent
<1>6. /\ swap'.curr_tick_index = tick_current_index /\ swap'.curr_sqrt_price = sqrt_price
      /\ swap'.ticks = ticks /\ swap'.curr_protocol_fee = 0
      /\ swap'.amount_calculated = 0 /\ swap'.amount_remaining = r.amount
      /\ swap'.request = r
      /\ swap'.curr_growth = fee_growth_global[IF r.a_to_b THEN "a" ELSE "b"]
  BY <1>2 DEF StartedSwap
<1>7. SwapGrowths' = fee_growth_global
  <2>1. fee_growth_global \in [Token -> U128]
    BY AccountFacts
  <2> QED
    BY <1>2, <1>6, <2>1 DEF SwapGrowths, InputToken
<1>8. SwapFunds' = Funds
  <2>1. AmountPaid(swap)' = 0 /\ AmountReceived(swap)' = 0
    <3>1. r.amount \in U64
      <4>1. r \in SwapRequest
        BY PoolAssumption
      <4> QED
        BY <4>1 DEF SwapRequest
    <3> DEFINE amount == r.amount
    <3>2. amount - amount = 0
      <4> HIDE DEF amount
      <4>1. amount \in Int
        BY <3>1, WordsAreIntegers DEF amount
      <4> QED
        BY <4>1
    <3> QED
      BY <1>6, <3>2 DEF AmountPaid, AmountReceived, SpecifiedTotal
  <2>2. \A x \in Token : Funds[x] \in Int
    BY AccountFacts
  <2>3. Funds = [x \in Token |-> Funds[x]]
    BY DEF Funds
  <2>4. \A x \in Token : SwapFunds'[x] = Funds[x]
    <3>1. \A x \in Token : SwapFunds'[x] = Funds[x] + IF x = InputToken(swap)' THEN 0 - 0 ELSE -0
      BY <1>3, <1>6, <2>1 DEF SwapFunds, InputToken
    <3> QED
      BY <2>2, <3>1
  <2>5. SwapFunds' = [x \in Token |-> SwapFunds'[x]]
    BY DEF SwapFunds
  <2> QED
    BY <2>3, <2>4, <2>5
<1>9. SwapSolvent'
  BY <1>2, <1>4, <1>6, <1>7, <1>8 DEF SwapSolvent
<1> QED
  BY <1>5, <1>9 DEF SolvencyInv

\* What a swap's end makes of the funds is what the loop found it would, or more when the
\* protocol's fees wrap.
LEMMA FundsOfCommit ==
  ASSUME BookIInv, SwapCommit, NEW x \in Token
  PROVE  SwapFunds[x] \in Int /\ SwapFunds[x] <= Funds'[x]
<1>1. TypeOK /\ swap \in SwapState
  BY DEF BookIInv, IInv, TypeOK, Idle, SwapCommit
<1>2. /\ protocol_fee_owed' = [protocol_fee_owed EXCEPT
                                 ![InputToken(swap)] = WrapU64(@ + swap.curr_protocol_fee)]
      /\ vault' = [vault EXCEPT ![InputToken(swap)] = @ + AmountPaid(swap),
                                ![OutputToken(swap)] = @ - AmountReceived(swap)]
  BY DEF SwapCommit, UpdateAndSwap
<1> QED
  <2> DEFINE v == vault[x]  o == protocol_fee_owed[x]  kept == swap.curr_protocol_fee
             given == AmountPaid(swap)  got == AmountReceived(swap)
             o2 == WrapU64(o + kept)
  <2>1. v \in Nat /\ o \in Nat /\ Funds[x] = v - o
    BY AccountFacts
  <2>2. kept \in Nat
    <3>1. kept \in U64
      BY <1>1 DEF SwapState
    <3> HIDE DEF kept
    <3> QED
      BY <3>1, WordsAreIntegers
  <2>3. given \in Int /\ got \in Int
    <3> DEFINE amount == swap.request.amount
               rem == swap.amount_remaining  calc == swap.amount_calculated
    <3>1. rem \in U64 /\ calc \in U64 /\ amount \in U64
      BY <1>1 DEF SwapState, SwapRequest
    <3>2. /\ given = (IF swap.request.is_input THEN amount - rem ELSE calc)
          /\ got = (IF swap.request.is_input THEN calc ELSE amount - rem)
      BY DEF AmountPaid, AmountReceived, SpecifiedTotal
    <3> HIDE DEF rem, calc, amount, given, got
    <3>3. rem \in Int /\ calc \in Int /\ amount \in Int
      BY <3>1, WordsAreIntegers
    <3> QED
      BY <3>2, <3>3
  <2>4. o2 \in Nat /\ o2 <= o + kept
    <3> HIDE DEF o, kept
    <3>1. o + kept \in Nat
      BY <2>1, <2>2
    <3> QED
      BY <2>1, <3>1, RemainderAtMost, Widths DEF WrapU64
  <2>5. vault \in [Token -> U64] /\ protocol_fee_owed \in [Token -> U64]
    BY <1>1 DEF TypeOK
  <2>6. CASE x = InputToken(swap)
    <3>1. x # OutputToken(swap)
      BY <2>6 DEF InputToken, OutputToken
    <3>2. vault'[x] = v + given /\ protocol_fee_owed'[x] = o2
      BY <1>2, <2>5, <2>6, <3>1
    <3>3. Funds'[x] = (v + given) - o2
      BY <3>2 DEF Funds
    <3>4. SwapFunds[x] = (v - o) + (given - kept)
      BY <2>1, <2>6 DEF SwapFunds
    <3> HIDE DEF v, o, kept, given, got, o2
    <3>5. (v - o) + (given - kept) \in Int /\ (v - o) + (given - kept) <= (v + given) - o2
      BY <2>1, <2>2, <2>3, <2>4
    <3> QED
      BY <3>3, <3>4, <3>5
  <2>7. CASE x # InputToken(swap)
    <3>1. x = OutputToken(swap)
      BY <2>7 DEF InputToken, OutputToken, Token
    <3>2. vault'[x] = v - got /\ protocol_fee_owed'[x] = o
      BY <1>2, <2>5, <2>7, <3>1
    <3>3. Funds'[x] = (v - got) - o
      BY <3>2 DEF Funds
    <3>4. SwapFunds[x] = (v - o) + (-got)
      BY <2>1, <2>7 DEF SwapFunds
    <3> HIDE DEF v, o, kept, given, got, o2
    <3>5. (v - o) + (-got) \in Int /\ (v - o) + (-got) <= (v - got) - o
      BY <2>1, <2>3
    <3> QED
      BY <3>3, <3>4, <3>5
  <2> QED
    BY <2>6, <2>7

\* A swap that fails leaves the account as it was, and one that succeeds leaves it as
\* the loop has found it would.
LEMMA SolvencyEnd ==
  ASSUME BookIInv, BookIInv', SolvencyInv, SwapCommit \/ SwapFail
  PROVE  SolvencyInv'
<1> USE DEF config, curve, fees, rewards
<1>1. IInv /\ TypeOK /\ ~Idle /\ swap \in SwapState /\ AccountSolvent /\ SwapSolvent
  BY DEF BookIInv, IInv, TypeOK, Idle, SwapCommit, SwapFail, SolvencyInv
<1>2. Idle'
  BY DEF SwapCommit, UpdateAndSwap, SwapFail, Idle
<1>3. CASE SwapFail
  <2>1. /\ positions' = positions /\ fee_growth_global' = fee_growth_global
        /\ tick_current_index' = tick_current_index /\ sqrt_price' = sqrt_price /\ ticks' = ticks
        /\ vault' = vault /\ protocol_fee_owed' = protocol_fee_owed
    BY <1>3 DEF SwapFail
  <2>2. Funds' = Funds
    BY <2>1 DEF Funds
  <2>3. Solvent(positions, tick_current_index, sqrt_price, ticks, fee_growth_global, Funds)
    BY <1>1 DEF AccountSolvent
  <2>4. AccountSolvent'
    BY <2>1, <2>2, <2>3 DEF AccountSolvent
  <2>5. SwapSolvent'
    BY <1>2 DEF SwapSolvent
  <2> QED
    BY <2>4, <2>5 DEF SolvencyInv
<1>4. CASE SwapCommit
  <2> DEFINE t == swap.curr_tick_index
             price == swap.curr_sqrt_price
  <2>1. /\ tick_current_index' = t /\ ticks' = swap.ticks /\ sqrt_price' = price
        /\ fee_growth_global' = SwapGrowths /\ positions' = positions
        /\ protocol_fee_owed' = [protocol_fee_owed EXCEPT
                                   ![InputToken(swap)] = WrapU64(@ + swap.curr_protocol_fee)]
        /\ vault' = [vault EXCEPT ![InputToken(swap)] = @ + AmountPaid(swap),
                                  ![OutputToken(swap)] = @ - AmountReceived(swap)]
    BY <1>4 DEF SwapCommit, UpdateAndSwap, SwapGrowths
  <2>2. ASSUME NEW x \in Token
        PROVE  SwapFunds[x] \in Int /\ SwapFunds[x] <= Funds'[x]
    BY <1>4, FundsOfCommit
  <2>3. ASSUME NEW x \in Token
        PROVE  Covered(x, Reserve(x, Funds'[x], positions', tick_current_index', ticks',
                                  fee_growth_global'),
                       positions', tick_current_index', sqrt_price')
    <3> DEFINE f == SwapFunds[x]  f2 == Funds'[x]  tk == swap.ticks  g == SwapGrowths
    <3>1. /\ positions \in AllPositions /\ RangesSound(positions)
          /\ t \in Int /\ price \in Nat \ {0} /\ tk \in [UsableTicks -> Tick]
          /\ g \in [Token -> U128]
      BY <1>1, AccountFacts, RunningFacts
    <3>2. f \in Int /\ f2 \in Int /\ f <= f2
      BY <2>2, NextAccountFacts
    <3>3. Covered(x, Reserve(x, f, positions, t, tk, g), positions, t, price)
      BY <1>1 DEF SwapSolvent, Solvent
    <3>4. SameBook(positions, positions)
      BY DEF SameBook
    <3>5. \A p \in PositionIds :
            FeeDue(positions[p], x, FeesInside(t, tk, positions[p], g)[x])
              <= FeeDue(positions[p], x, FeesInside(t, tk, positions[p], g)[x])
      <4>1. \A p \in PositionIds :
              FeeDue(positions[p], x, FeesInside(t, tk, positions[p], g)[x]) \in Nat
        BY <3>1, FeeDuesType
      <4> TAKE p \in PositionIds
      <4> DEFINE due == FeeDue(positions[p], x, FeesInside(t, tk, positions[p], g)[x])
      <4>2. due \in Nat
        BY <4>1
      <4> HIDE DEF due
      <4>3. due <= due
        BY <4>2
      <4> QED
        BY <4>3 DEF due
    <3> HIDE DEF f, f2, t, tk, g, price
    <3>6. Covered(x, Reserve(x, f2, positions, t, tk, g), positions, t, price)
      BY <3>1, <3>2, <3>3, <3>4, <3>5, StaysCoveredQuietly
    <3> QED
      BY <2>1, <3>6 DEF f2, t, tk, g, price
  <2> QED
    BY <1>2, <2>3, SolventWhenCovered
<1> QED
  BY <1>3, <1>4

\* A new pool has no positions to cover.
LEMMA SolvencyInit ==
  ASSUME Init, BookIInv PROVE SolvencyInv
<1>1. /\ positions = [p \in PositionIds |-> BlankPosition("none", 0, 0)] /\ swap = NoSwap
      /\ vault = [x \in Token |-> 0] /\ protocol_fee_owed = [x \in Token |-> 0]
  BY DEF Init, InitializePool
<1>2. \A p \in PositionIds : NoFees(positions[p])
  BY <1>1 DEF NoFees, BlankPosition
<1>3. SwapSolvent
  BY <1>1 DEF SwapSolvent, Idle
<1>4. ASSUME NEW x \in Token
      PROVE  Covered(x, Reserve(x, Funds[x], positions, tick_current_index, ticks,
                                fee_growth_global),
                     positions, tick_current_index, sqrt_price)
  <2> DEFINE D == FeeDues(positions, tick_current_index, ticks, fee_growth_global, x)
             C == ClaimsOf(x, positions, tick_current_index, sqrt_price)
             r == Reserve(x, Funds[x], positions, tick_current_index, ticks, fee_growth_global)
             price == sqrt_price
  <2>1. /\ positions \in AllPositions /\ RangesSound(positions)
        /\ tick_current_index \in Int /\ ticks \in [UsableTicks -> Tick]
        /\ fee_growth_global \in [Token -> U128] /\ price \in Nat \ {0}
    BY AccountFacts
  <2>2. TO_Q64 \in Nat
    BY Widths
  <2>3. D \in Amounts
    BY <2>1, FeeDuesType
  <2>4. \A p \in PositionIds : D[p] = 0
    BY <1>2, <2>2 DEF FeeDues, FeeDue, DueOf, NoFees
  <2>5. C \in Amounts
    <3>1. price \in Nat
      BY <2>1
    <3> QED
      BY <2>1, <3>1, ClaimsTypes
  <2>6. \A p \in PositionIds : C[p] = 0
    BY <1>2 DEF ClaimsOf, NoFees
  <2>7. Sum(D) = 0
    <3> HIDE DEF D
    <3> QED
      BY <2>3, <2>4, SumOfZeros
  <2>8. Sum(C) = 0
    <3> HIDE DEF C
    <3> QED
      BY <2>5, <2>6, SumOfZeros
  <2>9. r = 0
    <3>1. Funds[x] = 0
      BY <1>1 DEF Funds
    <3>2. r = TO_Q64 * Funds[x] - Sum(D)
      BY DEF Reserve
    <3> HIDE DEF r, D
    <3> QED
      BY <2>2, <2>7, <3>1, <3>2
  <2>10. Scale(x) * Sum(C) <= r * Weight(x, price)
    <3> DEFINE s == Scale(x)  w == Weight(x, price)
    <3>1. s \in Nat /\ w \in Nat
      BY <2>1, WeightsPositive
    <3> HIDE DEF s, w, r, C
    <3>2. s * Sum(C) <= r * w
      BY <2>8, <2>9, <3>1
    <3> QED
      BY <3>2 DEF s, w
  <2>11. r \in Int /\ price \in Nat
    BY <2>1, <2>9
  <2> HIDE DEF r
  <2>12. Covered(x, r, positions, tick_current_index, price)
    BY <2>1, <2>10, <2>11, CoveredByWeight
  <2> QED
    BY <2>12 DEF r
<1>5. AccountSolvent
  BY <1>4 DEF AccountSolvent, Solvent
<1> QED
  BY <1>3, <1>5 DEF SolvencyInv

\* Each step keeps the invariant.
LEMMA SolvencyStep ==
  ASSUME BookIInv, BookIInv', SolvencyInv, Next
  PROVE  SolvencyInv'
<1>1. CASE PositionNext
  BY <1>1, SolvencyPositionStep
<1>2. CASE \/ RewardNext \/ ConfigNext \/ CollectProtocolFees
           \/ \E start \in MIN_ARRAY_START .. MAX_TICK_INDEX : InitializeTickArray(start)
  BY <1>2, SolvencyOtherStep
<1>3. CASE \E r \in SwapRequests, timestamp \in Timestamps : SwapBegin(r, timestamp)
  BY <1>3, SolvencyBegin
<1>4. CASE SwapProgress
  BY <1>4, SolvencyIteration, SolvencyEnd DEF SwapProgress
<1> QED
  BY <1>1, <1>2, <1>3, <1>4 DEF Next

\* So it always holds.
LEMMA SolvencyKept == Spec => []SolvencyInv
<1>1. Init /\ BookIInv => SolvencyInv
  BY SolvencyInit
<1>2. BookIInv /\ BookIInv' /\ SolvencyInv /\ [Next]_vars => SolvencyInv'
  <2> SUFFICES ASSUME BookIInv, BookIInv', SolvencyInv, [Next]_vars PROVE SolvencyInv'
    OBVIOUS
  <2>1. CASE Next
    BY <2>1, SolvencyStep
  <2>2. CASE UNCHANGED vars
    <3>1. UNCHANGED <<tick_current_index, sqrt_price, ticks, positions, fee_growth_global,
                      vault, protocol_fee_owed, swap>>
      BY <2>2 DEF vars, curve, fees
    <3> QED
      BY <3>1 DEF SolvencyInv, AccountSolvent, SwapSolvent, Idle, Funds, SwapFunds, SwapGrowths
  <2> QED
    BY <2>1, <2>2
<1>3. Spec => []BookIInv
  BY BooksKept
<1> QED
  BY <1>1, <1>2, <1>3, PTL DEF Spec

\* The vaults cover the protocol's fees, every position's fees and every position's
\* liquidity at the current price, after any sequence of instructions: whatever is
\* rounded, by get_amount_delta_a and _b (token_math.rs:41, 81), by the step of a swap
\* (swap_math.rs:14) and by the growth of fees (swap_manager.rs:200), stays in the pool.
THEOREM PoolStaysSolvent == Spec => []PoolSolvent
<1>1. BookIInv /\ SolvencyInv => PoolSolvent
  <2> SUFFICES ASSUME BookIInv, SolvencyInv PROVE PoolSolvent
    OBVIOUS
  <2>1. AccountSolvent
    BY DEF SolvencyInv
  <2> QED
    BY <2>1, CoveredIsSolvent
<1> QED
  BY <1>1, BooksKept, SolvencyKept, PTL

-----------------------------------------------------------------------------
(* No fee is forfeited *)

\* What a position could collect in fees, with given growth inside.
FeesWith(position, x, growth) ==
  position.fee_owed[x]
  + IF position.liquidity = 0 THEN 0
    ELSE Unsettled(position, growth, position.fee_growth_checkpoint[x])

FeeGrowthAt(p, x) == FeesInside(tick_current_index, ticks, positions[p], fee_growth_global)[x]

\* A position that was never opened, or is closed, is owed nothing.
ClosedOweNothing == \A p \in PositionIds : positions[p].state # "open" => NoFees(positions[p])

\* What a position could collect now.
LEMMA FeesAreWith ==
  ASSUME BookIInv, NEW p \in PositionIds, NEW x \in Token
  PROVE  FeesOf(p)[x] = FeesWith(positions[p], x, FeeGrowthAt(p, x))
<1>1. FeesOf(p)[x] = positions[p].fee_owed[x] +
                       IF Provides(p)
                       THEN Unsettled(positions[p], FeeGrowthAt(p, x),
                                      positions[p].fee_growth_checkpoint[x])
                       ELSE 0
  BY DEF FeesOf, FeeGrowthsInside, FeesInside, FeeGrowthAt
<1>2. Provides(p) <=> positions[p].liquidity # 0
  BY ProvidesLiquidity
<1> QED
  BY <1>1, <1>2 DEF FeesWith

\* What it could collect after a step.
LEMMA NextFeesAreWith ==
  ASSUME BookIInv', NEW p \in PositionIds, NEW x \in Token
  PROVE  FeesOf(p)'[x] = FeesWith(positions'[p], x, FeeGrowthAt(p, x)')
<1>1. FeesOf(p)'[x] = positions'[p].fee_owed[x] +
                        IF Provides(p)'
                        THEN Unsettled(positions'[p], FeeGrowthAt(p, x)',
                                       positions'[p].fee_growth_checkpoint[x])
                        ELSE 0
  BY DEF FeesOf, FeeGrowthsInside, FeesInside, FeeGrowthAt
<1>2. Provides(p)' <=> positions'[p].liquidity # 0
  <2>1. positions'[p].liquidity \in Nat
    BY NextAccountFacts, RangeOfPosition
  <2>2. positions'[p].liquidity # 0 => positions'[p].state = "open"
    BY NextAccountFacts DEF RangesSound
  <2> QED
    BY <2>1, <2>2 DEF Provides
<1> QED
  BY <1>1, <1>2 DEF FeesWith

\* What covers what all positions hold is not negative.
LEMMA ReserveNotNegative ==
  ASSUME NEW pos \in AllPositions, RangesSound(pos), NEW current \in Int,
         NEW price \in Nat \ {0}, NEW x \in Token, NEW r \in Int,
         TickHoldsPrice(current, price), Covered(x, r, pos, current, price), NEW p \in PositionIds
  PROVE  0 <= r
<1> DEFINE C == ClaimsOf(x, pos, current, price)
           s == Scale(x)
           w == Weight(x, price)
<1>1. price \in Nat
  OBVIOUS
<1>2. 0 <= Sum(C) /\ Sum(C) \in Int
  <2>1. C \in [PositionIds -> Nat]
    BY <1>1, ClaimsTypes
  <2> HIDE DEF C
  <2>3. C[p] <= Sum(C) /\ C[p] \in Nat
    BY <2>1, SumAtLeast
  <2>4. Sum(C) \in Int
    BY <2>1, SumOfInts DEF Amounts
  <2> QED
    BY <2>3, <2>4
<1>3. s \in Nat \ {0} /\ w \in Nat \ {0}
  BY WeightsPositive
<1>4. s * Sum(C) <= r * w
  BY <1>1, CoveredByWeight
<1> HIDE DEF s, w, C
<1>5. 0 <= s * Sum(C) /\ s * Sum(C) \in Int /\ r * w \in Int
  BY <1>2, <1>3
<1>6. 0 <= r * w
  BY <1>4, <1>5
<1> QED
  BY <1>3, <1>6

\* A solvent pool owes no position more fees than a vault holds, so that a sum of
\* fees is a word.
LEMMA FeesFit ==
  ASSUME BookIInv, SolvencyInv, NEW p \in PositionIds, NEW x \in Token
  PROVE  FeesOf(p)[x] \in U64
<1> DEFINE D == FeeDues(positions, tick_current_index, ticks, fee_growth_global, x)
           r == Reserve(x, Funds[x], positions, tick_current_index, ticks, fee_growth_global)
           price == sqrt_price
           m == Funds[x]
           f == FeesOf(p)[x]
<1>1. /\ positions \in AllPositions /\ RangesSound(positions)
      /\ tick_current_index \in Int /\ ticks \in [UsableTicks -> Tick]
      /\ fee_growth_global \in [Token -> U128] /\ TickHoldsPrice(tick_current_index, price)
      /\ price \in Nat \ {0} /\ price \in Nat /\ m \in Int
  BY AccountFacts
<1>2. D \in [PositionIds -> Nat] /\ Sum(D) \in Int
  BY <1>1, FeeDuesType
<1>3. D[p] <= Sum(D) /\ D[p] \in Int
  <2> HIDE DEF D
  <2> QED
    BY <1>2, SumAtLeast
<1>5. r = TO_Q64 * m - Sum(D) /\ r \in Int
  BY <1>1, SumsTypes
<1>6. 0 <= r
  <2>1. Covered(x, r, positions, tick_current_index, price)
    BY AccountCovers
  <2> HIDE DEF r
  <2> QED
    BY <1>1, <1>5, <2>1, ReserveNotNegative
<1>7. f \in Nat /\ TO_Q64 * f <= D[p]
  BY FeesAreDue
<1>8. TO_Q64 \in Nat \ {0}
  BY Widths
<1>9. TO_Q64 * f <= TO_Q64 * m
  <2> DEFINE y == TO_Q64 * f  z == TO_Q64 * m
  <2>1. y \in Int /\ z \in Int
    BY <1>1, <1>7, <1>8
  <2> HIDE DEF D, r, y, z
  <2>2. y <= D[p] /\ r = z - Sum(D)
    BY <1>5, <1>7 DEF y, z
  <2>3. y <= z
    BY <1>2, <1>3, <1>5, <1>6, <2>1, <2>2
  <2> QED
    BY <2>3 DEF y, z
<1>10. f <= m
  <2> HIDE DEF f, m
  <2> QED
    BY <1>1, <1>7, <1>8, <1>9
<1>11. m <= vault[x] /\ vault[x] \in U64
  <2>1. /\ m = vault[x] - protocol_fee_owed[x]
        /\ vault[x] \in Nat /\ protocol_fee_owed[x] \in Nat /\ vault[x] \in U64
    BY AccountFacts
  <2> HIDE DEF m
  <2> QED
    BY <2>1
<1> HIDE DEF f, m
<1>12. f \in U64
  <2>1. vault[x] \in Int
    BY AccountFacts
  <2> QED
    BY <1>1, <1>7, <1>10, <1>11, <2>1, Widths DEF U64
<1> QED
  BY <1>12 DEF f

\* A step that leaves a position's own account of its fees, and the growth inside its
\* range, leaves what it could collect.
LEMMA FeesUnchanged ==
  ASSUME BookIInv, BookIInv', NEW p \in PositionIds, NEW x \in Token,
         SameFees(positions[p], positions'[p]),
         positions'[p].liquidity # 0 => FeeGrowthAt(p, x)' = FeeGrowthAt(p, x)
  PROVE  FeesOf(p)'[x] = FeesOf(p)[x]
<1>1. FeesOf(p)[x] = FeesWith(positions[p], x, FeeGrowthAt(p, x))
  BY FeesAreWith
<1>2. FeesOf(p)'[x] = FeesWith(positions'[p], x, FeeGrowthAt(p, x)')
  BY NextFeesAreWith
<1> DEFINE g == FeeGrowthAt(p, x)  g2 == FeeGrowthAt(p, x)'
<1>3. positions'[p].liquidity # 0 => g2 = g
  OBVIOUS
<1> HIDE DEF g, g2
<1>4. FeesWith(positions'[p], x, g2) = FeesWith(positions[p], x, g)
  BY <1>3 DEF FeesWith, SameFees, Unsettled
<1> QED
  BY <1>1, <1>2, <1>4 DEF g, g2

\* A position without fees has none to collect.
LEMMA NoFeesWith ==
  ASSUME NEW position, NEW x \in Token, NEW growth, NoFees(position)
  PROVE  FeesWith(position, x, growth) = 0
BY DEF NoFees, FeesWith

\* The settlement's product does not overflow when what was earned is a word.
LEMMA EarnedExactly ==
  ASSUME NEW position, NEW L, L = position.liquidity, L \in U128,
         NEW growth \in U128, NEW checkpoint \in U128,
         Unsettled(position, growth, checkpoint) \in U64
  PROVE  GrowthEarned(L, growth, checkpoint) = Unsettled(position, growth, checkpoint)
<1> DEFINE n == L * WrapU128(growth - checkpoint)
           e == Unsettled(position, growth, checkpoint)
           up == FALSE
<1>1. n \in Nat /\ e \in Nat /\ n < TO_Q64 * e + TO_Q64
  BY UnsettledBounds
<1>2. e \in U64 /\ TO_Q64 \in Nat
  BY Widths
<1>3. e = n \div TO_Q64
  BY DEF Unsettled
<1>4. GrowthEarned(L, growth, checkpoint) = OrZero(IF n >= TO_Q128 THEN Err ELSE CheckU64(e))
  BY <1>3 DEF GrowthEarned, checked_mul_shift_right, checked_mul_shift_right_round_up_if, DivRound
<1> HIDE DEF n, e
<1>5. n < TO_Q128
  <2>1. e + 1 \in Nat /\ e + 1 <= TO_Q64
    BY <1>1, <1>2 DEF U64
  <2>2. (e + 1) * TO_Q64 <= TO_Q64 * TO_Q64
    BY <1>2, <2>1, MulMonotone
  <2>3. (e + 1) * TO_Q64 = TO_Q64 * e + TO_Q64 /\ TO_Q64 * e \in Int /\ TO_Q64 * TO_Q64 \in Int
    BY <1>1, <1>2
  <2>4. TO_Q128 = TO_Q64 * TO_Q64
    BY DEF TO_Q128
  <2> DEFINE y == TO_Q64 * e  z == TO_Q64 * TO_Q64  v == (e + 1) * TO_Q64
  <2> HIDE DEF y, z, v
  <2>5. n < y + TO_Q64 /\ v <= z /\ v = y + TO_Q64 /\ y \in Int /\ z \in Int /\ TO_Q128 = z
    BY <1>1, <2>2, <2>3, <2>4 DEF y, z, v
  <2> QED
    BY <1>1, <1>2, <2>5
<1>6. TO_Q128 \in Nat
  BY Widths
<1>7. OrZero(CheckU64(e)) = e
  BY <1>2, Widths DEF CheckU64, OrZero
<1>8. ~(n >= TO_Q128)
  BY <1>1, <1>5, <1>6
<1> QED
  BY <1>4, <1>7, <1>8 DEF e

\* Settling a position moves what its liquidity earned to what it is owed, and loses
\* nothing of it: the sum does not wrap (position_manager.rs).
LEMMA SettlingKeepsFees ==
  ASSUME NEW position \in Position, NEW delta, NEW inside \in [Token -> U128], NEW reward_growths,
         NEW pos2,
         pos2 = next_position_modify_liquidity_update(position, delta, inside, reward_growths),
         NEW x \in Token, NEW growth, pos2.liquidity = 0 \/ growth = inside[x],
         pos2.liquidity \in U128, FeesWith(position, x, inside[x]) \in U64
  PROVE  FeesWith(pos2, x, growth) = FeesWith(position, x, inside[x])
<1> DEFINE owed == position.fee_owed[x]
           L == position.liquidity
           checkpoint == position.fee_growth_checkpoint[x]
           g == inside[x]
           e == Unsettled(position, g, checkpoint)
           o2 == WrapU64(owed + GrowthEarned(L, g, checkpoint))
           L2 == pos2.liquidity
           e2 == Unsettled(pos2, growth, g)
<1>1. owed \in U64 /\ L \in U128 /\ checkpoint \in U128 /\ g \in U128 /\ L2 \in U128
  BY DEF Position
<1>2. pos2.fee_growth_checkpoint[x] = g /\ pos2.fee_owed[x] = o2
  BY DEF next_position_modify_liquidity_update, Position
<1>3. /\ FeesWith(position, x, g) = owed + IF L = 0 THEN 0 ELSE e
      /\ FeesWith(pos2, x, growth) = o2 + IF L2 = 0 THEN 0 ELSE e2
  BY <1>2 DEF FeesWith
<1>4. L2 = 0 \/ growth = g
  OBVIOUS
<1>5. FeesWith(position, x, g) \in U64
  OBVIOUS
<1> HIDE DEF owed, L, checkpoint, g, L2
<1>6. /\ owed \in Nat /\ e \in Nat
      /\ TO_Q64 * e <= L * WrapU128(g - checkpoint)
      /\ TO_Q64 \in Nat \ {0}
  BY <1>1, UnsettledBounds, WordsAreIntegers, Widths DEF L
<1>7. L = 0 => e = 0
  <2> SUFFICES ASSUME L = 0 PROVE e = 0
    OBVIOUS
  <2> DEFINE w == WrapU128(g - checkpoint)
  <2>1. w \in Nat
    <3>1. g \in Int /\ checkpoint \in Int
      BY <1>1, WordsAreIntegers
    <3>2. w \in U128
      BY <3>1, Conversions
    <3> QED
      BY <3>2, WordsAreIntegers
  <2> HIDE DEF w, e
  <2>2. L * w = 0
    BY <2>1
  <2>3. TO_Q64 * e <= 0
    BY <1>6, <2>2 DEF w
  <2> QED
    BY <1>6, <2>3
<1>8. L2 # 0 => e2 = 0
  <2> SUFFICES ASSUME L2 # 0 PROVE e2 = 0
    OBVIOUS
  <2>1. g \in Int /\ growth = g /\ L2 \in Nat
    BY <1>1, <1>4, WordsAreIntegers
  <2>2. WrapU128(growth - g) = 0
    <3>1. growth - g = 0
      BY <2>1
    <3>2. 0 \in U128
      BY Widths DEF U128
    <3> QED
      BY <3>1, <3>2, WrapWord
  <2>3. e2 \in Nat /\ TO_Q64 * e2 <= L2 * WrapU128(growth - g)
    BY <1>1, <2>1, UnsettledBounds DEF L2
  <2>4. TO_Q64 * e2 <= 0
    BY <2>1, <2>2, <2>3
  <2> HIDE DEF e2
  <2> QED
    BY <1>6, <2>3, <2>4
<1> HIDE DEF e, e2
<1>9. FeesWith(position, x, g) = owed + e
  BY <1>3, <1>6, <1>7
<1>10. o2 = owed + e
  <2>1. owed + e \in U64
    BY <1>5, <1>9
  <2>2. e \in U64
    BY <1>6, <2>1, Widths DEF U64
  <2>3. GrowthEarned(L, g, checkpoint) = e
    BY <1>1, <2>2, EarnedExactly DEF L, e
  <2> QED
    BY <1>6, <2>1, <2>3, Widths DEF WrapU64, U64, o2
<1> HIDE DEF o2
<1>11. FeesWith(pos2, x, growth) = owed + e
  <2>1. owed + e + 0 = owed + e
    BY <1>6
  <2>2. (IF L2 = 0 THEN 0 ELSE e2) = 0
    BY <1>8
  <2>3. FeesWith(pos2, x, growth) = o2 + IF L2 = 0 THEN 0 ELSE e2
    BY <1>3
  <2> QED
    BY <1>10, <2>1, <2>2, <2>3
<1> QED
  BY <1>9, <1>11 DEF g

\* So an instruction that settles a position leaves what it could collect.
LEMMA FeesSettled ==
  ASSUME BookIInv, BookIInv', SolvencyInv, NEW p \in PositionIds, NEW x \in Token,
         NEW delta, NEW reward_growths, FeeGrowthsInside(positions[p]) \in [Token -> U128],
         positions'[p] = next_position_modify_liquidity_update(positions[p], delta,
                           FeeGrowthsInside(positions[p]), reward_growths),
         positions'[p].liquidity # 0 => FeeGrowthAt(p, x)' = FeeGrowthAt(p, x)
  PROVE  FeesOf(p)'[x] = FeesOf(p)[x]
<1> DEFINE position == positions[p]
           pos2 == positions'[p]
           inside == FeeGrowthsInside(position)
           g2 == FeeGrowthAt(p, x)'
<1>1. inside[x] = FeeGrowthAt(p, x)
  BY DEF FeeGrowthAt, FeesInside, FeeGrowthsInside
<1>2. FeesOf(p)[x] = FeesWith(position, x, inside[x]) /\ FeesWith(position, x, inside[x]) \in U64
  BY <1>1, FeesAreWith, FeesFit
<1>3. FeesOf(p)'[x] = FeesWith(pos2, x, g2)
  BY NextFeesAreWith
<1>4. position \in Position /\ pos2.liquidity \in U128 /\ inside \in [Token -> U128]
  BY AccountFacts, NextAccountFacts, RangeOfPosition
<1>5. pos2 = next_position_modify_liquidity_update(position, delta, inside, reward_growths)
  OBVIOUS
<1>6. pos2.liquidity = 0 \/ g2 = inside[x]
  BY <1>1
<1> HIDE DEF position, pos2, inside, g2
<1>7. FeesWith(pos2, x, g2) = FeesWith(position, x, inside[x])
  BY <1>2, <1>4, <1>5, <1>6, SettlingKeepsFees
<1> QED
  BY <1>2, <1>3, <1>7

\* Updating a position's fees and rewards leaves what every position could collect.
LEMMA UpdateKeepsFees ==
  ASSUME BookIInv, BookIInv', SolvencyInv, NEW p \in PositionIds, NEW timestamp \in U64,
         UpdateFeesAndRewards(p, timestamp), NEW q \in PositionIds, NEW x \in Token
  PROVE  FeesOf(q)'[x] = FeesOf(q)[x]
<1> DEFINE reward_growths == RewardGrowthsInside(positions[p], RewardInfosAt(timestamp))
<1>1. UNCHANGED <<tick_current_index, ticks, fee_growth_global>>
  BY DEF UpdateFeesAndRewards, curve, fees
<1>2. /\ FeeGrowthsInside(positions[p]) \in [Token -> U128]
      /\ positions'[p] = next_position_modify_liquidity_update(positions[p], 0,
                           FeeGrowthsInside(positions[p]), reward_growths)
      /\ \A r \in PositionIds : r # p => positions'[r] = positions[r]
      /\ positions'[p].tick_lower_index = positions[p].tick_lower_index
      /\ positions'[p].tick_upper_index = positions[p].tick_upper_index
  BY UpdateSettles
<1>3. FeeGrowthAt(q, x)' = FeeGrowthAt(q, x)
  <2>1. /\ positions'[q].tick_lower_index = positions[q].tick_lower_index
        /\ positions'[q].tick_upper_index = positions[q].tick_upper_index
    BY <1>2
  <2> QED
    BY <1>1, <2>1 DEF FeeGrowthAt, FeesInside
<1>4. CASE q = p
  <2> DEFINE delta == 0
  <2>1. positions'[p] = next_position_modify_liquidity_update(positions[p], delta,
                          FeeGrowthsInside(positions[p]), reward_growths)
    BY <1>2
  <2> HIDE DEF delta, reward_growths
  <2> QED
    BY <1>2, <1>3, <1>4, <2>1, FeesSettled
<1>5. CASE q # p
  <2>1. SameFees(positions[q], positions'[q])
    BY <1>2, <1>5 DEF SameFees
  <2> QED
    BY <1>3, <2>1, FeesUnchanged
<1> QED
  BY <1>4, <1>5

\* So does a change of liquidity, for the position and for the others.
LEMMA ModifyKeepsFees ==
  ASSUME BookIInv, BookIInv', SolvencyInv, NEW p \in PositionIds, NEW delta \in Int,
         NEW timestamp \in U64, positions[p].state = "open",
         ModifyLiquidity(p, delta, timestamp), UNCHANGED <<tick_current_index, fee_growth_global>>,
         NEW q \in PositionIds, NEW x \in Token
  PROVE  FeesOf(q)'[x] = FeesOf(q)[x]
<1> DEFINE reward_growths == RewardGrowthsInside(positions[p], RewardInfosAt(timestamp))
<1>1. /\ FeeGrowthsInside(positions[p]) \in [Token -> U128]
      /\ positions'[p] = next_position_modify_liquidity_update(positions[p], delta,
                           FeeGrowthsInside(positions[p]), reward_growths)
      /\ LiquidityAdded(positions, positions', p, delta)
      /\ positions'[q].liquidity # 0 =>
              FeesInside(tick_current_index, ticks', positions'[q], fee_growth_global)[x]
                = FeesInside(tick_current_index, ticks, positions'[q], fee_growth_global)[x]
  BY ModifySettles
<1>2. positions'[q].liquidity # 0 => FeeGrowthAt(q, x)' = FeeGrowthAt(q, x)
  <2>1. /\ positions'[q].tick_lower_index = positions[q].tick_lower_index
        /\ positions'[q].tick_upper_index = positions[q].tick_upper_index
    BY <1>1 DEF LiquidityAdded
  <2>2. FeesInside(tick_current_index, ticks, positions'[q], fee_growth_global)
          = FeesInside(tick_current_index, ticks, positions[q], fee_growth_global)
    BY <2>1 DEF FeesInside
  <2>3. FeeGrowthAt(q, x)' = FeesInside(tick_current_index, ticks', positions'[q],
                                        fee_growth_global)[x]
    BY DEF FeeGrowthAt
  <2>4. FeeGrowthAt(q, x) = FeesInside(tick_current_index, ticks, positions[q],
                                       fee_growth_global)[x]
    BY DEF FeeGrowthAt
  <2> QED
    BY <1>1, <2>2, <2>3, <2>4
<1>3. CASE q = p
  <2> HIDE DEF reward_growths
  <2> QED
    BY <1>1, <1>2, <1>3, FeesSettled
<1>4. CASE q # p
  <2>1. SameFees(positions[q], positions'[q])
    BY <1>1, <1>4 DEF SameFees, LiquidityAdded
  <2> QED
    BY <1>2, <2>1, FeesUnchanged
<1> QED
  BY <1>3, <1>4

\* Collecting pays exactly what the position is owed.
LEMMA CollectPaysOwed ==
  ASSUME BookIInv, BookIInv', NEW p \in PositionIds, CollectFees(p), NEW x \in Token
  PROVE  FeesOf(p)'[x] = FeesOf(p)[x] - positions[p].fee_owed[x]
<1> USE DEF curve, fees
<1> DEFINE position == positions[p]
           pos2 == [position EXCEPT !.fee_owed = [y \in Token |-> 0]]
           g == FeeGrowthAt(p, x)
           earned == IF position.liquidity = 0 THEN 0
                     ELSE Unsettled(position, g, position.fee_growth_checkpoint[x])
           owed == position.fee_owed[x]
<1>1. positions \in AllPositions /\ position \in Position
  BY AccountFacts DEF AllPositions
<1>2. positions'[p] = pos2
  BY <1>1 DEF CollectFees, AllPositions
<1>3. /\ pos2.liquidity = position.liquidity
      /\ pos2.fee_growth_checkpoint = position.fee_growth_checkpoint /\ pos2.fee_owed[x] = 0
      /\ pos2.tick_lower_index = position.tick_lower_index
      /\ pos2.tick_upper_index = position.tick_upper_index
  BY <1>1 DEF Position
<1>4. UNCHANGED <<tick_current_index, ticks, fee_growth_global>>
  BY DEF CollectFees
<1>5. FeeGrowthAt(p, x)' = g
  BY <1>2, <1>3, <1>4 DEF FeeGrowthAt, FeesInside
<1>6. FeesOf(p)[x] = owed + earned
  BY FeesAreWith DEF FeesWith
<1>7. FeesOf(p)'[x] = FeesWith(pos2, x, g)
  BY <1>2, <1>5, NextFeesAreWith
<1>8. FeesWith(pos2, x, g) = 0 + earned
  BY <1>3 DEF FeesWith, Unsettled
<1>9. earned \in Int
  <2>1. /\ positions \in AllPositions /\ RangesSound(positions)
        /\ tick_current_index \in Int /\ ticks \in [UsableTicks -> Tick]
        /\ fee_growth_global \in [Token -> U128]
    BY AccountFacts
  <2>2. position.liquidity = 0 \/ g \in U128
    BY <2>1, FeeDuesType DEF FeeGrowthAt
  <2>3. position.liquidity \in U128 /\ position.fee_growth_checkpoint[x] \in U128
    BY <1>1 DEF Position
  <2>4. CASE position.liquidity = 0
    BY <2>4
  <2>5. CASE position.liquidity # 0
    <3> HIDE DEF position, g
    <3>1. Unsettled(position, g, position.fee_growth_checkpoint[x]) \in Nat
      BY <2>2, <2>3, <2>5, UnsettledBounds
    <3> QED
      BY <2>5, <3>1
  <2> QED
    BY <2>4, <2>5
<1>10. owed \in Int
  <2>1. owed \in U64
    BY <1>1 DEF Position
  <2> QED
    BY <2>1, WordsAreIntegers
<1> HIDE DEF earned, owed
<1>11. 0 + earned = (owed + earned) - owed
  BY <1>9, <1>10
<1> QED
  BY <1>6, <1>7, <1>8, <1>11 DEF owed

\* An instruction on a position lowers what a position could collect only by paying it
\* what it is owed.
LEMMA PositionStepKeepsFees ==
  ASSUME BookIInv, BookIInv', SolvencyInv, ClosedOweNothing, PositionNext,
         NEW q \in PositionIds, NEW x \in Token
  PROVE  \/ FeesOf(q)'[x] = FeesOf(q)[x]
         \/ /\ CollectFees(q)
            /\ FeesOf(q)'[x] = FeesOf(q)[x] - positions[q].fee_owed[x]
<1> USE DEF config, curve, fees, rewards
<1>1. PICK p \in PositionIds :
        \/ \E range \in PositionRanges : OpenPosition(p, range[1], range[2])
        \/ \E amount \in LiquidityAmounts, timestamp \in Timestamps :
             \/ IncreaseLiquidity(p, amount, timestamp)
             \/ DecreaseLiquidity(p, amount, timestamp)
        \/ \E timestamp \in Timestamps : UpdateFeesAndRewards(p, timestamp)
        \/ CollectFees(p)
        \/ \E i \in RewardIndex : CollectReward(p, i)
        \/ ClosePosition(p)
  BY DEF PositionNext
<1>2. positions \in AllPositions /\ positions[p] \in Position
  BY AccountFacts DEF AllPositions
<1>3. ASSUME NEW pos2, positions' = [positions EXCEPT ![p] = pos2],
             SameFees(positions[p], pos2) \/ (NoFees(positions[p]) /\ NoFees(pos2)) \/ q # p,
             UNCHANGED <<tick_current_index, ticks, fee_growth_global>>
      PROVE  FeesOf(q)'[x] = FeesOf(q)[x]
  <2>1. CASE SameFees(positions[q], positions'[q])
    <3>1. FeeGrowthAt(q, x)' = FeeGrowthAt(q, x)
      BY <1>3, <2>1 DEF FeeGrowthAt, FeesInside, SameFees
    <3> QED
      BY <2>1, <3>1, FeesUnchanged
  <2>2. CASE NoFees(positions[q]) /\ NoFees(positions'[q])
    <3> DEFINE g == FeeGrowthAt(q, x)  g2 == FeeGrowthAt(q, x)'
    <3>1. FeesOf(q)[x] = FeesWith(positions[q], x, g)
      BY FeesAreWith
    <3>2. FeesOf(q)'[x] = FeesWith(positions'[q], x, g2)
      BY NextFeesAreWith
    <3> HIDE DEF g, g2
    <3>3. FeesWith(positions[q], x, g) = 0 /\ FeesWith(positions'[q], x, g2) = 0
      BY <2>2, NoFeesWith
    <3> QED
      BY <3>1, <3>2, <3>3
  <2>3. CASE q # p
    <3>1. positions'[q] = positions[q]
      BY <1>2, <1>3, <2>3 DEF AllPositions
    <3> QED
      BY <2>1, <3>1 DEF SameFees
  <2>4. q = p => positions'[q] = pos2
    BY <1>2, <1>3 DEF AllPositions
  <2> QED
    BY <1>3, <2>1, <2>2, <2>3, <2>4
<1>4. \A state, lower, upper : NoFees(BlankPosition(state, lower, upper))
  BY DEF NoFees, BlankPosition
<1>5. CASE \E range \in PositionRanges : OpenPosition(p, range[1], range[2])
  <2>1. PICK range \in PositionRanges : OpenPosition(p, range[1], range[2])
    BY <1>5
  <2>2. NoFees(positions[p])
    BY <2>1 DEF OpenPosition, ClosedOweNothing
  <2> QED
    BY <1>3, <1>4, <2>1, <2>2 DEF OpenPosition
<1>6. CASE ClosePosition(p)
  <2>1. NoFees(positions[p])
    BY <1>6 DEF ClosePosition, is_position_empty, NoFees
  <2> QED
    BY <1>3, <1>4, <1>6, <2>1 DEF ClosePosition
<1>7. ASSUME NEW i \in RewardIndex, CollectReward(p, i)
      PROVE  FeesOf(q)'[x] = FeesOf(q)[x]
  <2> DEFINE owed == positions[p].amount_owed
             amount == owed[i] - CollectedReward(owed[i], reward_vault[i])
             pos2 == [positions[p] EXCEPT !.amount_owed = [owed EXCEPT ![i] = amount]]
  <2>1. /\ UNCHANGED <<tick_current_index, ticks, fee_growth_global>>
        /\ positions' = [positions EXCEPT ![p].amount_owed[i] = amount]
    BY <1>2, <1>7 DEF CollectReward, AllPositions
  <2>2. positions' = [positions EXCEPT ![p] = pos2]
    BY <1>2, <2>1 DEF AllPositions, Position
  <2> HIDE DEF amount
  <2>3. SameFees(positions[p], pos2)
    BY <1>2 DEF SameFees, Position
  <2> HIDE DEF pos2
  <2> QED
    BY <1>3, <2>1, <2>2, <2>3
<1>8. ASSUME NEW amount \in LiquidityAmounts, NEW timestamp \in Timestamps,
             \/ IncreaseLiquidity(p, amount, timestamp)
             \/ DecreaseLiquidity(p, amount, timestamp)
      PROVE  FeesOf(q)'[x] = FeesOf(q)[x]
  <2>1. amount \in Nat /\ timestamp \in U64
    BY PoolAssumption, WordsAreIntegers
  <2>2. PICK delta \in {amount, -amount} :
          /\ positions[p].state = "open" /\ ModifyLiquidity(p, delta, timestamp)
          /\ UNCHANGED <<tick_current_index, fee_growth_global>>
    BY <1>8 DEF IncreaseLiquidity, DecreaseLiquidity, convert_to_liquidity_delta
  <2>3. delta \in Int
    BY <2>1, <2>2
  <2> QED
    BY <2>1, <2>2, <2>3, ModifyKeepsFees
<1>9. ASSUME NEW timestamp \in Timestamps, UpdateFeesAndRewards(p, timestamp)
      PROVE  FeesOf(q)'[x] = FeesOf(q)[x]
  BY <1>9, PoolAssumption, UpdateKeepsFees
<1>10. CASE CollectFees(p)
  <2>1. CASE q = p
    BY <1>10, <2>1, CollectPaysOwed
  <2>2. CASE q # p
    <3> DEFINE pos2 == [positions[p] EXCEPT !.fee_owed = [y \in Token |-> 0]]
    <3>1. positions' = [positions EXCEPT ![p] = pos2]
      BY <1>2, <1>10 DEF CollectFees, AllPositions
    <3>2. UNCHANGED <<tick_current_index, ticks, fee_growth_global>>
      BY <1>10 DEF CollectFees
    <3> HIDE DEF pos2
    <3> QED
      BY <1>3, <2>2, <3>1, <3>2
  <2> QED
    BY <2>1, <2>2
<1> QED
  BY <1>1, <1>5, <1>6, <1>7, <1>8, <1>9, <1>10

-----------------------------------------------------------------------------
(* Swaps raise what is due *)

\* What a position is due in fees by the account, and by a running swap.
AccountDue(p, x) == FeeDues(positions, tick_current_index, ticks, fee_growth_global, x)[p]

SwapDue(p, x) == FeeDues(positions, swap.curr_tick_index, swap.ticks, SwapGrowths, x)[p]

\* A running swap has taken nothing of what was due, if what it has made of the vault
\* it pays into is still a word.
DuesRise ==
  ~Idle => \A p \in PositionIds, x \in Token :
             (x = InputToken(swap) => SwapFunds[x] < TO_Q64) => AccountDue(p, x) <= SwapDue(p, x)

\* What is due by the account is an amount.
LEMMA AccountDueType ==
  ASSUME BookIInv, NEW p \in PositionIds, NEW x \in Token
  PROVE  AccountDue(p, x) \in Nat
<1> DEFINE D == FeeDues(positions, tick_current_index, ticks, fee_growth_global, x)
<1>1. /\ positions \in AllPositions /\ RangesSound(positions)
      /\ tick_current_index \in Int /\ ticks \in [UsableTicks -> Tick]
      /\ fee_growth_global \in [Token -> U128]
  BY AccountFacts
<1>2. D \in [PositionIds -> Nat]
  BY <1>1, FeeDuesType
<1>3. AccountDue(p, x) = D[p]
  BY DEF AccountDue
<1> HIDE DEF D
<1> QED
  BY <1>2, <1>3

\* More due is more to collect.
LEMMA MoreDue ==
  ASSUME NEW position \in Position, NEW x \in Token, NEW growth, NEW growth2,
         position.liquidity = 0 \/ (growth \in U128 /\ growth2 \in U128),
         FeeDue(position, x, growth) <= FeeDue(position, x, growth2)
  PROVE  /\ FeesWith(position, x, growth) \in Int /\ FeesWith(position, x, growth2) \in Int
         /\ FeesWith(position, x, growth) <= FeesWith(position, x, growth2)
<1> DEFINE L == position.liquidity
           owed == position.fee_owed[x]
           checkpoint == position.fee_growth_checkpoint[x]
           n == L * WrapU128(growth - checkpoint)
           n2 == L * WrapU128(growth2 - checkpoint)
           e == Unsettled(position, growth, checkpoint)
           e2 == Unsettled(position, growth2, checkpoint)
<1>1. L \in U128 /\ owed \in U64 /\ checkpoint \in U128
  BY DEF Position
<1>2. owed \in Int /\ TO_Q64 \in Nat \ {0}
  <2>1. TO_Q64 \in Nat \ {0}
    BY Widths
  <2> HIDE DEF owed
  <2>2. owed \in Int
    BY <1>1, WordsAreIntegers
  <2> QED
    BY <2>1, <2>2
<1>3. CASE L = 0
  <2>1. FeesWith(position, x, growth) = owed + 0 /\ FeesWith(position, x, growth2) = owed + 0
    BY <1>3 DEF FeesWith
  <2> HIDE DEF owed
  <2>2. owed + 0 \in Int /\ owed + 0 <= owed + 0
    BY <1>2
  <2> QED
    BY <2>1, <2>2
<1>4. CASE L # 0
  <2>1. FeesWith(position, x, growth) = owed + e /\ FeesWith(position, x, growth2) = owed + e2
    BY <1>4 DEF FeesWith
  <2>2. /\ FeeDue(position, x, growth) = TO_Q64 * owed + n
        /\ FeeDue(position, x, growth2) = TO_Q64 * owed + n2
    BY <1>4 DEF FeeDue, DueOf
  <2>3. TO_Q64 * owed + n <= TO_Q64 * owed + n2
    BY <2>2
  <2> HIDE DEF L, owed, checkpoint
  <2>4. n \in Nat /\ e \in Nat /\ TO_Q64 * e <= n
    BY <1>1, <1>4, UnsettledBounds DEF L
  <2>5. n2 \in Nat /\ e2 \in Nat /\ n2 < TO_Q64 * e2 + TO_Q64
    BY <1>1, <1>4, UnsettledBounds DEF L
  <2> HIDE DEF n, n2, e, e2
  <2>6. n <= n2
    <3> DEFINE a == TO_Q64 * owed
    <3>1. a \in Int
      BY <1>2
    <3> HIDE DEF a
    <3>2. a + n <= a + n2
      BY <2>3 DEF a
    <3> QED
      BY <2>4, <2>5, <3>1, <3>2
  <2>7. e < e2 + 1
    <3> DEFINE y == TO_Q64 * e  y2 == TO_Q64 * e2
    <3>1. y \in Int /\ y2 \in Int /\ e * TO_Q64 = y /\ (e2 + 1) * TO_Q64 = y2 + TO_Q64
      BY <1>2, <2>4, <2>5
    <3> HIDE DEF y, y2
    <3>2. y <= n /\ n2 < y2 + TO_Q64
      BY <2>4, <2>5 DEF y, y2
    <3>3. y < y2 + TO_Q64
      BY <1>2, <2>4, <2>5, <2>6, <3>1, <3>2
    <3>4. e * TO_Q64 < (e2 + 1) * TO_Q64
      BY <3>1, <3>3
    <3> QED
      BY <1>2, <2>4, <2>5, <3>4, MulCancelStrict
  <2> QED
    BY <1>2, <2>1, <2>4, <2>5, <2>7
<1> QED
  BY <1>3, <1>4

\* Growth raises what is due, unless there is so much due that it wraps.
LEMMA DueOfRises ==
  ASSUME NEW owed \in U64, NEW L \in U128, NEW checkpoint \in U128, NEW growth \in U128,
         NEW d \in Nat, d = 0 \/ DueOf(owed, L, checkpoint, growth) + L * d < TO_Q128
  PROVE  DueOf(owed, L, checkpoint, growth) <= DueOf(owed, L, checkpoint, WrapU128(growth + d))
<1> DEFINE w == WrapU128(growth - checkpoint)
           w2 == WrapU128(WrapU128(growth + d) - checkpoint)
           a == TO_Q64 * owed
<1>1. /\ owed \in Nat /\ L \in Nat /\ checkpoint \in Int /\ growth \in Int
      /\ TO_Q64 \in Nat /\ TO_Q128 \in Nat \ {0}
  BY WordsAreIntegers, Widths
<1>2. w \in U128 /\ w \in Nat
  <2>1. growth - checkpoint \in Int
    BY <1>1
  <2>2. w \in U128
    BY <2>1, Conversions
  <2> QED
    BY <2>2, WordsAreIntegers
<1>3. w2 = WrapU128(w + d)
  <2>1. w2 = WrapU128((growth + d) - checkpoint)
    BY <1>1, WrapTerm
  <2>2. w2 = WrapU128((growth - checkpoint) + d) /\ growth - checkpoint \in Int
    BY <1>1, <2>1
  <2> HIDE DEF w2
  <2> QED
    BY <2>2, WrapTerm
<1>4. a \in Nat
  BY <1>1
<1>5. L # 0 => /\ DueOf(owed, L, checkpoint, growth) = a + L * w
               /\ DueOf(owed, L, checkpoint, WrapU128(growth + d)) = a + L * w2
  BY DEF DueOf
<1>6. CASE L = 0
  <2>1. /\ DueOf(owed, L, checkpoint, growth) = a + 0
        /\ DueOf(owed, L, checkpoint, WrapU128(growth + d)) = a + 0
    BY <1>6 DEF DueOf
  <2> HIDE DEF a
  <2>2. a + 0 <= a + 0
    BY <1>4
  <2> QED
    BY <2>1, <2>2
<1>7. CASE L # 0
  <2> HIDE DEF w, w2, a
  <2>1. w + d \in U128
    <3>1. CASE d = 0
      BY <1>2, <3>1
    <3>2. CASE DueOf(owed, L, checkpoint, growth) + L * d < TO_Q128
      <4> DEFINE y == L * w  z == L * d  v == L * (w + d)
      <4>1. y \in Int /\ z \in Int /\ v = y + z
        BY <1>1, <1>2
      <4>2. w + d <= v
        <5>1. w + d \in Nat /\ 1 <= L
          BY <1>1, <1>2, <1>7
        <5>2. 1 * (w + d) <= L * (w + d)
          BY <1>1, <5>1, MulMonotone
        <5> QED
          BY <5>1, <5>2
      <4>3. a + y + z < TO_Q128
        BY <1>5, <1>7, <3>2
      <4> HIDE DEF y, z, v
      <4>4. w + d < TO_Q128
        BY <1>1, <1>2, <1>4, <4>1, <4>2, <4>3
      <4> QED
        BY <1>1, <1>2, <4>4 DEF U128
    <3> QED
      BY <3>1, <3>2
  <2>2. w2 = w + d
    BY <1>3, <2>1, WrapWord
  <2>3. w * L <= (w + d) * L
    BY <1>1, <1>2, MulMonotone
  <2>4. w * L = L * w /\ (w + d) * L = L * w2 /\ L * w \in Int /\ L * w2 \in Int
    BY <1>1, <1>2, <2>2
  <2> DEFINE y == L * w  y2 == L * w2
  <2>5. y \in Int /\ y2 \in Int /\ y <= y2
    BY <2>3, <2>4
  <2> HIDE DEF y, y2
  <2>6. a + y <= a + y2
    BY <1>4, <2>5
  <2> QED
    BY <1>5, <1>7, <2>6 DEF y, y2
<1> QED
  BY <1>6, <1>7

\* So an iteration raises what a position is due.
LEMMA SwapDueRises ==
  ASSUME BookIInv, NEW c, StepComputed(swap, c), NEW p \in PositionIds, NEW x \in Token,
         NEW d \in Nat, GrowthsAtCrossing(swap, c)[x] = WrapU128(SwapGrowths[x] + d),
         d = 0 \/ SwapDue(p, x) + d * RangeShare(positions, swap.curr_tick_index)[p] < TO_Q128
  PROVE  SwapDue(p, x) <= FeeDues(positions, TickAfter(swap, c), TicksAfter(swap, c),
                                  GrowthsAtCrossing(swap, c), x)[p]
<1> DEFINE t == swap.curr_tick_index
           inside  == FeesInside(t, swap.ticks, positions[p], SwapGrowths)[x]
           inside2 == FeesInside(TickAfter(swap, c), TicksAfter(swap, c), positions[p],
                                 GrowthsAtCrossing(swap, c))[x]
           owed == positions[p].fee_owed[x]
           L    == positions[p].liquidity
           checkpoint == positions[p].fee_growth_checkpoint[x]
           g == SwapGrowths[x]
           share == IF InRange(positions[p], t) THEN L ELSE 0
<1>1. IInv /\ ~Idle /\ positions \in AllPositions /\ RangesSound(positions)
  BY AccountFacts DEF BookIInv, StepComputed
<1>2. owed \in U64 /\ L \in U128 /\ checkpoint \in U128
  BY <1>1 DEF AllPositions, Position
<1>3. g \in U128 /\ t \in Int /\ swap.ticks \in [UsableTicks -> Tick]
      /\ SwapGrowths \in [Token -> U128]
  BY <1>1, RunningFacts
<1>4. /\ FeeDues(positions, TickAfter(swap, c), TicksAfter(swap, c),
                 GrowthsAtCrossing(swap, c), x)[p] = DueOf(owed, L, checkpoint, inside2)
      /\ SwapDue(p, x) = DueOf(owed, L, checkpoint, inside)
      /\ RangeShare(positions, t)[p] = share
  BY DEF SwapDue, FeeDues, FeeDue, RangeShare
<1>5. d = 0 \/ DueOf(owed, L, checkpoint, inside) + d * share < TO_Q128
  BY <1>4
<1>6. DueOf(owed, L, checkpoint, inside) <= DueOf(owed, L, checkpoint, inside2)
  <2>1. CASE L = 0
    <3>1. DueOf(owed, L, checkpoint, inside2) = DueOf(owed, L, checkpoint, inside)
      BY <2>1 DEF DueOf
    <3> HIDE DEF owed, L, checkpoint, inside, inside2, share
    <3>2. DueOf(owed, L, checkpoint, inside) \in Nat
      BY <1>2, <2>1, DueOfType
    <3> QED
      BY <3>1, <3>2
  <2>2. CASE L # 0
    <3>1. Provides(p)
      BY <1>1, <2>2, ProvidesLiquidity
    <3>2. /\ positions[p].tick_lower_index \in UsableTicks
          /\ positions[p].tick_upper_index \in UsableTicks
      BY <1>1, <3>1, BoundariesInitialized
    <3>3. inside \in U128
      <4>1. FeesInside(t, swap.ticks, positions[p], SwapGrowths) \in [Token -> U128]
        BY <1>3, <3>2, FeesInsideType
      <4> QED
        BY <4>1
    <3>4. inside2 = IF InRange(positions[p], t)
                    THEN WrapU128(inside + GrowthsAtCrossing(swap, c)[x] - g) ELSE inside
      BY <3>1, FeesInsideOfIteration
    <3>5. CASE InRange(positions[p], t)
      <4>1. share = L
        BY <3>5
      <4> HIDE DEF owed, L, checkpoint, inside, inside2, g, share, t
      <4>2. inside2 = WrapU128(inside + d)
        <5>1. WrapU128(inside + WrapU128(g + d) - g) = WrapU128(inside + d)
          BY <1>3, <3>3, InsideMovesBy
        <5>2. GrowthsAtCrossing(swap, c)[x] = WrapU128(g + d)
          BY DEF g
        <5> QED
          BY <3>4, <3>5, <5>1, <5>2 DEF t
      <4>3. L * d = d * share
        BY <1>2, <4>1, WordsAreIntegers
      <4>4. d = 0 \/ DueOf(owed, L, checkpoint, inside) + L * d < TO_Q128
        BY <1>5, <4>3
      <4>5. DueOf(owed, L, checkpoint, inside) <= DueOf(owed, L, checkpoint, WrapU128(inside + d))
        BY <1>2, <3>3, <4>4, DueOfRises
      <4> QED
        BY <4>2, <4>5
    <3>6. CASE ~InRange(positions[p], t)
      <4>1. inside2 = inside
        BY <3>4, <3>6
      <4> HIDE DEF owed, L, checkpoint, inside, inside2, share
      <4>2. DueOf(owed, L, checkpoint, inside) \in Nat
        BY <1>2, <3>3, DueOfType
      <4> QED
        BY <4>1, <4>2
    <3> QED
      BY <3>5, <3>6
  <2> QED
    BY <2>1, <2>2
<1> QED
  BY <1>4, <1>6

\* What one position is due is covered by what the swap has made of the funds.
LEMMA SwapDueCovered ==
  ASSUME BookIInv, SolvencyInv, ~Idle, NEW p \in PositionIds, NEW x \in Token,
         SwapFunds[x] \in Int
  PROVE  SwapDue(p, x) \in Nat /\ SwapDue(p, x) <= TO_Q64 * SwapFunds[x]
<1> DEFINE t == swap.curr_tick_index
           tk == swap.ticks
           g == SwapGrowths
           price == swap.curr_sqrt_price
           f == SwapFunds[x]
           D == FeeDues(positions, t, tk, g, x)
           r == Reserve(x, f, positions, t, tk, g)
<1>1. /\ positions \in AllPositions /\ RangesSound(positions)
      /\ t \in Int /\ tk \in [UsableTicks -> Tick] /\ g \in [Token -> U128]
      /\ price \in Nat \ {0} /\ price \in Nat /\ f \in Int
  BY AccountFacts, RunningFacts
<1>2. TickHoldsPrice(t, price)
  BY DEF BookIInv, IInv, SwapInv
<1>3. Covered(x, r, positions, t, price)
  BY DEF SolvencyInv, SwapSolvent, Solvent
<1>4. D \in [PositionIds -> Nat]
  BY <1>1, FeeDuesType
<1>5. SwapDue(p, x) = D[p]
  BY DEF SwapDue
<1> HIDE DEF t, tk, g, price, f
<1>6. r = TO_Q64 * f - Sum(D) /\ r \in Int /\ Sum(D) \in Int
  BY <1>1, SumsTypes
<1> HIDE DEF D, r
<1>7. 0 <= r
  BY <1>1, <1>2, <1>3, <1>6, ReserveNotNegative
<1>8. D[p] <= Sum(D) /\ D[p] \in Nat
  BY <1>4, SumAtLeast
<1>9. TO_Q64 * f \in Int
  <2>1. TO_Q64 \in Int
    BY Widths
  <2> QED
    BY <1>1, <2>1
<1> DEFINE m == TO_Q64 * f
<1>10. m \in Int /\ r = m - Sum(D)
  BY <1>6, <1>9
<1> HIDE DEF m
<1>11. D[p] <= m
  BY <1>6, <1>7, <1>8, <1>10
<1> QED
  BY <1>5, <1>8, <1>11 DEF m, f

\* An iteration keeps the dues rising.
LEMMA RiseOfIteration ==
  ASSUME BookIInv, SolvencyInv, DuesRise, NEW c, StepComputed(swap, c), SwapMoves(swap, c)
  PROVE  DuesRise'
<1> USE DEF config, curve, fees, rewards
<1>1. IInv /\ ~Idle /\ swap \in SwapState
  BY DEF BookIInv, StepComputed, IInv, TypeOK, Idle
<1>2. /\ swap'.curr_growth = StepFees(swap, c).growth
      /\ swap'.ticks = TicksAfter(swap, c) /\ swap'.curr_tick_index = TickAfter(swap, c)
      /\ swap'.request = swap.request
  BY <1>1 DEF SwapMoves, SwapState
<1>3. /\ positions' = positions /\ fee_growth_global' = fee_growth_global
      /\ tick_current_index' = tick_current_index /\ ticks' = ticks
  BY DEF SwapMoves
<1>4. SwapGrowths' = GrowthsAtCrossing(swap, c) /\ InputToken(swap)' = InputToken(swap)
  BY <1>2, <1>3 DEF SwapGrowths, GrowthsAtCrossing, InputToken
<1>5. ASSUME NEW p \in PositionIds, NEW x \in Token
      PROVE  /\ AccountDue(p, x)' = AccountDue(p, x)
             /\ SwapDue(p, x)' = FeeDues(positions, TickAfter(swap, c), TicksAfter(swap, c),
                                         GrowthsAtCrossing(swap, c), x)[p]
  BY <1>2, <1>3, <1>4 DEF AccountDue, SwapDue
<1> SUFFICES ASSUME NEW p \in PositionIds, NEW x \in Token,
                    x = InputToken(swap) => SwapFunds'[x] < TO_Q64
             PROVE  AccountDue(p, x)' <= SwapDue(p, x)'
  BY <1>4 DEF DuesRise
<1> DEFINE F == SwapFunds[x]  F2 == SwapFunds'[x]  share == ShareOfFee(c)
           L == swap.curr_liquidity
           R == RangeShare(positions, swap.curr_tick_index)
           a == AccountDue(p, x)
           b == SwapDue(p, x)
           b2 == FeeDues(positions, TickAfter(swap, c), TicksAfter(swap, c),
                         GrowthsAtCrossing(swap, c), x)[p]
<1>6. F \in Int /\ F2 \in Int
      /\ F + Moved(x, swap, c) + (IF x = InputToken(swap) THEN share ELSE 0) <= F2
  BY FundsOfIteration
<1>7. share \in Nat /\ TO_Q64 \in Nat \ {0}
  BY <1>1, GrowthOfFee, Widths
<1>8. b \in Nat /\ b <= TO_Q64 * F
  BY <1>1, <1>6, SwapDueCovered
<1>9. x = InputToken(swap) => F + share <= F2
  <2>1. c.amount_in \in U64
    BY DEF StepComputed, SwapStepComputation
  <2> SUFFICES ASSUME x = InputToken(swap) PROVE F + share <= F2
    OBVIOUS
  <2> DEFINE in == c.amount_in
  <2>2. F + in + share <= F2
    BY <1>6 DEF Moved
  <2>3. in \in Nat
    BY <2>1, WordsAreIntegers
  <2> HIDE DEF F, F2, share, in
  <2> QED
    BY <1>6, <1>7, <2>2, <2>3
<1>10. PICK d \in Nat : /\ GrowthsAtCrossing(swap, c)[x] = WrapU128(SwapGrowths[x] + d)
                        /\ d * L <= (IF x = InputToken(swap) THEN TO_Q64 * share ELSE 0)
                        /\ x # InputToken(swap) => d = 0
  BY GrowthOfIteration
<1>11. R[p] \in Nat /\ R[p] <= L /\ L \in Nat
  <2>1. positions \in AllPositions /\ RangesSound(positions) /\ swap.curr_tick_index \in Int
        /\ L \in Nat /\ L = Sum(R)
    BY <1>1, AccountFacts, RunningFacts
  <2>2. R \in [PositionIds -> Nat]
    <3>1. ASSUME NEW q \in PositionIds PROVE positions[q].liquidity \in Nat
      BY <2>1, RangeOfPosition
    <3> QED
      BY <3>1 DEF RangeShare
  <2> HIDE DEF R, L
  <2> QED
    BY <2>1, <2>2, SumAtLeast
<1>12. d = 0 \/ b + d * R[p] < TO_Q128
  <2> SUFFICES ASSUME x = InputToken(swap) PROVE b + d * R[p] < TO_Q128
    BY <1>10
  <2>1. d * L <= TO_Q64 * share /\ F2 < TO_Q64
    BY <1>10
  <2> HIDE DEF F, F2, share, L, R, b
  <2>2. R[p] * d <= L * d
    BY <1>11, MulMonotone
  <2>3. (F + share) * TO_Q64 <= F2 * TO_Q64
    BY <1>6, <1>7, <1>9, MulMonotone
  <2>4. F2 * TO_Q64 < TO_Q128
    <3>1. F2 + 1 <= TO_Q64 /\ F2 + 1 \in Int
      BY <1>6, <1>7, <2>1
    <3>2. (F2 + 1) * TO_Q64 <= TO_Q64 * TO_Q64
      BY <1>7, <3>1, MulMonotone
    <3>3. (F2 + 1) * TO_Q64 = F2 * TO_Q64 + TO_Q64 /\ F2 * TO_Q64 \in Int
      BY <1>6, <1>7
    <3>4. TO_Q128 = TO_Q64 * TO_Q64 /\ TO_Q128 \in Int
      BY Widths DEF TO_Q128
    <3> QED
      BY <1>7, <3>2, <3>3, <3>4
  <2> DEFINE u == d * R[p]  v == d * L  y == TO_Q64 * F  z == TO_Q64 * share  k == F2 * TO_Q64
  <2>5. /\ u \in Int /\ v \in Int /\ y \in Int /\ z \in Int /\ k \in Int
        /\ R[p] * d = u /\ L * d = v /\ (F + share) * TO_Q64 = y + z
    BY <1>6, <1>7, <1>11
  <2>6. TO_Q128 \in Int
    BY Widths
  <2>7. u <= v /\ v <= z /\ b <= y /\ y + z <= k /\ k < TO_Q128
    BY <1>8, <2>1, <2>2, <2>3, <2>4, <2>5
  <2> HIDE DEF u, v, y, z, k
  <2>8. b + u < TO_Q128
    BY <1>8, <2>5, <2>6, <2>7
  <2> QED
    BY <2>8 DEF u
<1>13. b <= b2
  BY <1>10, <1>12, SwapDueRises
<1>14. a <= b
  <2>1. x = InputToken(swap) => F < TO_Q64
    <3> HIDE DEF F, F2, share
    <3>1. x = InputToken(swap) => F2 < TO_Q64
      BY DEF F2
    <3> QED
      BY <1>6, <1>7, <1>9, <3>1
  <2> QED
    BY <1>1, <2>1 DEF DuesRise
<1>15. a \in Int /\ b2 \in Int
  <2>1. /\ positions \in AllPositions /\ RangesSound(positions)
        /\ tick_current_index \in Int /\ ticks \in [UsableTicks -> Tick]
        /\ fee_growth_global \in [Token -> U128]
    BY AccountFacts
  <2>2. a \in Nat
    BY AccountDueType
  <2>3. /\ TickAfter(swap, c) \in Int /\ TicksAfter(swap, c) \in [UsableTicks -> Tick]
        /\ GrowthsAtCrossing(swap, c) \in [Token -> U128]
    <3>1. TickHoldsPrice(TickAfter(swap, c), c.next_price)
      BY DEF StepComputed
    <3>2. TickAfter(swap, c) \in Int
      BY <3>1, TickRangeAssumption DEF TickHoldsPrice
    <3> QED
      BY <1>1, <3>2, SwapGrowthTypes DEF StepComputed
  <2>4. FeeDues(positions, TickAfter(swap, c), TicksAfter(swap, c),
                GrowthsAtCrossing(swap, c), x) \in [PositionIds -> Nat]
    BY <2>1, <2>3, FeeDuesType
  <2>5. b2 \in Nat
    BY <2>4
  <2> QED
    BY <2>2, <2>5
<1>16. AccountDue(p, x)' = a /\ SwapDue(p, x)' = b2
  BY <1>5
<1> HIDE DEF a, b, b2
<1>17. a <= b2
  BY <1>8, <1>13, <1>14, <1>15
<1> QED
  BY <1>16, <1>17

\* A swap starts from what is due by the account.
LEMMA RiseOfBegin ==
  ASSUME BookIInv, NEW r \in SwapRequests, NEW timestamp \in Timestamps, SwapBegin(r, timestamp)
  PROVE  DuesRise'
<1> USE DEF config, curve, fees, rewards
<1>1. /\ swap' = StartedSwap(r, timestamp)
      /\ positions' = positions /\ fee_growth_global' = fee_growth_global
      /\ tick_current_index' = tick_current_index /\ ticks' = ticks
  BY DEF SwapBegin
<1>2. /\ swap'.curr_tick_index = tick_current_index /\ swap'.ticks = ticks /\ swap'.request = r
      /\ swap'.curr_growth = fee_growth_global[IF r.a_to_b THEN "a" ELSE "b"]
  BY <1>1 DEF StartedSwap
<1>3. /\ positions \in AllPositions /\ RangesSound(positions)
      /\ tick_current_index \in Int /\ ticks \in [UsableTicks -> Tick]
      /\ fee_growth_global \in [Token -> U128]
  BY AccountFacts
<1>4. SwapGrowths' = fee_growth_global
  BY <1>1, <1>2, <1>3 DEF SwapGrowths, InputToken
<1>5. ASSUME NEW p \in PositionIds, NEW x \in Token
      PROVE  AccountDue(p, x)' <= SwapDue(p, x)'
  <2> DEFINE a == AccountDue(p, x)
  <2>1. a \in Nat
    BY AccountDueType
  <2>2. AccountDue(p, x)' = a /\ SwapDue(p, x)' = a
    BY <1>1, <1>2, <1>4 DEF AccountDue, SwapDue
  <2> HIDE DEF a
  <2>3. a <= a
    BY <2>1
  <2> QED
    BY <2>2, <2>3
<1> QED
  BY <1>5 DEF DuesRise

\* So it is after every step.
LEMMA DuesRiseKept == Spec => []DuesRise
<1> USE DEF config, curve, fees, rewards
<1>1. Init => DuesRise
  BY DEF Init, InitializePool, DuesRise, Idle
<1>2. BookIInv /\ SolvencyInv /\ DuesRise /\ [Next]_vars => DuesRise'
  <2> SUFFICES ASSUME BookIInv, SolvencyInv, DuesRise, [Next]_vars PROVE DuesRise'
    OBVIOUS
  <2>1. CASE UNCHANGED vars
    BY <2>1 DEF vars, DuesRise, Idle, AccountDue, SwapDue, SwapFunds, Funds, SwapGrowths
  <2>2. CASE Idle'
    BY <2>2 DEF DuesRise
  <2>3. CASE PositionNext
    <3>1. Idle /\ swap' = swap
      BY <2>3 DEF PositionNext, OpenPosition, IncreaseLiquidity, DecreaseLiquidity,
           UpdateFeesAndRewards, CollectFees, CollectReward, ClosePosition
    <3> QED
      BY <2>2, <3>1 DEF Idle
  <2>4. CASE \/ RewardNext \/ ConfigNext \/ CollectProtocolFees
             \/ \E start \in MIN_ARRAY_START .. MAX_TICK_INDEX : InitializeTickArray(start)
    <3>1. Idle /\ swap' = swap
      BY <2>4 DEF RewardNext, InitializeReward, DepositReward, SetRewardEmissions, ConfigNext,
           SetEnableFlag, SetFeeRate, SetProtocolFeeRate, CollectProtocolFees, InitializeTickArray
    <3> QED
      BY <2>2, <3>1 DEF Idle
  <2>5. CASE \E r \in SwapRequests, timestamp \in Timestamps : SwapBegin(r, timestamp)
    BY <2>5, RiseOfBegin
  <2>6. CASE SwapProgress
    <3>1. CASE SwapStep
      <4>1. IInv
        BY DEF BookIInv
      <4>2. PICK c : StepComputed(swap, c) /\ SwapMoves(swap, c)
        BY <3>1, <4>1, SwapIteration
      <4> QED
        BY <4>2, RiseOfIteration
    <3>2. CASE SwapCommit \/ SwapFail
      <4>1. Idle'
        BY <3>2 DEF SwapCommit, UpdateAndSwap, SwapFail, Idle
      <4> QED
        BY <2>2, <4>1
    <3> QED
      BY <2>6, <3>1, <3>2 DEF SwapProgress
  <2> QED
    BY <2>1, <2>3, <2>4, <2>5, <2>6 DEF Next
<1> QED
  BY <1>1, <1>2, BooksKept, SolvencyKept, PTL DEF Spec

\* The end of a swap takes nothing of what a position could collect.
LEMMA CommitKeepsFees ==
  ASSUME BookIInv, BookIInv', DuesRise, SwapCommit, NEW p \in PositionIds, NEW x \in Token
  PROVE  FeesOf(p)[x] <= FeesOf(p)'[x] /\ FeesOf(p)[x] \in Int /\ FeesOf(p)'[x] \in Int
<1> USE DEF config, curve, fees, rewards
<1> DEFINE position == positions[p]
           g == FeeGrowthAt(p, x)
           g2 == FeesInside(swap.curr_tick_index, swap.ticks, position, SwapGrowths)[x]
<1>1. ~Idle /\ positions \in AllPositions /\ position \in Position /\ RangesSound(positions)
  BY AccountFacts DEF SwapCommit, AllPositions
<1>2. /\ positions' = positions /\ tick_current_index' = swap.curr_tick_index
      /\ ticks' = swap.ticks /\ fee_growth_global' = SwapGrowths
  BY DEF SwapCommit, UpdateAndSwap, SwapGrowths
<1>3. FeeGrowthAt(p, x)' = g2
  BY <1>2 DEF FeeGrowthAt
<1>4. FeesOf(p)[x] = FeesWith(position, x, g) /\ FeesOf(p)'[x] = FeesWith(position, x, g2)
  BY <1>2, <1>3, FeesAreWith, NextFeesAreWith
<1>5. SwapFunds[x] < TO_Q64
  <2>1. SwapFunds[x] \in Int /\ SwapFunds[x] <= Funds'[x]
    BY FundsOfCommit
  <2>2. /\ vault'[x] \in Nat /\ protocol_fee_owed'[x] \in Nat
        /\ Funds'[x] = vault'[x] - protocol_fee_owed'[x] /\ Funds'[x] \in Int
    BY NextAccountFacts
  <2>3. vault'[x] \in U64
    BY DEF BookIInv, IInv, TypeOK
  <2>4. vault'[x] < TO_Q64 /\ TO_Q64 \in Int
    BY <2>2, <2>3, Widths DEF U64
  <2> DEFINE f == SwapFunds[x]  f2 == Funds'[x]  v == vault'[x]  o == protocol_fee_owed'[x]
  <2>5. f \in Int /\ f <= f2 /\ v \in Nat /\ o \in Nat /\ f2 = v - o /\ v < TO_Q64
    BY <2>1, <2>2, <2>4
  <2> HIDE DEF f, f2, v, o
  <2>6. f < TO_Q64
    BY <2>4, <2>5
  <2> QED
    BY <2>6 DEF f
<1>6. AccountDue(p, x) <= SwapDue(p, x)
  BY <1>1, <1>5 DEF DuesRise
<1>7. AccountDue(p, x) = FeeDue(position, x, g) /\ SwapDue(p, x) = FeeDue(position, x, g2)
  BY DEF AccountDue, SwapDue, FeeDues, FeeGrowthAt
<1>8. position.liquidity = 0 \/ (g \in U128 /\ g2 \in U128)
  <2>1. /\ tick_current_index \in Int /\ ticks \in [UsableTicks -> Tick]
        /\ fee_growth_global \in [Token -> U128]
    BY AccountFacts
  <2>2. /\ swap.curr_tick_index \in Int /\ swap.ticks \in [UsableTicks -> Tick]
        /\ SwapGrowths \in [Token -> U128]
    BY <1>1, RunningFacts
  <2>3. position.liquidity = 0 \/ g \in U128
    BY <1>1, <2>1, FeeDuesType DEF FeeGrowthAt
  <2>4. position.liquidity = 0 \/ g2 \in U128
    BY <1>1, <2>2, FeeDuesType
  <2> QED
    BY <2>3, <2>4
<1>9. FeeDue(position, x, g) <= FeeDue(position, x, g2)
  BY <1>6, <1>7
<1> HIDE DEF position, g, g2
<1>10. /\ FeesWith(position, x, g) \in Int /\ FeesWith(position, x, g2) \in Int
       /\ FeesWith(position, x, g) <= FeesWith(position, x, g2)
  BY <1>1, <1>8, <1>9, MoreDue
<1> QED
  BY <1>4, <1>10

\* Every step leaves what a position could collect, or raises it, or pays it.
LEMMA StepKeepsFees ==
  ASSUME BookIInv, BookIInv', SolvencyInv, ClosedOweNothing, DuesRise, Next,
         NEW p \in PositionIds, NEW x \in Token
  PROVE  \/ FeesOf(p)'[x] = FeesOf(p)[x]
         \/ FeesOf(p)[x] <= FeesOf(p)'[x] /\ FeesOf(p)[x] \in Int /\ FeesOf(p)'[x] \in Int
         \/ /\ CollectFees(p)
            /\ FeesOf(p)'[x] = FeesOf(p)[x] - positions[p].fee_owed[x]
<1> USE DEF config, curve, fees, rewards
<1>1. CASE PositionNext
  BY <1>1, PositionStepKeepsFees
<1>2. CASE UNCHANGED <<tick_current_index, ticks, fee_growth_global, positions>>
  <2>1. SameFees(positions[p], positions'[p]) /\ FeeGrowthAt(p, x)' = FeeGrowthAt(p, x)
    BY <1>2 DEF SameFees, FeeGrowthAt, FeesInside
  <2> QED
    BY <2>1, FeesUnchanged
<1>3. CASE \/ RewardNext \/ ConfigNext \/ CollectProtocolFees
           \/ \E start \in MIN_ARRAY_START .. MAX_TICK_INDEX : InitializeTickArray(start)
           \/ \E r \in SwapRequests, timestamp \in Timestamps : SwapBegin(r, timestamp)
           \/ SwapStep \/ SwapFail
  <2>1. UNCHANGED <<tick_current_index, ticks, fee_growth_global, positions>>
    BY <1>3 DEF RewardNext, InitializeReward, DepositReward, SetRewardEmissions,
         ConfigNext, SetEnableFlag, SetFeeRate, SetProtocolFeeRate, CollectProtocolFees,
         InitializeTickArray, SwapBegin, SwapStep, SwapFail
  <2> QED
    BY <1>2, <2>1
<1>4. CASE SwapCommit
  BY <1>4, CommitKeepsFees
<1> QED
  BY <1>1, <1>3, <1>4 DEF Next, SwapProgress

\* A position is owed something only while it is open.
LEMMA ClosedOweNothingKept == Spec => []ClosedOweNothing
<1> USE DEF config, curve, fees, rewards
<1>1. Init => ClosedOweNothing
  BY DEF Init, InitializePool, BlankPosition, ClosedOweNothing, NoFees
<1>2. BookIInv /\ ClosedOweNothing /\ [Next]_vars => ClosedOweNothing'
  <2> SUFFICES ASSUME BookIInv, ClosedOweNothing, [Next]_vars,
                      NEW q \in PositionIds, positions'[q].state # "open"
               PROVE  NoFees(positions'[q])
    BY DEF ClosedOweNothing
  <2>1. CASE positions' = positions
    BY <2>1 DEF ClosedOweNothing
  <2>2. ASSUME NEW p \in PositionIds, NEW pos2, positions' = [positions EXCEPT ![p] = pos2],
               pos2.state = "open" \/ NoFees(pos2)
        PROVE  NoFees(positions'[q])
    <3>1. positions'[q] = IF q = p THEN pos2 ELSE positions[q]
      BY <2>2, AccountFacts DEF AllPositions
    <3> QED
      BY <2>2, <3>1 DEF ClosedOweNothing
  <2>3. CASE PositionNext
    <3>1. PICK p \in PositionIds :
            \/ \E range \in PositionRanges : OpenPosition(p, range[1], range[2])
            \/ \E amount \in LiquidityAmounts, timestamp \in Timestamps :
                 \/ IncreaseLiquidity(p, amount, timestamp)
                 \/ DecreaseLiquidity(p, amount, timestamp)
            \/ \E timestamp \in Timestamps : UpdateFeesAndRewards(p, timestamp)
            \/ CollectFees(p)
            \/ \E i \in RewardIndex : CollectReward(p, i)
            \/ ClosePosition(p)
      BY <2>3 DEF PositionNext
    <3>2. positions \in AllPositions /\ positions[p] \in Position
      BY AccountFacts DEF AllPositions
    <3>3. ASSUME NEW delta, NEW infos, positions[p].state = "open",
                 positions' = [positions EXCEPT ![p] = PositionUpdate(positions[p], delta, infos)]
          PROVE  NoFees(positions'[q])
      <4>1. PositionUpdate(positions[p], delta, infos).state = "open"
        BY <3>2, <3>3 DEF PositionUpdate, next_position_modify_liquidity_update, Position
      <4> QED
        BY <2>2, <3>3, <4>1
    <3>4. CASE \E range \in PositionRanges : OpenPosition(p, range[1], range[2])
      <4>1. \A lower, upper : BlankPosition("open", lower, upper).state = "open"
        BY DEF BlankPosition
      <4> QED
        BY <2>2, <3>4, <4>1 DEF OpenPosition
    <3>5. CASE \E amount \in LiquidityAmounts, timestamp \in Timestamps :
                 \/ IncreaseLiquidity(p, amount, timestamp)
                 \/ DecreaseLiquidity(p, amount, timestamp)
      <4>1. PICK delta, timestamp :
              positions[p].state = "open" /\ ModifyLiquidity(p, delta, timestamp)
        BY <3>5 DEF IncreaseLiquidity, DecreaseLiquidity
      <4>2. positions' = [positions EXCEPT ![p] =
                            PositionUpdate(positions[p], delta, RewardInfosAt(timestamp))]
        BY <4>1 DEF ModifyLiquidity
      <4> QED
        BY <3>3, <4>1, <4>2
    <3>6. CASE \E timestamp \in Timestamps : UpdateFeesAndRewards(p, timestamp)
      BY <3>3, <3>6 DEF UpdateFeesAndRewards
    <3>7. CASE CollectFees(p)
      <4> DEFINE pos2 == [positions[p] EXCEPT !.fee_owed = [y \in Token |-> 0]]
      <4>1. positions' = [positions EXCEPT ![p] = pos2]
        BY <3>2, <3>7 DEF CollectFees, AllPositions
      <4>2. pos2.state = "open"
        BY <3>2, <3>7 DEF CollectFees, Position
      <4> HIDE DEF pos2
      <4> QED
        BY <2>2, <4>1, <4>2
    <3>8. CASE \E i \in RewardIndex : CollectReward(p, i)
      <4>1. PICK i \in RewardIndex : CollectReward(p, i)
        BY <3>8
      <4> DEFINE owed == positions[p].amount_owed
                 amount == owed[i] - CollectedReward(owed[i], reward_vault[i])
                 pos2 == [positions[p] EXCEPT !.amount_owed = [owed EXCEPT ![i] = amount]]
      <4>2. positions' = [positions EXCEPT ![p].amount_owed[i] = amount]
        BY <3>2, <4>1 DEF CollectReward, AllPositions
      <4>3. positions' = [positions EXCEPT ![p] = pos2]
        BY <3>2, <4>2 DEF AllPositions, Position
      <4> HIDE DEF amount
      <4>4. pos2.state = "open"
        BY <3>2, <4>1 DEF CollectReward, Position
      <4> HIDE DEF pos2
      <4> QED
        BY <2>2, <4>3, <4>4
    <3>9. CASE ClosePosition(p)
      <4>1. NoFees(BlankPosition("closed", 0, 0))
        BY DEF NoFees, BlankPosition
      <4> QED
        BY <2>2, <3>9, <4>1 DEF ClosePosition
    <3> QED
      BY <3>1, <3>4, <3>5, <3>6, <3>7, <3>8, <3>9
  <2>4. CASE UNCHANGED vars
    BY <2>1, <2>4 DEF vars
  <2>5. CASE \/ RewardNext \/ ConfigNext \/ CollectProtocolFees \/ SwapProgress
             \/ \E start \in MIN_ARRAY_START .. MAX_TICK_INDEX : InitializeTickArray(start)
             \/ \E r \in SwapRequests, timestamp \in Timestamps : SwapBegin(r, timestamp)
    <3>1. positions' = positions
      BY <2>5 DEF RewardNext, InitializeReward, DepositReward, SetRewardEmissions,
         ConfigNext, SetEnableFlag, SetFeeRate, SetProtocolFeeRate, CollectProtocolFees,
         InitializeTickArray, SwapBegin, SwapProgress, SwapStep, SwapCommit, UpdateAndSwap, SwapFail
    <3> QED
      BY <2>1, <3>1
  <2> QED
    BY <2>3, <2>4, <2>5 DEF Next
<1> QED
  BY <1>1, <1>2, BooksKept, PTL DEF Spec

\* What a position is due in fees falls only when it collects, and then by exactly what it
\* is paid, after any sequence of instructions and swaps.  The product of the settlement
\* may overflow and its sum wraps (position_manager.rs), and neither ever does while the
\* vaults are words: the pool is solvent.  Nor does the growth of a swap pass a whole
\* turn of its accumulator.
THEOREM FeesAreKept == Spec => FeesNeverForfeited
<1>1. BookIInv /\ BookIInv' /\ SolvencyInv /\ ClosedOweNothing /\ DuesRise /\ [Next]_vars =>
        [ \A p \in PositionIds, x \in Token :
            FeesOf(p)'[x] < FeesOf(p)[x] =>
              /\ CollectFees(p)
              /\ FeesOf(p)'[x] = FeesOf(p)[x] - positions[p].fee_owed[x] ]_vars
  <2> SUFFICES ASSUME BookIInv, BookIInv', SolvencyInv, ClosedOweNothing, DuesRise, Next,
                      NEW p \in PositionIds, NEW x \in Token, FeesOf(p)'[x] < FeesOf(p)[x]
               PROVE  /\ CollectFees(p)
                      /\ FeesOf(p)'[x] = FeesOf(p)[x] - positions[p].fee_owed[x]
    OBVIOUS
  <2> DEFINE f == FeesOf(p)[x]  f2 == FeesOf(p)'[x]
  <2>1. f \in Nat
    BY FeesAreDue
  <2>2. f2 # f /\ ~(f <= f2 /\ f \in Int /\ f2 \in Int)
    <3>1. f2 < f
      OBVIOUS
    <3> HIDE DEF f, f2
    <3> QED
      BY <2>1, <3>1
  <2> QED
    BY <2>2, StepKeepsFees
<1> QED
  BY <1>1, BooksKept, SolvencyKept, ClosedOweNothingKept, DuesRiseKept, PTL
     DEF Spec, FeesNeverForfeited

=============================================================================
