---------------------------- MODULE LiquidityProofs ----------------------------
(***************************************************************************)
(* A position is paid what accrued while the price was in its range,       *)
(* whatever the ticks, the pool and the amounts: the accounting by growth  *)
(* outside of ticks (LiquidityFixture) implements RangeAccounting, for the *)
(* fees and for the rewards.                                               *)
(*                                                                         *)
(* All is modulo 2^128.  Once both of its ticks are initialized, the       *)
(* growth inside a range moves with the growth of the pool while the price *)
(* is inside, stands still while it is outside, and is the same before and *)
(* after a tick is crossed or initialized.  What keeps the ticks           *)
(* initialized is that each holds at least the position's liquidity.       *)
(***************************************************************************)
EXTENDS LiquidityFixture, MathProofs

-----------------------------------------------------------------------------
(* Growth inside a range, of one accumulator *)

\* The growth inside the range of the fixture's position.
GrowthInside(current, lower, upper, global, outside_lower, outside_upper) ==
  GrowthBetween(global,
    GrowthBelow(lower, TICK_LOWER_INDEX, current, global, outside_lower),
    GrowthAbove(upper, TICK_UPPER_INDEX, current, global, outside_upper))

\* With both ticks initialized it depends on the growth of the pool only while
\* the price is inside.
LEMMA GrowthInsideInitialized ==
  ASSUME NEW current \in Int, NEW lower, NEW upper, lower.initialized, upper.initialized,
         NEW g \in Int, NEW ol \in Int, NEW ou \in Int
  PROVE  GrowthInside(current, lower, upper, g, ol, ou)
           = IF current < TICK_LOWER_INDEX THEN WrapU128(ol - ou)
             ELSE IF current < TICK_UPPER_INDEX THEN WrapU128((g - ol) - ou)
             ELSE WrapU128(ou - ol)
BY FixtureAssumption, GrowthInsideRange DEF GrowthInside

\* Crossing a tick flips the growth outside of it, and so changes nothing.
LEMMA GrowthInsideAcrossLower ==
  ASSUME NEW lower, NEW upper, lower.initialized, upper.initialized,
         NEW flipped, flipped.initialized,
         NEW below \in Int, NEW within \in Int, below < TICK_LOWER_INDEX,
         TICK_LOWER_INDEX <= within, within < TICK_UPPER_INDEX,
         NEW g \in Int, NEW ol \in Int, NEW ou \in Int
  PROVE  /\ GrowthInside(within, flipped, upper, g, WrapU128(g - ol), ou)
              = GrowthInside(below, lower, upper, g, ol, ou)
         /\ GrowthInside(below, flipped, upper, g, WrapU128(g - ol), ou)
              = GrowthInside(within, lower, upper, g, ol, ou)
<1> DEFINE w == WrapU128(g - ol)
<1>1. g - ol \in Int /\ w \in Int /\ ~(within < TICK_LOWER_INDEX)
  BY FixtureAssumption, WrapMultiple
<1>2. WrapU128(w - ou) = WrapU128((g - ol) - ou)
  BY <1>1, WrapTerm
<1>3. WrapU128((g - w) - ou) = WrapU128(ol - ou)
  <2>1. (g - w) - ou = (g - ou) - w /\ g - ou \in Int
    BY <1>1
  <2>2. WrapU128((g - ou) - w) = WrapU128((g - ou) - (g - ol))
    BY <1>1, <2>1, WrapTerm
  <2>3. (g - ou) - (g - ol) = ol - ou
    OBVIOUS
  <2> QED
    BY <2>1, <2>2, <2>3
<1> HIDE DEF w
<1>4. /\ GrowthInside(within, flipped, upper, g, w, ou) = WrapU128((g - w) - ou)
      /\ GrowthInside(below, flipped, upper, g, w, ou) = WrapU128(w - ou)
      /\ GrowthInside(within, lower, upper, g, ol, ou) = WrapU128((g - ol) - ou)
      /\ GrowthInside(below, lower, upper, g, ol, ou) = WrapU128(ol - ou)
  BY <1>1, GrowthInsideInitialized
<1> QED
  BY <1>2, <1>3, <1>4 DEF w

\* The same for the upper tick.
LEMMA GrowthInsideAcrossUpper ==
  ASSUME NEW lower, NEW upper, lower.initialized, upper.initialized,
         NEW flipped, flipped.initialized,
         NEW within \in Int, NEW above \in Int, TICK_LOWER_INDEX <= within,
         within < TICK_UPPER_INDEX, TICK_UPPER_INDEX <= above,
         NEW g \in Int, NEW ol \in Int, NEW ou \in Int
  PROVE  /\ GrowthInside(above, lower, flipped, g, ol, WrapU128(g - ou))
              = GrowthInside(within, lower, upper, g, ol, ou)
         /\ GrowthInside(within, lower, flipped, g, ol, WrapU128(g - ou))
              = GrowthInside(above, lower, upper, g, ol, ou)
<1> DEFINE w == WrapU128(g - ou)
<1>1. /\ g - ou \in Int /\ w \in Int /\ ~(within < TICK_LOWER_INDEX)
      /\ ~(above < TICK_LOWER_INDEX) /\ ~(above < TICK_UPPER_INDEX)
  BY FixtureAssumption, WrapMultiple
<1>2. WrapU128(w - ol) = WrapU128((g - ol) - ou)
  <2>1. WrapU128(w - ol) = WrapU128((g - ou) - ol)
    BY <1>1, WrapTerm
  <2>2. (g - ou) - ol = (g - ol) - ou
    OBVIOUS
  <2> QED
    BY <2>1, <2>2
<1>3. WrapU128((g - ol) - w) = WrapU128(ou - ol)
  <2>1. g - ol \in Int
    OBVIOUS
  <2>2. WrapU128((g - ol) - w) = WrapU128((g - ol) - (g - ou))
    BY <1>1, <2>1, WrapTerm
  <2>3. (g - ol) - (g - ou) = ou - ol
    OBVIOUS
  <2> QED
    BY <2>2, <2>3
<1> HIDE DEF w
<1>4. /\ GrowthInside(above, lower, flipped, g, ol, w) = WrapU128(w - ol)
      /\ GrowthInside(within, lower, flipped, g, ol, w) = WrapU128((g - ol) - w)
      /\ GrowthInside(within, lower, upper, g, ol, ou) = WrapU128((g - ol) - ou)
      /\ GrowthInside(above, lower, upper, g, ol, ou) = WrapU128(ou - ol)
  BY <1>1, GrowthInsideInitialized
<1> QED
  BY <1>2, <1>3, <1>4 DEF w

\* Since a checkpoint, the growth inside has moved by what the pool's has, or
\* not at all.
LEMMA GrowthSinceCheckpoint ==
  ASSUME NEW current \in Int, NEW lower, NEW upper, lower.initialized, upper.initialized,
         NEW g \in Int, NEW h \in Int, NEW ol \in Int, NEW ou \in Int, NEW checkpoint \in Int
  PROVE  WrapU128(GrowthInside(current, lower, upper, h, ol, ou) - checkpoint)
           = IF TICK_LOWER_INDEX <= current /\ current < TICK_UPPER_INDEX
             THEN WrapU128(WrapU128(GrowthInside(current, lower, upper, g, ol, ou) - checkpoint)
                           + h - g)
             ELSE WrapU128(GrowthInside(current, lower, upper, g, ol, ou) - checkpoint)
<1> USE FixtureAssumption
<1>1. CASE ~(TICK_LOWER_INDEX <= current /\ current < TICK_UPPER_INDEX)
  <2>1. GrowthInside(current, lower, upper, h, ol, ou)
          = GrowthInside(current, lower, upper, g, ol, ou)
    BY <1>1, GrowthInsideInitialized
  <2> QED
    BY <1>1, <2>1
<1>2. CASE TICK_LOWER_INDEX <= current /\ current < TICK_UPPER_INDEX
  <2> DEFINE x == (g - ol) - ou
             y == (h - ol) - ou
             z == WrapU128(WrapU128(x) - checkpoint)
  <2>1. x \in Int /\ y \in Int /\ x - checkpoint \in Int /\ h - g \in Int /\ z \in Int
        /\ WrapU128(x) - checkpoint \in Int
    BY WrapMultiple
  <2>2. /\ GrowthInside(current, lower, upper, g, ol, ou) = WrapU128(x)
        /\ GrowthInside(current, lower, upper, h, ol, ou) = WrapU128(y)
    BY <1>2, GrowthInsideInitialized
  <2>3. WrapU128(WrapU128(y) - checkpoint) = WrapU128(y - checkpoint)
    BY <2>1, WrapTerm
  <2>4. z = WrapU128(x - checkpoint)
    BY <2>1, WrapTerm
  <2>5. z + h - g = z + (h - g)
    BY <2>1
  <2>6. WrapU128(z + (h - g)) = WrapU128((x - checkpoint) + (h - g))
    BY <2>1, <2>4, WrapTerm
  <2>7. (x - checkpoint) + (h - g) = y - checkpoint
    OBVIOUS
  <2> HIDE DEF x, y, z
  <2>8. WrapU128(WrapU128(y) - checkpoint) = WrapU128(z + h - g)
    BY <2>3, <2>5, <2>6, <2>7
  <2> QED
    BY <1>2, <2>2, <2>8 DEF z
<1> QED
  BY <1>1, <1>2

\* A tick that becomes initialized starts with the growth outside of it that an
\* uninitialized one stands for: all growth so far was below.
LEMMA GrowthInsideAtInitialization ==
  ASSUME NEW current \in Int, NEW lower, NEW upper, NEW lower2, NEW upper2, NEW g \in U128,
         NEW ol, NEW ou, NEW ol2, NEW ou2,
         Continued(lower, lower2, TICK_LOWER_INDEX, current, g, ol, ol2),
         Continued(upper, upper2, TICK_UPPER_INDEX, current, g, ou, ou2)
  PROVE  GrowthInside(current, lower2, upper2, g, ol2, ou2)
           = GrowthInside(current, lower, upper, g, ol, ou)
<1>1. GrowthBelow(lower2, TICK_LOWER_INDEX, current, g, ol2)
        = GrowthBelow(lower, TICK_LOWER_INDEX, current, g, ol)
  BY FixtureAssumption, GrowthContinues
<1>2. GrowthAbove(upper2, TICK_UPPER_INDEX, current, g, ou2)
        = GrowthAbove(upper, TICK_UPPER_INDEX, current, g, ou)
  BY FixtureAssumption, GrowthContinues
<1> QED
  BY <1>1, <1>2 DEF GrowthInside

-----------------------------------------------------------------------------
(* The invariant *)

\* A tick holds the position's liquidity at least, and is initialized while it
\* holds any.
GrossTells(tick) == tick.initialized <=> tick.liquidity_gross > 0

Holds(tick) == GrossTells(tick) /\ position.liquidity <= tick.liquidity_gross

IInv ==
  /\ TypeOK
  /\ \E loc \in DOMAIN CurrIndex : At(loc)
  /\ \A i \in RewardIndex : whirlpool.reward_infos[i].initialized
  /\ Holds(tick_lower) /\ Holds(tick_upper)

\* Where the price is.
LEMMA Places ==
  /\ DOMAIN CurrIndex = {"Below", "Inside", "Above"}
  /\ CurrIndex["Below"] \in Int /\ CurrIndex["Below"] < TICK_LOWER_INDEX
  /\ CurrIndex["Inside"] \in Int /\ TICK_LOWER_INDEX <= CurrIndex["Inside"]
  /\ CurrIndex["Inside"] < TICK_UPPER_INDEX
  /\ CurrIndex["Above"] \in Int /\ TICK_UPPER_INDEX <= CurrIndex["Above"]
BY FixtureAssumption DEF CurrIndex

\* The fixture's ticks and its pool are of their types.
LEMMA FixtureTypes ==
  ASSUME NEW a \in U128, NEW b \in U128, NEW c \in U128, NEW gross \in U128, NEW net \in Int
  PROVE  /\ TickWith(gross, net, a, b, c) \in Tick /\ DefaultTick \in Tick
         /\ create_whirlpool_reward_infos(a, b) \in [RewardIndex -> WhirlpoolRewardInfo]
<1>1. 0 \in U128 /\ 0 \in Int
  BY Widths DEF U128
<1>2. DefaultTick \in Tick
  BY <1>1 DEF DefaultTick, Tick
<1>3. TickWith(gross, net, a, b, c) \in Tick
  BY DEF TickWith, Tick
<1>4. create_whirlpool_reward_infos(a, b) \in [RewardIndex -> WhirlpoolRewardInfo]
  BY DEF create_whirlpool_reward_infos, WhirlpoolRewardInfo
<1> QED
  BY <1>2, <1>3, <1>4

\* A tick that carries liquidity in the initial state is initialized, one that
\* carries none is not.
LEMMA InitTick ==
  ASSUME NEW tick, NEW gross \in U128, NEW net \in Int, NEW a \in U128, NEW b \in U128,
         NEW c \in U128, tick = IF gross = 0 THEN DefaultTick ELSE TickWith(gross, net, a, b, c)
  PROVE  tick \in Tick /\ GrossTells(tick) /\ 0 <= tick.liquidity_gross
<1> USE DEF GrossTells
<1>1. tick \in Tick
  BY FixtureTypes
<1>2. gross \in Int /\ gross >= 0
  BY Widths DEF U128
<1>3. CASE gross = 0
  <2>1. tick.initialized = FALSE /\ tick.liquidity_gross = 0
    BY <1>3 DEF DefaultTick
  <2> QED
    BY <1>1, <2>1
<1>4. CASE gross # 0
  <2>1. tick.initialized = (gross > 0) /\ tick.liquidity_gross = gross
    BY <1>4 DEF TickWith
  <2>2. gross > 0 /\ 0 <= gross
    BY <1>2, <1>4
  <2> QED
    BY <1>1, <2>1, <2>2
<1> QED
  BY <1>3, <1>4

\* The invariant holds initially.
LEMMA IInvInit == Init => IInv
<1> SUFFICES ASSUME Init PROVE IInv
  OBVIOUS
<1>1. U128 \subseteq Nat /\ 0 \in U128 /\ 0 \in U64 /\ StartGrowths \subseteq U128
      /\ Grosses \subseteq U128 /\ Emissions \subseteq U128 /\ WhirlpoolLiquidities \subseteq U128
  BY Widths, FixtureAssumption DEF U128, U64
<1>2. PICK loc \in DOMAIN CurrIndex, liquidity \in WhirlpoolLiquidities,
           a \in StartGrowths, b \in StartGrowths, e \in Emissions :
        whirlpool = PoolWith(CurrIndex[loc], liquidity, a, b, create_whirlpool_reward_infos(e, b))
  BY DEF Init
<1>3. /\ whirlpool \in [tick_current_index : Int, liquidity : U128,
                        fee_growth_global : [Token -> U128],
                        reward_infos : [RewardIndex -> WhirlpoolRewardInfo],
                        reward_last_updated_timestamp : Nat]
      /\ At(loc) /\ \A i \in RewardIndex : whirlpool.reward_infos[i].initialized
  <2>1. create_whirlpool_reward_infos(e, b) \in [RewardIndex -> WhirlpoolRewardInfo]
    BY <1>1, FixtureTypes
  <2>2. \A i \in RewardIndex : create_whirlpool_reward_infos(e, b)[i].initialized
    BY DEF create_whirlpool_reward_infos
  <2>3. CurrIndex[loc] \in Int /\ liquidity \in U128 /\ a \in U128 /\ b \in U128
    BY <1>1, Places
  <2> QED
    BY <1>2, <2>1, <2>2, <2>3 DEF PoolWith, At
<1>4. /\ position \in [liquidity : U128,
                       fee_growth_checkpoint : [Token -> U128], fee_owed : [Token -> U64],
                       growth_inside_checkpoint : [RewardIndex -> U128],
                       amount_owed : [RewardIndex -> U64]]
      /\ position.liquidity = 0
  BY <1>1 DEF Init, PositionWith
<1>5. tick_lower \in Tick /\ Holds(tick_lower)
  <2>1. PICK gross \in Grosses, g \in StartGrowths :
          tick_lower = IF gross = 0 THEN DefaultTick ELSE TickWith(gross, gross, g, g, g)
    BY DEF Init
  <2>2. gross \in U128 /\ gross \in Int /\ g \in U128
    BY <1>1
  <2> QED
    BY <1>4, <2>1, <2>2, InitTick DEF Holds
<1>6. tick_upper \in Tick /\ Holds(tick_upper)
  <2>1. PICK gross \in Grosses, g \in StartGrowths :
          tick_upper = IF gross = 0 THEN DefaultTick ELSE TickWith(gross, -gross, g, 0, g)
    BY DEF Init
  <2>2. gross \in U128 /\ -gross \in Int /\ g \in U128
    BY <1>1
  <2> QED
    BY <1>1, <1>4, <2>1, <2>2, InitTick DEF Holds
<1> QED
  BY <1>3, <1>4, <1>5, <1>6 DEF IInv, TypeOK, Init

-----------------------------------------------------------------------------
(* A change of the position's liquidity *)

\* What it does to a tick: the tick still holds the position's liquidity l, and
\* while there is any, the tick is initialized and either stays as it was, for
\* the growths, or has been initialized now.
TickFollows(tick, t2, tick_index, current, growths, infos, l) ==
  /\ t2 \in Tick /\ GrossTells(t2) /\ l <= t2.liquidity_gross
  /\ l # 0 =>
       /\ t2.initialized
       /\ \A x \in Token :
            Continued(tick, t2, tick_index, current, growths[x],
                      tick.fee_growth_outside[x], t2.fee_growth_outside[x])
       /\ \A i \in RewardIndex :
            Continued(tick, t2, tick_index, current, infos[i].growth_global_x64,
                      tick.reward_growths_outside[i], t2.reward_growths_outside[i])

\* A modified tick keeps the fixture's conventions: it is initialized exactly when
\* its gross liquidity is positive, it still holds the position's liquidity, and
\* what it has outside changes only when it is initialized (tick_manager.rs:54).
LEMMA TickModified ==
  ASSUME NEW tick \in Tick, NEW tick_index \in Int, NEW current \in Int,
         NEW growths \in [Token -> U128], NEW infos \in [RewardIndex -> WhirlpoolRewardInfo],
         NEW delta \in Int, NEW is_upper_tick \in BOOLEAN,
         ~TickUpdateFails(tick, delta, is_upper_tick),
         NEW l \in U128, l + delta \in U128, GrossTells(tick), l <= tick.liquidity_gross
  PROVE  TickFollows(tick,
           next_tick_modify_liquidity_update(tick, tick_index, current, growths, infos,
                                             delta, is_upper_tick),
           tick_index, current, growths, infos, l + delta)
<1> DEFINE t2 == next_tick_modify_liquidity_update(tick, tick_index, current, growths, infos,
                                                   delta, is_upper_tick)
           l2 == l + delta
<1> USE DEF GrossTells, Continued, TickFollows
<1>1. t2 \in Tick
  BY ModifyTickType
<1>2. l \in Nat /\ l2 \in Nat /\ tick.liquidity_gross \in Nat /\ tick.initialized \in BOOLEAN
  BY Widths DEF Tick
<1>3. GrossAfter(tick, delta) = tick.liquidity_gross + delta /\ GrossAfter(tick, delta) \in Nat
  <2>1. tick.liquidity_gross \in Int
    BY <1>2
  <2> QED
    BY <2>1, AddLiquidityType, Widths DEF GrossAfter, TickUpdateFails
<1>4. CASE delta = 0
  <2>1. t2 = tick /\ l2 = l
    BY <1>2, <1>4 DEF next_tick_modify_liquidity_update
  <2> QED
    BY <1>1, <1>2, <2>1
<1>5. CASE delta # 0 /\ GrossAfter(tick, delta) = 0
  <2>1. t2.initialized = FALSE /\ t2.liquidity_gross = 0
    BY <1>5 DEF next_tick_modify_liquidity_update, DefaultTick
  <2>2. l2 = 0
    BY <1>2, <1>3, <1>5
  <2> QED
    BY <1>1, <2>1, <2>2
<1>6. CASE delta # 0 /\ GrossAfter(tick, delta) # 0
  <2>1. /\ t2.initialized = TRUE /\ t2.liquidity_gross = GrossAfter(tick, delta)
        /\ t2.fee_growth_outside =
             IF tick.liquidity_gross # 0 THEN tick.fee_growth_outside
             ELSE [x \in Token |-> OutsideAtInit(tick_index, current, growths[x])]
        /\ t2.reward_growths_outside =
             IF tick.liquidity_gross # 0 THEN tick.reward_growths_outside
             ELSE [i \in RewardIndex |->
                     OutsideAtInit(tick_index, current, infos[i].growth_global_x64)]
    BY <1>6 DEF next_tick_modify_liquidity_update
  <2>2. t2.liquidity_gross > 0 /\ l2 <= t2.liquidity_gross
    BY <1>2, <1>3, <1>6, <2>1
  <2>3. CASE tick.liquidity_gross = 0
    <3>1. ~tick.initialized
      BY <2>3
    <3> QED
      BY <1>1, <2>1, <2>2, <2>3, <3>1
  <2>4. CASE tick.liquidity_gross # 0
    <3>1. tick.initialized
      BY <1>2, <2>4
    <3> QED
      BY <1>1, <2>1, <2>2, <2>4, <3>1
  <2> QED
    BY <2>3, <2>4
<1> QED
  BY <1>4, <1>5, <1>6

\* The types the invariant gives to what a step reads.
LEMMA StateTypes ==
  ASSUME IInv
  PROVE  /\ whirlpool.tick_current_index \in Int /\ whirlpool.liquidity \in U128
         /\ whirlpool.fee_growth_global \in [Token -> U128]
         /\ whirlpool.reward_infos \in [RewardIndex -> WhirlpoolRewardInfo]
         /\ \A i \in RewardIndex : /\ whirlpool.reward_infos[i].growth_global_x64 \in U128
                                   /\ whirlpool.reward_infos[i].initialized = TRUE
         /\ whirlpool.reward_last_updated_timestamp \in Nat
         /\ position.liquidity \in U128
         /\ position.fee_growth_checkpoint \in [Token -> U128]
         /\ position.fee_owed \in [Token -> U64]
         /\ position.growth_inside_checkpoint \in [RewardIndex -> U128]
         /\ position.amount_owed \in [RewardIndex -> U64]
         /\ tick_lower \in Tick /\ tick_upper \in Tick
         /\ tick_lower.fee_growth_outside \in [Token -> U128]
         /\ tick_lower.reward_growths_outside \in [RewardIndex -> U128]
         /\ tick_upper.fee_growth_outside \in [Token -> U128]
         /\ tick_upper.reward_growths_outside \in [RewardIndex -> U128]
         /\ TICK_LOWER_INDEX \in Int /\ TICK_UPPER_INDEX \in Int
         /\ FeeGrowthsInside \in [Token -> U128]
<1>1. /\ whirlpool.tick_current_index \in Int /\ whirlpool.liquidity \in U128
      /\ whirlpool.fee_growth_global \in [Token -> U128]
      /\ whirlpool.reward_infos \in [RewardIndex -> WhirlpoolRewardInfo]
      /\ whirlpool.reward_last_updated_timestamp \in Nat
  BY DEF IInv, TypeOK
<1>2. \A i \in RewardIndex : /\ whirlpool.reward_infos[i].growth_global_x64 \in U128
                             /\ whirlpool.reward_infos[i].initialized \in BOOLEAN
                             /\ whirlpool.reward_infos[i].initialized
  BY <1>1 DEF IInv, WhirlpoolRewardInfo
<1>3. /\ position.liquidity \in U128
      /\ position.fee_growth_checkpoint \in [Token -> U128]
      /\ position.fee_owed \in [Token -> U64]
      /\ position.growth_inside_checkpoint \in [RewardIndex -> U128]
      /\ position.amount_owed \in [RewardIndex -> U64]
  BY DEF IInv, TypeOK
<1>4. /\ tick_lower \in Tick /\ tick_upper \in Tick
      /\ tick_lower.fee_growth_outside \in [Token -> U128]
      /\ tick_lower.reward_growths_outside \in [RewardIndex -> U128]
      /\ tick_upper.fee_growth_outside \in [Token -> U128]
      /\ tick_upper.reward_growths_outside \in [RewardIndex -> U128]
  BY DEF IInv, TypeOK, Tick
<1>5. TICK_LOWER_INDEX \in Int /\ TICK_UPPER_INDEX \in Int
  BY FixtureAssumption
<1>6. FeeGrowthsInside \in [Token -> U128]
  BY <1>1, <1>4, <1>5, GrowthsInsideType DEF FeeGrowthsInside
<1> QED
  BY <1>1, <1>2, <1>3, <1>4, <1>5, <1>6

\* The rewards brought forward to a later time.
LEMMA RewardsBroughtForward ==
  ASSUME IInv, NEW timestamp \in Nat, timestamp >= whirlpool.reward_last_updated_timestamp
  PROVE  /\ RewardInfosAt(timestamp) \in [RewardIndex -> WhirlpoolRewardInfo]
         /\ \A i \in RewardIndex : /\ RewardInfosAt(timestamp)[i].initialized = TRUE
                                   /\ RewardInfosAt(timestamp)[i].growth_global_x64 \in U128
         /\ RewardGrowthsInside(RewardInfosAt(timestamp)) \in [RewardIndex -> U128]
<1>1. RewardInfosAt(timestamp) \in [RewardIndex -> WhirlpoolRewardInfo]
  BY StateTypes, RewardInfosType DEF RewardInfosAt
<1>2. ASSUME NEW i \in RewardIndex
      PROVE  /\ RewardInfosAt(timestamp)[i].initialized = TRUE
             /\ RewardInfosAt(timestamp)[i].growth_global_x64 \in U128
  <2>1. whirlpool.reward_infos[i] \in WhirlpoolRewardInfo
        /\ whirlpool.reward_infos[i].initialized = TRUE
    BY StateTypes
  <2>2. RewardInfosAt(timestamp)[i] \in WhirlpoolRewardInfo
    BY <1>1
  <2>3. RewardInfosAt(timestamp)[i].initialized = whirlpool.reward_infos[i].initialized
    BY <2>1 DEF RewardInfosAt, next_whirlpool_reward_infos, WhirlpoolRewardInfo
  <2> QED
    BY <2>1, <2>2, <2>3 DEF WhirlpoolRewardInfo
<1>3. RewardGrowthsInside(RewardInfosAt(timestamp)) \in [RewardIndex -> U128]
  BY <1>1, StateTypes, GrowthsInsideType DEF RewardGrowthsInside
<1> QED
  BY <1>1, <1>2, <1>3

\* What the position has after it.
LEMMA PositionModified ==
  ASSUME IInv, NEW delta \in Int, NEW timestamp \in Nat, ModifyLiquidity(delta, timestamp)
  PROVE  /\ position' \in [liquidity : U128,
                           fee_growth_checkpoint : [Token -> U128], fee_owed : [Token -> U64],
                           growth_inside_checkpoint : [RewardIndex -> U128],
                           amount_owed : [RewardIndex -> U64]]
         /\ timestamp >= whirlpool.reward_last_updated_timestamp
         /\ position'.liquidity = position.liquidity + delta
         /\ position'.fee_growth_checkpoint = FeeGrowthsInside
         /\ position'.growth_inside_checkpoint = RewardGrowthsInside(RewardInfosAt(timestamp))
         /\ position'.fee_owed =
              [x \in Token |->
                 WrapU64(position.fee_owed[x]
                         + GrowthEarned(position.liquidity, FeeGrowthsInside[x],
                                        position.fee_growth_checkpoint[x]))]
         /\ position'.amount_owed =
              [i \in RewardIndex |->
                 WrapU64(position.amount_owed[i]
                         + GrowthEarned(position.liquidity,
                                        RewardGrowthsInside(RewardInfosAt(timestamp))[i],
                                        position.growth_inside_checkpoint[i]))]
<1> DEFINE inside == RewardGrowthsInside(RewardInfosAt(timestamp))
           fees   == [x \in Token |->
                        WrapU64(position.fee_owed[x]
                                + GrowthEarned(position.liquidity, FeeGrowthsInside[x],
                                               position.fee_growth_checkpoint[x]))]
           rewards == [i \in RewardIndex |->
                         WrapU64(position.amount_owed[i]
                                 + GrowthEarned(position.liquidity, inside[i],
                                                position.growth_inside_checkpoint[i]))]
           l == add_liquidity_delta(position.liquidity, delta)
<1>0. position.liquidity \in U128 /\ whirlpool.reward_last_updated_timestamp \in Nat
  BY StateTypes
<1>1. timestamp >= whirlpool.reward_last_updated_timestamp
  <2>1. ~(timestamp < whirlpool.reward_last_updated_timestamp)
    BY DEF ModifyLiquidity, ModifyError
  <2> QED
    BY <1>0, <2>1
<1>2. l = position.liquidity + delta /\ l \in U128
  <2>1. l # Err
    BY DEF ModifyLiquidity, ModifyError
  <2>2. position.liquidity \in Int
    BY <1>0, WordsAreIntegers
  <2> QED
    BY <2>1, <2>2, AddLiquidityType
<1>3. inside \in [RewardIndex -> U128]
  BY <1>1, RewardsBroughtForward
<1>4. fees \in [Token -> U64]
  <2> SUFFICES ASSUME NEW x \in Token
               PROVE  WrapU64(position.fee_owed[x]
                              + GrowthEarned(position.liquidity, FeeGrowthsInside[x],
                                             position.fee_growth_checkpoint[x])) \in U64
    OBVIOUS
  <2>1. GrowthEarned(position.liquidity, FeeGrowthsInside[x], position.fee_growth_checkpoint[x])
          \in U64
    BY StateTypes, GrowthEarnedType
  <2>2. position.fee_owed[x] \in U64
    BY StateTypes
  <2> QED
    BY <2>1, <2>2, WordsAreIntegers, Conversions
<1>5. rewards \in [RewardIndex -> U64]
  <2> HIDE DEF inside
  <2> SUFFICES ASSUME NEW i \in RewardIndex
               PROVE  WrapU64(position.amount_owed[i]
                              + GrowthEarned(position.liquidity, inside[i],
                                             position.growth_inside_checkpoint[i])) \in U64
    OBVIOUS
  <2>1. GrowthEarned(position.liquidity, inside[i], position.growth_inside_checkpoint[i]) \in U64
    BY <1>3, StateTypes, GrowthEarnedType
  <2>2. position.amount_owed[i] \in U64
    BY StateTypes
  <2> QED
    BY <2>1, <2>2, WordsAreIntegers, Conversions
<1>6. position' = [position EXCEPT !.liquidity = l, !.fee_growth_checkpoint = FeeGrowthsInside,
                                   !.fee_owed = fees, !.growth_inside_checkpoint = inside,
                                   !.amount_owed = rewards]
  BY DEF ModifyLiquidity, next_position_modify_liquidity_update
<1>7. position \in [liquidity : U128,
                    fee_growth_checkpoint : [Token -> U128], fee_owed : [Token -> U64],
                    growth_inside_checkpoint : [RewardIndex -> U128],
                    amount_owed : [RewardIndex -> U64]]
  BY DEF IInv, TypeOK
<1>8. FeeGrowthsInside \in [Token -> U128]
  BY StateTypes
<1> HIDE DEF l, fees, rewards, inside
<1>9. /\ position'.liquidity = l /\ position'.fee_growth_checkpoint = FeeGrowthsInside
      /\ position'.fee_owed = fees /\ position'.growth_inside_checkpoint = inside
      /\ position'.amount_owed = rewards
      /\ position' \in [liquidity : U128,
                        fee_growth_checkpoint : [Token -> U128], fee_owed : [Token -> U64],
                        growth_inside_checkpoint : [RewardIndex -> U128],
                        amount_owed : [RewardIndex -> U64]]
  BY <1>2, <1>3, <1>4, <1>5, <1>6, <1>7, <1>8
<1> QED
  BY <1>1, <1>2, <1>9 DEF fees, rewards, inside

\* What the ticks hold after it, and that the growths inside the range are what
\* they were, unless the position is empty now.
LEMMA TicksAfterModify ==
  ASSUME IInv, NEW delta \in Int, NEW timestamp \in Nat, ModifyLiquidity(delta, timestamp)
  PROVE  /\ tick_lower' \in Tick /\ tick_upper' \in Tick
         /\ Holds(tick_lower)' /\ Holds(tick_upper)'
         /\ position'.liquidity # 0 =>
              /\ \A x \in Token :
                   GrowthInside(whirlpool.tick_current_index, tick_lower', tick_upper',
                                whirlpool.fee_growth_global[x],
                                tick_lower'.fee_growth_outside[x],
                                tick_upper'.fee_growth_outside[x])
                   = GrowthInside(whirlpool.tick_current_index, tick_lower, tick_upper,
                                  whirlpool.fee_growth_global[x],
                                  tick_lower.fee_growth_outside[x],
                                  tick_upper.fee_growth_outside[x])
              /\ \A i \in RewardIndex :
                   GrowthInside(whirlpool.tick_current_index, tick_lower', tick_upper',
                                RewardInfosAt(timestamp)[i].growth_global_x64,
                                tick_lower'.reward_growths_outside[i],
                                tick_upper'.reward_growths_outside[i])
                   = GrowthInside(whirlpool.tick_current_index, tick_lower, tick_upper,
                                  RewardInfosAt(timestamp)[i].growth_global_x64,
                                  tick_lower.reward_growths_outside[i],
                                  tick_upper.reward_growths_outside[i])
<1> DEFINE infos == RewardInfosAt(timestamp)
           l     == position.liquidity
           l2    == position'.liquidity
<1>1. /\ l \in U128 /\ l2 \in U128 /\ l2 = l + delta
      /\ timestamp >= whirlpool.reward_last_updated_timestamp
  BY StateTypes, PositionModified
<1>2. infos \in [RewardIndex -> WhirlpoolRewardInfo]
      /\ \A i \in RewardIndex : infos[i].growth_global_x64 \in U128
  BY <1>1, RewardsBroughtForward
<1>3. /\ ~TickUpdateFails(tick_lower, delta, FALSE) /\ ~TickUpdateFails(tick_upper, delta, TRUE)
  BY DEF ModifyLiquidity, ModifyError
<1>4. /\ tick_lower' = next_tick_modify_liquidity_update(tick_lower, TICK_LOWER_INDEX,
                         whirlpool.tick_current_index, whirlpool.fee_growth_global, infos, delta, FALSE)
      /\ tick_upper' = next_tick_modify_liquidity_update(tick_upper, TICK_UPPER_INDEX,
                         whirlpool.tick_current_index, whirlpool.fee_growth_global, infos, delta, TRUE)
  BY DEF ModifyLiquidity, UpdatedTick
<1>5. /\ tick_lower \in Tick /\ tick_upper \in Tick
      /\ TICK_LOWER_INDEX \in Int /\ TICK_UPPER_INDEX \in Int
      /\ whirlpool.tick_current_index \in Int /\ whirlpool.fee_growth_global \in [Token -> U128]
      /\ TRUE \in BOOLEAN /\ FALSE \in BOOLEAN
  BY StateTypes
<1>6. /\ GrossTells(tick_lower) /\ l <= tick_lower.liquidity_gross
      /\ GrossTells(tick_upper) /\ l <= tick_upper.liquidity_gross
  BY DEF IInv, Holds
<1> HIDE DEF infos, l, l2
<1>7. TickFollows(tick_lower, tick_lower', TICK_LOWER_INDEX, whirlpool.tick_current_index,
                  whirlpool.fee_growth_global, infos, l2)
  BY <1>1, <1>2, <1>3, <1>4, <1>5, <1>6, TickModified
<1>8. TickFollows(tick_upper, tick_upper', TICK_UPPER_INDEX, whirlpool.tick_current_index,
                  whirlpool.fee_growth_global, infos, l2)
  BY <1>1, <1>2, <1>3, <1>4, <1>5, <1>6, TickModified
<1>9. Holds(tick_lower)' /\ Holds(tick_upper)'
  BY <1>7, <1>8 DEF Holds, GrossTells, TickFollows, l2
<1>10. ASSUME l2 # 0, NEW x \in Token
       PROVE  GrowthInside(whirlpool.tick_current_index, tick_lower', tick_upper',
                           whirlpool.fee_growth_global[x], tick_lower'.fee_growth_outside[x],
                           tick_upper'.fee_growth_outside[x])
              = GrowthInside(whirlpool.tick_current_index, tick_lower, tick_upper,
                             whirlpool.fee_growth_global[x], tick_lower.fee_growth_outside[x],
                             tick_upper.fee_growth_outside[x])
  <2>1. whirlpool.fee_growth_global[x] \in U128
    BY <1>5
  <2> QED
    BY <1>5, <1>7, <1>8, <1>10, <2>1, GrowthInsideAtInitialization DEF TickFollows
<1>11. ASSUME l2 # 0, NEW i \in RewardIndex
       PROVE  GrowthInside(whirlpool.tick_current_index, tick_lower', tick_upper',
                           infos[i].growth_global_x64, tick_lower'.reward_growths_outside[i],
                           tick_upper'.reward_growths_outside[i])
              = GrowthInside(whirlpool.tick_current_index, tick_lower, tick_upper,
                             infos[i].growth_global_x64, tick_lower.reward_growths_outside[i],
                             tick_upper.reward_growths_outside[i])
  <2>1. infos[i].growth_global_x64 \in U128
    BY <1>2
  <2> QED
    BY <1>5, <1>7, <1>8, <1>11, <2>1, GrowthInsideAtInitialization DEF TickFollows
<1> QED
  BY <1>7, <1>8, <1>9, <1>10, <1>11 DEF TickFollows, infos, l2

-----------------------------------------------------------------------------
(* The invariant is kept *)

\* A change of liquidity keeps the invariant.
LEMMA ModifyKeepsIInv ==
  ASSUME IInv, NEW delta \in Int, NEW timestamp \in Nat, ModifyLiquidity(delta, timestamp),
         ops' \in Nat
  PROVE  IInv'
<1>1. /\ whirlpool' = [whirlpool EXCEPT !.liquidity = NextLiquidity(delta),
                                        !.reward_infos = RewardInfosAt(timestamp),
                                        !.reward_last_updated_timestamp = timestamp]
      /\ NextLiquidity(delta) # Err
  BY DEF ModifyLiquidity, ModifyError
<1>2. whirlpool \in [tick_current_index : Int, liquidity : U128,
                     fee_growth_global : [Token -> U128],
                     reward_infos : [RewardIndex -> WhirlpoolRewardInfo],
                     reward_last_updated_timestamp : Nat]
  BY DEF IInv, TypeOK
<1>3. NextLiquidity(delta) \in U128
  <2>1. whirlpool.liquidity \in U128 /\ whirlpool.liquidity \in Int
    BY <1>2, WordsAreIntegers
  <2> QED
    BY <1>1, <2>1, AddLiquidityType DEF NextLiquidity, next_whirlpool_liquidity
<1>4. /\ RewardInfosAt(timestamp) \in [RewardIndex -> WhirlpoolRewardInfo]
      /\ \A i \in RewardIndex : RewardInfosAt(timestamp)[i].initialized = TRUE
  BY PositionModified, RewardsBroughtForward
<1>5. /\ whirlpool' \in [tick_current_index : Int, liquidity : U128,
                         fee_growth_global : [Token -> U128],
                         reward_infos : [RewardIndex -> WhirlpoolRewardInfo],
                         reward_last_updated_timestamp : Nat]
      /\ whirlpool'.tick_current_index = whirlpool.tick_current_index
      /\ whirlpool'.reward_infos = RewardInfosAt(timestamp)
  BY <1>1, <1>2, <1>3, <1>4
<1>6. TypeOK'
  BY <1>5, PositionModified, TicksAfterModify DEF TypeOK
<1>7. \E loc \in DOMAIN CurrIndex : At(loc)'
  BY <1>5 DEF IInv, At, CurrIndex
<1>8. \A i \in RewardIndex : whirlpool'.reward_infos[i].initialized
  BY <1>4, <1>5
<1> QED
  BY <1>6, <1>7, <1>8, TicksAfterModify DEF IInv

\* So does a growth of the fees, which may wrap.
LEMMA AccrueFeesKeepsIInv ==
  ASSUME IInv, NEW a \in FeeIncrements, NEW b \in FeeIncrements,
         increment_whirlpool_fee_growths(a, b), ops' \in Nat
  PROVE  IInv' /\ whirlpool'.fee_growth_global \in [Token -> U128]
<1> DEFINE growths == [x \in Token |-> WrapU128(whirlpool.fee_growth_global[x]
                                                + IF x = "a" THEN a ELSE b)]
<1>1. growths \in [Token -> U128]
  <2> SUFFICES ASSUME NEW x \in Token, NEW c \in {a, b}
               PROVE  WrapU128(whirlpool.fee_growth_global[x] + c) \in U128
    OBVIOUS
  <2>1. whirlpool.fee_growth_global[x] \in U128 /\ c \in U128
    BY StateTypes, FixtureAssumption
  <2> QED
    BY <2>1, WordsAreIntegers, Conversions
<1>2. whirlpool' = [whirlpool EXCEPT !.fee_growth_global = growths]
      /\ UNCHANGED <<position, tick_lower, tick_upper>>
  BY DEF increment_whirlpool_fee_growths
<1> HIDE DEF growths
<1>3. whirlpool \in [tick_current_index : Int, liquidity : U128,
                     fee_growth_global : [Token -> U128],
                     reward_infos : [RewardIndex -> WhirlpoolRewardInfo],
                     reward_last_updated_timestamp : Nat]
  BY DEF IInv, TypeOK
<1>4. /\ whirlpool' \in [tick_current_index : Int, liquidity : U128,
                         fee_growth_global : [Token -> U128],
                         reward_infos : [RewardIndex -> WhirlpoolRewardInfo],
                         reward_last_updated_timestamp : Nat]
      /\ whirlpool'.tick_current_index = whirlpool.tick_current_index
      /\ whirlpool'.reward_infos = whirlpool.reward_infos
      /\ whirlpool'.fee_growth_global = growths
  BY <1>1, <1>2, <1>3
<1> QED
  BY <1>1, <1>2, <1>4 DEF IInv, TypeOK, At, CurrIndex, Holds, GrossTells

\* So does a growth of the rewards.
LEMMA AccrueRewardsKeepsIInv ==
  ASSUME IInv, NEW seconds \in Seconds, increment_whirlpool_reward_growths_by_time(seconds),
         ops' \in Nat
  PROVE  IInv'
<1> DEFINE timestamp == whirlpool.reward_last_updated_timestamp + seconds
<1>1. timestamp \in Nat /\ timestamp >= whirlpool.reward_last_updated_timestamp
  <2>1. seconds \in Nat
    BY FixtureAssumption, WordsAreIntegers
  <2> QED
    BY <2>1, StateTypes
<1>2. whirlpool' = [whirlpool EXCEPT !.reward_infos = RewardInfosAt(timestamp),
                                     !.reward_last_updated_timestamp = timestamp]
      /\ UNCHANGED <<position, tick_lower, tick_upper>>
  BY DEF increment_whirlpool_reward_growths_by_time
<1> HIDE DEF timestamp
<1>3. whirlpool \in [tick_current_index : Int, liquidity : U128,
                     fee_growth_global : [Token -> U128],
                     reward_infos : [RewardIndex -> WhirlpoolRewardInfo],
                     reward_last_updated_timestamp : Nat]
  BY DEF IInv, TypeOK
<1>4. /\ RewardInfosAt(timestamp) \in [RewardIndex -> WhirlpoolRewardInfo]
      /\ \A i \in RewardIndex : RewardInfosAt(timestamp)[i].initialized = TRUE
  BY <1>1, RewardsBroughtForward
<1>5. /\ whirlpool' \in [tick_current_index : Int, liquidity : U128,
                         fee_growth_global : [Token -> U128],
                         reward_infos : [RewardIndex -> WhirlpoolRewardInfo],
                         reward_last_updated_timestamp : Nat]
      /\ whirlpool'.tick_current_index = whirlpool.tick_current_index
      /\ whirlpool'.reward_infos = RewardInfosAt(timestamp)
  BY <1>1, <1>2, <1>3, <1>4
<1>6. \A i \in RewardIndex : whirlpool'.reward_infos[i].initialized
  BY <1>4, <1>5
<1> QED
  BY <1>2, <1>5, <1>6 DEF IInv, TypeOK, At, CurrIndex, Holds, GrossTells

\* Crossing a tick changes its growths outside only.
LEMMA CrossedTick ==
  ASSUME IInv, NEW tick \in Tick
  PROVE  /\ Crossed(tick) \in Tick
         /\ Crossed(tick).initialized = tick.initialized
         /\ Crossed(tick).liquidity_gross = tick.liquidity_gross
         /\ \A x \in Token :
              Crossed(tick).fee_growth_outside[x]
                = WrapU128(whirlpool.fee_growth_global[x] - tick.fee_growth_outside[x])
         /\ \A i \in RewardIndex :
              Crossed(tick).reward_growths_outside[i]
                = WrapU128(whirlpool.reward_infos[i].growth_global_x64
                           - tick.reward_growths_outside[i])
<1>1. Crossed(tick) \in Tick
  BY StateTypes, CrossType DEF Crossed
<1>2. \A i \in RewardIndex : whirlpool.reward_infos[i].initialized = TRUE
  BY StateTypes
<1> QED
  BY <1>1, <1>2 DEF Crossed, next_tick_cross_update, Tick

\* The pool after the price has moved across a tick.
LEMMA PoolAfterCross ==
  ASSUME IInv, NEW tick \in Tick, NEW direction, NEW loc \in DOMAIN CurrIndex,
         MovePrice(tick, direction, CurrIndex[loc])
  PROVE  /\ whirlpool' \in [tick_current_index : Int, liquidity : U128,
                            fee_growth_global : [Token -> U128],
                            reward_infos : [RewardIndex -> WhirlpoolRewardInfo],
                            reward_last_updated_timestamp : Nat]
         /\ whirlpool'.tick_current_index = CurrIndex[loc]
         /\ whirlpool'.fee_growth_global = whirlpool.fee_growth_global
         /\ whirlpool'.reward_infos = whirlpool.reward_infos
         /\ position' = position
<1>1. LiquidityAcross(tick, direction) \in U128
  <2>1. whirlpool.liquidity \in Int /\ tick.liquidity_net \in Int /\ -tick.liquidity_net \in Int
    BY StateTypes, WordsAreIntegers DEF Tick
  <2> QED
    BY <2>1, AddLiquidityType DEF MovePrice, LiquidityAcross
<1>2. CurrIndex[loc] \in Int
  BY Places
<1>3. whirlpool \in [tick_current_index : Int, liquidity : U128,
                     fee_growth_global : [Token -> U128],
                     reward_infos : [RewardIndex -> WhirlpoolRewardInfo],
                     reward_last_updated_timestamp : Nat]
  BY DEF IInv, TypeOK
<1>4. whirlpool' = [whirlpool EXCEPT !.liquidity = LiquidityAcross(tick, direction),
                                     !.tick_current_index = CurrIndex[loc]]
      /\ position' = position
  BY DEF MovePrice
<1> QED
  BY <1>1, <1>2, <1>3, <1>4

\* So does the crossing of either tick.
LEMMA CrossKeepsIInv ==
  ASSUME IInv, CrossATick, ops' \in Nat
  PROVE  IInv'
<1>1. PICK tick \in {tick_lower, tick_upper}, direction \in {"Left", "Right"},
           loc \in DOMAIN CurrIndex :
        /\ MovePrice(tick, direction, CurrIndex[loc])
        /\ \/ tick = tick_lower /\ tick_lower' = Crossed(tick_lower) /\ tick_upper' = tick_upper
           \/ tick = tick_upper /\ tick_upper' = Crossed(tick_upper) /\ tick_lower' = tick_lower
  BY Places DEF CrossATick, CrossLower, CrossUpper
<1>2. tick_lower \in Tick /\ tick_upper \in Tick /\ tick \in Tick
  BY StateTypes
<1>3. /\ tick_lower' \in Tick /\ tick_lower'.initialized = tick_lower.initialized
      /\ tick_lower'.liquidity_gross = tick_lower.liquidity_gross
      /\ tick_upper' \in Tick /\ tick_upper'.initialized = tick_upper.initialized
      /\ tick_upper'.liquidity_gross = tick_upper.liquidity_gross
  BY <1>1, <1>2, CrossedTick
<1>4. /\ whirlpool' \in [tick_current_index : Int, liquidity : U128,
                         fee_growth_global : [Token -> U128],
                         reward_infos : [RewardIndex -> WhirlpoolRewardInfo],
                         reward_last_updated_timestamp : Nat]
      /\ whirlpool'.tick_current_index = CurrIndex[loc]
      /\ whirlpool'.reward_infos = whirlpool.reward_infos
      /\ position' = position
  BY <1>1, <1>2, PoolAfterCross
<1>5. TypeOK'
  BY <1>3, <1>4 DEF IInv, TypeOK
<1>6. Holds(tick_lower)' /\ Holds(tick_upper)'
  BY <1>3, <1>4 DEF IInv, Holds, GrossTells
<1> QED
  BY <1>4, <1>5, <1>6 DEF IInv, At, CurrIndex

-----------------------------------------------------------------------------
(* What is pending *)

\* Of one accumulator: the growth inside the range since the checkpoint, if the
\* position has liquidity.
PendingOne(l, growth_inside, checkpoint) ==
  IF l = 0 THEN 0 ELSE WrapU128(growth_inside - checkpoint)

\* The growths of each accumulator, and what is pending of it.
LEMMA PendingFees ==
  /\ FeeGrowthsInside =
       [x \in Token |->
          GrowthInside(whirlpool.tick_current_index, tick_lower, tick_upper,
                       whirlpool.fee_growth_global[x], tick_lower.fee_growth_outside[x],
                       tick_upper.fee_growth_outside[x])]
  /\ Pending(FeeGrowthsInside, position.fee_growth_checkpoint) =
       [x \in Token |-> PendingOne(position.liquidity, FeeGrowthsInside[x],
                                   position.fee_growth_checkpoint[x])]
BY DEF FeeGrowthsInside, next_fee_growths_inside, GrowthInside, Pending, PendingOne

\* What is pending of the rewards, in terms of the growth inside the range.
LEMMA PendingRewards ==
  ASSUME NEW infos, \A i \in RewardIndex : infos[i].initialized
  PROVE  /\ RewardGrowthsInside(infos) =
              [i \in RewardIndex |->
                 GrowthInside(whirlpool.tick_current_index, tick_lower, tick_upper,
                              infos[i].growth_global_x64, tick_lower.reward_growths_outside[i],
                              tick_upper.reward_growths_outside[i])]
         /\ Pending(RewardGrowthsInside(infos), position.growth_inside_checkpoint) =
              [i \in RewardIndex |-> PendingOne(position.liquidity, RewardGrowthsInside(infos)[i],
                                                position.growth_inside_checkpoint[i])]
BY DEF RewardGrowthsInside, next_reward_growths_inside, GrowthInside, Pending, PendingOne

\* It is a word.
LEMMA PendingType ==
  ASSUME NEW l \in U128, NEW growth_inside \in U128, NEW checkpoint \in U128
  PROVE  PendingOne(l, growth_inside, checkpoint) \in U128
<1>1. growth_inside \in Int /\ checkpoint \in Int /\ 0 \in U128
  BY Widths DEF U128
<1>2. WrapU128(growth_inside - checkpoint) \in U128
  BY <1>1, WrappedDifference
<1> QED
  BY <1>1, <1>2 DEF PendingOne

\* A position earns its liquidity times what is pending.
LEMMA EarnedIsPending ==
  ASSUME NEW l \in U128, NEW growth_inside \in U128, NEW checkpoint \in U128
  PROVE  GrowthEarned(l, growth_inside, checkpoint)
           = OrZero(checked_mul_shift_right(l, PendingOne(l, growth_inside, checkpoint)))
<1>1. CASE l # 0
  BY <1>1 DEF GrowthEarned, PendingOne
<1>2. CASE l = 0
  <2>1. \A n \in Int : checked_mul_shift_right(0, n) = 0
    <3> SUFFICES ASSUME NEW n \in Int PROVE checked_mul_shift_right(0, n) = 0
      OBVIOUS
    <3>1. 0 * n = 0 /\ ~(0 >= TO_Q128) /\ 0 \in U64
      BY Widths DEF U64
    <3>2. 0 \div TO_Q64 = 0 /\ 0 % TO_Q64 = 0
      BY Widths
    <3> QED
      BY <3>1, <3>2
         DEF checked_mul_shift_right, checked_mul_shift_right_round_up_if, DivRound, CheckU64
  <2>2. growth_inside \in Int /\ checkpoint \in Int
    BY Widths
  <2>3. WrapU128(growth_inside - checkpoint) \in Int
    BY <2>2, WrapMultiple
  <2> QED
    BY <1>2, <2>1, <2>3 DEF GrowthEarned, PendingOne
<1> QED
  BY <1>1, <1>2

\* Both ticks of a position with liquidity are initialized.
LEMMA TicksInUse ==
  ASSUME IInv, position.liquidity # 0
  PROVE  tick_lower.initialized /\ tick_upper.initialized
<1>1. position.liquidity \in Nat
  BY StateTypes, WordsAreIntegers
<1>2. tick_lower.liquidity_gross \in Int /\ tick_upper.liquidity_gross \in Int
  BY StateTypes, WordsAreIntegers DEF Tick
<1>3. tick_lower.liquidity_gross > 0 /\ tick_upper.liquidity_gross > 0
  BY <1>1, <1>2 DEF IInv, Holds
<1> QED
  BY <1>3 DEF IInv, Holds, GrossTells

\* When the pool's growth goes from g to h, what is pending follows it while the
\* price is in range and the position has liquidity.
LEMMA PendingAccrues ==
  ASSUME IInv, NEW g \in U128, NEW h \in U128, NEW ol \in U128, NEW ou \in U128,
         NEW checkpoint \in U128
  PROVE  PendingOne(position.liquidity,
                    GrowthInside(whirlpool.tick_current_index, tick_lower, tick_upper, h, ol, ou),
                    checkpoint)
         = LET before == PendingOne(position.liquidity,
                           GrowthInside(whirlpool.tick_current_index, tick_lower, tick_upper,
                                        g, ol, ou), checkpoint)
           IN  IF InRange /\ position.liquidity > 0 THEN WrapU128(before + h - g) ELSE before
<1>1. position.liquidity \in Nat /\ whirlpool.tick_current_index \in Int
  BY StateTypes, WordsAreIntegers
<1>2. CASE position.liquidity = 0
  BY <1>1, <1>2 DEF PendingOne
<1>3. CASE position.liquidity # 0
  <2>1. tick_lower.initialized /\ tick_upper.initialized
    BY <1>3, TicksInUse
  <2>2. g \in Int /\ h \in Int /\ ol \in Int /\ ou \in Int /\ checkpoint \in Int
    BY WordsAreIntegers
  <2>3. position.liquidity > 0
    BY <1>1, <1>3
  <2> QED
    BY <1>1, <1>3, <2>1, <2>2, <2>3, GrowthSinceCheckpoint DEF PendingOne, InRange
<1> QED
  BY <1>2, <1>3

\* Right after a settlement nothing is.
LEMMA NothingPending ==
  ASSUME NEW l, NEW growth_inside \in Int
  PROVE  PendingOne(l, growth_inside, growth_inside) = 0
<1>1. growth_inside - growth_inside = 0 /\ 0 \in U128
  BY Widths DEF U128
<1> QED
  BY <1>1, WrapWord DEF PendingOne

\* Crossing a tick changes nothing of it, and takes the price into the range or
\* out of it.
LEMMA CrossingLower ==
  ASSUME IInv,
         \/ At("Below") /\ CrossLower("Right")
         \/ At("Inside") /\ CrossLower("Left")
  PROVE  /\ InRange' = ~InRange
         /\ position' = position
         /\ whirlpool'.fee_growth_global = whirlpool.fee_growth_global
         /\ whirlpool'.reward_infos = whirlpool.reward_infos
         /\ position.liquidity # 0 =>
              /\ FeeGrowthsInside' = FeeGrowthsInside
              /\ RewardGrowthsInside(whirlpool.reward_infos)'
                   = RewardGrowthsInside(whirlpool.reward_infos)
<1> DEFINE c == whirlpool.tick_current_index
           d == whirlpool'.tick_current_index
<1>1. PICK direction \in {"Left", "Right"}, loc \in DOMAIN CurrIndex :
        /\ MovePrice(tick_lower, direction, CurrIndex[loc])
        /\ tick_lower' = Crossed(tick_lower) /\ tick_upper' = tick_upper
        /\ \/ c = CurrIndex["Below"] /\ loc = "Inside"
           \/ c = CurrIndex["Inside"] /\ loc = "Below"
  <2>1. CASE At("Below") /\ CrossLower("Right")
    <3>1. /\ MovePrice(tick_lower, "Right", CurrIndex["Inside"]) /\ c = CurrIndex["Below"]
          /\ tick_lower' = Crossed(tick_lower) /\ tick_upper' = tick_upper
      BY <2>1 DEF CrossLower, At
    <3>2. "Inside" \in DOMAIN CurrIndex
      BY Places
    <3> QED
      BY <3>1, <3>2
  <2>2. CASE At("Inside") /\ CrossLower("Left")
    <3>1. /\ MovePrice(tick_lower, "Left", CurrIndex["Below"]) /\ c = CurrIndex["Inside"]
          /\ tick_lower' = Crossed(tick_lower) /\ tick_upper' = tick_upper
      BY <2>2 DEF CrossLower, At
    <3>2. "Below" \in DOMAIN CurrIndex
      BY Places
    <3> QED
      BY <3>1, <3>2
  <2> QED
    BY <2>1, <2>2
<1>2. /\ d = CurrIndex[loc]
      /\ whirlpool'.fee_growth_global = whirlpool.fee_growth_global
      /\ whirlpool'.reward_infos = whirlpool.reward_infos
      /\ position' = position
  BY <1>1, StateTypes, PoolAfterCross
<1>3. c \in Int /\ d \in Int
      /\ \/ c < TICK_LOWER_INDEX /\ TICK_LOWER_INDEX <= d /\ d < TICK_UPPER_INDEX
         \/ d < TICK_LOWER_INDEX /\ TICK_LOWER_INDEX <= c /\ c < TICK_UPPER_INDEX
  BY <1>1, <1>2, Places
<1>4. InRange' = ~InRange
  BY <1>3, FixtureAssumption DEF InRange
<1>5. ASSUME position.liquidity # 0, NEW g \in U128, NEW ol \in U128, NEW ou \in U128
      PROVE  GrowthInside(d, tick_lower', tick_upper', g, WrapU128(g - ol), ou)
               = GrowthInside(c, tick_lower, tick_upper, g, ol, ou)
  <2>1. tick_lower.initialized /\ tick_upper.initialized
    BY <1>5, TicksInUse
  <2>2. tick_lower'.initialized
    BY <1>1, <2>1, StateTypes, CrossedTick
  <2>3. g \in Int /\ ol \in Int /\ ou \in Int
    BY WordsAreIntegers
  <2> HIDE DEF c, d
  <2> QED
    BY <1>1, <1>3, <2>1, <2>2, <2>3, GrowthInsideAcrossLower
<1>6. /\ \A x \in Token :
           tick_lower'.fee_growth_outside[x]
             = WrapU128(whirlpool.fee_growth_global[x] - tick_lower.fee_growth_outside[x])
      /\ \A i \in RewardIndex :
           tick_lower'.reward_growths_outside[i]
             = WrapU128(whirlpool.reward_infos[i].growth_global_x64
                        - tick_lower.reward_growths_outside[i])
  BY <1>1, StateTypes, CrossedTick
<1>7. ASSUME position.liquidity # 0
      PROVE  FeeGrowthsInside' = FeeGrowthsInside
  <2>1. FeeGrowthsInside' =
          [x \in Token |->
             GrowthInside(d, tick_lower', tick_upper', whirlpool.fee_growth_global[x],
                          tick_lower'.fee_growth_outside[x], tick_upper'.fee_growth_outside[x])]
    BY <1>2 DEF FeeGrowthsInside, next_fee_growths_inside, GrowthInside
  <2>2. ASSUME NEW x \in Token
        PROVE  GrowthInside(d, tick_lower', tick_upper', whirlpool.fee_growth_global[x],
                            tick_lower'.fee_growth_outside[x], tick_upper'.fee_growth_outside[x])
               = GrowthInside(c, tick_lower, tick_upper, whirlpool.fee_growth_global[x],
                              tick_lower.fee_growth_outside[x], tick_upper.fee_growth_outside[x])
    <3>1. /\ whirlpool.fee_growth_global[x] \in U128 /\ tick_lower.fee_growth_outside[x] \in U128
          /\ tick_upper.fee_growth_outside[x] \in U128
      BY StateTypes
    <3> QED
      BY <1>1, <1>5, <1>6, <1>7, <3>1
  <2> HIDE DEF c, d
  <2> QED
    BY <2>1, <2>2, PendingFees DEF c
<1>8. ASSUME position.liquidity # 0
      PROVE  RewardGrowthsInside(whirlpool.reward_infos)'
               = RewardGrowthsInside(whirlpool.reward_infos)
  <2>1. \A i \in RewardIndex : whirlpool.reward_infos[i].initialized
    BY DEF IInv
  <2>2. RewardGrowthsInside(whirlpool.reward_infos)' =
          [i \in RewardIndex |->
             GrowthInside(d, tick_lower', tick_upper', whirlpool.reward_infos[i].growth_global_x64,
                          tick_lower'.reward_growths_outside[i],
                          tick_upper'.reward_growths_outside[i])]
    BY <1>2, <2>1 DEF RewardGrowthsInside, next_reward_growths_inside, GrowthInside
  <2>3. ASSUME NEW i \in RewardIndex
        PROVE  GrowthInside(d, tick_lower', tick_upper',
                            whirlpool.reward_infos[i].growth_global_x64,
                            tick_lower'.reward_growths_outside[i],
                            tick_upper'.reward_growths_outside[i])
               = GrowthInside(c, tick_lower, tick_upper,
                              whirlpool.reward_infos[i].growth_global_x64,
                              tick_lower.reward_growths_outside[i],
                              tick_upper.reward_growths_outside[i])
    <3>1. /\ whirlpool.reward_infos[i].growth_global_x64 \in U128
          /\ tick_lower.reward_growths_outside[i] \in U128
          /\ tick_upper.reward_growths_outside[i] \in U128
      BY StateTypes
    <3> QED
      BY <1>1, <1>5, <1>6, <1>8, <3>1
  <2>4. RewardGrowthsInside(whirlpool.reward_infos) =
          [i \in RewardIndex |->
             GrowthInside(c, tick_lower, tick_upper, whirlpool.reward_infos[i].growth_global_x64,
                          tick_lower.reward_growths_outside[i],
                          tick_upper.reward_growths_outside[i])]
    BY <2>1, PendingRewards
  <2> HIDE DEF c, d
  <2> QED
    BY <2>2, <2>3, <2>4
<1> QED
  BY <1>2, <1>4, <1>7, <1>8

\* The same at the upper tick.
LEMMA CrossingUpper ==
  ASSUME IInv,
         \/ At("Inside") /\ CrossUpper("Right")
         \/ At("Above") /\ CrossUpper("Left")
  PROVE  /\ InRange' = ~InRange
         /\ position' = position
         /\ whirlpool'.fee_growth_global = whirlpool.fee_growth_global
         /\ whirlpool'.reward_infos = whirlpool.reward_infos
         /\ position.liquidity # 0 =>
              /\ FeeGrowthsInside' = FeeGrowthsInside
              /\ RewardGrowthsInside(whirlpool.reward_infos)'
                   = RewardGrowthsInside(whirlpool.reward_infos)
<1> DEFINE c == whirlpool.tick_current_index
           d == whirlpool'.tick_current_index
<1>1. PICK direction \in {"Left", "Right"}, loc \in DOMAIN CurrIndex :
        /\ MovePrice(tick_upper, direction, CurrIndex[loc])
        /\ tick_upper' = Crossed(tick_upper) /\ tick_lower' = tick_lower
        /\ \/ c = CurrIndex["Inside"] /\ loc = "Above"
           \/ c = CurrIndex["Above"] /\ loc = "Inside"
  <2>1. CASE At("Inside") /\ CrossUpper("Right")
    <3>1. /\ MovePrice(tick_upper, "Right", CurrIndex["Above"]) /\ c = CurrIndex["Inside"]
          /\ tick_upper' = Crossed(tick_upper) /\ tick_lower' = tick_lower
      BY <2>1 DEF CrossUpper, At
    <3>2. "Above" \in DOMAIN CurrIndex
      BY Places
    <3> QED
      BY <3>1, <3>2
  <2>2. CASE At("Above") /\ CrossUpper("Left")
    <3>1. /\ MovePrice(tick_upper, "Left", CurrIndex["Inside"]) /\ c = CurrIndex["Above"]
          /\ tick_upper' = Crossed(tick_upper) /\ tick_lower' = tick_lower
      BY <2>2 DEF CrossUpper, At
    <3>2. "Inside" \in DOMAIN CurrIndex
      BY Places
    <3> QED
      BY <3>1, <3>2
  <2> QED
    BY <2>1, <2>2
<1>2. /\ d = CurrIndex[loc]
      /\ whirlpool'.fee_growth_global = whirlpool.fee_growth_global
      /\ whirlpool'.reward_infos = whirlpool.reward_infos
      /\ position' = position
  BY <1>1, StateTypes, PoolAfterCross
<1>3. c \in Int /\ d \in Int
      /\ \/ TICK_LOWER_INDEX <= c /\ c < TICK_UPPER_INDEX /\ TICK_UPPER_INDEX <= d
         \/ TICK_LOWER_INDEX <= d /\ d < TICK_UPPER_INDEX /\ TICK_UPPER_INDEX <= c
  BY <1>1, <1>2, Places
<1>4. InRange' = ~InRange
  BY <1>3, FixtureAssumption DEF InRange
<1>5. ASSUME position.liquidity # 0, NEW g \in U128, NEW ol \in U128, NEW ou \in U128
      PROVE  GrowthInside(d, tick_lower', tick_upper', g, ol, WrapU128(g - ou))
               = GrowthInside(c, tick_lower, tick_upper, g, ol, ou)
  <2>1. tick_lower.initialized /\ tick_upper.initialized
    BY <1>5, TicksInUse
  <2>2. tick_upper'.initialized
    BY <1>1, <2>1, StateTypes, CrossedTick
  <2>3. g \in Int /\ ol \in Int /\ ou \in Int
    BY WordsAreIntegers
  <2> HIDE DEF c, d
  <2> QED
    BY <1>1, <1>3, <2>1, <2>2, <2>3, GrowthInsideAcrossUpper
<1>6. /\ \A x \in Token :
           tick_upper'.fee_growth_outside[x]
             = WrapU128(whirlpool.fee_growth_global[x] - tick_upper.fee_growth_outside[x])
      /\ \A i \in RewardIndex :
           tick_upper'.reward_growths_outside[i]
             = WrapU128(whirlpool.reward_infos[i].growth_global_x64
                        - tick_upper.reward_growths_outside[i])
  BY <1>1, StateTypes, CrossedTick
<1>7. ASSUME position.liquidity # 0
      PROVE  FeeGrowthsInside' = FeeGrowthsInside
  <2>1. FeeGrowthsInside' =
          [x \in Token |->
             GrowthInside(d, tick_lower', tick_upper', whirlpool.fee_growth_global[x],
                          tick_lower'.fee_growth_outside[x], tick_upper'.fee_growth_outside[x])]
    BY <1>2 DEF FeeGrowthsInside, next_fee_growths_inside, GrowthInside
  <2>2. ASSUME NEW x \in Token
        PROVE  GrowthInside(d, tick_lower', tick_upper', whirlpool.fee_growth_global[x],
                            tick_lower'.fee_growth_outside[x], tick_upper'.fee_growth_outside[x])
               = GrowthInside(c, tick_lower, tick_upper, whirlpool.fee_growth_global[x],
                              tick_lower.fee_growth_outside[x], tick_upper.fee_growth_outside[x])
    <3>1. /\ whirlpool.fee_growth_global[x] \in U128 /\ tick_lower.fee_growth_outside[x] \in U128
          /\ tick_upper.fee_growth_outside[x] \in U128
      BY StateTypes
    <3> QED
      BY <1>1, <1>5, <1>6, <1>7, <3>1
  <2> HIDE DEF c, d
  <2> QED
    BY <2>1, <2>2, PendingFees DEF c
<1>8. ASSUME position.liquidity # 0
      PROVE  RewardGrowthsInside(whirlpool.reward_infos)'
               = RewardGrowthsInside(whirlpool.reward_infos)
  <2>1. \A i \in RewardIndex : whirlpool.reward_infos[i].initialized
    BY DEF IInv
  <2>2. RewardGrowthsInside(whirlpool.reward_infos)' =
          [i \in RewardIndex |->
             GrowthInside(d, tick_lower', tick_upper', whirlpool.reward_infos[i].growth_global_x64,
                          tick_lower'.reward_growths_outside[i],
                          tick_upper'.reward_growths_outside[i])]
    BY <1>2, <2>1 DEF RewardGrowthsInside, next_reward_growths_inside, GrowthInside
  <2>3. ASSUME NEW i \in RewardIndex
        PROVE  GrowthInside(d, tick_lower', tick_upper',
                            whirlpool.reward_infos[i].growth_global_x64,
                            tick_lower'.reward_growths_outside[i],
                            tick_upper'.reward_growths_outside[i])
               = GrowthInside(c, tick_lower, tick_upper,
                              whirlpool.reward_infos[i].growth_global_x64,
                              tick_lower.reward_growths_outside[i],
                              tick_upper.reward_growths_outside[i])
    <3>1. /\ whirlpool.reward_infos[i].growth_global_x64 \in U128
          /\ tick_lower.reward_growths_outside[i] \in U128
          /\ tick_upper.reward_growths_outside[i] \in U128
      BY StateTypes
    <3> QED
      BY <1>1, <1>5, <1>6, <1>8, <3>1
  <2>4. RewardGrowthsInside(whirlpool.reward_infos) =
          [i \in RewardIndex |->
             GrowthInside(c, tick_lower, tick_upper, whirlpool.reward_infos[i].growth_global_x64,
                          tick_lower.reward_growths_outside[i],
                          tick_upper.reward_growths_outside[i])]
    BY <2>1, PendingRewards
  <2> HIDE DEF c, d
  <2> QED
    BY <2>2, <2>3, <2>4
<1> QED
  BY <1>2, <1>4, <1>7, <1>8

\* A crossing flips whether the price is in range and, for a position with
\* liquidity, leaves the growth inside the range as it was (tick_manager.rs:7).
LEMMA Crossing ==
  ASSUME IInv, CrossATick
  PROVE  /\ InRange' = ~InRange
         /\ position' = position
         /\ whirlpool'.fee_growth_global = whirlpool.fee_growth_global
         /\ whirlpool'.reward_infos = whirlpool.reward_infos
         /\ position.liquidity # 0 =>
              /\ FeeGrowthsInside' = FeeGrowthsInside
              /\ RewardGrowthsInside(whirlpool.reward_infos)'
                   = RewardGrowthsInside(whirlpool.reward_infos)
BY CrossingLower, CrossingUpper DEF CrossATick

-----------------------------------------------------------------------------
(* The fees *)

FeesPending == Pending(FeeGrowthsInside, position.fee_growth_checkpoint)

\* The abstract specification computes with the same words.
LEMMA FeesArithmetic ==
  /\ Fees!U128 = U128
  /\ Fees!Growths = [Token -> U128]
  /\ \A x : Fees!WrapU128(x) = WrapU128(x) /\ Fees!WrapU64(x) = WrapU64(x)
  /\ \A x : Fees!OrZero(x) = OrZero(x)
  /\ \A x, y : Fees!checked_mul_shift_right(x, y) = checked_mul_shift_right(x, y)
<1>1. Fees!TO_Q128 = TO_Q128
  BY DEF Fees!TO_Q128, TO_Q128
<1>2. Fees!U128 = U128 /\ Fees!U64 = U64 /\ Fees!Err = Err
  BY <1>1 DEF Fees!U128, U128, Fees!U64, U64, Fees!Err, Err
<1>3. \A x : Fees!WrapU128(x) = WrapU128(x) /\ Fees!WrapU64(x) = WrapU64(x)
  BY <1>1 DEF Fees!WrapU128, WrapU128, Fees!WrapU64, WrapU64
<1>4. \A n, d, up : Fees!DivRound(n, d, up) = DivRound(n, d, up)
  BY DEF Fees!DivRound, DivRound
<1>5. \A x, y : Fees!checked_mul_shift_right(x, y) = checked_mul_shift_right(x, y)
  BY <1>1, <1>2, <1>4
     DEF Fees!checked_mul_shift_right, checked_mul_shift_right,
         Fees!checked_mul_shift_right_round_up_if, checked_mul_shift_right_round_up_if,
         Fees!CheckU64, CheckU64
<1> QED
  BY <1>2, <1>3, <1>5 DEF Fees!Growths, Fees!OrZero, OrZero

\* What is pending of the fees is a u128.
LEMMA FeesPendingType ==
  ASSUME IInv
  PROVE  FeesPending \in [Token -> U128]
<1>1. ASSUME NEW x \in Token
      PROVE  PendingOne(position.liquidity, FeeGrowthsInside[x],
                        position.fee_growth_checkpoint[x]) \in U128
  <2>1. /\ position.liquidity \in U128 /\ FeeGrowthsInside[x] \in U128
        /\ position.fee_growth_checkpoint[x] \in U128
    BY StateTypes
  <2> QED
    BY <2>1, PendingType
<1> QED
  BY <1>1, PendingFees DEF FeesPending

\* A change of the position settles its fees.
LEMMA FeesSettle ==
  ASSUME IInv, IInv', NEW delta \in Int, NEW timestamp \in Nat, ModifyLiquidity(delta, timestamp)
  PROVE  Fees!Settle
<1>1. /\ whirlpool'.fee_growth_global = whirlpool.fee_growth_global
      /\ whirlpool'.tick_current_index = whirlpool.tick_current_index
  <2>1. whirlpool \in [tick_current_index : Int, liquidity : U128,
                       fee_growth_global : [Token -> U128],
                       reward_infos : [RewardIndex -> WhirlpoolRewardInfo],
                       reward_last_updated_timestamp : Nat]
    BY DEF IInv, TypeOK
  <2> QED
    BY <2>1 DEF ModifyLiquidity
<1>2. whirlpool'.fee_growth_global \in Fees!Growths
  BY <1>1, StateTypes, FeesArithmetic
<1>3. Fees!Accrued = FeesPending
  <2>1. ASSUME NEW x \in Token
        PROVE  (IF InRange /\ position.liquidity > 0
                THEN WrapU128(FeesPending[x] + whirlpool'.fee_growth_global[x]
                              - whirlpool.fee_growth_global[x])
                ELSE FeesPending[x]) = FeesPending[x]
    <3>1. FeesPending[x] \in U128 /\ whirlpool.fee_growth_global[x] \in U128
      BY StateTypes, FeesPendingType
    <3>2. FeesPending[x] + whirlpool'.fee_growth_global[x] - whirlpool.fee_growth_global[x]
            = FeesPending[x]
      BY <1>1, <3>1, WordsAreIntegers
    <3> QED
      BY <3>1, <3>2, WrapWord
  <2>2. Fees!Accrued = [x \in Token |->
          IF InRange /\ position.liquidity > 0
          THEN WrapU128(FeesPending[x] + whirlpool'.fee_growth_global[x]
                        - whirlpool.fee_growth_global[x])
          ELSE FeesPending[x]]
    BY FeesArithmetic DEF Fees!Accrued, FeesPending
  <2>3. FeesPending = [x \in Token |-> FeesPending[x]]
    BY FeesPendingType
  <2> QED
    BY <2>1, <2>2, <2>3
<1>4. position'.fee_owed =
        [x \in Token |->
           WrapU64(position.fee_owed[x]
                   + OrZero(checked_mul_shift_right(position.liquidity, FeesPending[x])))]
  <2>1. ASSUME NEW x \in Token
        PROVE  GrowthEarned(position.liquidity, FeeGrowthsInside[x],
                            position.fee_growth_checkpoint[x])
               = OrZero(checked_mul_shift_right(position.liquidity, FeesPending[x]))
    <3>1. /\ position.liquidity \in U128 /\ FeeGrowthsInside[x] \in U128
          /\ position.fee_growth_checkpoint[x] \in U128
      BY StateTypes
    <3>2. FeesPending[x] = PendingOne(position.liquidity, FeeGrowthsInside[x],
                                      position.fee_growth_checkpoint[x])
      BY PendingFees DEF FeesPending
    <3> QED
      BY <3>1, <3>2, EarnedIsPending
  <2> QED
    BY <2>1, PositionModified
<1>5. position'.liquidity \in U128
  BY DEF IInv, TypeOK
<1>6. FeesPending' = [x \in Token |-> 0]
  <2>1. FeesPending' =
          [x \in Token |-> PendingOne(position'.liquidity, FeeGrowthsInside'[x],
                                      FeeGrowthsInside[x])]
    <3>1. position'.fee_growth_checkpoint = FeeGrowthsInside
      BY PositionModified
    <3>2. FeeGrowthsInside' = [x \in Token |-> FeeGrowthsInside'[x]]
      BY DEF FeeGrowthsInside, next_fee_growths_inside
    <3> QED
      BY <3>1, <3>2 DEF FeesPending, Pending, PendingOne
  <2>2. ASSUME NEW x \in Token
        PROVE  PendingOne(position'.liquidity, FeeGrowthsInside'[x], FeeGrowthsInside[x]) = 0
    <3>1. CASE position'.liquidity = 0
      BY <3>1 DEF PendingOne
    <3>2. CASE position'.liquidity # 0
      <4>1. FeeGrowthsInside'[x] =
              GrowthInside(whirlpool.tick_current_index, tick_lower', tick_upper',
                           whirlpool.fee_growth_global[x], tick_lower'.fee_growth_outside[x],
                           tick_upper'.fee_growth_outside[x])
        BY <1>1 DEF FeeGrowthsInside, next_fee_growths_inside, GrowthInside
      <4>2. FeeGrowthsInside'[x] = FeeGrowthsInside[x]
        BY <3>2, <4>1, TicksAfterModify, PendingFees
      <4>3. FeeGrowthsInside[x] \in Int
        BY StateTypes, WordsAreIntegers
      <4> QED
        BY <4>2, <4>3, NothingPending
    <3> QED
      BY <3>1, <3>2
  <2> QED
    BY <2>1, <2>2
<1>7. InRange' = InRange
  BY <1>1 DEF InRange
<1> QED
  BY <1>2, <1>3, <1>4, <1>5, <1>6, <1>7, FeesArithmetic DEF Fees!Settle, FeesPending

\* Growth of the pool accrues to the position.
LEMMA FeesAccrue ==
  ASSUME IInv, NEW a \in FeeIncrements, NEW b \in FeeIncrements,
         increment_whirlpool_fee_growths(a, b), ops' \in Nat
  PROVE  Fees!Accrue
<1>1. whirlpool'.fee_growth_global \in [Token -> U128]
  BY AccrueFeesKeepsIInv
<1>2. UNCHANGED <<position, tick_lower, tick_upper, whirlpool.tick_current_index>>
  <2>1. whirlpool \in [tick_current_index : Int, liquidity : U128,
                       fee_growth_global : [Token -> U128],
                       reward_infos : [RewardIndex -> WhirlpoolRewardInfo],
                       reward_last_updated_timestamp : Nat]
    BY DEF IInv, TypeOK
  <2> QED
    BY <2>1 DEF increment_whirlpool_fee_growths
<1>3. FeesPending' = Fees!Accrued
  <2> DEFINE c == whirlpool.tick_current_index
  <2>1. FeesPending' =
          [x \in Token |->
             PendingOne(position.liquidity,
                        GrowthInside(c, tick_lower, tick_upper, whirlpool'.fee_growth_global[x],
                                     tick_lower.fee_growth_outside[x],
                                     tick_upper.fee_growth_outside[x]),
                        position.fee_growth_checkpoint[x])]
    BY <1>2 DEF FeesPending, Pending, PendingOne, FeeGrowthsInside, next_fee_growths_inside,
                GrowthInside
  <2>2. Fees!Accrued = [x \in Token |->
          IF InRange /\ position.liquidity > 0
          THEN WrapU128(FeesPending[x] + whirlpool'.fee_growth_global[x]
                        - whirlpool.fee_growth_global[x])
          ELSE FeesPending[x]]
    BY FeesArithmetic DEF Fees!Accrued, FeesPending
  <2>3. ASSUME NEW x \in Token
        PROVE  PendingOne(position.liquidity,
                          GrowthInside(c, tick_lower, tick_upper, whirlpool'.fee_growth_global[x],
                                       tick_lower.fee_growth_outside[x],
                                       tick_upper.fee_growth_outside[x]),
                          position.fee_growth_checkpoint[x])
               = IF InRange /\ position.liquidity > 0
                 THEN WrapU128(FeesPending[x] + whirlpool'.fee_growth_global[x]
                               - whirlpool.fee_growth_global[x])
                 ELSE FeesPending[x]
    <3>1. FeesPending[x] =
            PendingOne(position.liquidity,
                       GrowthInside(c, tick_lower, tick_upper, whirlpool.fee_growth_global[x],
                                    tick_lower.fee_growth_outside[x],
                                    tick_upper.fee_growth_outside[x]),
                       position.fee_growth_checkpoint[x])
      BY PendingFees DEF FeesPending
    <3>2. /\ whirlpool.fee_growth_global[x] \in U128 /\ whirlpool'.fee_growth_global[x] \in U128
          /\ tick_lower.fee_growth_outside[x] \in U128
          /\ tick_upper.fee_growth_outside[x] \in U128
          /\ position.fee_growth_checkpoint[x] \in U128
      BY <1>1, StateTypes
    <3> QED
      BY <3>1, <3>2, PendingAccrues
  <2> HIDE DEF c
  <2> QED
    BY <2>1, <2>2, <2>3
<1>4. InRange' = InRange
  BY <1>2 DEF InRange
<1> QED
  BY <1>1, <1>2, <1>3, <1>4, FeesArithmetic DEF Fees!Accrue, FeesPending

\* The price enters or leaves the range, and nothing else changes.
LEMMA FeesEnterOrLeave ==
  ASSUME IInv, CrossATick
  PROVE  Fees!EnterOrLeave
<1>1. /\ InRange' = ~InRange /\ position' = position
      /\ whirlpool'.fee_growth_global = whirlpool.fee_growth_global
      /\ position.liquidity # 0 => FeeGrowthsInside' = FeeGrowthsInside
  BY Crossing
<1>2. FeesPending' = FeesPending
  <2>1. CASE position.liquidity = 0
    BY <1>1, <2>1 DEF FeesPending, Pending, FeeGrowthsInside, next_fee_growths_inside
  <2>2. CASE position.liquidity # 0
    BY <1>1, <2>2 DEF FeesPending, Pending
  <2> QED
    BY <2>1, <2>2
<1> QED
  BY <1>1, <1>2 DEF Fees!EnterOrLeave, FeesPending

\* Rewards are none of the fees' business.
LEMMA FeesStutter ==
  ASSUME IInv, NEW seconds \in Seconds, increment_whirlpool_reward_growths_by_time(seconds)
  PROVE  UNCHANGED Fees!vars
<1>1. /\ whirlpool'.fee_growth_global = whirlpool.fee_growth_global
      /\ whirlpool'.tick_current_index = whirlpool.tick_current_index
      /\ UNCHANGED <<position, tick_lower, tick_upper>>
  <2>1. whirlpool \in [tick_current_index : Int, liquidity : U128,
                       fee_growth_global : [Token -> U128],
                       reward_infos : [RewardIndex -> WhirlpoolRewardInfo],
                       reward_last_updated_timestamp : Nat]
    BY DEF IInv, TypeOK
  <2> QED
    BY <2>1 DEF increment_whirlpool_reward_growths_by_time
<1> QED
  BY <1>1 DEF Fees!vars, InRange, Pending, FeeGrowthsInside, next_fee_growths_inside

\* Initially nothing is pending or owed: an initial state of the accounting of
\* fees.
LEMMA FeesInit ==
  ASSUME Init, IInv
  PROVE  Fees!Init
<1>1. /\ position.liquidity = 0 /\ position.fee_owed = [x \in Token |-> 0]
  BY DEF Init, PositionWith
<1>2. FeesPending = [x \in Token |-> 0]
  BY <1>1 DEF FeesPending, Pending, FeeGrowthsInside, next_fee_growths_inside
<1>3. whirlpool.fee_growth_global \in [Token -> U128] /\ 0 \in U128
  BY StateTypes, Widths DEF U128
<1>4. InRange \in BOOLEAN
  BY DEF InRange
<1> QED
  BY <1>1, <1>2, <1>3, <1>4, FeesArithmetic DEF Fees!Init, FeesPending

-----------------------------------------------------------------------------
(* The rewards *)

RewardsPending ==
  Pending(RewardGrowthsInside(whirlpool.reward_infos), position.growth_inside_checkpoint)

RewardGrowths == [i \in RewardIndex |-> whirlpool.reward_infos[i].growth_global_x64]

\* The abstract accounting computes with the fixture's own words.
LEMMA RewardsArithmetic ==
  /\ Rewards!U128 = U128
  /\ Rewards!Growths = [RewardIndex -> U128]
  /\ \A x : Rewards!WrapU128(x) = WrapU128(x) /\ Rewards!WrapU64(x) = WrapU64(x)
  /\ \A x : Rewards!OrZero(x) = OrZero(x)
  /\ \A x, y : Rewards!checked_mul_shift_right(x, y) = checked_mul_shift_right(x, y)
<1>1. Rewards!TO_Q128 = TO_Q128
  BY DEF Rewards!TO_Q128, TO_Q128
<1>2. Rewards!U128 = U128 /\ Rewards!U64 = U64 /\ Rewards!Err = Err
  BY <1>1 DEF Rewards!U128, U128, Rewards!U64, U64, Rewards!Err, Err
<1>3. \A x : Rewards!WrapU128(x) = WrapU128(x) /\ Rewards!WrapU64(x) = WrapU64(x)
  BY <1>1 DEF Rewards!WrapU128, WrapU128, Rewards!WrapU64, WrapU64
<1>4. \A n, d, up : Rewards!DivRound(n, d, up) = DivRound(n, d, up)
  BY DEF Rewards!DivRound, DivRound
<1>5. \A x, y : Rewards!checked_mul_shift_right(x, y) = checked_mul_shift_right(x, y)
  BY <1>1, <1>2, <1>4
     DEF Rewards!checked_mul_shift_right, checked_mul_shift_right,
         Rewards!checked_mul_shift_right_round_up_if, checked_mul_shift_right_round_up_if,
         Rewards!CheckU64, CheckU64
<1> QED
  BY <1>2, <1>3, <1>5 DEF Rewards!Growths, Rewards!OrZero, OrZero

\* What is pending of a reward whose accumulator has been brought forward.
RewardPendingAt(i, growth) ==
  PendingOne(position.liquidity,
             GrowthInside(whirlpool.tick_current_index, tick_lower, tick_upper, growth,
                          tick_lower.reward_growths_outside[i],
                          tick_upper.reward_growths_outside[i]),
             position.growth_inside_checkpoint[i])

\* That is what the abstract specification accrues.
LEMMA RewardsAccrued ==
  ASSUME IInv, NEW growths \in [RewardIndex -> U128], RewardGrowths' = growths
  PROVE  /\ RewardsPending = [i \in RewardIndex |-> RewardPendingAt(i, RewardGrowths[i])]
         /\ Rewards!Accrued = [i \in RewardIndex |-> RewardPendingAt(i, growths[i])]
<1>1. \A i \in RewardIndex : whirlpool.reward_infos[i].initialized
  BY DEF IInv
<1>2. RewardsPending = [i \in RewardIndex |-> RewardPendingAt(i, RewardGrowths[i])]
  <2> DEFINE inside == RewardGrowthsInside(whirlpool.reward_infos)
  <2>1. /\ inside =
             [i \in RewardIndex |->
                GrowthInside(whirlpool.tick_current_index, tick_lower, tick_upper,
                             whirlpool.reward_infos[i].growth_global_x64,
                             tick_lower.reward_growths_outside[i],
                             tick_upper.reward_growths_outside[i])]
        /\ RewardsPending = [i \in RewardIndex |->
                               PendingOne(position.liquidity, inside[i],
                                          position.growth_inside_checkpoint[i])]
    BY <1>1, PendingRewards DEF RewardsPending
  <2>2. \A i \in RewardIndex : RewardGrowths[i] = whirlpool.reward_infos[i].growth_global_x64
    BY DEF RewardGrowths
  <2> HIDE DEF inside
  <2> QED
    BY <2>1, <2>2 DEF RewardPendingAt
<1>3. Rewards!Accrued =
        [i \in RewardIndex |->
           IF InRange /\ position.liquidity > 0
           THEN WrapU128(RewardsPending[i] + growths[i] - RewardGrowths[i])
           ELSE RewardsPending[i]]
  BY RewardsArithmetic DEF Rewards!Accrued, RewardsPending, RewardGrowths
<1>4. ASSUME NEW i \in RewardIndex
      PROVE  RewardPendingAt(i, growths[i])
               = IF InRange /\ position.liquidity > 0
                 THEN WrapU128(RewardsPending[i] + growths[i] - RewardGrowths[i])
                 ELSE RewardsPending[i]
  <2>1. /\ RewardGrowths[i] \in U128 /\ growths[i] \in U128
        /\ tick_lower.reward_growths_outside[i] \in U128
        /\ tick_upper.reward_growths_outside[i] \in U128
        /\ position.growth_inside_checkpoint[i] \in U128
    BY StateTypes DEF RewardGrowths
  <2> QED
    BY <1>2, <2>1, PendingAccrues DEF RewardPendingAt
<1> QED
  BY <1>2, <1>3, <1>4

\* What a step at which time passes for the rewards does to them.
LEMMA RewardsForward ==
  ASSUME IInv, NEW timestamp \in Nat, timestamp >= whirlpool.reward_last_updated_timestamp,
         whirlpool'.reward_infos = RewardInfosAt(timestamp)
  PROVE  /\ RewardGrowths' \in [RewardIndex -> U128]
         /\ \A i \in RewardIndex :
              /\ RewardGrowths'[i] = RewardInfosAt(timestamp)[i].growth_global_x64
              /\ RewardInfosAt(timestamp)[i].initialized
              /\ RewardGrowthsInside(RewardInfosAt(timestamp))[i]
                   = GrowthInside(whirlpool.tick_current_index, tick_lower, tick_upper,
                                  RewardInfosAt(timestamp)[i].growth_global_x64,
                                  tick_lower.reward_growths_outside[i],
                                  tick_upper.reward_growths_outside[i])
<1>1. \A i \in RewardIndex : /\ RewardInfosAt(timestamp)[i].initialized = TRUE
                             /\ RewardInfosAt(timestamp)[i].growth_global_x64 \in U128
  BY RewardsBroughtForward
<1>2. RewardGrowths' = [i \in RewardIndex |-> RewardInfosAt(timestamp)[i].growth_global_x64]
  BY DEF RewardGrowths
<1> DEFINE infos == RewardInfosAt(timestamp)
<1> HIDE DEF infos
<1>3. RewardGrowthsInside(infos) =
              [i \in RewardIndex |->
                 GrowthInside(whirlpool.tick_current_index, tick_lower, tick_upper,
                              infos[i].growth_global_x64, tick_lower.reward_growths_outside[i],
                              tick_upper.reward_growths_outside[i])]
  <2>1. \A i \in RewardIndex : infos[i].initialized
    BY <1>1 DEF infos
  <2> QED
    BY <2>1, PendingRewards
<1> QED
  BY <1>1, <1>2, <1>3 DEF infos

\* A change of the position settles its rewards, brought forward to its time.
LEMMA RewardsSettle ==
  ASSUME IInv, IInv', NEW delta \in Int, NEW timestamp \in Nat, ModifyLiquidity(delta, timestamp)
  PROVE  Rewards!Settle
<1> DEFINE infos  == RewardInfosAt(timestamp)
           inside == RewardGrowthsInside(infos)
<1>1. /\ whirlpool'.reward_infos = infos
      /\ whirlpool'.tick_current_index = whirlpool.tick_current_index
  <2>1. whirlpool \in [tick_current_index : Int, liquidity : U128,
                       fee_growth_global : [Token -> U128],
                       reward_infos : [RewardIndex -> WhirlpoolRewardInfo],
                       reward_last_updated_timestamp : Nat]
    BY DEF IInv, TypeOK
  <2> QED
    BY <2>1 DEF ModifyLiquidity
<1>2. /\ RewardGrowths' \in [RewardIndex -> U128]
      /\ \A i \in RewardIndex :
           /\ RewardGrowths'[i] = infos[i].growth_global_x64
           /\ infos[i].initialized
           /\ inside[i] = GrowthInside(whirlpool.tick_current_index, tick_lower, tick_upper,
                                       infos[i].growth_global_x64,
                                       tick_lower.reward_growths_outside[i],
                                       tick_upper.reward_growths_outside[i])
  BY <1>1, PositionModified, RewardsForward
<1>3. inside \in [RewardIndex -> U128]
  BY PositionModified, RewardsBroughtForward
<1>4. /\ position'.growth_inside_checkpoint = inside
      /\ position'.amount_owed =
           [i \in RewardIndex |->
              WrapU64(position.amount_owed[i]
                      + GrowthEarned(position.liquidity, inside[i],
                                     position.growth_inside_checkpoint[i]))]
  BY PositionModified
<1> HIDE DEF infos, inside
<1>5. Rewards!Accrued = [i \in RewardIndex |->
                           PendingOne(position.liquidity, inside[i],
                                      position.growth_inside_checkpoint[i])]
  <2>1. Rewards!Accrued = [i \in RewardIndex |-> RewardPendingAt(i, RewardGrowths'[i])]
    BY <1>2, RewardsAccrued
  <2> QED
    BY <1>2, <2>1 DEF RewardPendingAt
<1>6. position'.amount_owed =
        [i \in RewardIndex |->
           WrapU64(position.amount_owed[i]
                   + OrZero(checked_mul_shift_right(position.liquidity, Rewards!Accrued[i])))]
  <2>1. ASSUME NEW i \in RewardIndex
        PROVE  GrowthEarned(position.liquidity, inside[i], position.growth_inside_checkpoint[i])
               = OrZero(checked_mul_shift_right(position.liquidity, Rewards!Accrued[i]))
    <3>1. /\ position.liquidity \in U128 /\ inside[i] \in U128
          /\ position.growth_inside_checkpoint[i] \in U128
      BY <1>3, StateTypes
    <3>2. Rewards!Accrued[i] = PendingOne(position.liquidity, inside[i],
                                          position.growth_inside_checkpoint[i])
      BY <1>5
    <3> QED
      BY <3>1, <3>2, EarnedIsPending
  <2> QED
    BY <1>4, <2>1
<1>7. RewardsPending' = [i \in RewardIndex |-> 0]
  <2> DEFINE after == RewardGrowthsInside(whirlpool.reward_infos)'
  <2>1. after = [i \in RewardIndex |->
                   GrowthInside(whirlpool.tick_current_index, tick_lower', tick_upper',
                                infos[i].growth_global_x64,
                                tick_lower'.reward_growths_outside[i],
                                tick_upper'.reward_growths_outside[i])]
    BY <1>1, <1>2 DEF RewardGrowthsInside, next_reward_growths_inside, GrowthInside
  <2>2. RewardsPending' =
          [i \in RewardIndex |-> PendingOne(position'.liquidity, after[i], inside[i])]
    <3>1. RewardsPending' = [i \in DOMAIN after |->
                               PendingOne(position'.liquidity, after[i],
                                          position'.growth_inside_checkpoint[i])]
      BY DEF RewardsPending, Pending, PendingOne
    <3> HIDE DEF after
    <3> QED
      BY <1>4, <2>1, <3>1
  <2> HIDE DEF after
  <2>3. ASSUME NEW i \in RewardIndex
        PROVE  PendingOne(position'.liquidity, after[i], inside[i]) = 0
    <3>1. CASE position'.liquidity = 0
      BY <3>1 DEF PendingOne
    <3>2. CASE position'.liquidity # 0
      <4>1. after[i] = inside[i]
        BY <1>2, <2>1, <3>2, TicksAfterModify DEF infos
      <4>2. inside[i] \in Int
        BY <1>3, WordsAreIntegers
      <4> QED
        BY <4>1, <4>2, NothingPending
    <3> QED
      BY <3>1, <3>2
  <2> QED
    BY <2>2, <2>3
<1>8. InRange' = InRange
  BY <1>1 DEF InRange
<1>9. position'.liquidity \in U128
  BY DEF IInv, TypeOK
<1> QED
  BY <1>2, <1>6, <1>7, <1>8, <1>9, RewardsArithmetic
     DEF Rewards!Settle, RewardsPending, RewardGrowths

\* The rewards accrue as time passes.
LEMMA RewardsAccrue ==
  ASSUME IInv, NEW seconds \in Nat, increment_whirlpool_reward_growths_by_time(seconds)
  PROVE  Rewards!Accrue
<1> DEFINE timestamp == whirlpool.reward_last_updated_timestamp + seconds
           infos == RewardInfosAt(timestamp)
<1>1. timestamp \in Nat /\ timestamp >= whirlpool.reward_last_updated_timestamp
  BY StateTypes
<1>2. /\ whirlpool'.reward_infos = infos
      /\ whirlpool'.tick_current_index = whirlpool.tick_current_index
      /\ UNCHANGED <<position, tick_lower, tick_upper>>
  <2>1. whirlpool \in [tick_current_index : Int, liquidity : U128,
                       fee_growth_global : [Token -> U128],
                       reward_infos : [RewardIndex -> WhirlpoolRewardInfo],
                       reward_last_updated_timestamp : Nat]
    BY DEF IInv, TypeOK
  <2> QED
    BY <2>1 DEF increment_whirlpool_reward_growths_by_time
<1> HIDE DEF timestamp
<1>3. /\ RewardGrowths' \in [RewardIndex -> U128]
      /\ \A i \in RewardIndex : /\ RewardGrowths'[i] = infos[i].growth_global_x64
                                /\ infos[i].initialized
  BY <1>1, <1>2, RewardsForward
<1> HIDE DEF infos
<1>4. Rewards!Accrued = [i \in RewardIndex |-> RewardPendingAt(i, RewardGrowths'[i])]
  BY <1>3, RewardsAccrued
<1>5. RewardsPending' = [i \in RewardIndex |-> RewardPendingAt(i, RewardGrowths'[i])]
  <2> DEFINE after == RewardGrowthsInside(whirlpool.reward_infos)'
  <2>1. after = [i \in RewardIndex |->
                   GrowthInside(whirlpool.tick_current_index, tick_lower, tick_upper,
                                infos[i].growth_global_x64,
                                tick_lower.reward_growths_outside[i],
                                tick_upper.reward_growths_outside[i])]
    BY <1>2, <1>3 DEF RewardGrowthsInside, next_reward_growths_inside, GrowthInside
  <2>2. RewardsPending' = [i \in DOMAIN after |->
                             PendingOne(position.liquidity, after[i],
                                        position.growth_inside_checkpoint[i])]
    BY <1>2 DEF RewardsPending, Pending, PendingOne
  <2> HIDE DEF after
  <2> QED
    BY <1>3, <2>1, <2>2 DEF RewardPendingAt
<1>6. InRange' = InRange
  BY <1>2 DEF InRange
<1> QED
  BY <1>2, <1>3, <1>4, <1>5, <1>6, RewardsArithmetic
     DEF Rewards!Accrue, RewardsPending, RewardGrowths

\* The price enters or leaves the range, and nothing else changes.
LEMMA RewardsEnterOrLeave ==
  ASSUME IInv, CrossATick
  PROVE  Rewards!EnterOrLeave
<1>1. /\ InRange' = ~InRange /\ position' = position
      /\ whirlpool'.reward_infos = whirlpool.reward_infos
      /\ position.liquidity # 0 => RewardGrowthsInside(whirlpool.reward_infos)'
                                      = RewardGrowthsInside(whirlpool.reward_infos)
  BY Crossing
<1>2. RewardsPending' = RewardsPending
  <2>1. CASE position.liquidity = 0
    BY <1>1, <2>1 DEF RewardsPending, Pending, RewardGrowthsInside, next_reward_growths_inside
  <2>2. CASE position.liquidity # 0
    BY <1>1, <2>2 DEF RewardsPending, Pending
  <2> QED
    BY <2>1, <2>2
<1> QED
  BY <1>1, <1>2 DEF Rewards!EnterOrLeave, RewardsPending

\* Fees are none of the rewards' business.
LEMMA RewardsStutter ==
  ASSUME IInv, NEW a \in FeeIncrements, NEW b \in FeeIncrements,
         increment_whirlpool_fee_growths(a, b)
  PROVE  UNCHANGED Rewards!vars
<1>1. /\ whirlpool'.reward_infos = whirlpool.reward_infos
      /\ whirlpool'.tick_current_index = whirlpool.tick_current_index
      /\ UNCHANGED <<position, tick_lower, tick_upper>>
  <2>1. whirlpool \in [tick_current_index : Int, liquidity : U128,
                       fee_growth_global : [Token -> U128],
                       reward_infos : [RewardIndex -> WhirlpoolRewardInfo],
                       reward_last_updated_timestamp : Nat]
    BY DEF IInv, TypeOK
  <2> QED
    BY <2>1 DEF increment_whirlpool_fee_growths
<1> QED
  BY <1>1 DEF Rewards!vars, InRange, Pending, RewardGrowthsInside, next_reward_growths_inside

\* Initially nothing is pending or owed of the rewards either.
LEMMA RewardsInit ==
  ASSUME Init, IInv
  PROVE  Rewards!Init
<1>1. /\ position.liquidity = 0 /\ position.amount_owed = [i \in RewardIndex |-> 0]
  BY DEF Init, PositionWith
<1>2. RewardsPending = [i \in RewardIndex |-> 0]
  BY <1>1 DEF RewardsPending, Pending, RewardGrowthsInside, next_reward_growths_inside
<1>3. RewardGrowths \in [RewardIndex -> U128]
  BY StateTypes DEF RewardGrowths
<1>4. InRange \in BOOLEAN /\ position.liquidity \in U128
  BY StateTypes DEF InRange
<1>5. [i \in RewardIndex |-> 0] \in [RewardIndex -> U128]
  <2>1. 0 \in U128
    BY Widths DEF U128
  <2> QED
    BY <2>1
<1> QED
  BY <1>1, <1>2, <1>3, <1>4, <1>5, RewardsArithmetic DEF Rewards!Init, RewardsPending, RewardGrowths

-----------------------------------------------------------------------------
(* The fixture implements the abstract specification, for the fees and for  *)
(* the rewards                                                              *)

\* What a step is.
LEMMA Steps ==
  ASSUME IInv, Next
  PROVE  /\ ops' \in Nat
         /\ \/ \E delta \in Int, timestamp \in Nat : ModifyLiquidity(delta, timestamp)
            \/ AccrueFees \/ AccrueRewards \/ CrossATick
<1>1. ops' \in Nat
  BY DEF IInv, TypeOK, Next
<1>2. ASSUME ModifyPosition
      PROVE  \E delta \in Int, timestamp \in Nat : ModifyLiquidity(delta, timestamp)
  <2>1. PICK delta \in LiquidityDeltas, seconds \in Seconds :
          ModifyLiquidity(delta, whirlpool.reward_last_updated_timestamp + seconds)
    BY <1>2 DEF ModifyPosition
  <2>2. delta \in Int /\ seconds \in Nat
    BY FixtureAssumption, WordsAreIntegers
  <2>3. whirlpool.reward_last_updated_timestamp + seconds \in Nat
    BY <2>2, StateTypes
  <2> QED
    BY <2>1, <2>2, <2>3
<1> QED
  BY <1>1, <1>2 DEF Next

\* Every step of the fixture keeps the invariant.
LEMMA IInvStep == IInv /\ [Next]_vars => IInv'
<1> SUFFICES ASSUME IInv, [Next]_vars PROVE IInv'
  OBVIOUS
<1>1. ASSUME Next PROVE IInv'
  <2>1. ops' \in Nat
    BY <1>1, Steps
  <2>2. ASSUME NEW delta \in Int, NEW timestamp \in Nat, ModifyLiquidity(delta, timestamp)
        PROVE  IInv'
    BY <2>1, <2>2, ModifyKeepsIInv
  <2>3. CASE AccrueFees
    BY <2>1, <2>3, AccrueFeesKeepsIInv DEF AccrueFees
  <2>4. CASE AccrueRewards
    BY <2>1, <2>4, AccrueRewardsKeepsIInv DEF AccrueRewards
  <2>5. CASE CrossATick
    BY <2>1, <2>5, CrossKeepsIInv
  <2> QED
    BY <1>1, <2>2, <2>3, <2>4, <2>5, Steps
<1>2. CASE UNCHANGED vars
  BY <1>2 DEF vars, fixture, IInv, TypeOK, At, CurrIndex, Holds, GrossTells
<1> QED
  BY <1>1, <1>2

\* So it holds in every reachable state.
LEMMA Invariance == Spec => []IInv
BY IInvInit, IInvStep, PTL DEF Spec

\* Every step of the fixture is one of the accounting of fees, or changes nothing
\* of it.
LEMMA FeesStep == IInv /\ [Next]_vars => [Fees!Next]_(Fees!vars)
<1> SUFFICES ASSUME IInv, [Next]_vars PROVE [Fees!Next]_(Fees!vars)
  OBVIOUS
<1>1. IInv'
  BY IInvStep
<1>2. ASSUME Next PROVE Fees!Next \/ UNCHANGED Fees!vars
  <2>1. ops' \in Nat
    BY <1>2, Steps
  <2>2. ASSUME NEW delta \in Int, NEW timestamp \in Nat, ModifyLiquidity(delta, timestamp)
        PROVE  Fees!Settle
    BY <1>1, <2>2, FeesSettle
  <2>3. CASE AccrueFees
    BY <2>1, <2>3, FeesAccrue DEF AccrueFees, Fees!Next
  <2>4. CASE AccrueRewards
    BY <2>4, FeesStutter DEF AccrueRewards
  <2>5. CASE CrossATick
    BY <2>5, FeesEnterOrLeave DEF Fees!Next
  <2>6. CASE \E delta \in Int, timestamp \in Nat : ModifyLiquidity(delta, timestamp)
    BY <2>2, <2>6 DEF Fees!Next
  <2> QED
    BY <1>2, <2>3, <2>4, <2>5, <2>6, Steps
<1>3. CASE UNCHANGED vars
  <2>1. UNCHANGED <<whirlpool, position, tick_lower, tick_upper>>
    BY <1>3 DEF vars, fixture
  <2>2. UNCHANGED Fees!vars
    BY <2>1 DEF Fees!vars, InRange, Pending, FeeGrowthsInside, next_fee_growths_inside
  <2> QED
    BY <2>2
<1> QED
  BY <1>2, <1>3

\* And so it is with the accounting of rewards.
LEMMA RewardsStep == IInv /\ [Next]_vars => [Rewards!Next]_(Rewards!vars)
<1> SUFFICES ASSUME IInv, [Next]_vars PROVE [Rewards!Next]_(Rewards!vars)
  OBVIOUS
<1>1. IInv'
  BY IInvStep
<1>2. ASSUME Next PROVE Rewards!Next \/ UNCHANGED Rewards!vars
  <2>2. ASSUME NEW delta \in Int, NEW timestamp \in Nat, ModifyLiquidity(delta, timestamp)
        PROVE  Rewards!Settle
    BY <1>1, <2>2, RewardsSettle
  <2>3. CASE AccrueFees
    BY <2>3, RewardsStutter DEF AccrueFees
  <2>4. CASE AccrueRewards
    <3>1. PICK seconds \in Seconds : increment_whirlpool_reward_growths_by_time(seconds)
      BY <2>4 DEF AccrueRewards
    <3>2. seconds \in Nat
      BY FixtureAssumption, WordsAreIntegers
    <3> QED
      BY <3>1, <3>2, RewardsAccrue DEF Rewards!Next
  <2>5. CASE CrossATick
    BY <2>5, RewardsEnterOrLeave DEF Rewards!Next
  <2>6. CASE \E delta \in Int, timestamp \in Nat : ModifyLiquidity(delta, timestamp)
    BY <2>2, <2>6 DEF Rewards!Next
  <2> QED
    BY <1>2, <2>3, <2>4, <2>5, <2>6, Steps
<1>3. CASE UNCHANGED vars
  <2>1. UNCHANGED <<whirlpool, position, tick_lower, tick_upper>>
    BY <1>3 DEF vars, fixture
  <2>2. UNCHANGED Rewards!vars
    BY <2>1 DEF Rewards!vars, InRange, Pending, RewardGrowthsInside, next_reward_growths_inside
  <2> QED
    BY <2>2
<1> QED
  BY <1>2, <1>3

\* The pool, the position and its ticks hold words of their widths: the checks of
\* a change of liquidity (tick_manager.rs:40-91) and the wrapping of growths and
\* of what is owed keep every number inside its type.
THEOREM TypeCorrect == Spec => []TypeOK
<1>1. IInv => TypeOK
  BY DEF IInv
<1> QED
  BY <1>1, Invariance, PTL

\* Whatever the growth outside the two ticks was when they were initialized, and
\* however often they have been crossed, a position is paid the fees that accrued
\* while the price was in its range (tick_manager.rs:7-142,
\* position_manager.rs:16-33).
THEOREM FeesAccounting == Spec => FeesPaidAsAccrued
<1>1. Init => Fees!Init
  BY IInvInit, FeesInit
<1> QED
  BY <1>1, FeesStep, Invariance, PTL DEF Spec, FeesPaidAsAccrued, Fees!Spec

\* The same of its rewards, which a change of the position brings forward to its
\* time before it settles them (liquidity_manager.rs:96-158).
THEOREM RewardsAccounting == Spec => RewardsPaidAsAccrued
<1>1. Init => Rewards!Init
  BY IInvInit, RewardsInit
<1> QED
  BY <1>1, RewardsStep, Invariance, PTL DEF Spec, RewardsPaidAsAccrued, Rewards!Spec
=============================================================================
