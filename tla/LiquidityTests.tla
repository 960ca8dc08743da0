----------------------------- MODULE LiquidityTests -----------------------------
(***************************************************************************)
(* The unit tests of the liquidity manager                                 *)
(* (manager/liquidity_manager.rs:233-3601) as behaviours of module         *)
(* LiquidityFixture: each is a fixture and the steps taken from it, some   *)
(* of which state what must hold by then.  They are how the model is held  *)
(* to what the program's authors expect of the code.                       *)
(*                                                                         *)
(* A number in Q64.64 is stated as the comments beside it state it, so     *)
(* that it means the same for any TO_Q64.  In the tests of overflow the    *)
(* liquidity, the emissions and the amounts owed are a tenth of the        *)
(* code's, so that the amounts fit the words TLC can hold.                 *)
(*                                                                         *)
(* The tests' names tell where the price is (below, inside or above the    *)
(* range) and whether the position's liquidity, the lower and the upper    *)
(* tick were there before (o or x) and are there afterwards.               *)
(***************************************************************************)
EXTENDS LiquidityFixture, Sequences

VARIABLE test              \* the test that runs; ops counts its steps

to_x64(n)   == n * TO_Q64
Share(n, d) == to_x64(n) \div d
Wrapped(x)  == x % TO_Q128
BelowMax(n) == TO_Q128 - 1 - to_x64(n)

Test(start, steps) == [start |-> start, steps |-> steps]

Fixture(loc, liquidity, position_liquidity, lower_gross, upper_gross, a, b, emissions, reward) ==
  [whirlpool  |-> PoolWith(CurrIndex[loc], liquidity, a, b,
                           create_whirlpool_reward_infos(emissions, reward)),
   position   |-> PositionWith(position_liquidity),
   tick_lower |-> TickWith(lower_gross, lower_gross, 0, 0, 0),
   tick_upper |-> TickWith(upper_gross, -upper_gross, 0, 0, 0)]

\* The growths outside the ticks, for the tokens and for the rewards.
WithOutside(f, timestamp, lower, upper) ==
  [f EXCEPT
     !.whirlpool.reward_last_updated_timestamp = timestamp,
     !.tick_lower = TickWith(@.liquidity_gross, @.liquidity_net, lower[1], lower[2], lower[3]),
     !.tick_upper = TickWith(@.liquidity_gross, @.liquidity_net, upper[1], upper[2], upper[3])]

\* Steps.
Modify(delta, timestamp) == [do |-> "modify", delta |-> delta, timestamp |-> timestamp]
FeesGrow(a, b)           == [do |-> "fees", a |-> a, b |-> b]
RewardsGrow(seconds)     == [do |-> "rewards", seconds |-> seconds]
Cross(tick, direction)   == [do |-> "cross", tick |-> tick, direction |-> direction]

\* Steps that state what must hold.
TickOf(gross, net, a, b, reward) == TickWith(gross, net, a, b, reward)

Expect(fields) == [do |-> "expect", fields |-> fields]

WhirlpoolIs(liquidity, reward) == Expect([liquidity |-> liquidity, reward_growth |-> reward])
LiquidityIs(liquidity)         == Expect([liquidity |-> liquidity])
RewardGrowthIs(reward)         == Expect([reward_growth |-> reward])
FeeGrowthIs(growth)            == Expect([fee_growth |-> growth])
TicksAre(lower, upper)         == Expect([tick_lower |-> lower, tick_upper |-> upper])
TickIs(tick, value)            ==
  Expect(IF tick = "Lower" THEN [tick_lower |-> value] ELSE [tick_upper |-> value])

PositionIs(liquidity, a, b, reward, owed_a, owed_b, amount_owed) ==
  Expect([position |->
    [liquidity |-> liquidity,
     fee_growth_checkpoint |-> [x \in Token |-> IF x = "a" THEN a ELSE b],
     fee_owed |-> [x \in Token |-> IF x = "a" THEN owed_a ELSE owed_b],
     growth_inside_checkpoint |-> [i \in RewardIndex |-> reward],
     amount_owed |-> [i \in RewardIndex |-> amount_owed]]])

Fails(delta, timestamp, error) ==
  [do |-> "fail", delta |-> delta, timestamp |-> timestamp, error |-> error]

-----------------------------------------------------------------------------
(* The tests *)

zero_delta_on_empty_position_not_allowed ==
  Test(Fixture("Below", 100, 0, 0, 0, 0, 0, to_x64(1), 0),
    << Fails(0, 100, "LiquidityZero") >>)

neg_delta_lower_tick_liquidity_underflow ==
  Test(Fixture("Below", 100, 0, 0, 10, 0, 0, to_x64(1), 0),
    << Fails(-10, 100, "LiquidityUnderflow") >>)

neg_delta_upper_tick_liquidity_underflow ==
  Test(Fixture("Below", 100, 0, 10, 0, 0, 0, to_x64(1), 0),
    << Fails(-10, 100, "LiquidityUnderflow") >>)

neg_delta_position_liquidity_underflow ==
  Test(Fixture("Below", 100, 0, 10, 10, 0, 0, to_x64(1), 0),
    << Fails(-10, 100, "LiquidityUnderflow") >>)

pos_delta_current_tick_below_xo_lower_xo_upper ==
  Test(Fixture("Below", 100, 0, 0, 0, to_x64(10), to_x64(20), to_x64(1), to_x64(2)),
    << Modify(10, 100), WhirlpoolIs(100, to_x64(3)), PositionIs(10, 0, 0, 0, 0, 0, 0),
       TicksAre(TickOf(10, 10, 0, 0, 0), TickOf(10, -10, 0, 0, 0)) >>)

pos_delta_current_tick_below_xo_lower_oo_upper ==
  Test(Fixture("Below", 100, 0, 0, 10, to_x64(10), to_x64(20), to_x64(1), to_x64(2)),
    << Modify(10, 100), WhirlpoolIs(100, to_x64(3)), PositionIs(10, 0, 0, 0, 0, 0, 0),
       TicksAre(TickOf(10, 10, 0, 0, 0), TickOf(20, -20, 0, 0, 0)) >>)

pos_delta_current_tick_below_xo_lower_oo_upper_underflow ==
  Test(Fixture("Above", 100, 0, 0, 10, to_x64(10), to_x64(10), to_x64(1), 0),
    << RewardsGrow(100), Cross("Upper", "Left"), LiquidityIs(110), RewardGrowthIs(to_x64(1)),
       FeesGrow(to_x64(10), to_x64(10)), RewardsGrow(100), Cross("Lower", "Left"),
       LiquidityIs(110), RewardGrowthIs(to_x64(1) + Share(100, 110)), Modify(10, 300),
       WhirlpoolIs(110, to_x64(1) + 2 * Share(100, 110)),
       PositionIs(10, Wrapped(-to_x64(10)), Wrapped(-to_x64(10)), Wrapped(-to_x64(1)), 0, 0, 0),
       TicksAre(TickOf(10, 10, 0, 0, 0), TickOf(20, -20, to_x64(10), to_x64(10), to_x64(1))) >>)

pos_delta_current_tick_below_oo_lower_xo_upper ==
  Test(Fixture("Below", 100, 0, 10, 0, to_x64(10), to_x64(20), to_x64(1), to_x64(2)),
    << Modify(10, 100), WhirlpoolIs(100, to_x64(3)), PositionIs(10, 0, 0, 0, 0, 0, 0),
       TicksAre(TickOf(20, 20, 0, 0, 0), TickOf(10, -10, 0, 0, 0)) >>)

pos_delta_current_tick_below_oo_lower_oo_upper ==
  Test(Fixture("Below", 100, 0, 10, 10, to_x64(10), to_x64(20), to_x64(1), to_x64(2)),
    << Modify(10, 100), WhirlpoolIs(100, to_x64(3)), PositionIs(10, 0, 0, 0, 0, 0, 0),
       TicksAre(TickOf(20, 20, 0, 0, 0), TickOf(20, -20, 0, 0, 0)) >>)

pos_delta_current_tick_inside_xo_lower_xo_upper ==
  Test(Fixture("Inside", 100, 0, 0, 0, 0, 0, to_x64(1), 0),
    << Modify(10, 100), WhirlpoolIs(110, to_x64(1)), PositionIs(10, 0, 0, 0, 0, 0, 0),
       TicksAre(TickOf(10, 10, 0, 0, to_x64(1)), TickOf(10, -10, 0, 0, 0)) >>)

pos_delta_current_tick_inside_xo_lower_oo_upper ==
  Test(Fixture("Inside", 100, 0, 0, 10, to_x64(10), to_x64(20), to_x64(1), 0),
    << Modify(10, 100), WhirlpoolIs(110, to_x64(1)), PositionIs(10, 0, 0, 0, 0, 0, 0),
       TicksAre(TickOf(10, 10, to_x64(10), to_x64(20), to_x64(1)), TickOf(20, -20, 0, 0, 0)) >>)

pos_delta_current_tick_inside_xo_lower_oo_upper_underflow ==
  Test(Fixture("Above", 100, 0, 0, 10, to_x64(10), to_x64(10), to_x64(1), 0),
    << RewardsGrow(100), Cross("Upper", "Left"), LiquidityIs(110), RewardGrowthIs(to_x64(1)),
       Modify(10, 200), WhirlpoolIs(120, to_x64(1) + Share(100, 110)),
       PositionIs(10, Wrapped(-to_x64(10)), Wrapped(-to_x64(10)), Wrapped(-to_x64(1)), 0, 0, 0),
       TicksAre(TickOf(10, 10, to_x64(10), to_x64(10), to_x64(1) + Share(100, 110)),
                TickOf(20, -20, to_x64(10), to_x64(10), to_x64(1))) >>)

pos_delta_current_tick_inside_oo_lower_xo_upper ==
  Test(Fixture("Inside", 100, 0, 10, 0, to_x64(10), to_x64(20), to_x64(1), 0),
    << Modify(10, 100), WhirlpoolIs(110, to_x64(1)),
       PositionIs(10, to_x64(10), to_x64(20), to_x64(1), 0, 0, 0),
       TicksAre(TickOf(20, 20, 0, 0, 0), TickOf(10, -10, 0, 0, 0)) >>)

pos_delta_current_tick_inside_oo_lower_oo_upper ==
  Test(Fixture("Inside", 100, 0, 10, 10, to_x64(10), to_x64(20), to_x64(1), 0),
    << Modify(10, 100), WhirlpoolIs(110, to_x64(1)),
       PositionIs(10, to_x64(10), to_x64(20), to_x64(1), 0, 0, 0),
       TicksAre(TickOf(20, 20, 0, 0, 0), TickOf(20, -20, 0, 0, 0)) >>)

pos_delta_current_tick_above_xo_lower_xo_upper ==
  Test(Fixture("Above", 100, 0, 0, 0, to_x64(10), to_x64(20), to_x64(1), to_x64(2)),
    << Modify(10, 100), WhirlpoolIs(100, to_x64(3)), PositionIs(10, 0, 0, 0, 0, 0, 0),
       TicksAre(TickOf(10, 10, to_x64(10), to_x64(20), to_x64(3)),
                TickOf(10, -10, to_x64(10), to_x64(20), to_x64(3))) >>)

pos_delta_current_tick_above_xo_lower_oo_upper ==
  Test(Fixture("Above", 100, 0, 0, 10, to_x64(10), to_x64(20), to_x64(1), to_x64(2)),
    << Modify(10, 100), WhirlpoolIs(100, to_x64(3)),
       PositionIs(10, Wrapped(-to_x64(10)), Wrapped(-to_x64(20)), Wrapped(-to_x64(3)), 0, 0, 0),
       TicksAre(TickOf(10, 10, to_x64(10), to_x64(20), to_x64(3)), TickOf(20, -20, 0, 0, 0)) >>)

pos_delta_current_tick_above_xo_lower_oo_upper_underflow_owed_amounts_ok ==
  Test(Fixture("Above", 100, 0, 0, 10, to_x64(10), to_x64(10), to_x64(1), 0),
    << Modify(10, 100), WhirlpoolIs(100, to_x64(1)),
       PositionIs(10, Wrapped(-to_x64(10)), Wrapped(-to_x64(10)), Wrapped(-to_x64(1)), 0, 0, 0),
       TicksAre(TickOf(10, 10, to_x64(10), to_x64(10), to_x64(1)), TickOf(20, -20, 0, 0, 0)),
       FeesGrow(to_x64(10), to_x64(10)), RewardsGrow(100), Cross("Upper", "Left"),
       RewardGrowthIs(to_x64(2)),
       TickIs("Upper", TickOf(20, -20, to_x64(20), to_x64(20), to_x64(2))),
       FeesGrow(to_x64(15), to_x64(15)), RewardsGrow(100),
       RewardGrowthIs(to_x64(2) + Share(100, 120)), Cross("Upper", "Right"),
       TickIs("Upper", TickOf(20, -20, to_x64(15), to_x64(15), Share(100, 120))), Modify(0, 400),
       WhirlpoolIs(100, to_x64(3) + Share(100, 120)),
       PositionIs(10, to_x64(5), to_x64(5), Wrapped(Share(100, 120) - to_x64(1)), 150, 150, 8),
       TicksAre(TickOf(10, 10, to_x64(10), to_x64(10), to_x64(1)),
                TickOf(20, -20, to_x64(15), to_x64(15), Share(100, 120))) >>)

pos_delta_current_tick_above_oo_lower_xo_upper ==
  Test(Fixture("Above", 100, 0, 10, 0, to_x64(10), to_x64(20), to_x64(1), to_x64(2)),
    << Modify(10, 100), WhirlpoolIs(100, to_x64(3)),
       PositionIs(10, to_x64(10), to_x64(20), to_x64(3), 0, 0, 0),
       TicksAre(TickOf(20, 20, 0, 0, 0), TickOf(10, -10, to_x64(10), to_x64(20), to_x64(3))) >>)

pos_delta_current_tick_above_oo_lower_oo_upper ==
  Test(Fixture("Above", 100, 0, 10, 10, to_x64(10), to_x64(20), to_x64(1), to_x64(2)),
    << Modify(10, 100), WhirlpoolIs(100, to_x64(3)), PositionIs(10, 0, 0, 0, 0, 0, 0),
       TicksAre(TickOf(20, 20, 0, 0, 0), TickOf(20, -20, 0, 0, 0)) >>)

pos_delta_current_tick_above_oo_lower_oo_upper_non_zero_checkpoints ==
  Test(WithOutside(
         Fixture("Above", 100, 0, 10, 10, to_x64(20), to_x64(20), to_x64(1), to_x64(2)),
         200, <<to_x64(10), to_x64(10), to_x64(1)>>, <<to_x64(20), to_x64(20), to_x64(2)>>),
    << Modify(10, 300), WhirlpoolIs(100, to_x64(3)),
       PositionIs(10, to_x64(10), to_x64(10), to_x64(1), 0, 0, 0),
       TicksAre(TickOf(20, 20, to_x64(10), to_x64(10), to_x64(1)),
                TickOf(20, -20, to_x64(20), to_x64(20), to_x64(2))) >>)

neg_delta_current_tick_below_ox_lower_ox_upper ==
  Test(Fixture("Below", 100, 10, 10, 10, to_x64(10), to_x64(20), to_x64(1), to_x64(2)),
    << Modify(-10, 100), WhirlpoolIs(100, to_x64(3)), PositionIs(0, 0, 0, 0, 0, 0, 0),
       TicksAre(TickOf(0, 0, 0, 0, 0), TickOf(0, 0, 0, 0, 0)) >>)

neg_delta_current_tick_below_oo_lower_oo_upper ==
  Test(Fixture("Below", 100, 10, 20, 20, to_x64(10), to_x64(20), to_x64(1), to_x64(2)),
    << Modify(-10, 100), WhirlpoolIs(100, to_x64(3)), PositionIs(0, 0, 0, 0, 0, 0, 0),
       TicksAre(TickOf(10, 10, 0, 0, 0), TickOf(10, -10, 0, 0, 0)) >>)

neg_delta_current_tick_below_oo_lower_oo_upper_non_zero_checkpoints ==
  Test(WithOutside(
         Fixture("Below", 1000, 10, 20, 20, to_x64(200), to_x64(200), to_x64(1), to_x64(30)),
         30000, <<to_x64(100), to_x64(100), to_x64(30)>>, <<to_x64(50), to_x64(50), to_x64(10)>>),
    << Modify(-10, 40000), WhirlpoolIs(1000, to_x64(40)),
       PositionIs(0, to_x64(50), to_x64(50), to_x64(20), 500, 500, 200),
       TicksAre(TickOf(10, 10, to_x64(100), to_x64(100), to_x64(30)),
                TickOf(10, -10, to_x64(50), to_x64(50), to_x64(10))) >>)

neg_delta_current_tick_inside_ox_lower_ox_upper ==
  Test(Fixture("Inside", 100, 10, 10, 10, to_x64(10), to_x64(20), to_x64(1), to_x64(2)),
    << Modify(-10, 100), WhirlpoolIs(90, to_x64(3)),
       PositionIs(0, to_x64(10), to_x64(20), to_x64(3), 100, 200, 30),
       TicksAre(TickOf(0, 0, 0, 0, 0), TickOf(0, 0, 0, 0, 0)) >>)

neg_delta_current_tick_inside_oo_lower_oo_upper ==
  Test(Fixture("Inside", 100, 10, 20, 20, to_x64(10), to_x64(20), to_x64(1), to_x64(2)),
    << Modify(-10, 100), WhirlpoolIs(90, to_x64(3)),
       PositionIs(0, to_x64(10), to_x64(20), to_x64(3), 100, 200, 30),
       TicksAre(TickOf(10, 10, 0, 0, 0), TickOf(10, -10, 0, 0, 0)) >>)

neg_delta_current_tick_above_ox_lower_ox_upper ==
  Test(Fixture("Above", 100, 10, 10, 10, to_x64(10), to_x64(20), to_x64(1), to_x64(2)),
    << Modify(-10, 100), WhirlpoolIs(100, to_x64(3)), PositionIs(0, 0, 0, 0, 0, 0, 0),
       TicksAre(TickOf(0, 0, 0, 0, 0), TickOf(0, 0, 0, 0, 0)) >>)

neg_delta_current_tick_above_oo_lower_oo_upper ==
  Test(Fixture("Above", 100, 10, 20, 20, to_x64(10), to_x64(20), to_x64(1), to_x64(2)),
    << Modify(-10, 100), WhirlpoolIs(100, to_x64(3)), PositionIs(0, 0, 0, 0, 0, 0, 0),
       TicksAre(TickOf(10, 10, 0, 0, 0), TickOf(10, -10, 0, 0, 0)) >>)

zero_delta_current_tick_below ==
  Test(Fixture("Below", 100, 10, 10, 10, to_x64(10), to_x64(20), to_x64(1), to_x64(2)),
    << Modify(0, 100), WhirlpoolIs(100, to_x64(3)), PositionIs(10, 0, 0, 0, 0, 0, 0),
       TicksAre(TickOf(10, 10, 0, 0, 0), TickOf(10, -10, 0, 0, 0)) >>)

zero_delta_current_tick_inside ==
  Test(Fixture("Inside", 100, 10, 10, 10, to_x64(10), to_x64(20), to_x64(1), to_x64(2)),
    << Modify(0, 100), WhirlpoolIs(100, to_x64(3)),
       PositionIs(10, to_x64(10), to_x64(20), to_x64(3), 100, 200, 30),
       TicksAre(TickOf(10, 10, 0, 0, 0), TickOf(10, -10, 0, 0, 0)) >>)

zero_delta_current_tick_above ==
  Test(Fixture("Above", 100, 10, 10, 10, to_x64(10), to_x64(20), to_x64(1), to_x64(2)),
    << Modify(0, 100), WhirlpoolIs(100, to_x64(3)), PositionIs(10, 0, 0, 0, 0, 0, 0),
       TicksAre(TickOf(10, 10, 0, 0, 0), TickOf(10, -10, 0, 0, 0)) >>)

pos_delta_current_tick_below ==
  Test(Fixture("Below", 100, 10, 10, 10, to_x64(10), to_x64(20), to_x64(1), to_x64(2)),
    << Modify(10, 100), WhirlpoolIs(100, to_x64(3)), PositionIs(20, 0, 0, 0, 0, 0, 0),
       TicksAre(TickOf(20, 20, 0, 0, 0), TickOf(20, -20, 0, 0, 0)) >>)

pos_delta_current_tick_inside ==
  Test(Fixture("Inside", 100, 10, 10, 10, to_x64(10), to_x64(20), to_x64(1), to_x64(2)),
    << Modify(10, 100), WhirlpoolIs(110, to_x64(3)),
       PositionIs(20, to_x64(10), to_x64(20), to_x64(3), 100, 200, 30),
       TicksAre(TickOf(20, 20, 0, 0, 0), TickOf(20, -20, 0, 0, 0)) >>)

pos_delta_current_tick_above ==
  Test(Fixture("Above", 100, 10, 10, 10, to_x64(10), to_x64(20), to_x64(1), to_x64(2)),
    << Modify(10, 100), WhirlpoolIs(100, to_x64(3)), PositionIs(20, 0, 0, 0, 0, 0, 0),
       TicksAre(TickOf(20, 20, 0, 0, 0), TickOf(20, -20, 0, 0, 0)) >>)

neg_delta_current_tick_below ==
  Test(Fixture("Below", 100, 10, 10, 10, to_x64(10), to_x64(20), to_x64(1), to_x64(2)),
    << Modify(-5, 100), WhirlpoolIs(100, to_x64(3)), PositionIs(5, 0, 0, 0, 0, 0, 0),
       TicksAre(TickOf(5, 5, 0, 0, 0), TickOf(5, -5, 0, 0, 0)) >>)

neg_delta_current_tick_inside ==
  Test(Fixture("Inside", 100, 10, 10, 10, to_x64(10), to_x64(20), to_x64(1), to_x64(2)),
    << Modify(-5, 100), WhirlpoolIs(95, to_x64(3)),
       PositionIs(5, to_x64(10), to_x64(20), to_x64(3), 100, 200, 30),
       TicksAre(TickOf(5, 5, 0, 0, 0), TickOf(5, -5, 0, 0, 0)) >>)

neg_delta_current_tick_above ==
  Test(Fixture("Above", 100, 10, 10, 10, to_x64(10), to_x64(20), to_x64(1), to_x64(2)),
    << Modify(-5, 100), WhirlpoolIs(100, to_x64(3)), PositionIs(5, 0, 0, 0, 0, 0, 0),
       TicksAre(TickOf(5, 5, 0, 0, 0), TickOf(5, -5, 0, 0, 0)) >>)

accrued_tokens_ok_closed_position_ticks_remain_initialized ==
  Test(WithOutside(
         Fixture("Inside", 1000, 0, 10, 10, to_x64(100), to_x64(200), to_x64(1), to_x64(20)),
         0, <<to_x64(10), to_x64(20), to_x64(2)>>, <<to_x64(1), to_x64(2), to_x64(1)>>),
    << Modify(100, 100), RewardGrowthIs(to_x64(20) + Share(100, 1000)),
       PositionIs(100, to_x64(89), to_x64(178), to_x64(17) + Share(100, 1000), 0, 0, 0),
       FeesGrow(to_x64(10), to_x64(20)), Modify(50, 200),
       RewardGrowthIs(to_x64(20) + Share(100, 1000) + Share(100, 1100)),
       PositionIs(150, to_x64(99), to_x64(198),
                  to_x64(17) + Share(100, 1000) + Share(100, 1100), 1000, 2000, 9),
       FeesGrow(to_x64(10), to_x64(20)), Modify(-150, 300),
       WhirlpoolIs(1000, to_x64(20) + Share(100, 1000) + Share(100, 1100) + Share(100, 1150)),
       PositionIs(0, to_x64(109), to_x64(218),
                  to_x64(17) + Share(100, 1000) + Share(100, 1100) + Share(100, 1150), 2500, 5000, 22),
       TicksAre(TickOf(10, 10, to_x64(10), to_x64(20), to_x64(2)),
                TickOf(10, -10, to_x64(1), to_x64(2), to_x64(1))) >>)

overflow_below_checkpoint_below ==
  Test(Fixture("Below", 1000, 0, 0, 0, BelowMax(100), BelowMax(100), to_x64(10), BelowMax(5)),
    << Modify(100, 100), WhirlpoolIs(1000, BelowMax(4)), PositionIs(100, 0, 0, 0, 0, 0, 0),
       TicksAre(TickOf(100, 100, 0, 0, 0), TickOf(100, -100, 0, 0, 0)),
       FeeGrowthIs(BelowMax(100)), FeesGrow(to_x64(20), to_x64(20)), RewardsGrow(100),
       RewardGrowthIs(BelowMax(3)), Cross("Lower", "Right"), FeesGrow(to_x64(20), to_x64(20)),
       RewardsGrow(100), RewardGrowthIs(Wrapped(Share(1000, 1100) - to_x64(3) - 1)),
       Cross("Lower", "Left"), FeesGrow(to_x64(70), to_x64(70)), Modify(0, 600),
       WhirlpoolIs(1000, Share(1000, 1100) - 1),
       PositionIs(100, to_x64(20), to_x64(20), Share(1000, 1100), 2000, 2000, 90),
       TicksAre(TickOf(100, 100, to_x64(20), to_x64(20), Share(1000, 1100)),
                TickOf(100, -100, 0, 0, 0)),
       FeeGrowthIs(to_x64(10) - 1) >>)

overflow_below_checkpoint_inside ==
  Test(Fixture("Inside", 1000, 0, 0, 0, BelowMax(100), BelowMax(100), to_x64(10), BelowMax(5)),
    << Modify(100, 100), WhirlpoolIs(1100, BelowMax(4)), PositionIs(100, 0, 0, 0, 0, 0, 0),
       TicksAre(TickOf(100, 100, BelowMax(100), BelowMax(100), BelowMax(4)),
                TickOf(100, -100, 0, 0, 0)),
       FeeGrowthIs(BelowMax(100)), FeesGrow(to_x64(20), to_x64(20)), RewardsGrow(100),
       RewardGrowthIs(Wrapped(Share(1000, 1100) - to_x64(4) - 1)), Cross("Lower", "Left"),
       FeesGrow(to_x64(90), to_x64(90)), RewardsGrow(400), Modify(0, 600),
       WhirlpoolIs(1000, Share(1000, 1100) - 1),
       PositionIs(100, to_x64(20), to_x64(20), Share(1000, 1100), 2000, 2000, 90),
       TicksAre(TickOf(100, 100, to_x64(20), to_x64(20), Share(1000, 1100)),
                TickOf(100, -100, 0, 0, 0)),
       FeeGrowthIs(to_x64(10) - 1) >>)

overflow_below_checkpoint_above ==
  Test(Fixture("Above", 1000, 0, 0, 0, BelowMax(100), BelowMax(100), to_x64(10), BelowMax(5)),
    << Modify(100, 100), WhirlpoolIs(1000, BelowMax(4)), PositionIs(100, 0, 0, 0, 0, 0, 0),
       TicksAre(TickOf(100, 100, BelowMax(100), BelowMax(100), BelowMax(4)),
                TickOf(100, -100, BelowMax(100), BelowMax(100), BelowMax(4))),
       FeeGrowthIs(BelowMax(100)), FeesGrow(to_x64(20), to_x64(20)), RewardsGrow(100),
       RewardGrowthIs(BelowMax(3)), Cross("Upper", "Left"), FeesGrow(to_x64(20), to_x64(20)),
       RewardsGrow(100), RewardGrowthIs(Wrapped(Share(1000, 1100) - to_x64(3) - 1)),
       Cross("Lower", "Left"), FeesGrow(to_x64(70), to_x64(70)), RewardsGrow(300), Modify(0, 600),
       WhirlpoolIs(1000, Share(1000, 1100) - 1),
       PositionIs(100, to_x64(20), to_x64(20), Share(1000, 1100), 2000, 2000, 90),
       TicksAre(TickOf(100, 100, to_x64(40), to_x64(40), to_x64(1) + Share(10, 11)),
                TickOf(100, -100, to_x64(20), to_x64(20), to_x64(1))),
       FeeGrowthIs(to_x64(10) - 1) >>)

overflow_inside_checkpoint_below ==
  Test(Fixture("Below", 1000, 0, 0, 0, BelowMax(100), BelowMax(100), to_x64(10), BelowMax(5)),
    << Modify(100, 100), WhirlpoolIs(1000, BelowMax(4)), PositionIs(100, 0, 0, 0, 0, 0, 0),
       TicksAre(TickOf(100, 100, 0, 0, 0), TickOf(100, -100, 0, 0, 0)),
       FeeGrowthIs(BelowMax(100)), FeesGrow(to_x64(20), to_x64(20)), RewardsGrow(100),
       RewardGrowthIs(BelowMax(3)), Cross("Lower", "Right"), FeesGrow(to_x64(90), to_x64(90)),
       Modify(0, 600), WhirlpoolIs(1100, Share(4000, 1100) - to_x64(3) - 1),
       PositionIs(100, to_x64(90), to_x64(90), Share(4000, 1100), 9000, 9000, 363),
       TicksAre(TickOf(100, 100, BelowMax(80), BelowMax(80), BelowMax(3)),
                TickOf(100, -100, 0, 0, 0)),
       FeeGrowthIs(to_x64(10) - 1) >>)

overflow_inside_checkpoint_inside ==
  Test(Fixture("Inside", 900, 0, 0, 0, BelowMax(100), BelowMax(100), to_x64(10), BelowMax(5)),
    << Modify(100, 100), WhirlpoolIs(1000, Wrapped(Share(1000, 900) - to_x64(5) - 1)),
       PositionIs(100, 0, 0, 0, 0, 0, 0),
       TicksAre(TickOf(100, 100, BelowMax(100), BelowMax(100), Wrapped(Share(1000, 900) - to_x64(5) - 1)),
                TickOf(100, -100, 0, 0, 0)),
       FeeGrowthIs(BelowMax(100)), FeesGrow(to_x64(110), to_x64(110)), Modify(0, 600),
       WhirlpoolIs(1000, Share(1000, 900) - 1),
       PositionIs(100, to_x64(110), to_x64(110), to_x64(5), 11000, 11000, 500),
       TicksAre(TickOf(100, 100, BelowMax(100), BelowMax(100), Wrapped(Share(1000, 900) - to_x64(5) - 1)),
                TickOf(100, -100, 0, 0, 0)),
       FeeGrowthIs(to_x64(10) - 1) >>)

overflow_inside_checkpoint_above ==
  Test(Fixture("Above", 900, 0, 0, 0, BelowMax(100), BelowMax(100), to_x64(10), BelowMax(5)),
    << Modify(100, 100), WhirlpoolIs(900, Wrapped(Share(1000, 900) - to_x64(5) - 1)),
       PositionIs(100, 0, 0, 0, 0, 0, 0),
       TicksAre(TickOf(100, 100, BelowMax(100), BelowMax(100), Wrapped(Share(1000, 900) - to_x64(5) - 1)),
                TickOf(100, -100, BelowMax(100), BelowMax(100), Wrapped(Share(1000, 900) - to_x64(5) - 1))),
       FeeGrowthIs(BelowMax(100)), FeesGrow(to_x64(20), to_x64(20)), RewardsGrow(100),
       RewardGrowthIs(Wrapped(2 * Share(1000, 900) - to_x64(5) - 1)), Cross("Upper", "Left"),
       FeesGrow(to_x64(90), to_x64(90)), Modify(0, 600),
       WhirlpoolIs(1000, 2 * Share(1000, 900) - to_x64(1) - 1),
       PositionIs(100, to_x64(90), to_x64(90), to_x64(4), 9000, 9000, 400),
       TicksAre(TickOf(100, 100, BelowMax(100), BelowMax(100), Wrapped(Share(1000, 900) - to_x64(5) - 1)),
                TickOf(100, -100, to_x64(20), to_x64(20), Share(1000, 900))),
       FeeGrowthIs(to_x64(10) - 1) >>)

overflow_above_checkpoint_below ==
  Test(Fixture("Below", 1000, 0, 0, 0, BelowMax(100), BelowMax(100), to_x64(10), BelowMax(5)),
    << Modify(100, 100), WhirlpoolIs(1000, BelowMax(4)), PositionIs(100, 0, 0, 0, 0, 0, 0),
       TicksAre(TickOf(100, 100, 0, 0, 0), TickOf(100, -100, 0, 0, 0)),
       FeeGrowthIs(BelowMax(100)), FeesGrow(to_x64(20), to_x64(20)), RewardsGrow(100),
       RewardGrowthIs(BelowMax(3)), Cross("Lower", "Right"), FeesGrow(to_x64(20), to_x64(20)),
       RewardsGrow(100), RewardGrowthIs(Wrapped(Share(1000, 1100) - to_x64(3) - 1)),
       Cross("Upper", "Right"), FeesGrow(to_x64(70), to_x64(70)), Modify(0, 600),
       WhirlpoolIs(1000, Share(1000, 1100) - 1),
       PositionIs(100, to_x64(20), to_x64(20), Share(1000, 1100), 2000, 2000, 90),
       TicksAre(TickOf(100, 100, BelowMax(80), BelowMax(80), BelowMax(3)),
                TickOf(100, -100, BelowMax(60), BelowMax(60), Wrapped(Share(1000, 1100) - to_x64(3) - 1))),
       FeeGrowthIs(to_x64(10) - 1) >>)

overflow_above_checkpoint_inside ==
  Test(Fixture("Inside", 1000, 0, 0, 0, BelowMax(100), BelowMax(100), to_x64(10), BelowMax(5)),
    << Modify(100, 100), WhirlpoolIs(1100, BelowMax(4)), PositionIs(100, 0, 0, 0, 0, 0, 0),
       TicksAre(TickOf(100, 100, BelowMax(100), BelowMax(100), BelowMax(4)),
                TickOf(100, -100, 0, 0, 0)),
       FeeGrowthIs(BelowMax(100)), FeesGrow(to_x64(20), to_x64(20)), RewardsGrow(100),
       RewardGrowthIs(Wrapped(Share(1000, 1100) - to_x64(4) - 1)), Cross("Upper", "Right"),
       FeesGrow(to_x64(90), to_x64(90)), Modify(0, 600), WhirlpoolIs(1000, Share(1000, 1100) - 1),
       PositionIs(100, to_x64(20), to_x64(20), Share(1000, 1100), 2000, 2000, 90),
       TicksAre(TickOf(100, 100, BelowMax(100), BelowMax(100), BelowMax(4)),
                TickOf(100, -100, BelowMax(80), BelowMax(80), Wrapped(Share(1000, 1100) - to_x64(4) - 1))),
       FeeGrowthIs(to_x64(10) - 1) >>)

overflow_above_checkpoint_above ==
  Test(Fixture("Above", 1000, 0, 0, 0, BelowMax(100), BelowMax(100), to_x64(10), BelowMax(5)),
    << Modify(100, 100), WhirlpoolIs(1000, BelowMax(4)), PositionIs(100, 0, 0, 0, 0, 0, 0),
       TicksAre(TickOf(100, 100, BelowMax(100), BelowMax(100), BelowMax(4)),
                TickOf(100, -100, BelowMax(100), BelowMax(100), BelowMax(4))),
       FeeGrowthIs(BelowMax(100)), FeesGrow(to_x64(20), to_x64(20)), RewardsGrow(100),
       RewardGrowthIs(BelowMax(3)), Cross("Upper", "Left"), FeesGrow(to_x64(20), to_x64(20)),
       RewardsGrow(100), RewardGrowthIs(Wrapped(Share(1000, 1100) - to_x64(3) - 1)),
       Cross("Upper", "Right"), FeesGrow(to_x64(70), to_x64(70)), Modify(0, 600),
       WhirlpoolIs(1000, Share(1000, 1100) - 1),
       PositionIs(100, to_x64(20), to_x64(20), Share(1000, 1100), 2000, 2000, 90),
       TicksAre(TickOf(100, 100, BelowMax(100), BelowMax(100), BelowMax(4)),
                TickOf(100, -100, BelowMax(80), BelowMax(80), Wrapped(Share(1000, 1100) - to_x64(4) - 1))),
       FeeGrowthIs(to_x64(10) - 1) >>)

-----------------------------------------------------------------------------
Tests ==
  << zero_delta_on_empty_position_not_allowed, neg_delta_lower_tick_liquidity_underflow,
     neg_delta_upper_tick_liquidity_underflow, neg_delta_position_liquidity_underflow,
     pos_delta_current_tick_below_xo_lower_xo_upper, pos_delta_current_tick_below_xo_lower_oo_upper,
     pos_delta_current_tick_below_xo_lower_oo_upper_underflow,
     pos_delta_current_tick_below_oo_lower_xo_upper, pos_delta_current_tick_below_oo_lower_oo_upper,
     pos_delta_current_tick_inside_xo_lower_xo_upper,
     pos_delta_current_tick_inside_xo_lower_oo_upper,
     pos_delta_current_tick_inside_xo_lower_oo_upper_underflow,
     pos_delta_current_tick_inside_oo_lower_xo_upper,
     pos_delta_current_tick_inside_oo_lower_oo_upper,
     pos_delta_current_tick_above_xo_lower_xo_upper, pos_delta_current_tick_above_xo_lower_oo_upper,
     pos_delta_current_tick_above_xo_lower_oo_upper_underflow_owed_amounts_ok,
     pos_delta_current_tick_above_oo_lower_xo_upper, pos_delta_current_tick_above_oo_lower_oo_upper,
     pos_delta_current_tick_above_oo_lower_oo_upper_non_zero_checkpoints,
     neg_delta_current_tick_below_ox_lower_ox_upper, neg_delta_current_tick_below_oo_lower_oo_upper,
     neg_delta_current_tick_below_oo_lower_oo_upper_non_zero_checkpoints,
     neg_delta_current_tick_inside_ox_lower_ox_upper,
     neg_delta_current_tick_inside_oo_lower_oo_upper,
     neg_delta_current_tick_above_ox_lower_ox_upper, neg_delta_current_tick_above_oo_lower_oo_upper,
     zero_delta_current_tick_below, zero_delta_current_tick_inside, zero_delta_current_tick_above,
     pos_delta_current_tick_below, pos_delta_current_tick_inside, pos_delta_current_tick_above,
     neg_delta_current_tick_below, neg_delta_current_tick_inside, neg_delta_current_tick_above,
     accrued_tokens_ok_closed_position_ticks_remain_initialized, overflow_below_checkpoint_below,
     overflow_below_checkpoint_inside, overflow_below_checkpoint_above,
     overflow_inside_checkpoint_below, overflow_inside_checkpoint_inside,
     overflow_inside_checkpoint_above, overflow_above_checkpoint_below,
     overflow_above_checkpoint_inside, overflow_above_checkpoint_above >>

Step == Tests[test].steps[ops + 1]

TakeStep ==
  \/ Step.do = "modify" /\ ModifyLiquidity(Step.delta, Step.timestamp)
  \/ Step.do = "fees" /\ increment_whirlpool_fee_growths(Step.a, Step.b)
  \/ Step.do = "rewards" /\ increment_whirlpool_reward_growths_by_time(Step.seconds)
  \/ Step.do = "cross" /\ Step.tick = "Lower" /\ CrossLower(Step.direction)
  \/ Step.do = "cross" /\ Step.tick = "Upper" /\ CrossUpper(Step.direction)
  \/ Step.do \in {"expect", "fail"} /\ UNCHANGED fixture

RunTest ==
  /\ test > 0 /\ ops < Len(Tests[test].steps)
  /\ TakeStep
  /\ ops' = ops + 1 /\ UNCHANGED test

TestPassed == test > 0 /\ ops = Len(Tests[test].steps) /\ UNCHANGED <<vars, test>>

\* Test 0 is none of them: every sequence of the fixture's operations.
FreeInit == test = 0 /\ Init

TestInit ==
  /\ test \in 1 .. Len(Tests)
  /\ whirlpool = Tests[test].start.whirlpool
  /\ position = Tests[test].start.position
  /\ tick_lower = Tests[test].start.tick_lower
  /\ tick_upper = Tests[test].start.tick_upper
  /\ ops = 0

FreeStep == test = 0 /\ Next /\ UNCHANGED test

FreeBound == test = 0 /\ ops = MaxOps /\ UNCHANGED <<vars, test>>

TestSpec ==
  (FreeInit \/ TestInit) /\ [][RunTest \/ TestPassed \/ FreeStep \/ FreeBound]_<<vars, test>>

-----------------------------------------------------------------------------
(* Properties *)

Actual ==
  [liquidity     |-> whirlpool.liquidity,
   reward_growth |-> whirlpool.reward_infos[0].growth_global_x64,
   fee_growth    |-> whirlpool.fee_growth_global["a"],
   position |-> position, tick_lower |-> tick_lower, tick_upper |-> tick_upper]

\* Every value that a unit test asserts is the model's, and a call that must
\* fail fails with the error named (liquidity_manager.rs:233-3601).
AsAsserted ==
  (test > 0 /\ ops < Len(Tests[test].steps)) =>
    /\ Step.do = "expect" =>
         \A field \in DOMAIN Step.fields : Actual[field] = Step.fields[field]
    /\ Step.do = "fail" => ModifyError(Step.delta, Step.timestamp) = Step.error
=============================================================================
