------------------------------ MODULE MCLiquidity ------------------------------
(***************************************************************************)
(* The fixture's ticks, and words of fifteen bits.  Accumulators start at  *)
(* nothing and just below the greatest u128, so that they wrap soon and at *)
(* different times.  The table of prices plays no part here.               *)
(***************************************************************************)
EXTENDS LiquidityTests

MCMinTick == -2
MCMaxTick == 2
MCSqrtPrice == [t \in -2 .. 2 |-> t + 3]
MCBelow == -120
MCLower == -100
MCUpper == 100
MCAbove == 120
MCGrowths == {0, TO_Q128 - 5 * TO_Q64}
MCEmissions == {to_x64(6)}
MCFees == {to_x64(7)}
MCDeltas == {-2, 0, 2}
=============================================================================
