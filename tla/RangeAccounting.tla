---------------------------- MODULE RangeAccounting ----------------------------
(***************************************************************************)
(* What a position is promised: it earns exactly what accrues to a unit of *)
(* liquidity while the price is inside its range, from its last settlement *)
(* on.  Nothing is known here of ticks, of growth outside of them or of    *)
(* checkpoints.  Module LiquidityFixture implements it.                    *)
(***************************************************************************)
EXTENDS FixedPoint

CONSTANT Accumulators              \* the tokens and the rewards

VARIABLES
  growth,                \* per unit of liquidity, since ever
  inside,                \* is the price in the position's range?
  liquidity,             \* of the position
  pending,               \* growth inside the range since the last settlement
  owed

vars == <<growth, inside, liquidity, pending, owed>>

Growths == [Accumulators -> U128]

\* The position may be new, or have been open for a while.
Init ==
  /\ growth \in Growths
  /\ inside \in BOOLEAN
  /\ liquidity \in U128
  /\ pending \in Growths
  /\ liquidity = 0 => pending = [x \in Accumulators |-> 0]
  /\ owed = [x \in Accumulators |-> 0]

\* What is pending once the growth has become growth'.
Accrued ==
  [x \in Accumulators |->
     IF inside /\ liquidity > 0 THEN WrapU128(pending[x] + growth'[x] - growth[x]) ELSE pending[x]]

Accrue ==
  /\ growth' \in Growths
  /\ pending' = Accrued
  /\ UNCHANGED <<inside, liquidity, owed>>

EnterOrLeave ==
  /\ inside' = ~inside
  /\ UNCHANGED <<growth, liquidity, pending, owed>>

\* The position is paid for the liquidity it had; a share that is too large for
\* a u64 is forfeited.
Settle ==
  /\ growth' \in Growths
  /\ owed' = [x \in Accumulators |->
                WrapU64(owed[x] + OrZero(checked_mul_shift_right(liquidity, Accrued[x])))]
  /\ liquidity' \in U128
  /\ pending' = [x \in Accumulators |-> 0]
  /\ UNCHANGED inside

Next == Accrue \/ EnterOrLeave \/ Settle

Spec == Init /\ [][Next]_vars
=============================================================================
