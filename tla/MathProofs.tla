----------------------------- MODULE MathProofs ------------------------------
(***************************************************************************)
(* A step of a swap never overshoots.  compute_swap asks how much of the   *)
(* specified token it takes to reach the target price, and if there is     *)
(* less of it, computes the price that the amount leads to.  Both results  *)
(* are rounded; the lemmas show, for each of the four formulas, that the   *)
(* price it yields lies between the current price and the target.  First   *)
(* come the lemmas on the integers of the program that everything rests    *)
(* on: the types of their results, and which way quotients are rounded.    *)
(*                                                                         *)
(* Ticks: the search for the next one, and the conversion of a price,      *)
(* always yield a tick of the tick line, which has a price; and updates of *)
(* ticks, positions and reward accumulators keep every field within its    *)
(* word.                                                                   *)
(*                                                                         *)
(* Amounts: what a step charges covers the move it makes, and what it pays *)
(* does not exceed it (StepSettled, SettledAmounts).                       *)
(***************************************************************************)
EXTENDS TickArrays, TickManager, SwapMath, WellFoundedInduction, TLAPS

\* The widths are positive numbers.
LEMMA Widths ==
  /\ TO_Q64 \in Nat /\ TO_Q64 >= 2
  /\ TO_Q128 \in Nat /\ TO_Q128 >= 4
  /\ TO_Q192 \in Nat
  /\ U64 \subseteq Nat /\ U128 \subseteq Nat /\ U64 \subseteq U128
  /\ Err \notin U64 /\ Err \notin U128 /\ Err \in Int
<1>1. TO_Q64 \in Nat /\ TO_Q64 >= 2
  BY WordAssumption
<1>2. TO_Q128 \in Nat /\ TO_Q128 >= 4 /\ TO_Q128 >= TO_Q64
  BY <1>1 DEF TO_Q128
<1>3. TO_Q192 \in Nat
  BY <1>1, <1>2 DEF TO_Q192
<1> QED
  BY <1>1, <1>2, <1>3 DEF U64, U128, Err

\* A word is an integer.
LEMMA WordsAreIntegers ==
  /\ \A x \in U64 : x \in Int /\ x \in Nat /\ 0 <= x
  /\ \A x \in U128 : x \in Int /\ x \in Nat /\ 0 <= x
BY DEF U64, U128

\* A factor on both sides of an inequality.
LEMMA MulMonotone ==
  ASSUME NEW a \in Int, NEW b \in Int, NEW c \in Nat, a <= b
  PROVE  a * c <= b * c
OBVIOUS

\* A positive factor may be dropped from both sides of an inequality.
LEMMA MulCancel ==
  ASSUME NEW a \in Int, NEW b \in Int, NEW c \in Nat \ {0}, a * c <= b * c
  PROVE  a <= b
OBVIOUS

\* So may a factor of a strict one, which then is not 0.
LEMMA MulCancelStrict ==
  ASSUME NEW a \in Int, NEW b \in Int, NEW c \in Nat, a * c < b * c
  PROVE  a < b
<1>1. SUFFICES ASSUME b <= a PROVE FALSE
  OBVIOUS
<1> QED
  BY <1>1, MulMonotone

\* Division of an integer by a positive one.
LEMMA DivMod ==
  ASSUME NEW n \in Int, NEW d \in Nat \ {0}
  PROVE  /\ n \div d \in Int /\ n % d \in 0 .. (d - 1)
         /\ n = (n \div d) * d + (n % d)
         /\ (n \div d) * d <= n
         /\ n < (n \div d) * d + d
OBVIOUS

\* DivRound is between the exact quotient and the next integer on the side it
\* rounds to.
LEMMA DivRoundBounds ==
  ASSUME NEW n \in Int, NEW d \in Nat \ {0}, NEW round_up \in BOOLEAN
  PROVE  /\ DivRound(n, d, round_up) \in Int
         /\ round_up => /\ n <= DivRound(n, d, round_up) * d
                        /\ DivRound(n, d, round_up) * d < n + d
         /\ ~round_up => /\ DivRound(n, d, round_up) * d <= n
                         /\ n < DivRound(n, d, round_up) * d + d
<1> DEFINE q == n \div d
<1>1. /\ q \in Int /\ n % d \in 0 .. (d - 1) /\ n = q * d + (n % d)
  BY DivMod
<1>2. (q + 1) * d = q * d + d
  BY <1>1
<1> HIDE DEF q
<1> QED
  BY <1>1, <1>2 DEF DivRound, q

\* The checked and the wrapping conversions.
LEMMA Conversions ==
  ASSUME NEW x \in Int
  PROVE  /\ WrapU64(x) \in U64 /\ WrapU128(x) \in U128
         /\ CheckU64(x) \in U64 \cup {Err} /\ CheckU128(x) \in U128 \cup {Err}
         /\ CheckU64(x) # Err => CheckU64(x) = x /\ x \in U64
         /\ CheckU128(x) # Err => CheckU128(x) = x /\ x \in U128
<1>1. x % TO_Q64 \in 0 .. (TO_Q64 - 1)
  BY Widths, DivMod
<1>2. x % TO_Q128 \in 0 .. (TO_Q128 - 1)
  BY Widths, DivMod
<1> QED
  BY <1>1, <1>2 DEF WrapU64, WrapU128, CheckU64, CheckU128, U64, U128

\* A product that is divided fits the width its operands were checked against.
LEMMA MulDivType ==
  ASSUME NEW n0 \in Nat, NEW n1 \in Nat, NEW d \in Nat, NEW round_up \in BOOLEAN
  PROVE  checked_mul_div_round_up_if(n0, n1, d, round_up) \in U128 \cup {Err}
<1>1. n0 * n1 \in Nat
  OBVIOUS
<1>2. SUFFICES ASSUME d # 0, n0 * n1 < TO_Q128
               PROVE  DivRound(n0 * n1, d, round_up) \in U128
  BY <1>1, Widths DEF checked_mul_div_round_up_if
<1> DEFINE n == n0 * n1
           q == DivRound(n, d, round_up)
<1>3. n \in 0 .. (TO_Q128 - 1)
  BY <1>1, <1>2, Widths
<1> HIDE DEF n
<1>4. n \div d \in Nat /\ n \div d <= n /\ (n % d > 0 => n \div d < n)
  <2>1. /\ n \div d \in Int /\ n % d \in 0 .. (d - 1) /\ n = (n \div d) * d + (n % d)
    BY <1>2, <1>3, DivMod
  <2>2. n \div d >= 0
    BY <1>2, <1>3
  <2>3. \A k \in Nat : k <= k * d
    BY <1>2
  <2> QED
    BY <2>1, <2>2, <2>3, <1>3
<1>5. q \in 0 .. n
  BY <1>2, <1>3, <1>4, DivMod DEF DivRound
<1>6. q \in U128
  BY <1>3, <1>5, Widths DEF U128
<1> QED
  BY <1>6 DEF n

\* The two instances of it that the code calls (bit_math.rs:8-14).
LEMMA MulDivTypes ==
  ASSUME NEW n0 \in Nat, NEW n1 \in Nat, NEW d \in Nat
  PROVE  /\ checked_mul_div(n0, n1, d) \in U128 \cup {Err}
         /\ checked_mul_div_round_up(n0, n1, d) \in U128 \cup {Err}
         /\ checked_mul_div(n0, n1, d) \in Int
         /\ checked_mul_div_round_up(n0, n1, d) \in Int
<1>1. checked_mul_div(n0, n1, d) \in U128 \cup {Err}
  BY MulDivType DEF checked_mul_div
<1>2. checked_mul_div_round_up(n0, n1, d) \in U128 \cup {Err}
  BY MulDivType DEF checked_mul_div_round_up
<1>3. U128 \cup {Err} \subseteq Int
  BY Widths
<1> QED
  BY <1>1, <1>2, <1>3

\* A product shifted right by a word is refused or fits a word (bit_math.rs).
LEMMA MulShiftType ==
  ASSUME NEW n0 \in Nat, NEW n1 \in Nat, NEW round_up \in BOOLEAN
  PROVE  checked_mul_shift_right_round_up_if(n0, n1, round_up) \in U64 \cup {Err}
<1>1. DivRound(n0 * n1, TO_Q64, round_up) \in Int
  BY Widths, DivRoundBounds
<1> QED
  BY <1>1, Conversions DEF checked_mul_shift_right_round_up_if

\* A change of liquidity is refused or gives an amount of liquidity.
LEMMA AddLiquidityType ==
  ASSUME NEW liquidity \in Int, NEW delta \in Int
  PROVE  /\ add_liquidity_delta(liquidity, delta) \in U128 \cup {Err}
         /\ add_liquidity_delta(liquidity, delta) # Err =>
              add_liquidity_delta(liquidity, delta) = liquidity + delta
BY Conversions DEF add_liquidity_delta

-----------------------------------------------------------------------------
(* The swap step *)

PriceRange == MIN_SQRT_PRICE_X64 .. MAX_SQRT_PRICE_X64

\* Every tick has a price between the extreme ones, and prices are positive.
LEMMA PriceBounds ==
  /\ MIN_TICK_INDEX \in TickIndices /\ MAX_TICK_INDEX \in TickIndices
  /\ \A t \in TickIndices : SqrtPrice[t] \in U128 \ {0} /\ SqrtPrice[t] \in PriceRange
  /\ MIN_SQRT_PRICE_X64 \in U128 \ {0} /\ MAX_SQRT_PRICE_X64 \in U128 \ {0}
  /\ PriceRange \subseteq U128 \ {0} /\ PriceRange \subseteq Nat \ {0}
<1>1. MIN_TICK_INDEX \in TickIndices /\ MAX_TICK_INDEX \in TickIndices
  BY TickRangeAssumption DEF TickIndices
<1>2. ASSUME NEW t \in TickIndices
      PROVE  /\ SqrtPrice[t] \in U128 \ {0}
             /\ SqrtPrice[MIN_TICK_INDEX] <= SqrtPrice[t]
             /\ SqrtPrice[t] <= SqrtPrice[MAX_TICK_INDEX]
  <2>1. SqrtPrice[t] \in U128 \ {0} /\ SqrtPrice[MIN_TICK_INDEX] \in Nat
          /\ SqrtPrice[MAX_TICK_INDEX] \in Nat /\ SqrtPrice[t] \in Nat
    <3>1. /\ SqrtPrice[t] \in 1 .. (TO_Q128 - 1)
          /\ SqrtPrice[MIN_TICK_INDEX] \in 1 .. (TO_Q128 - 1)
          /\ SqrtPrice[MAX_TICK_INDEX] \in 1 .. (TO_Q128 - 1)
      BY <1>1, SqrtPriceAssumption
    <3> QED
      BY <3>1, Widths DEF U128
  <2>2. t = MIN_TICK_INDEX \/ MIN_TICK_INDEX < t
    BY TickRangeAssumption DEF TickIndices
  <2>3. t = MAX_TICK_INDEX \/ t < MAX_TICK_INDEX
    BY TickRangeAssumption DEF TickIndices
  <2>4. SqrtPrice[MIN_TICK_INDEX] <= SqrtPrice[t]
    BY <1>1, <2>1, <2>2, SqrtPriceAssumption
  <2>5. SqrtPrice[t] <= SqrtPrice[MAX_TICK_INDEX]
    BY <1>1, <2>1, <2>3, SqrtPriceAssumption
  <2> QED
    BY <2>1, <2>4, <2>5
<1> QED
  BY <1>1, <1>2, Widths DEF PriceRange, MIN_SQRT_PRICE_X64, MAX_SQRT_PRICE_X64, U128

-----------------------------------------------------------------------------
(* Products of prices, liquidity and amounts. *)

\* Less of token a than it takes to go from p down to t leads to a price above t:
\* the inequality behind get_next_sqrt_price_from_a_round_up for an input.
LEMMA PaidInA ==
  ASSUME NEW p \in Nat, NEW t \in Nat, NEW L \in Nat, NEW Q \in Nat, NEW x \in Nat,
         x * (p * t) < (L * (p - t)) * Q
  PROVE  t * (L * Q + p * x) < (L * p) * Q
OBVIOUS

\* The same for an output of token a, from p up to t.
LEMMA PaidOutA ==
  ASSUME NEW p \in Nat, NEW t \in Nat, NEW L \in Nat, NEW Q \in Nat, NEW x \in Nat,
         x * (t * p) <= (L * (t - p)) * Q
  PROVE  (L * p) * Q <= t * (L * Q - p * x)
OBVIOUS

\* Less than a quotient rounded up is less than the exact quotient; less than one
\* rounded down is at most the exact one.
LEMMA BelowQuotient ==
  ASSUME NEW n \in Int, NEW d \in Nat \ {0}, NEW x \in Int
  PROVE  /\ x < DivRound(n, d, TRUE) => x * d < n
         /\ x < DivRound(n, d, FALSE) => x * d <= n
<1> DEFINE u == DivRound(n, d, TRUE)
           l == DivRound(n, d, FALSE)
<1>1. u \in Int /\ u * d < n + d /\ l \in Int /\ l * d <= n
  BY DivRoundBounds
<1> HIDE DEF u, l
<1>2. ASSUME x < u PROVE x * d < n
  <2>1. (x + 1) * d <= u * d
    BY <1>1, <1>2, MulMonotone
  <2> QED
    BY <1>1, <2>1
<1>3. ASSUME x < l PROVE x * d <= n
  BY <1>1, <1>3, MulMonotone
<1> QED
  BY <1>2, <1>3 DEF u, l

\* A quotient rounded up is between integers that enclose the exact one; so is
\* one rounded down.
LEMMA QuotientBetween ==
  ASSUME NEW n \in Int, NEW d \in Nat \ {0}, NEW low \in Int, NEW high \in Int,
         low * d <= n, n <= high * d, NEW round_up \in BOOLEAN
  PROVE  low <= DivRound(n, d, round_up) /\ DivRound(n, d, round_up) <= high
<1> DEFINE q == DivRound(n, d, round_up)
<1>1. q \in Int /\ (n <= q * d \/ n < q * d + d) /\ (q * d < n + d \/ q * d <= n)
  BY DivRoundBounds
<1> HIDE DEF q
<1>2. low * d < (q + 1) * d
  BY <1>1
<1>3. q * d < (high + 1) * d
  BY <1>1
<1>4. low < q + 1
  BY <1>1, <1>2, MulCancelStrict
<1>5. q < high + 1
  BY <1>1, <1>3, MulCancelStrict
<1> QED
  BY <1>1, <1>4, <1>5 DEF q

\* The case of QuotientBetween for a quotient that is not negative.
LEMMA QuotientUpTo ==
  ASSUME NEW n \in Nat, NEW d \in Nat \ {0}, NEW high \in Int, n <= high * d,
         NEW round_up \in BOOLEAN
  PROVE  /\ DivRound(n, d, round_up) \in Int
         /\ 0 <= DivRound(n, d, round_up) /\ DivRound(n, d, round_up) <= high
<1> DEFINE zero == 0
<1>1. zero \in Int /\ zero * d <= n /\ n \in Int
  OBVIOUS
<1> HIDE DEF zero
<1>2. /\ DivRound(n, d, round_up) \in Int
      /\ zero <= DivRound(n, d, round_up) /\ DivRound(n, d, round_up) <= high
  BY <1>1, QuotientBetween, DivRoundBounds
<1> QED
  BY <1>2 DEF zero

-----------------------------------------------------------------------------
(* The four formulas. *)

\* Token a paid in moves the price down, not below the target.
LEMMA AInBetween ==
  ASSUME NEW p \in PriceRange, NEW t \in PriceRange, t <= p, NEW L \in U128, NEW x \in Nat,
         get_amount_delta_a(p, t, L, TRUE) # Err,
         x < get_amount_delta_a(p, t, L, TRUE),
         get_next_sqrt_price_from_a_round_up(p, L, x, TRUE) # Err
  PROVE  /\ get_next_sqrt_price_from_a_round_up(p, L, x, TRUE) \in Int
         /\ t <= get_next_sqrt_price_from_a_round_up(p, L, x, TRUE)
         /\ get_next_sqrt_price_from_a_round_up(p, L, x, TRUE) <= p
<1> DEFINE n == (L * (p - t)) * TO_Q64
           w == p * t
           m == (L * p) * TO_Q64
           d == L * TO_Q64 + p * x
           D == DivRound(n, w, TRUE)
           r == DivRound(m, d, TRUE)
<1>1. /\ p \in Nat \ {0} /\ t \in Nat \ {0} /\ L \in Nat /\ TO_Q64 \in Nat
      /\ p \in Int /\ t \in Int /\ x \in Int /\ p - t \in Nat
  BY PriceBounds, Widths
<1>2. /\ w \in Nat \ {0} /\ n \in Int /\ m \in Int /\ d \in Nat
  BY <1>1
<1>3. get_amount_delta_a(p, t, L, TRUE) = CheckU64(D)
  <2>1. Upper(p, t) = p /\ Lower(p, t) = t
    BY <1>1 DEF Upper, Lower
  <2> QED
    BY <2>1 DEF get_amount_delta_a
<1>4. x * w < n
  <2> HIDE DEF n, w
  <2>1. D \in Int
    BY <1>2, DivRoundBounds
  <2>2. get_amount_delta_a(p, t, L, TRUE) = D
    BY <1>3, <2>1, Conversions
  <2>3. x < D
    BY <2>2
  <2> QED
    BY <1>1, <1>2, <2>1, <2>3, BelowQuotient
<1>5. t * d <= m
  BY <1>1, <1>4, PaidInA
<1>6. m <= p * d
  BY <1>1
<1>7. CASE x = 0
  BY <1>1, <1>7 DEF get_next_sqrt_price_from_a_round_up
<1>8. CASE x # 0
  <2>1. ~(d <= 0) /\ get_next_sqrt_price_from_a_round_up(p, L, x, TRUE) = r
    BY <1>8 DEF get_next_sqrt_price_from_a_round_up
  <2> HIDE DEF m, d
  <2>2. d \in Nat \ {0}
    BY <1>2, <2>1
  <2>3. r \in Int
    BY <1>2, <2>2, DivRoundBounds
  <2>4. t <= r /\ r <= p
    BY <1>1, <1>2, <1>5, <1>6, <2>2, QuotientBetween
  <2> QED
    BY <2>1, <2>3, <2>4
<1> QED
  BY <1>7, <1>8

\* Token a paid out moves the price up, not above the target.
LEMMA AOutBetween ==
  ASSUME NEW p \in PriceRange, NEW t \in PriceRange, p <= t, NEW L \in U128, NEW x \in Nat,
         get_amount_delta_a(p, t, L, FALSE) # Err,
         x < get_amount_delta_a(p, t, L, FALSE),
         get_next_sqrt_price_from_a_round_up(p, L, x, FALSE) # Err
  PROVE  /\ get_next_sqrt_price_from_a_round_up(p, L, x, FALSE) \in Int
         /\ p <= get_next_sqrt_price_from_a_round_up(p, L, x, FALSE)
         /\ get_next_sqrt_price_from_a_round_up(p, L, x, FALSE) <= t
<1> DEFINE n == (L * (t - p)) * TO_Q64
           w == t * p
           m == (L * p) * TO_Q64
           d == L * TO_Q64 - p * x
           D == DivRound(n, w, FALSE)
           r == DivRound(m, d, TRUE)
<1>1. /\ p \in Nat \ {0} /\ t \in Nat \ {0} /\ L \in Nat /\ TO_Q64 \in Nat
      /\ p \in Int /\ t \in Int /\ x \in Int /\ t - p \in Nat
  BY PriceBounds, Widths
<1>2. /\ w \in Nat \ {0} /\ n \in Int /\ m \in Int /\ d \in Int
  BY <1>1
<1>3. get_amount_delta_a(p, t, L, FALSE) = CheckU64(D)
  <2>1. Upper(p, t) = t /\ Lower(p, t) = p
    BY <1>1 DEF Upper, Lower
  <2> QED
    BY <2>1 DEF get_amount_delta_a
<1>4. x * w <= n
  <2> HIDE DEF n, w
  <2>1. D \in Int
    BY <1>2, DivRoundBounds
  <2>2. get_amount_delta_a(p, t, L, FALSE) = D
    BY <1>3, <2>1, Conversions
  <2>3. x < D
    BY <2>2
  <2> QED
    BY <1>1, <1>2, <2>1, <2>3, BelowQuotient
<1>5. m <= t * d
  BY <1>1, <1>4, PaidOutA
<1>6. p * d <= m
  BY <1>1
<1>7. CASE x = 0
  BY <1>1, <1>7 DEF get_next_sqrt_price_from_a_round_up
<1>8. CASE x # 0
  <2>1. ~(d <= 0) /\ get_next_sqrt_price_from_a_round_up(p, L, x, FALSE) = r
    BY <1>8 DEF get_next_sqrt_price_from_a_round_up
  <2> HIDE DEF m, d
  <2>2. d \in Nat \ {0}
    BY <1>2, <2>1
  <2>3. r \in Int
    BY <1>2, <2>2, DivRoundBounds
  <2>4. p <= r /\ r <= t
    BY <1>1, <1>2, <1>5, <1>6, <2>2, QuotientBetween
  <2> QED
    BY <2>1, <2>3, <2>4
<1> QED
  BY <1>7, <1>8

\* Token b paid in moves the price up, not above the target.
LEMMA BInBetween ==
  ASSUME NEW p \in PriceRange, NEW t \in PriceRange, p <= t, NEW L \in U128, NEW x \in Nat,
         get_amount_delta_b(p, t, L, TRUE) # Err,
         x < get_amount_delta_b(p, t, L, TRUE),
         get_next_sqrt_price_from_b_round_down(p, L, x, TRUE) # Err
  PROVE  /\ get_next_sqrt_price_from_b_round_down(p, L, x, TRUE) \in Int
         /\ p <= get_next_sqrt_price_from_b_round_down(p, L, x, TRUE)
         /\ get_next_sqrt_price_from_b_round_down(p, L, x, TRUE) <= t
<1> DEFINE n == L * (t - p)
           m == x * TO_Q64
           D == DivRound(n, TO_Q64, TRUE)
           q == DivRound(m, L, FALSE)
           h == t - p
           r == p + q
<1>1. /\ p \in Nat /\ t \in Nat /\ L \in Nat /\ TO_Q64 \in Nat \ {0}
      /\ x \in Int /\ t - p \in Nat
  BY PriceBounds, Widths
<1>2. n \in Int /\ m \in Int
  BY <1>1
<1>3. get_amount_delta_b(p, t, L, TRUE) = CheckU64(D)
  <2>1. Upper(p, t) = t /\ Lower(p, t) = p
    BY <1>1 DEF Upper, Lower
  <2> QED
    BY <2>1 DEF get_amount_delta_b, checked_mul_shift_right_round_up_if
<1>4. m < n
  <2> HIDE DEF n
  <2>1. D \in Int
    BY <1>1, <1>2, DivRoundBounds
  <2>2. get_amount_delta_b(p, t, L, TRUE) = D
    BY <1>3, <2>1, Conversions
  <2>3. x < D
    BY <2>2
  <2> QED
    BY <1>1, <1>2, <2>1, <2>3, BelowQuotient
<1>5. L # 0 /\ get_next_sqrt_price_from_b_round_down(p, L, x, TRUE) = CheckU128(r)
  BY DEF get_next_sqrt_price_from_b_round_down, div_round_up_if
<1>6. m \in Nat /\ h \in Int /\ m <= h * L
  BY <1>1, <1>2, <1>4
<1> HIDE DEF m, h
<1>7. q \in Int /\ 0 <= q /\ q <= h
  BY <1>1, <1>5, <1>6, QuotientUpTo
<1> HIDE DEF q
<1>8. r \in Int
  BY <1>1, <1>7
<1>9. CheckU128(r) = r
  <2> HIDE DEF r
  <2> QED
    BY <1>5, <1>8, Conversions
<1>10. p <= r /\ r <= t
  BY <1>1, <1>7 DEF h
<1>11. get_next_sqrt_price_from_b_round_down(p, L, x, TRUE) = r
  BY <1>5, <1>9
<1> QED
  BY <1>8, <1>10, <1>11

\* Token b paid out moves the price down, not below the target.
LEMMA BOutBetween ==
  ASSUME NEW p \in PriceRange, NEW t \in PriceRange, t <= p, NEW L \in U128, NEW x \in Nat,
         get_amount_delta_b(p, t, L, FALSE) # Err,
         x < get_amount_delta_b(p, t, L, FALSE),
         get_next_sqrt_price_from_b_round_down(p, L, x, FALSE) # Err
  PROVE  /\ get_next_sqrt_price_from_b_round_down(p, L, x, FALSE) \in Int
         /\ t <= get_next_sqrt_price_from_b_round_down(p, L, x, FALSE)
         /\ get_next_sqrt_price_from_b_round_down(p, L, x, FALSE) <= p
<1> DEFINE n == L * (p - t)
           m == x * TO_Q64
           D == DivRound(n, TO_Q64, FALSE)
           q == DivRound(m, L, TRUE)
           h == p - t
           r == p - q
<1>1. /\ p \in Nat /\ t \in Nat /\ L \in Nat /\ TO_Q64 \in Nat \ {0}
      /\ x \in Int /\ p - t \in Nat
  BY PriceBounds, Widths
<1>2. n \in Int /\ m \in Int
  BY <1>1
<1>3. get_amount_delta_b(p, t, L, FALSE) = CheckU64(D)
  <2>1. Upper(p, t) = p /\ Lower(p, t) = t
    BY <1>1 DEF Upper, Lower
  <2> QED
    BY <2>1 DEF get_amount_delta_b, checked_mul_shift_right_round_up_if
<1>4. m <= n
  <2> HIDE DEF n
  <2>1. D \in Int
    BY <1>1, <1>2, DivRoundBounds
  <2>2. get_amount_delta_b(p, t, L, FALSE) = D
    BY <1>3, <2>1, Conversions
  <2>3. x < D
    BY <2>2
  <2> QED
    BY <1>1, <1>2, <2>1, <2>3, BelowQuotient
<1>5. L # 0 /\ get_next_sqrt_price_from_b_round_down(p, L, x, FALSE) = CheckU128(r)
  BY DEF get_next_sqrt_price_from_b_round_down, div_round_up_if
<1>6. m \in Nat /\ h \in Int /\ m <= h * L
  BY <1>1, <1>2, <1>4
<1> HIDE DEF m, h
<1>7. q \in Int /\ 0 <= q /\ q <= h
  BY <1>1, <1>5, <1>6, QuotientUpTo
<1> HIDE DEF q
<1>8. r \in Int
  BY <1>1, <1>7
<1>9. CheckU128(r) = r
  <2> HIDE DEF r
  <2> QED
    BY <1>5, <1>8, Conversions
<1>10. t <= r /\ r <= p
  BY <1>1, <1>7 DEF h
<1>11. get_next_sqrt_price_from_b_round_down(p, L, x, FALSE) = r
  BY <1>5, <1>9
<1> QED
  BY <1>8, <1>10, <1>11

-----------------------------------------------------------------------------
(* A whole step. *)

\* What lies between two prices lies between the extreme ones.
LEMMA WithinPrices ==
  ASSUME NEW p \in PriceRange, NEW t \in PriceRange, NEW price \in Int, p <= price, price <= t
  PROVE  price \in PriceRange
<1>1. MIN_SQRT_PRICE_X64 \in Int /\ MAX_SQRT_PRICE_X64 \in Int
  BY PriceBounds, Widths
<1> QED
  BY <1>1 DEF PriceRange

\* The token amounts between two prices are refused or are u64.
LEMMA DeltaTypes ==
  ASSUME NEW p \in PriceRange, NEW t \in PriceRange, NEW L \in U128, NEW round_up \in BOOLEAN
  PROVE  /\ get_amount_delta_a(p, t, L, round_up) \in U64 \cup {Err}
         /\ get_amount_delta_b(p, t, L, round_up) \in U64 \cup {Err}
<1> DEFINE lower == Lower(p, t)
           upper == Upper(p, t)
           n     == (L * (upper - lower)) * TO_Q64
           d     == upper * lower
<1>1. /\ lower \in Nat \ {0} /\ upper \in Nat \ {0} /\ upper - lower \in Nat
      /\ L \in Nat /\ TO_Q64 \in Nat
  BY PriceBounds, Widths DEF Lower, Upper
<1> HIDE DEF lower, upper
<1>2. n \in Int /\ d \in Nat \ {0}
  BY <1>1
<1>3. get_amount_delta_a(p, t, L, round_up) =
        IF L * (upper - lower) >= TO_Q192 THEN Err ELSE CheckU64(DivRound(n, d, round_up))
  BY DEF get_amount_delta_a, lower, upper
<1>4. CheckU64(DivRound(n, d, round_up)) \in U64 \cup {Err}
  <2> HIDE DEF n, d
  <2> QED
    BY <1>2, DivRoundBounds, Conversions
<1>5. get_amount_delta_b(p, t, L, round_up) \in U64 \cup {Err}
  <2> DEFINE w == upper - lower
  <2>1. get_amount_delta_b(p, t, L, round_up) =
          checked_mul_shift_right_round_up_if(L, w, round_up)
    BY DEF get_amount_delta_b, lower, upper
  <2>2. w \in Nat
    BY <1>1
  <2> HIDE DEF w
  <2> QED
    BY <1>1, <2>1, <2>2, MulShiftType
<1> QED
  BY <1>3, <1>4, <1>5

\* So are the amounts of the specified and of the other token.
LEMMA FixedAndUnfixedTypes ==
  ASSUME NEW p \in PriceRange, NEW t \in PriceRange, NEW L \in U128,
         NEW is_input \in BOOLEAN, NEW a_to_b \in BOOLEAN
  PROVE  /\ get_amount_fixed_delta(p, t, L, is_input, a_to_b) \in U64 \cup {Err}
         /\ get_amount_unfixed_delta(p, t, L, is_input, a_to_b) \in U64 \cup {Err}
<1>1. (~is_input) \in BOOLEAN
  OBVIOUS
<1> QED
  BY <1>1, DeltaTypes DEF get_amount_fixed_delta, get_amount_unfixed_delta

\* The price after a step lies between the current price and the target.
LEMMA NextSqrtPriceBetween ==
  ASSUME NEW p \in PriceRange, NEW t \in PriceRange, NEW L \in U128, NEW x \in U64,
         NEW is_input \in BOOLEAN, NEW a_to_b \in BOOLEAN,
         IF a_to_b THEN t <= p ELSE p <= t,
         NEW max_delta, max_delta = get_amount_fixed_delta(p, t, L, is_input, a_to_b),
         max_delta # Err,
         NEW price, price = NextSqrtPrice(x, max_delta, L, p, t, is_input, a_to_b),
         price # Err
  PROVE  /\ price \in PriceRange
         /\ IF a_to_b THEN t <= price /\ price <= p ELSE p <= price /\ price <= t
<1>1. x \in Nat /\ x \in Int /\ max_delta \in Int /\ p \in Int /\ t \in Int
  <2>1. max_delta \in U64
    BY FixedAndUnfixedTypes
  <2> QED
    BY <2>1, Widths, PriceBounds
<1>2. CASE x >= max_delta
  BY <1>1, <1>2 DEF NextSqrtPrice, PriceRange
<1>3. CASE ~(x >= max_delta)
  <2>1. x < max_delta
    BY <1>1, <1>3
  <2>2. price = get_next_sqrt_price(p, L, x, is_input, a_to_b)
    BY <1>3 DEF NextSqrtPrice
  <2>3. CASE is_input /\ a_to_b
    <3>1. /\ max_delta = get_amount_delta_a(p, t, L, TRUE)
          /\ price = get_next_sqrt_price_from_a_round_up(p, L, x, TRUE)
      BY <2>2, <2>3 DEF get_amount_fixed_delta, get_next_sqrt_price
    <3>2. price \in Int /\ t <= price /\ price <= p
      BY <1>1, <2>1, <2>3, <3>1, AInBetween
    <3> QED
      BY <2>3, <3>2, WithinPrices
  <2>4. CASE is_input /\ ~a_to_b
    <3>1. /\ max_delta = get_amount_delta_b(p, t, L, TRUE)
          /\ price = get_next_sqrt_price_from_b_round_down(p, L, x, TRUE)
      BY <2>2, <2>4 DEF get_amount_fixed_delta, get_next_sqrt_price
    <3>2. price \in Int /\ p <= price /\ price <= t
      BY <1>1, <2>1, <2>4, <3>1, BInBetween
    <3> QED
      BY <2>4, <3>2, WithinPrices
  <2>5. CASE ~is_input /\ a_to_b
    <3>1. /\ max_delta = get_amount_delta_b(p, t, L, FALSE)
          /\ price = get_next_sqrt_price_from_b_round_down(p, L, x, FALSE)
      BY <2>2, <2>5 DEF get_amount_fixed_delta, get_next_sqrt_price
    <3>2. price \in Int /\ t <= price /\ price <= p
      BY <1>1, <2>1, <2>5, <3>1, BOutBetween
    <3> QED
      BY <2>5, <3>2, WithinPrices
  <2>6. CASE ~is_input /\ ~a_to_b
    <3>1. /\ max_delta = get_amount_delta_a(p, t, L, FALSE)
          /\ price = get_next_sqrt_price_from_a_round_up(p, L, x, FALSE)
      BY <2>2, <2>6 DEF get_amount_fixed_delta, get_next_sqrt_price
    <3>2. price \in Int /\ p <= price /\ price <= t
      BY <1>1, <2>1, <2>6, <3>1, AOutBetween
    <3> QED
      BY <2>6, <3>2, WithinPrices
  <2> QED
    BY <2>3, <2>4, <2>5, <2>6
<1> QED
  BY <1>2, <1>3

\* What is left to trade once the fee is set aside is refused or is a u64.
LEMMA AmountCalcType ==
  ASSUME NEW remaining \in U64, NEW fee_rate \in 0 .. MAX_FEE_RATE, NEW is_input \in BOOLEAN
  PROVE  AmountCalc(remaining, fee_rate, is_input) \in U64 \cup {Err}
<1> DEFINE k == FEE_RATE_MUL_VALUE - fee_rate
<1>1. k \in Nat /\ FEE_RATE_MUL_VALUE \in Nat /\ remaining \in Nat
  BY FeeRateAssumption, Widths
<1> HIDE DEF k
<1>2. checked_mul_div(remaining, k, FEE_RATE_MUL_VALUE) \in Int
  BY <1>1, MulDivTypes
<1>3. CheckU64(checked_mul_div(remaining, k, FEE_RATE_MUL_VALUE)) \in U64 \cup {Err}
  BY <1>2, Conversions
<1> QED
  BY <1>3 DEF AmountCalc, k

\* The fee of a step is refused or is a u64.
LEMMA FeeAmountType ==
  ASSUME NEW amount_in \in U64, NEW remaining \in U64, NEW fee_rate \in 0 .. MAX_FEE_RATE,
         NEW is_input \in BOOLEAN, NEW is_max_swap \in BOOLEAN
  PROVE  FeeAmount(amount_in, remaining, fee_rate, is_input, is_max_swap) \in U64 \cup {Err}
<1> DEFINE k    == FEE_RATE_MUL_VALUE - fee_rate
           rest == remaining - amount_in
<1>1. /\ k \in Nat /\ fee_rate \in Nat /\ amount_in \in Nat
      /\ rest \in Int
  BY FeeRateAssumption, Widths
<1> HIDE DEF k, rest
<1>2. checked_mul_div_round_up(amount_in, fee_rate, k) \in Int
  BY <1>1, MulDivTypes
<1>3. CheckU64(checked_mul_div_round_up(amount_in, fee_rate, k)) \in U64 \cup {Err}
  BY <1>2, Conversions
<1>4. WrapU64(rest) \in U64
  BY <1>1, Conversions
<1> QED
  BY <1>3, <1>4 DEF FeeAmount, k, rest

\* A step that succeeds yields amounts that fit their words and a price between
\* the current one and the target (compute_swap, swap_math.rs:14).
THEOREM SwapStepNeverOvershoots ==
  ASSUME NEW remaining \in U64, NEW fee_rate \in 0 .. MAX_FEE_RATE, NEW L \in U128,
         NEW p \in PriceRange, NEW t \in PriceRange,
         NEW is_input \in BOOLEAN, NEW a_to_b \in BOOLEAN,
         IF a_to_b THEN t <= p ELSE p <= t,
         NEW c, c = compute_swap(remaining, fee_rate, L, p, t, is_input, a_to_b),
         c # SwapStepError
  PROVE  /\ c \in SwapStepComputation
         /\ c.next_price \in PriceRange
         /\ IF a_to_b THEN t <= c.next_price /\ c.next_price <= p
            ELSE p <= c.next_price /\ c.next_price <= t
<1> DEFINE max_delta   == get_amount_fixed_delta(p, t, L, is_input, a_to_b)
           amount_calc == AmountCalc(remaining, fee_rate, is_input)
           next_price  == NextSqrtPrice(amount_calc, max_delta, L, p, t, is_input, a_to_b)
           is_max_swap == next_price = t
           unfixed     == get_amount_unfixed_delta(p, next_price, L, is_input, a_to_b)
           fixed       == IF is_max_swap THEN max_delta
                          ELSE get_amount_fixed_delta(p, next_price, L, is_input, a_to_b)
           amount_in   == IF is_input THEN fixed ELSE unfixed
           amount_out  == IF is_input THEN unfixed
                          ELSE IF fixed > remaining THEN remaining ELSE fixed
           fee_amount  == FeeAmount(amount_in, remaining, fee_rate, is_input, is_max_swap)
<1>1. /\ max_delta # Err /\ amount_calc # Err /\ next_price # Err
      /\ unfixed # Err /\ fixed # Err /\ fee_amount # Err
      /\ c = [amount_in  |-> amount_in,  amount_out |-> amount_out,
              next_price |-> next_price, fee_amount |-> fee_amount]
  BY DEF compute_swap
<1>2. amount_calc \in U64
  BY <1>1, AmountCalcType
<1>3. /\ next_price \in PriceRange
      /\ IF a_to_b THEN t <= next_price /\ next_price <= p
         ELSE p <= next_price /\ next_price <= t
  BY <1>1, <1>2, NextSqrtPriceBetween
<1>4. unfixed \in U64 /\ fixed \in U64
  BY <1>1, <1>3, FixedAndUnfixedTypes
<1>5. amount_in \in U64 /\ amount_out \in U64
  BY <1>4
<1>6. fee_amount \in U64
  <2>1. is_max_swap \in BOOLEAN
    OBVIOUS
  <2> HIDE DEF amount_in, is_max_swap
  <2> QED
    BY <1>1, <1>5, <2>1, FeeAmountType
<1> HIDE DEF amount_in, amount_out, next_price, fee_amount
<1>7. next_price \in U128
  BY <1>3, PriceBounds
<1> QED
  BY <1>1, <1>3, <1>5, <1>6, <1>7 DEF SwapStepComputation

-----------------------------------------------------------------------------
(* The amounts of a step. *)

\* The amount of token a that is charged for a move covers it, and the amount
\* that is paid does not exceed it.
LEMMA DeltaABounds ==
  ASSUME NEW p \in PriceRange, NEW t \in PriceRange, NEW L \in U128, NEW round_up \in BOOLEAN,
         NEW d, d = get_amount_delta_a(p, t, L, round_up), d # Err,
         NEW lower, lower = Lower(p, t), NEW upper, upper = Upper(p, t)
  PROVE  /\ d \in Nat /\ d \in U64 /\ lower \in Nat \ {0} /\ upper \in Nat \ {0} /\ lower <= upper
         /\ round_up => d * (upper * lower) >= (L * (upper - lower)) * TO_Q64
         /\ ~round_up => d * (upper * lower) <= (L * (upper - lower)) * TO_Q64
         /\ \A high \in Int : (L * (upper - lower)) * TO_Q64 <= high * (upper * lower) => d <= high
<1> DEFINE n == (L * (upper - lower)) * TO_Q64
           w == upper * lower
<1>1. /\ lower \in Nat \ {0} /\ upper \in Nat \ {0} /\ lower <= upper /\ upper - lower \in Nat
      /\ L \in Nat /\ TO_Q64 \in Nat
  BY PriceBounds, Widths DEF Lower, Upper
<1>2. n \in Nat /\ n \in Int /\ w \in Nat \ {0}
  BY <1>1
<1>3. d = CheckU64(DivRound(n, w, round_up))
  BY DEF get_amount_delta_a
<1> HIDE DEF n, w
<1>4. DivRound(n, w, round_up) \in Int
  BY <1>2, DivRoundBounds
<1>5. d = DivRound(n, w, round_up) /\ d \in U64
  BY <1>3, <1>4, Conversions
<1>6. d \in Nat
  BY <1>5, Widths
<1>7. (round_up => d * w >= n) /\ (~round_up => d * w <= n)
  BY <1>2, <1>5, DivRoundBounds
<1>8. ASSUME NEW high \in Int, n <= high * w PROVE d <= high
  BY <1>2, <1>5, <1>8, QuotientUpTo
<1> QED
  BY <1>1, <1>5, <1>6, <1>7, <1>8 DEF n, w

\* The same for token b.
LEMMA DeltaBBounds ==
  ASSUME NEW p \in PriceRange, NEW t \in PriceRange, NEW L \in U128, NEW round_up \in BOOLEAN,
         NEW d, d = get_amount_delta_b(p, t, L, round_up), d # Err,
         NEW lower, lower = Lower(p, t), NEW upper, upper = Upper(p, t)
  PROVE  /\ d \in Nat /\ d \in U64 /\ lower \in Nat \ {0} /\ upper \in Nat \ {0} /\ lower <= upper
         /\ round_up => d * TO_Q64 >= L * (upper - lower)
         /\ ~round_up => d * TO_Q64 <= L * (upper - lower)
         /\ \A high \in Int : L * (upper - lower) <= high * TO_Q64 => d <= high
<1> DEFINE n == L * (upper - lower)
<1>1. /\ lower \in Nat \ {0} /\ upper \in Nat \ {0} /\ lower <= upper /\ upper - lower \in Nat
      /\ L \in Nat /\ TO_Q64 \in Nat \ {0}
  BY PriceBounds, Widths DEF Lower, Upper
<1>2. n \in Nat /\ n \in Int
  BY <1>1
<1>3. d = CheckU64(DivRound(n, TO_Q64, round_up))
  BY DEF get_amount_delta_b, checked_mul_shift_right_round_up_if
<1> HIDE DEF n
<1>4. DivRound(n, TO_Q64, round_up) \in Int
  BY <1>1, <1>2, DivRoundBounds
<1>5. d = DivRound(n, TO_Q64, round_up) /\ d \in U64
  BY <1>3, <1>4, Conversions
<1>6. d \in Nat
  BY <1>5, Widths
<1>7. (round_up => d * TO_Q64 >= n) /\ (~round_up => d * TO_Q64 <= n)
  BY <1>1, <1>2, <1>5, DivRoundBounds
<1>8. ASSUME NEW high \in Int, n <= high * TO_Q64 PROVE d <= high
  BY <1>1, <1>2, <1>5, <1>8, QuotientUpTo
<1> QED
  BY <1>1, <1>5, <1>6, <1>7, <1>8 DEF n

\* What a step that succeeds has computed: the price it reached, what it charges
\* and what it pays for that move, and the fee.
Settled(c, remaining, fee_rate, L, p, t, is_input, leftwards) ==
  LET calc == AmountCalc(remaining, fee_rate, is_input)
      max  == get_amount_fixed_delta(p, t, L, is_input, leftwards)
  IN  /\ calc \in U64 /\ max \in U64
      /\ c.next_price = NextSqrtPrice(calc, max, L, p, t, is_input, leftwards)
      /\ c.next_price \in PriceRange
      /\ IF leftwards THEN t <= c.next_price /\ c.next_price <= p
         ELSE p <= c.next_price /\ c.next_price <= t
      /\ c.amount_in # Err
      /\ c.amount_in = IF leftwards THEN get_amount_delta_a(p, c.next_price, L, TRUE)
                       ELSE get_amount_delta_b(p, c.next_price, L, TRUE)
      /\ \E out \in U64 :
           /\ out = IF leftwards THEN get_amount_delta_b(p, c.next_price, L, FALSE)
                    ELSE get_amount_delta_a(p, c.next_price, L, FALSE)
           /\ c.amount_out \in U64 /\ c.amount_out <= out
      /\ ~is_input => c.amount_out <= remaining
      /\ c.fee_amount # Err
      /\ c.fee_amount = FeeAmount(c.amount_in, remaining, fee_rate, is_input, c.next_price = t)

\* A step that does not fail is settled: its price is between the two it was
\* given, and its amounts are those of the move (swap_math.rs:14).
LEMMA StepSettled ==
  ASSUME NEW remaining \in U64, NEW fee_rate \in 0 .. MAX_FEE_RATE, NEW L \in U128,
         NEW p \in PriceRange, NEW t \in PriceRange,
         NEW is_input \in BOOLEAN, NEW leftwards \in BOOLEAN,
         IF leftwards THEN t <= p ELSE p <= t,
         NEW c, c = compute_swap(remaining, fee_rate, L, p, t, is_input, leftwards),
         c # SwapStepError
  PROVE  Settled(c, remaining, fee_rate, L, p, t, is_input, leftwards)
<1> DEFINE max_delta   == get_amount_fixed_delta(p, t, L, is_input, leftwards)
           amount_calc == AmountCalc(remaining, fee_rate, is_input)
           next_price  == NextSqrtPrice(amount_calc, max_delta, L, p, t, is_input, leftwards)
           unfixed     == get_amount_unfixed_delta(p, next_price, L, is_input, leftwards)
           fixed       == IF next_price = t THEN max_delta
                          ELSE get_amount_fixed_delta(p, next_price, L, is_input, leftwards)
           amount_in   == IF is_input THEN fixed ELSE unfixed
           amount_out  == IF is_input THEN unfixed
                          ELSE IF fixed > remaining THEN remaining ELSE fixed
           fee_amount  == FeeAmount(amount_in, remaining, fee_rate, is_input, next_price = t)
<1>1. /\ max_delta # Err /\ amount_calc # Err /\ next_price # Err
      /\ unfixed # Err /\ fixed # Err /\ fee_amount # Err
      /\ c = [amount_in  |-> amount_in,  amount_out |-> amount_out,
              next_price |-> next_price, fee_amount |-> fee_amount]
  BY DEF compute_swap
<1>2. amount_calc \in U64 /\ max_delta \in U64
  BY <1>1, AmountCalcType, FixedAndUnfixedTypes
<1>3. /\ next_price \in PriceRange
      /\ IF leftwards THEN t <= next_price /\ next_price <= p
         ELSE p <= next_price /\ next_price <= t
  BY <1>1, <1>2, NextSqrtPriceBetween
<1>4. fixed = get_amount_fixed_delta(p, next_price, L, is_input, leftwards)
  OBVIOUS
<1>5. unfixed \in U64 /\ fixed \in U64
  BY <1>1, <1>3, FixedAndUnfixedTypes
<1> HIDE DEF next_price, fee_amount
<1>6. /\ c.next_price = next_price /\ c.amount_in = amount_in
      /\ c.amount_out = amount_out /\ c.fee_amount = fee_amount
  BY <1>1
<1> DEFINE out == IF is_input THEN unfixed ELSE fixed
<1>7. /\ amount_in = IF leftwards THEN get_amount_delta_a(p, next_price, L, TRUE)
                     ELSE get_amount_delta_b(p, next_price, L, TRUE)
      /\ out = IF leftwards THEN get_amount_delta_b(p, next_price, L, FALSE)
               ELSE get_amount_delta_a(p, next_price, L, FALSE)
  <2> HIDE DEF fixed, unfixed
  <2>1. unfixed = get_amount_unfixed_delta(p, next_price, L, is_input, leftwards)
    BY DEF unfixed
  <2>2. CASE is_input /\ leftwards
    BY <1>4, <2>1, <2>2 DEF get_amount_fixed_delta, get_amount_unfixed_delta
  <2>3. CASE is_input /\ ~leftwards
    BY <1>4, <2>1, <2>3 DEF get_amount_fixed_delta, get_amount_unfixed_delta
  <2>4. CASE ~is_input /\ leftwards
    BY <1>4, <2>1, <2>4 DEF get_amount_fixed_delta, get_amount_unfixed_delta
  <2>5. CASE ~is_input /\ ~leftwards
    BY <1>4, <2>1, <2>5 DEF get_amount_fixed_delta, get_amount_unfixed_delta
  <2> QED
    BY <2>2, <2>3, <2>4, <2>5
<1> HIDE DEF fixed, unfixed
<1>8. /\ out \in U64 /\ amount_out \in U64 /\ amount_in \in U64
      /\ amount_out <= out /\ (~is_input => amount_out <= remaining)
  <2>1. fixed \in Int /\ remaining \in Int /\ unfixed \in Int
    BY <1>5, Widths
  <2> QED
    BY <1>5, <2>1
<1>9. amount_in # Err
  BY <1>8, Widths
<1> HIDE DEF amount_in, amount_out, out, max_delta, amount_calc
<1>10. next_price = NextSqrtPrice(amount_calc, max_delta, L, p, t, is_input, leftwards)
  BY DEF next_price
<1>11. fee_amount = FeeAmount(amount_in, remaining, fee_rate, is_input, next_price = t)
  BY DEF fee_amount
<1> QED
  BY <1>1, <1>2, <1>3, <1>6, <1>7, <1>8, <1>9, <1>10, <1>11
  DEF Settled, amount_calc, max_delta

\* The amounts of a settled step, and what they cover.
LEMMA SettledAmounts ==
  ASSUME NEW remaining, NEW fee_rate, NEW L \in U128,
         NEW p \in PriceRange, NEW t, NEW is_input, NEW leftwards \in BOOLEAN,
         NEW c, Settled(c, remaining, fee_rate, L, p, t, is_input, leftwards),
         NEW lower, lower = Lower(p, c.next_price), NEW upper, upper = Upper(p, c.next_price)
  PROVE  /\ c.amount_in \in Nat /\ c.amount_in \in U64 /\ c.amount_out \in Nat
         /\ lower \in Nat \ {0} /\ upper \in Nat \ {0} /\ lower <= upper
         /\ leftwards =>
              /\ c.amount_in * (upper * lower) >= (L * (upper - lower)) * TO_Q64
              /\ c.amount_out * TO_Q64 <= L * (upper - lower)
         /\ ~leftwards =>
              /\ c.amount_in * TO_Q64 >= L * (upper - lower)
              /\ c.amount_out * (upper * lower) <= (L * (upper - lower)) * TO_Q64
<1> DEFINE r  == c.next_price
           d  == c.amount_in
           o  == c.amount_out
           up == TRUE
           down == FALSE
<1>1. /\ r \in PriceRange /\ d # Err
      /\ d = IF leftwards THEN get_amount_delta_a(p, r, L, up) ELSE get_amount_delta_b(p, r, L, up)
      /\ \E out \in U64 :
           /\ out = IF leftwards THEN get_amount_delta_b(p, r, L, down)
                    ELSE get_amount_delta_a(p, r, L, down)
           /\ o \in U64 /\ o <= out
  BY DEF Settled
<1>2. up \in BOOLEAN /\ down \in BOOLEAN /\ up /\ ~down
  OBVIOUS
<1> HIDE DEF r, d, o, up, down
<1>3. PICK out \in U64 : /\ out = IF leftwards THEN get_amount_delta_b(p, r, L, down)
                                  ELSE get_amount_delta_a(p, r, L, down)
                         /\ o \in U64 /\ o <= out
  BY <1>1
<1>4. out # Err /\ out \in Nat /\ o \in Nat /\ TO_Q64 \in Nat
  BY <1>3, Widths
<1>5. lower = Lower(p, r) /\ upper = Upper(p, r)
  BY DEF r
<1>6. CASE leftwards
  <2>1. /\ d \in Nat /\ d \in U64 /\ lower \in Nat \ {0} /\ upper \in Nat \ {0} /\ lower <= upper
        /\ d * (upper * lower) >= (L * (upper - lower)) * TO_Q64
    <3>1. d = get_amount_delta_a(p, r, L, up)
      BY <1>1, <1>6
    <3> QED
      BY <1>1, <1>2, <1>5, <3>1, DeltaABounds
  <2>2. out * TO_Q64 <= L * (upper - lower)
    <3>1. out = get_amount_delta_b(p, r, L, down)
      BY <1>3, <1>6
    <3> QED
      BY <1>1, <1>2, <1>4, <1>5, <3>1, DeltaBBounds
  <2>3. o * TO_Q64 <= out * TO_Q64
    BY <1>3, <1>4, MulMonotone
  <2>4. L \in Nat
    BY Widths
  <2>5. o * TO_Q64 <= L * (upper - lower)
    BY <1>4, <2>1, <2>2, <2>3, <2>4
  <2> QED
    BY <1>4, <1>6, <2>1, <2>5 DEF d, o
<1>7. CASE ~leftwards
  <2>1. /\ d \in Nat /\ d \in U64 /\ lower \in Nat \ {0} /\ upper \in Nat \ {0} /\ lower <= upper
        /\ d * TO_Q64 >= L * (upper - lower)
    <3>1. d = get_amount_delta_b(p, r, L, up)
      BY <1>1, <1>7
    <3> QED
      BY <1>1, <1>2, <1>5, <3>1, DeltaBBounds
  <2> DEFINE w == upper * lower
             n == (L * (upper - lower)) * TO_Q64
  <2>2. out * w <= n
    <3>1. out = get_amount_delta_a(p, r, L, down)
      BY <1>3, <1>7
    <3> QED
      BY <1>1, <1>2, <1>4, <1>5, <3>1, DeltaABounds
  <2>3. w \in Nat
    BY <2>1
  <2>4. n \in Int
    <3>1. L \in Nat
      BY Widths
    <3> QED
      BY <1>4, <2>1, <3>1
  <2> HIDE DEF w, n
  <2>5. o * w <= out * w
    BY <1>3, <1>4, <2>3, MulMonotone
  <2>6. o * w <= n
    BY <1>4, <2>2, <2>3, <2>4, <2>5
  <2> QED
    BY <1>4, <1>7, <2>1, <2>6 DEF d, o, w, n
<1> QED
  BY <1>6, <1>7

-----------------------------------------------------------------------------
(* Ticks *)

\* Every non-empty set of naturals has a least element.
LEMMA NatMin ==
  ASSUME NEW S \in SUBSET Nat, S # {}
  PROVE  \E x \in S : \A y \in S : x <= y
<1> DEFINE R == OpToRel(<, Nat)
<1>1. IsWellFoundedOn(R, Nat)
  BY NatLessThanWellFounded
<1>2. S \subseteq Nat
  OBVIOUS
<1> HIDE DEF R
<1>3. PICK x \in S : \A y \in S : ~ (<<y, x>> \in R)
  BY <1>1, <1>2, WFMin
<1>4. \A y \in S : ~(y < x)
  BY <1>2, <1>3 DEF R, OpToRel
<1> QED
  BY <1>2, <1>3, <1>4

\* LeastOf picks the least member of a set of integers bounded from below.
LEMMA LeastInSet ==
  ASSUME NEW low \in Int, NEW S, S \subseteq Int, S # {}, \A s \in S : low <= s
  PROVE  LeastOf(S) \in S /\ \A s \in S : LeastOf(S) <= s
<1> DEFINE T == {n \in Nat : n + low \in S}
<1>1. T # {}
  <2>1. PICK s \in S : TRUE
    OBVIOUS
  <2>2. s \in Int /\ low <= s
    BY <2>1
  <2>3. s - low \in Nat /\ (s - low) + low = s
    BY <2>2
  <2> QED
    BY <2>1, <2>3
<1>2. T \in SUBSET Nat
  OBVIOUS
<1> HIDE DEF T
<1>3. PICK n \in T : \A m \in T : n <= m
  BY <1>1, <1>2, NatMin
<1>4. n \in Nat /\ n + low \in S
  BY <1>3 DEF T
<1>5. ASSUME NEW s \in S PROVE n + low <= s
  <2>1. s \in Int /\ low <= s
    OBVIOUS
  <2>2. s - low \in Nat /\ (s - low) + low = s
    BY <2>1
  <2>3. s - low \in T
    BY <2>2 DEF T
  <2>4. n <= s - low
    BY <1>3, <2>3
  <2> QED
    BY <1>4, <2>1, <2>4
<1>6. \E s \in S : \A r \in S : s <= r
  BY <1>4, <1>5
<1> QED
  BY <1>6 DEF LeastOf

\* GreatestOf picks the greatest member of a set of integers bounded from above.
LEMMA GreatestInSet ==
  ASSUME NEW high \in Int, NEW S, S \subseteq Int, S # {}, \A s \in S : s <= high
  PROVE  GreatestOf(S) \in S /\ \A s \in S : GreatestOf(S) >= s
<1> DEFINE T == {n \in Nat : high - n \in S}
<1>1. T # {}
  <2>1. PICK s \in S : TRUE
    OBVIOUS
  <2>2. s \in Int /\ s <= high
    BY <2>1
  <2>3. high - s \in Nat /\ high - (high - s) = s
    BY <2>2
  <2> QED
    BY <2>1, <2>3
<1>2. T \in SUBSET Nat
  OBVIOUS
<1> HIDE DEF T
<1>3. PICK n \in T : \A m \in T : n <= m
  BY <1>1, <1>2, NatMin
<1>4. n \in Nat /\ high - n \in S
  BY <1>3 DEF T
<1>5. ASSUME NEW s \in S PROVE high - n >= s
  <2>1. s \in Int /\ s <= high
    OBVIOUS
  <2>2. high - s \in Nat /\ high - (high - s) = s
    BY <2>1
  <2>3. high - s \in T
    BY <2>2 DEF T
  <2>4. n <= high - s
    BY <1>3, <2>3
  <2> QED
    BY <1>4, <2>1, <2>4
<1>6. \E s \in S : \A r \in S : s >= r
  BY <1>4, <1>5
<1> QED
  BY <1>6 DEF GreatestOf

\* A price between the extreme ones has a tick, the greatest whose price does
\* not exceed it.
LEMMA TickOfPrice ==
  ASSUME NEW p \in PriceRange
  PROVE  /\ tick_index_from_sqrt_price(p) \in TickIndices
         /\ SqrtPrice[tick_index_from_sqrt_price(p)] <= p
         /\ tick_index_from_sqrt_price(p) < MAX_TICK_INDEX =>
              p < SqrtPrice[tick_index_from_sqrt_price(p) + 1]
<1> DEFINE S == {t \in TickIndices : SqrtPrice[t] <= p}
           g == GreatestOf(S)
<1>1. S \subseteq Int /\ \A s \in S : s <= MAX_TICK_INDEX
  BY TickRangeAssumption DEF TickIndices
<1>2. MIN_TICK_INDEX \in S
  BY PriceBounds DEF PriceRange, MIN_SQRT_PRICE_X64
<1>3. g \in S /\ \A s \in S : g >= s
  <2>1. S # {} /\ MAX_TICK_INDEX \in Int
    BY <1>2, TickRangeAssumption
  <2> HIDE DEF S
  <2> QED
    BY <1>1, <2>1, GreatestInSet
<1> HIDE DEF g
<1>4. g = MAX_TICK_INDEX \/ p < SqrtPrice[g + 1]
  <2>1. SUFFICES ASSUME g # MAX_TICK_INDEX PROVE p < SqrtPrice[g + 1]
    OBVIOUS
  <2>2. g + 1 \in TickIndices /\ g + 1 > g
    BY <1>3, <2>1, TickRangeAssumption DEF TickIndices
  <2>3. g + 1 \notin S
    BY <1>1, <1>3, <2>2
  <2>4. SqrtPrice[g + 1] \in Int /\ p \in Int
    <3>1. SqrtPrice[g + 1] \in U128
      BY <2>2, PriceBounds
    <3>2. p \in U128
      BY PriceBounds
    <3>3. U128 \subseteq Int
      BY Widths
    <3> QED
      BY <3>1, <3>2, <3>3
  <2> QED
    BY <2>2, <2>3, <2>4
<1>5. \E t \in TickIndices :
        /\ SqrtPrice[t] <= p
        /\ t = MAX_TICK_INDEX \/ p < SqrtPrice[t + 1]
  BY <1>3, <1>4
<1> DEFINE r == tick_index_from_sqrt_price(p)
<1>6. r \in TickIndices /\ SqrtPrice[r] <= p /\ (r = MAX_TICK_INDEX \/ p < SqrtPrice[r + 1])
  BY <1>5 DEF tick_index_from_sqrt_price
<1> QED
  BY <1>6, TickRangeAssumption DEF TickIndices
-----------------------------------------------------------------------------
(* The search within one array. *)

\* The constants of the tick line and of its arrays.
LEMMA ArrayTypes ==
  /\ tick_spacing \in Nat \ {0} /\ tick_spacing \in Int
  /\ TICK_ARRAY_SIZE \in Nat \ {0} /\ TICK_ARRAY_SIZE \in Int
  /\ TICKS_IN_ARRAY \in Nat \ {0} /\ TICKS_IN_ARRAY \in Int
  /\ tick_spacing <= TICKS_IN_ARRAY
  /\ MIN_TICK_INDEX \in Int /\ MAX_TICK_INDEX \in Int /\ MIN_TICK_INDEX < MAX_TICK_INDEX
  /\ UsableTicks \subseteq TickIndices /\ TickIndices \subseteq Int
<1>1. /\ tick_spacing \in Nat \ {0} /\ tick_spacing \in Int
      /\ TICK_ARRAY_SIZE \in Nat \ {0} /\ TICK_ARRAY_SIZE \in Int
  BY ArrayAssumption
<1>2. TICKS_IN_ARRAY \in Nat \ {0} /\ TICKS_IN_ARRAY \in Int /\ tick_spacing <= TICKS_IN_ARRAY
  BY <1>1 DEF TICKS_IN_ARRAY
<1> QED
  BY <1>1, <1>2, TickRangeAssumption DEF UsableTicks, TickIndices

\* The start of a valid array is a multiple of the array's length, and not more
\* than one array below MIN_TICK_INDEX.
LEMMA StartTicks ==
  ASSUME NEW start \in Int, check_is_valid_start_tick(start)
  PROVE  /\ \E q \in Int : start = q * TICKS_IN_ARRAY
         /\ start <= MAX_TICK_INDEX
         /\ MIN_TICK_INDEX < start + TICKS_IN_ARRAY
         /\ MIN_TICK_INDEX < start => start \in TickIndices
<1> DEFINE n == TICKS_IN_ARRAY
           m == -MIN_TICK_INDEX
<1>1. n \in Nat \ {0} /\ n \in Int /\ m \in Int
  BY ArrayTypes
<1>2. CASE check_is_out_of_bounds(start)
  <2>1. start <= MIN_TICK_INDEX /\ start = MIN_TICK_INDEX - (n - (m % n)) /\ m % n # 0
    BY <1>2, EdgeAssumption DEF check_is_valid_start_tick, MIN_ARRAY_START
  <2> HIDE DEF n, m
  <2>2. /\ m \div n \in Int /\ m % n \in 0 .. (n - 1)
        /\ m = (m \div n) * n + (m % n)
    BY <1>1, DivMod
  <2> DEFINE k == m \div n
             r == m % n
  <2>3. k \in Int /\ r \in Int /\ r > 0 /\ m = k * n + r
    BY <1>1, <2>1, <2>2
  <2>4. start = MIN_TICK_INDEX - (n - r)
    BY <2>1
  <2> HIDE DEF k, r
  <2>5. start = (-(k + 1)) * n
    BY <1>1, <2>3, <2>4, ArrayTypes DEF m
  <2>6. MIN_TICK_INDEX < start + n
    BY <1>1, <2>3, <2>4, ArrayTypes
  <2>7. \E q \in Int : start = q * n
    BY <2>3, <2>5
  <2>8. start <= MAX_TICK_INDEX /\ (MIN_TICK_INDEX < start => start \in TickIndices)
    BY <2>1, ArrayTypes
  <2> QED
    BY <2>6, <2>7, <2>8 DEF n
<1>3. CASE ~check_is_out_of_bounds(start)
  <2>1. start % n = 0 /\ start <= MAX_TICK_INDEX /\ start >= MIN_TICK_INDEX
    BY <1>3, ArrayTypes DEF check_is_valid_start_tick, check_is_out_of_bounds
  <2> HIDE DEF n
  <2>2. /\ start \div n \in Int /\ start = (start \div n) * n + (start % n)
    BY <1>1, DivMod
  <2>3. start = (start \div n) * n
    BY <2>1, <2>2, <1>1
  <2>4. MIN_TICK_INDEX < start + n
    BY <1>1, <2>1, ArrayTypes
  <2>5. \E q \in Int : start = q * n
    BY <2>2, <2>3
  <2>6. start \in TickIndices
    BY <2>1, ArrayTypes DEF TickIndices
  <2> QED
    BY <2>1, <2>4, <2>5, <2>6 DEF n
<1> QED
  BY <1>2, <1>3

\* The offset of a usable tick in an array determines the tick.
LEMMA UsableTickOffset ==
  ASSUME NEW start \in Int, check_is_valid_start_tick(start), NEW t \in UsableTicks
  PROVE  tick_offset(start, t) \in Int /\ t - start = tick_offset(start, t) * tick_spacing
<1> DEFINE s == tick_spacing
           d == t - start
<1>1. s \in Nat \ {0} /\ s \in Int /\ t \in Int /\ d \in Int
  BY ArrayTypes
<1>2. PICK q \in Int : start = q * TICKS_IN_ARRAY
  BY StartTicks
<1>3. start = (q * TICK_ARRAY_SIZE) * s
  BY <1>1, <1>2, ArrayTypes DEF TICKS_IN_ARRAY
<1>4. t % s = 0
  BY DEF UsableTicks
<1> HIDE DEF s
<1>5. t \div s \in Int /\ t = (t \div s) * s + (t % s)
  BY <1>1, DivMod
<1>6. t = (t \div s) * s
  BY <1>1, <1>4, <1>5
<1> DEFINE k == (t \div s) - (q * TICK_ARRAY_SIZE)
<1>7. k \in Int /\ d = k * s
  BY <1>1, <1>2, <1>3, <1>5, <1>6, ArrayTypes
<1> HIDE DEF k, d
<1>8. /\ d \div s \in Int /\ d % s \in 0 .. (s - 1)
      /\ d = (d \div s) * s + (d % s)
  BY <1>1, <1>7, DivMod
<1> DEFINE e == d \div s
<1>9. e \in Int /\ e * s <= k * s /\ k * s < (e + 1) * s
  BY <1>1, <1>7, <1>8
<1> HIDE DEF e
<1>10. e = k
  <2>1. e <= k
    BY <1>1, <1>7, <1>9, MulCancel
  <2>2. k < e + 1
    BY <1>1, <1>7, <1>9, MulCancelStrict
  <2> QED
    BY <1>7, <1>9, <2>1, <2>2
<1> QED
  BY <1>7, <1>9, <1>10 DEF tick_offset, d, s, e

\* Between the last tick before an array and its start there is no usable tick.
LEMMA UsableTickFromStart ==
  ASSUME NEW start \in Int, check_is_valid_start_tick(start), NEW t \in UsableTicks,
         start - tick_spacing < t
  PROVE  start <= t
<1> DEFINE e == tick_offset(start, t)
<1>1. e \in Int /\ t - start = e * tick_spacing /\ t \in Int
  BY UsableTickOffset, ArrayTypes
<1> HIDE DEF e
<1>2. tick_spacing \in Nat \ {0} /\ (-1) * tick_spacing < e * tick_spacing
  BY <1>1, ArrayTypes
<1>3. -1 < e
  BY <1>1, <1>2, MulCancelStrict
<1>4. 0 * tick_spacing <= e * tick_spacing
  BY <1>1, <1>2, <1>3, MulMonotone
<1> QED
  BY <1>1, <1>2, <1>4

\* Offsets in an array order the ticks as the ticks themselves: rounding the
\* search tick down to its offset passes no usable tick.
LEMMA OffsetOrder ==
  ASSUME NEW start \in Int, check_is_valid_start_tick(start), NEW index \in Int,
         NEW t \in UsableTicks
  PROVE  tick_offset(start, t) <= tick_offset(start, index) <=> t <= index
<1> DEFINE s == tick_spacing
           d == index - start
           e == tick_offset(start, t)
           o == tick_offset(start, index)
<1>1. e \in Int /\ t - start = e * s /\ t \in Int
  BY UsableTickOffset, ArrayTypes
<1>2. s \in Nat \ {0} /\ s \in Int /\ d \in Int
  BY ArrayTypes
<1>3. o \in Int /\ o * s <= d /\ d < o * s + s
  <2>1. o = d \div s
    BY DEF tick_offset
  <2> HIDE DEF d, s, o
  <2> QED
    BY <1>2, <2>1, DivMod
<1> HIDE DEF o, e
<1>4. ASSUME e <= o PROVE t <= index
  <2>1. e * s <= o * s
    BY <1>1, <1>2, <1>3, <1>4, MulMonotone
  <2> QED
    BY <1>1, <1>2, <1>3, <2>1
<1>5. ASSUME o < e PROVE index < t
  <2>1. o + 1 <= e /\ o + 1 \in Int
    BY <1>1, <1>3, <1>5
  <2>2. (o + 1) * s <= e * s
    BY <1>1, <1>2, <2>1, MulMonotone
  <2>3. (o + 1) * s = o * s + s
    BY <1>2, <1>3
  <2> QED
    BY <1>1, <1>2, <1>3, <2>2, <2>3
<1>6. e <= o <=> t <= index
  BY <1>1, <1>3, <1>4, <1>5
<1> QED
  BY <1>6 DEF e, o

\* f is the first initialized tick of an array on the side of the search index
\* that the search looks at, or NotFound because the array holds none.
FirstInArray(f, initialized, start, index, a_to_b) ==
  /\ in_search_range(start, index, ~a_to_b)
  /\ f # NotFound => /\ f \in initialized /\ check_in_array_bounds(start, f)
                     /\ a_to_b => f <= index
                     /\ ~a_to_b => index < f
  /\ \A t \in initialized :
       /\ a_to_b /\ check_in_array_bounds(start, t) /\ t <= index => f # NotFound /\ t <= f
       /\ ~a_to_b /\ check_in_array_bounds(start, t) /\ index < t => f # NotFound /\ f <= t

\* The search of one array yields that tick.
LEMMA OneArray ==
  ASSUME NEW initialized \in SUBSET UsableTicks, NEW start \in Int,
         check_is_valid_start_tick(start), NEW index \in Int, NEW a_to_b \in BOOLEAN,
         NEW f, f = get_next_init_tick_index(initialized, start, index, a_to_b),
         f # InvalidSequence
  PROVE  FirstInArray(f, initialized, start, index, a_to_b)
<1> DEFINE offset == tick_offset(start, index)
           ahead  == {t \in initialized :
                        /\ check_in_array_bounds(start, t)
                        /\ IF a_to_b THEN tick_offset(start, t) <= offset
                           ELSE tick_offset(start, t) > offset}
<1>1. /\ in_search_range(start, index, ~a_to_b)
      /\ f = IF ahead = {} THEN NotFound
             ELSE IF a_to_b THEN GreatestOf(ahead) ELSE LeastOf(ahead)
  BY DEF get_next_init_tick_index
<1>2. \A t \in initialized : t \in ahead <=>
        check_in_array_bounds(start, t) /\ IF a_to_b THEN t <= index ELSE index < t
  <2> SUFFICES ASSUME NEW t \in initialized
               PROVE  t \in ahead <=>
                        check_in_array_bounds(start, t) /\ IF a_to_b THEN t <= index ELSE index < t
    OBVIOUS
  <2>1. tick_offset(start, t) <= tick_offset(start, index) <=> t <= index
    BY OffsetOrder
  <2>2. tick_offset(start, t) \in Int /\ t \in Int
    BY UsableTickOffset, ArrayTypes
  <2>3. tick_offset(start, index) \in Int
    BY ArrayTypes, DivMod DEF tick_offset
  <2> QED
    BY <2>1, <2>2, <2>3
<1>3. /\ ahead \subseteq initialized /\ ahead \subseteq Int /\ initialized \subseteq Int
      /\ \A t \in ahead : MIN_TICK_INDEX <= t /\ t <= MAX_TICK_INDEX
      /\ MIN_TICK_INDEX \in Int /\ MAX_TICK_INDEX \in Int
  <2>1. ahead \subseteq initialized
    OBVIOUS
  <2> HIDE DEF ahead
  <2>2. ahead \subseteq TickIndices /\ initialized \subseteq TickIndices
    BY <2>1, ArrayTypes
  <2> QED
    BY <2>1, <2>2, ArrayTypes DEF TickIndices
<1> HIDE DEF ahead
<1>4. CASE ahead = {}
  BY <1>1, <1>2, <1>4 DEF FirstInArray
<1>5. CASE ahead # {} /\ a_to_b
  <2>1. f \in ahead /\ \A t \in ahead : t <= f
    <3>1. f = GreatestOf(ahead)
      BY <1>1, <1>5
    <3>2. GreatestOf(ahead) \in ahead /\ \A t \in ahead : GreatestOf(ahead) >= t
      BY <1>3, <1>5, GreatestInSet
    <3> QED
      BY <1>3, <3>1, <3>2
  <2>2. f \in initialized /\ check_in_array_bounds(start, f) /\ f <= index
    BY <1>2, <1>3, <1>5, <2>1
  <2>4. f # NotFound
    BY <1>3, <2>1 DEF NotFound
  <2>3. \A t \in initialized : check_in_array_bounds(start, t) /\ t <= index => t <= f
    BY <1>2, <1>5, <2>1
  <2> QED
    BY <1>1, <1>5, <2>2, <2>3, <2>4 DEF FirstInArray
<1>6. CASE ahead # {} /\ ~a_to_b
  <2>1. f \in ahead /\ \A t \in ahead : f <= t
    <3>1. f = LeastOf(ahead)
      BY <1>1, <1>6
    <3>2. LeastOf(ahead) \in ahead /\ \A t \in ahead : LeastOf(ahead) <= t
      BY <1>3, <1>6, LeastInSet
    <3> QED
      BY <1>3, <3>1, <3>2
  <2>2. f \in initialized /\ check_in_array_bounds(start, f) /\ index < f
    BY <1>2, <1>3, <1>6, <2>1
  <2>4. f # NotFound
    BY <1>3, <2>1 DEF NotFound
  <2>3. \A t \in initialized : check_in_array_bounds(start, t) /\ index < t => f <= t
    BY <1>2, <1>6, <2>1
  <2> QED
    BY <1>1, <1>6, <2>2, <2>3, <2>4 DEF FirstInArray
<1> QED
  BY <1>4, <1>5, <1>6

-----------------------------------------------------------------------------
(* The search across the sequence of arrays. *)

\* From array to array the search index only moves in the direction of the
\* search, as long as no array stops it.
LEMMA SearchIndexMoves ==
  ASSUME NEW initialized \in SUBSET UsableTicks, NEW arrays \in Seq(Int),
         \A i \in 1 .. Len(arrays) : check_is_valid_start_tick(arrays[i]),
         NEW tick \in Int, NEW a_to_b \in BOOLEAN, NEW first \in Nat \ {0},
         NEW at \in first .. Len(arrays),
         \A i \in first .. (at - 1) :
           get_next_init_tick_index(initialized, arrays[i],
             SearchIndex(arrays, first, i, tick, a_to_b), a_to_b) = NotFound
  PROVE  /\ SearchIndex(arrays, first, at, tick, a_to_b) \in Int
         /\ a_to_b => SearchIndex(arrays, first, at, tick, a_to_b) <= tick
         /\ ~a_to_b => SearchIndex(arrays, first, at, tick, a_to_b) >= tick
<1> DEFINE index(i) == SearchIndex(arrays, first, i, tick, a_to_b)
           Wrong == {i \in first .. at :
                       ~ (IF a_to_b THEN index(i) <= tick ELSE index(i) >= tick)}
<1>1. \A i \in first .. at : i \in 1 .. Len(arrays) /\ arrays[i] \in Int
  OBVIOUS
<1>2. \A i \in first .. at : index(i) \in Int
  <2> TAKE i \in first .. at
  <2>1. CASE i = first
    BY <2>1 DEF SearchIndex
  <2>2. CASE i # first
    <3>1. i - 1 \in first .. at
      BY <2>2
    <3>2. arrays[i - 1] \in Int
      BY <1>1, <3>1
    <3> QED
      BY <2>2, <3>2, ArrayTypes DEF SearchIndex
  <2> QED
    BY <2>1, <2>2
<1>3. ASSUME Wrong # {} PROVE FALSE
  <2>1. Wrong \in SUBSET Nat
    OBVIOUS
  <2> HIDE DEF Wrong
  <2>2. PICK i \in Wrong : \A j \in Wrong : i <= j
    BY <1>3, <2>1, NatMin
  <2>3. /\ i \in first .. at
        /\ ~ (IF a_to_b THEN index(i) <= tick ELSE index(i) >= tick)
    BY <2>2 DEF Wrong
  <2>4. i # first
    BY <2>3 DEF SearchIndex
  <2> DEFINE h == i - 1
  <2>5. h \in first .. (at - 1) /\ h \in first .. at /\ ~(i <= h) /\ i - 1 = h
    BY <2>3, <2>4
  <2> HIDE DEF h
  <2>6. IF a_to_b THEN index(h) <= tick ELSE index(h) >= tick
    BY <2>2, <2>5 DEF Wrong
  <2>7. arrays[h] \in Int /\ check_is_valid_start_tick(arrays[h]) /\ index(h) \in Int
    BY <1>1, <1>2, <2>5
  <2>8. get_next_init_tick_index(initialized, arrays[h], index(h), a_to_b) = NotFound
    BY <2>5
  <2>9. NotFound # InvalidSequence
    BY ArrayTypes DEF NotFound, InvalidSequence
  <2> DEFINE x == index(h)
             a == arrays[h]
  <2>10. in_search_range(a, x, ~a_to_b)
    <3> HIDE DEF x, a
    <3>1. a \in Int /\ check_is_valid_start_tick(a) /\ x \in Int
      BY <2>7 DEF a, x
    <3>2. get_next_init_tick_index(initialized, a, x, a_to_b) # InvalidSequence
      BY <2>8, <2>9 DEF a, x
    <3> DEFINE f == get_next_init_tick_index(initialized, a, x, a_to_b)
    <3>3. FirstInArray(f, initialized, a, x, a_to_b)
      <4> HIDE DEF f
      <4>1. f = get_next_init_tick_index(initialized, a, x, a_to_b) /\ f # InvalidSequence
        BY <3>2 DEF f
      <4> QED
        BY <3>1, <4>1, OneArray
    <3> QED
      BY <3>3 DEF FirstInArray
  <2>11. index(i) = IF a_to_b THEN a - 1 ELSE a + TICKS_IN_ARRAY - 1
    BY <2>4, <2>5 DEF SearchIndex
  <2>12. a \in Int /\ x \in Int /\ (IF a_to_b THEN x <= tick ELSE x >= tick)
    BY <2>6, <2>7
  <2> HIDE DEF a, x, index
  <2>13. IF a_to_b THEN index(i) <= tick ELSE index(i) >= tick
    BY <2>10, <2>11, <2>12, ArrayTypes DEF in_search_range
  <2> QED
    BY <2>3, <2>13
<1>4. at \in first .. at
  OBVIOUS
<1>5. IF a_to_b THEN index(at) <= tick ELSE index(at) >= tick
  BY <1>3, <1>4
<1> QED
  BY <1>2, <1>4, <1>5

\* The arrays that a search has left behind hold no initialized tick between the
\* tick it began at and the one where it enters the next array.
LEMMA ArraysBehindHoldNone ==
  ASSUME NEW initialized \in SUBSET UsableTicks, NEW arrays \in Seq(Int),
         \A i \in 1 .. Len(arrays) : check_is_valid_start_tick(arrays[i]),
         NEW tick \in Int, NEW a_to_b \in BOOLEAN, NEW first \in Nat \ {0},
         NEW at \in first .. Len(arrays),
         \A i \in first .. (at - 1) :
           get_next_init_tick_index(initialized, arrays[i],
             SearchIndex(arrays, first, i, tick, a_to_b), a_to_b) = NotFound
  PROVE  \A t \in initialized :
           /\ a_to_b /\ t <= tick => t <= SearchIndex(arrays, first, at, tick, a_to_b)
           /\ ~a_to_b /\ tick < t => SearchIndex(arrays, first, at, tick, a_to_b) < t
<1> DEFINE index(i) == SearchIndex(arrays, first, i, tick, a_to_b)
           Clear(i) == \A t \in initialized : /\ a_to_b /\ t <= tick => t <= index(i)
                                              /\ ~a_to_b /\ tick < t => index(i) < t
           Wrong == {i \in first .. at : ~Clear(i)}
<1>1. \A i \in first .. at : i \in 1 .. Len(arrays) /\ arrays[i] \in Int
  OBVIOUS
<1>2. \A i \in first .. at : index(i) \in Int
  <2> SUFFICES ASSUME NEW i \in first .. at PROVE index(i) \in Int
    OBVIOUS
  <2>1. CASE i = first
    BY <2>1 DEF SearchIndex
  <2>2. CASE i # first
    <3>1. arrays[i - 1] \in Int
      BY <1>1, <2>2
    <3> QED
      BY <2>2, <3>1, ArrayTypes DEF SearchIndex
  <2> QED
    BY <2>1, <2>2
<1>3. initialized \subseteq Int
  BY ArrayTypes
<1> HIDE DEF Clear
<1>4. ASSUME Wrong # {} PROVE FALSE
  <2>1. Wrong \in SUBSET Nat
    OBVIOUS
  <2> HIDE DEF Wrong
  <2>2. PICK i \in Wrong : \A j \in Wrong : i <= j
    BY <1>4, <2>1, NatMin
  <2>3. i \in first .. at /\ ~Clear(i)
    BY <2>2 DEF Wrong
  <2>4. i # first
    <3>1. Clear(first)
      BY DEF Clear, SearchIndex
    <3> QED
      BY <2>3, <3>1
  <2> DEFINE h == i - 1
  <2>5. h \in first .. (at - 1) /\ h \in first .. at /\ ~(i <= h) /\ i - 1 = h
    BY <2>3, <2>4
  <2> HIDE DEF h
  <2>6. Clear(h)
    BY <2>2, <2>5 DEF Wrong
  <2> DEFINE x == index(h)
             a == arrays[h]
  <2>7. FirstInArray(NotFound, initialized, a, x, a_to_b)
    <3>1. /\ a \in Int /\ check_is_valid_start_tick(a) /\ x \in Int
          /\ get_next_init_tick_index(initialized, a, x, a_to_b) = NotFound
          /\ NotFound # InvalidSequence
      BY <1>1, <1>2, <2>5, ArrayTypes DEF NotFound, InvalidSequence
    <3> HIDE DEF a, x
    <3> QED
      BY <3>1, OneArray
  <2>8. index(i) = IF a_to_b THEN a - 1 ELSE a + TICKS_IN_ARRAY - 1
    BY <2>4, <2>5 DEF SearchIndex
  <2>9. /\ a \in Int /\ x \in Int /\ check_is_valid_start_tick(a)
        /\ \A t \in initialized : /\ a_to_b /\ t <= tick => t <= x
                                  /\ ~a_to_b /\ tick < t => x < t
    BY <1>1, <1>2, <2>5, <2>6 DEF Clear
  <2> HIDE DEF a, x, index
  <2>10. ASSUME NEW t \in initialized
         PROVE  /\ a_to_b /\ t <= tick => t <= index(i)
                /\ ~a_to_b /\ tick < t => index(i) < t
    <3>1. t \in Int /\ t \in UsableTicks
      BY <1>3
    <3>2. CASE a_to_b
      <4>1. x < a + TICKS_IN_ARRAY /\ ~(check_in_array_bounds(a, t) /\ t <= x)
        BY <2>7, <3>2 DEF FirstInArray, in_search_range
      <4>2. ASSUME t <= tick PROVE t < a
        BY <2>9, <3>1, <3>2, <4>1, <4>2, ArrayTypes DEF check_in_array_bounds, in_search_range
      <4> QED
        BY <2>8, <2>9, <3>1, <3>2, <4>2
    <3>3. CASE ~a_to_b
      <4>1. a - tick_spacing <= x /\ ~(check_in_array_bounds(a, t) /\ x < t)
        BY <2>7, <3>3 DEF FirstInArray, in_search_range
      <4>2. ASSUME a - tick_spacing < t PROVE a <= t
        BY <2>9, <3>1, <4>2, UsableTickFromStart
      <4>3. ASSUME tick < t PROVE a + TICKS_IN_ARRAY <= t
        BY <2>9, <3>1, <3>3, <4>1, <4>2, <4>3, ArrayTypes
        DEF check_in_array_bounds, in_search_range
      <4> QED
        BY <2>8, <2>9, <3>1, <3>3, <4>3, ArrayTypes
    <3> QED
      BY <3>2, <3>3
  <2>11. Clear(i)
    BY <2>10 DEF Clear
  <2> QED
    BY <2>3, <2>11
<1>5. at \in first .. at
  OBVIOUS
<1>6. Clear(at)
  BY <1>4, <1>5
<1> QED
  BY <1>6 DEF Clear

\* The edge at which an array ends a search is a tick of the tick line, in the
\* direction of the search.
LEMMA EdgeTickAhead ==
  ASSUME NEW start \in Int, check_is_valid_start_tick(start), NEW a_to_b \in BOOLEAN,
         NEW index \in Int, in_search_range(start, index, ~a_to_b), NEW tick \in Int,
         IF a_to_b THEN index <= tick /\ MIN_TICK_INDEX <= tick
                   ELSE index >= tick /\ tick < MAX_TICK_INDEX
  PROVE  /\ EdgeTick(start, a_to_b) \in TickIndices
         /\ IF a_to_b THEN EdgeTick(start, a_to_b) <= tick ELSE EdgeTick(start, a_to_b) > tick
<1>1. /\ start <= MAX_TICK_INDEX
      /\ MIN_TICK_INDEX < start + TICKS_IN_ARRAY
      /\ MIN_TICK_INDEX < start => start \in TickIndices
  BY StartTicks
<1>2. CASE a_to_b
  <2>1. EdgeTick(start, a_to_b) = IF start <= MIN_TICK_INDEX THEN MIN_TICK_INDEX ELSE start
    BY <1>2 DEF EdgeTick, AtEdge, is_min_tick_array
  <2>2. start <= index
    BY <1>2, ArrayTypes DEF in_search_range
  <2>3. EdgeTick(start, a_to_b) <= tick
    <3>1. index <= tick /\ MIN_TICK_INDEX <= tick
      BY <1>2
    <3>2. start <= tick
      BY <2>2, <3>1
    <3> QED
      BY <2>1, <3>1, <3>2
  <2>4. EdgeTick(start, a_to_b) \in TickIndices
    BY <1>1, <2>1, ArrayTypes, PriceBounds
  <2> QED
    BY <1>2, <2>3, <2>4
<1>3. CASE ~a_to_b
  <2> DEFINE last == start + TICKS_IN_ARRAY - 1
  <2>1. EdgeTick(start, a_to_b) =
          IF start + TICKS_IN_ARRAY > MAX_TICK_INDEX THEN MAX_TICK_INDEX ELSE last
    BY <1>3 DEF EdgeTick, AtEdge, is_max_tick_array
  <2>2. index < start - tick_spacing + TICKS_IN_ARRAY
    BY <1>3, ArrayTypes DEF in_search_range
  <2>3. EdgeTick(start, a_to_b) > tick
    BY <1>3, <2>1, <2>2, ArrayTypes
  <2>4. EdgeTick(start, a_to_b) \in TickIndices
    BY <1>1, <2>1, ArrayTypes DEF TickIndices
  <2> QED
    BY <1>3, <2>3, <2>4
<1> QED
  BY <1>2, <1>3

\* Where a search stops: at the first array that yields a tick, or at one that
\* has none and is the last one given or the last one there is.
SearchStopsAt(next, initialized, arrays, tick, a_to_b, first) ==
  LET at    == next.array_index
      start == arrays[at]
      index == SearchIndex(arrays, first, at, tick, a_to_b)
      f     == get_next_init_tick_index(initialized, start, index, a_to_b)
  IN  /\ at \in first .. Len(arrays)
      /\ start \in Int /\ check_is_valid_start_tick(start)
      /\ index \in Int /\ f # InvalidSequence
      /\ next.tick_index = IF f = NotFound THEN EdgeTick(start, a_to_b) ELSE f
      /\ f = NotFound => AtEdge(start, a_to_b) \/ at = Len(arrays)
      /\ \A i \in first .. (at - 1) :
           get_next_init_tick_index(initialized, arrays[i],
             SearchIndex(arrays, first, i, tick, a_to_b), a_to_b) = NotFound

\* The search stops at the first array that holds an initialized tick ahead, that
\* is at the end of the line, or that is the last one passed in.
LEMMA SearchStops ==
  ASSUME NEW initialized \in SUBSET UsableTicks, NEW arrays \in Seq(Int),
         \A i \in 1 .. Len(arrays) : check_is_valid_start_tick(arrays[i]),
         NEW tick \in Int, NEW a_to_b \in BOOLEAN, NEW first \in Nat \ {0},
         NEW next,
         next = get_next_initialized_tick_index(initialized, arrays, tick, a_to_b, first),
         next # SearchFailed
  PROVE  SearchStopsAt(next, initialized, arrays, tick, a_to_b, first)
<1> DEFINE found(i) == get_next_init_tick_index(initialized, arrays[i],
                         SearchIndex(arrays, first, i, tick, a_to_b), a_to_b)
           stops == {i \in first .. Len(arrays) :
                       \/ found(i) # NotFound
                       \/ AtEdge(arrays[i], a_to_b)
                       \/ i = Len(arrays)}
           at == LeastOf(stops)
<1>1. /\ stops # {} /\ found(at) # InvalidSequence
      /\ next = [array_index |-> at,
                 tick_index  |-> IF found(at) = NotFound THEN EdgeTick(arrays[at], a_to_b)
                                 ELSE found(at)]
  BY DEF get_next_initialized_tick_index
<1>2. at \in stops /\ \A i \in stops : at <= i
  <2>1. stops \subseteq Int /\ (\A i \in stops : 0 <= i) /\ 0 \in Int
    OBVIOUS
  <2>2. stops # {}
    BY <1>1
  <2> HIDE DEF stops
  <2> QED
    BY <2>1, <2>2, LeastInSet
<1>3. at \in first .. Len(arrays) /\ (found(at) = NotFound => AtEdge(arrays[at], a_to_b) \/ at = Len(arrays))
  BY <1>2
<1>4. \A i \in first .. (at - 1) : found(i) = NotFound
  <2> SUFFICES ASSUME NEW i \in first .. (at - 1) PROVE found(i) = NotFound
    OBVIOUS
  <2>1. i \in first .. Len(arrays) /\ ~(at <= i)
    BY <1>3
  <2>2. i \notin stops
    BY <1>2, <2>1
  <2> QED
    BY <2>1, <2>2
<1> HIDE DEF at, stops
<1>5. SearchIndex(arrays, first, at, tick, a_to_b) \in Int
  BY <1>3, <1>4, SearchIndexMoves
<1>6. arrays[at] \in Int /\ check_is_valid_start_tick(arrays[at])
  BY <1>3
<1>7. next.array_index = at
  BY <1>1
<1>8. next.tick_index = IF found(at) = NotFound THEN EdgeTick(arrays[at], a_to_b) ELSE found(at)
  BY <1>1
<1> QED
  BY <1>1, <1>3, <1>4, <1>5, <1>6, <1>7, <1>8 DEF SearchStopsAt

\* A search that succeeds yields a place of the sequence and a tick of the tick
\* line, not above the current tick when moving left and above it when moving
\* right: the tick that the swap heads for has a price, on the right side of the
\* current one (util/swap_tick_sequence.rs:99).
THEOREM SearchYieldsTickAhead ==
  ASSUME NEW initialized \in SUBSET UsableTicks, NEW arrays \in Seq(Int),
         \A i \in 1 .. Len(arrays) : check_is_valid_start_tick(arrays[i]),
         NEW tick \in Int, NEW a_to_b \in BOOLEAN, NEW first \in Nat \ {0},
         IF a_to_b THEN MIN_TICK_INDEX <= tick ELSE tick < MAX_TICK_INDEX,
         NEW next,
         next = get_next_initialized_tick_index(initialized, arrays, tick, a_to_b, first),
         next # SearchFailed
  PROVE  /\ next.array_index \in first .. Len(arrays)
         /\ next.tick_index \in TickIndices
         /\ IF a_to_b THEN next.tick_index <= tick ELSE next.tick_index > tick
<1> DEFINE at    == next.array_index
           start == arrays[at]
           index == SearchIndex(arrays, first, at, tick, a_to_b)
           f     == get_next_init_tick_index(initialized, start, index, a_to_b)
<1>1. SearchStopsAt(next, initialized, arrays, tick, a_to_b, first)
  BY SearchStops
<1>2. /\ at \in first .. Len(arrays)
      /\ start \in Int /\ check_is_valid_start_tick(start)
      /\ index \in Int /\ f # InvalidSequence
      /\ next.tick_index = IF f = NotFound THEN EdgeTick(start, a_to_b) ELSE f
      /\ \A i \in first .. (at - 1) :
           get_next_init_tick_index(initialized, arrays[i],
             SearchIndex(arrays, first, i, tick, a_to_b), a_to_b) = NotFound
  BY <1>1 DEF SearchStopsAt
<1> HIDE DEF at
<1>3. (a_to_b => index <= tick) /\ (~a_to_b => index >= tick)
  BY <1>2, SearchIndexMoves
<1>4. f = get_next_init_tick_index(initialized, start, index, a_to_b)
  OBVIOUS
<1> HIDE DEF index, start, f
<1>5. FirstInArray(f, initialized, start, index, a_to_b)
  BY <1>2, <1>4, OneArray
<1>6. CASE f = NotFound
  <2>1. in_search_range(start, index, ~a_to_b)
    BY <1>5 DEF FirstInArray
  <2> QED
    BY <1>2, <1>3, <1>6, <2>1, EdgeTickAhead DEF at
<1>7. CASE f # NotFound
  <2>1. f \in TickIndices /\ f \in Int
    BY <1>5, <1>7, ArrayTypes DEF FirstInArray
  <2> QED
    BY <1>2, <1>3, <1>5, <1>7, <2>1 DEF FirstInArray, at
<1> QED
  BY <1>6, <1>7

\* There is no initialized tick between the current one and the one the search
\* yields, and when that one is initialized, it is in the array that is to be
\* updated when it is crossed; a tick that is not initialized is the edge of the
\* array that the search stopped in: no boundary of a position is passed unseen,
\* whichever arrays the caller has passed (util/swap_tick_sequence.rs:99,
\* manager/swap_manager.rs:114).
THEOREM SearchSkipsNothing ==
  ASSUME NEW initialized \in SUBSET UsableTicks, NEW arrays \in Seq(Int),
         \A i \in 1 .. Len(arrays) : check_is_valid_start_tick(arrays[i]),
         NEW tick \in Int, NEW a_to_b \in BOOLEAN, NEW first \in Nat \ {0},
         NEW next,
         next = get_next_initialized_tick_index(initialized, arrays, tick, a_to_b, first),
         next # SearchFailed
  PROVE  /\ \A t \in initialized : /\ a_to_b /\ t <= tick => t <= next.tick_index
                                   /\ ~a_to_b /\ tick < t => next.tick_index <= t
         /\ next.tick_index \in initialized =>
              HoldsTick(arrays[next.array_index], next.tick_index)
         /\ check_in_array_bounds(arrays[next.array_index], next.tick_index)
         /\ next.tick_index \in initialized \cup {EdgeTick(arrays[next.array_index], a_to_b)}
<1> DEFINE at    == next.array_index
           start == arrays[at]
           index == SearchIndex(arrays, first, at, tick, a_to_b)
           f     == get_next_init_tick_index(initialized, start, index, a_to_b)
           n     == next.tick_index
<1>1. SearchStopsAt(next, initialized, arrays, tick, a_to_b, first)
  BY SearchStops
<1>2. /\ at \in first .. Len(arrays)
      /\ start \in Int /\ check_is_valid_start_tick(start)
      /\ index \in Int /\ f # InvalidSequence
      /\ n = IF f = NotFound THEN EdgeTick(start, a_to_b) ELSE f
      /\ \A i \in first .. (at - 1) :
           get_next_init_tick_index(initialized, arrays[i],
             SearchIndex(arrays, first, i, tick, a_to_b), a_to_b) = NotFound
  BY <1>1 DEF SearchStopsAt
<1> HIDE DEF at
<1>3. \A t \in initialized : /\ a_to_b /\ t <= tick => t <= index
                             /\ ~a_to_b /\ tick < t => index < t
  BY <1>2, ArraysBehindHoldNone
<1>4. f = get_next_init_tick_index(initialized, start, index, a_to_b)
  OBVIOUS
<1> HIDE DEF index, start, f, n
<1>5. FirstInArray(f, initialized, start, index, a_to_b)
  BY <1>2, <1>4, OneArray
<1>6. initialized \subseteq Int
  BY ArrayTypes
<1>7. /\ start <= MAX_TICK_INDEX /\ MIN_TICK_INDEX < start + TICKS_IN_ARRAY
      /\ \A t \in initialized : MIN_TICK_INDEX <= t /\ t <= MAX_TICK_INDEX
  BY <1>2, StartTicks, ArrayTypes DEF TickIndices
<1> DEFINE Ahead == \A t \in initialized : /\ a_to_b /\ t <= tick => t <= n
                                           /\ ~a_to_b /\ tick < t => n <= t
<1>8. ASSUME f = NotFound, a_to_b PROVE Ahead /\ check_in_array_bounds(start, n)
  <2>1. /\ start <= index /\ index < start + TICKS_IN_ARRAY
        /\ \A t \in initialized : t <= index => t < start
    BY <1>2, <1>5, <1>6, <1>8, ArrayTypes
    DEF FirstInArray, in_search_range, check_in_array_bounds
  <2>2. n = IF start <= MIN_TICK_INDEX THEN MIN_TICK_INDEX ELSE start
    BY <1>2, <1>8 DEF EdgeTick, AtEdge, is_min_tick_array
  <2>3. ASSUME NEW t \in initialized, t <= tick PROVE t <= n
    <3>1. t <= index
      BY <1>3, <1>8, <2>3
    <3>2. t < start /\ MIN_TICK_INDEX <= t /\ t \in Int
      BY <1>6, <1>7, <2>1, <3>1
    <3> QED
      BY <1>2, <2>2, <3>2, ArrayTypes
  <2>4. check_in_array_bounds(start, n)
    BY <1>2, <1>7, <2>2, ArrayTypes DEF check_in_array_bounds, in_search_range
  <2> QED
    BY <1>8, <2>3, <2>4
<1>9. ASSUME f = NotFound, ~a_to_b PROVE Ahead /\ check_in_array_bounds(start, n)
  <2>1. \A t \in initialized : index < t => start + TICKS_IN_ARRAY <= t
    <3> SUFFICES ASSUME NEW t \in initialized, index < t PROVE start + TICKS_IN_ARRAY <= t
      OBVIOUS
    <3>1. start - tick_spacing <= index /\ ~check_in_array_bounds(start, t)
      BY <1>5, <1>9 DEF FirstInArray, in_search_range
    <3>2. t \in Int /\ start - tick_spacing < t
      BY <1>2, <1>6, <3>1, ArrayTypes
    <3>3. start <= t
      BY <1>2, <3>2, UsableTickFromStart
    <3> QED
      BY <1>2, <3>1, <3>2, <3>3, ArrayTypes DEF check_in_array_bounds, in_search_range
  <2>2. n = IF start + TICKS_IN_ARRAY > MAX_TICK_INDEX THEN MAX_TICK_INDEX
            ELSE start + TICKS_IN_ARRAY - 1
    BY <1>2, <1>9 DEF EdgeTick, AtEdge, is_max_tick_array
  <2>3. ASSUME NEW t \in initialized, tick < t PROVE n <= t
    <3>1. index < t
      BY <1>3, <1>9, <2>3
    <3>2. start + TICKS_IN_ARRAY <= t /\ t <= MAX_TICK_INDEX /\ t \in Int
      BY <1>6, <1>7, <2>1, <3>1
    <3> QED
      BY <1>2, <2>2, <3>2, ArrayTypes
  <2>4. check_in_array_bounds(start, n)
    BY <1>2, <1>7, <2>2, ArrayTypes DEF check_in_array_bounds, in_search_range
  <2> QED
    BY <1>9, <2>3, <2>4
<1>10. ASSUME f # NotFound PROVE Ahead /\ check_in_array_bounds(start, n)
  <2>1. f \in initialized /\ check_in_array_bounds(start, f) /\ n = f /\ f \in Int
    BY <1>2, <1>5, <1>6, <1>10 DEF FirstInArray
  <2>2. ASSUME NEW t \in initialized, a_to_b, t <= tick PROVE t <= n
    <3>1. t <= index /\ t \in Int
      BY <1>3, <1>6, <2>2
    <3>2. check_in_array_bounds(start, t) => t <= f
      BY <1>5, <2>2, <3>1 DEF FirstInArray
    <3>3. index < start + TICKS_IN_ARRAY
      BY <1>5, <2>2 DEF FirstInArray, in_search_range
    <3> QED
      BY <1>2, <2>1, <3>1, <3>2, <3>3, ArrayTypes DEF check_in_array_bounds, in_search_range
  <2>3. ASSUME NEW t \in initialized, ~a_to_b, tick < t PROVE n <= t
    <3>1. index < t /\ t \in Int
      BY <1>3, <1>6, <2>3
    <3>2. check_in_array_bounds(start, t) => f <= t
      BY <1>5, <2>3, <3>1 DEF FirstInArray
    <3>3. start - tick_spacing <= index
      BY <1>5, <2>3 DEF FirstInArray, in_search_range
    <3>4. start <= t
      BY <1>2, <3>1, <3>3, ArrayTypes, UsableTickFromStart
    <3> QED
      BY <1>2, <2>1, <3>1, <3>2, <3>4, ArrayTypes DEF check_in_array_bounds, in_search_range
  <2> QED
    BY <2>1, <2>2, <2>3
<1>11. Ahead /\ check_in_array_bounds(start, n)
  <2> HIDE DEF Ahead
  <2> QED
    BY <1>8, <1>9, <1>10
<1>12. n \in initialized => HoldsTick(start, n)
  BY <1>11, ArrayTypes
  DEF HoldsTick, check_is_usable_tick, check_is_out_of_bounds, UsableTicks, TickIndices
<1>13. n \in initialized \cup {EdgeTick(start, a_to_b)}
  BY <1>2, <1>5 DEF FirstInArray
<1> QED
  BY <1>11, <1>12, <1>13 DEF n, start, at

-----------------------------------------------------------------------------
(* Wrapping *)

\* A multiple of a number is 0 or as large as the number.
LEMMA SmallMultiple ==
  ASSUME NEW k \in Int, NEW m \in Nat \ {0}, -m < k * m, k * m < m
  PROVE  k = 0
<1>1. k >= 1 => k * m >= m
  OBVIOUS
<1>2. k <= -1 => k * m <= -m
  OBVIOUS
<1> QED
  BY <1>1, <1>2

\* A wrapped number differs from itself by a multiple of the width.
LEMMA WrapMultiple ==
  ASSUME NEW x \in Int
  PROVE  WrapU128(x) \in Int /\ \E k \in Int : WrapU128(x) = x + k * TO_Q128
<1>1. TO_Q128 \in Nat \ {0}
  BY Widths
<1>2. /\ x \div TO_Q128 \in Int /\ x % TO_Q128 \in Int
      /\ x = (x \div TO_Q128) * TO_Q128 + (x % TO_Q128)
  BY <1>1, DivMod
<1>3. x % TO_Q128 = x + (-(x \div TO_Q128)) * TO_Q128
  BY <1>1, <1>2
<1> QED
  BY <1>2, <1>3 DEF WrapU128

\* Numbers that differ by a multiple of the width wrap to the same.
LEMMA SameWrap ==
  ASSUME NEW x \in Int, NEW y \in Int, NEW k \in Int, x = y + k * TO_Q128
  PROVE  WrapU128(x) = WrapU128(y)
<1>1. TO_Q128 \in Nat \ {0}
  BY Widths
<1>2. PICK i \in Int : WrapU128(x) = x + i * TO_Q128
  BY WrapMultiple
<1>3. PICK j \in Int : WrapU128(y) = y + j * TO_Q128
  BY WrapMultiple
<1>4. WrapU128(x) - WrapU128(y) = (k + i - j) * TO_Q128
  BY <1>1, <1>2, <1>3
<1>5. WrapU128(x) \in 0 .. (TO_Q128 - 1) /\ WrapU128(y) \in 0 .. (TO_Q128 - 1)
  BY Conversions DEF U128
<1>6. k + i - j = 0
  BY <1>1, <1>4, <1>5, SmallMultiple
<1> QED
  BY <1>1, <1>4, <1>5, <1>6

\* A term of a sum or of a difference may be wrapped or not.
LEMMA WrapTerm ==
  ASSUME NEW x \in Int, NEW y \in Int
  PROVE  /\ WrapU128(WrapU128(x) + y) = WrapU128(x + y)
         /\ WrapU128(WrapU128(x) - y) = WrapU128(x - y)
         /\ WrapU128(y - WrapU128(x)) = WrapU128(y - x)
<1>1. TO_Q128 \in Nat \ {0}
  BY Widths
<1>2. PICK k \in Int : WrapU128(x) = x + k * TO_Q128
  BY WrapMultiple
<1>3. WrapU128(x) \in Int
  BY WrapMultiple
<1>4. /\ WrapU128(x) + y = (x + y) + k * TO_Q128
      /\ WrapU128(x) - y = (x - y) + k * TO_Q128
      /\ y - WrapU128(x) = (y - x) + (-k) * TO_Q128
  BY <1>1, <1>2
<1>5. /\ WrapU128(x) + y \in Int /\ x + y \in Int
      /\ WrapU128(x) - y \in Int /\ x - y \in Int
      /\ y - WrapU128(x) \in Int /\ y - x \in Int /\ -k \in Int
  BY <1>3
<1> QED
  BY <1>4, <1>5, SameWrap

\* A word is its own wrapped value.
LEMMA WrapWord ==
  ASSUME NEW x \in U128
  PROVE  WrapU128(x) = x
BY Widths DEF WrapU128, U128

-----------------------------------------------------------------------------
(* Growth inside a range, of one accumulator *)

\* With both ticks initialized it depends on the growth of the pool only while
\* the price is inside.
LEMMA GrowthInsideRange ==
  ASSUME NEW current \in Int, NEW lower, NEW upper, lower.initialized, upper.initialized,
         NEW l \in Int, NEW u \in Int, l < u, NEW g \in Int, NEW ol \in Int, NEW ou \in Int
  PROVE  GrowthBetween(g, GrowthBelow(lower, l, current, g, ol),
                          GrowthAbove(upper, u, current, g, ou))
           = IF current < l THEN WrapU128(ol - ou)
             ELSE IF current < u THEN WrapU128((g - ol) - ou)
             ELSE WrapU128(ou - ol)
<1>1. g - ol \in Int /\ g - ou \in Int
  OBVIOUS
<1>2. CASE current < l
  <2>1. /\ GrowthBelow(lower, l, current, g, ol) = WrapU128(g - ol)
        /\ GrowthAbove(upper, u, current, g, ou) = ou
    BY <1>2 DEF GrowthBelow, GrowthAbove
  <2>2. WrapU128(g - WrapU128(g - ol)) = WrapU128(g - (g - ol))
    BY <1>1, WrapTerm
  <2>3. g - (g - ol) = ol
    OBVIOUS
  <2> QED
    BY <1>2, <2>1, <2>2, <2>3, WrapTerm DEF GrowthBetween
<1>3. CASE ~(current < l) /\ current < u
  <2>1. /\ GrowthBelow(lower, l, current, g, ol) = ol
        /\ GrowthAbove(upper, u, current, g, ou) = ou
    BY <1>3 DEF GrowthBelow, GrowthAbove
  <2> QED
    BY <1>1, <1>3, <2>1, WrapTerm DEF GrowthBetween
<1>4. CASE ~(current < l) /\ ~(current < u)
  <2>1. /\ GrowthBelow(lower, l, current, g, ol) = ol
        /\ GrowthAbove(upper, u, current, g, ou) = WrapU128(g - ou)
    BY <1>4 DEF GrowthBelow, GrowthAbove
  <2>2. WrapU128(g - ol) \in Int
    BY <1>1, WrapMultiple
  <2>3. WrapU128(WrapU128(g - ol) - WrapU128(g - ou)) = WrapU128(WrapU128(g - ol) - (g - ou))
    BY <1>1, <2>2, WrapTerm
  <2>4. WrapU128(WrapU128(g - ol) - (g - ou)) = WrapU128((g - ol) - (g - ou))
    BY <1>1, WrapTerm
  <2>5. (g - ol) - (g - ou) = ou - ol
    OBVIOUS
  <2> QED
    BY <1>4, <2>1, <2>3, <2>4, <2>5 DEF GrowthBetween
<1> QED
  BY <1>2, <1>3, <1>4

\* A tick's growth outside flips when the current tick moves to its other side,
\* and only then.
Flips(l, t, t2, g2, o, o2) ==
  o2 = IF (t < l) = (t2 < l) THEN o ELSE WrapU128(g2 - o)

\* So when the growth goes to g2 with the current tick at t, which then moves to
\* t2, the growth inside a range moves with it if the range holds t, and not at
\* all otherwise.
LEMMA GrowthInsideMoves ==
  ASSUME NEW t \in Int, NEW t2 \in Int, NEW l \in Int, NEW u \in Int, l < u,
         NEW g \in Int, NEW g2 \in Int, NEW ol \in Int, NEW ou \in Int,
         NEW ol2 \in Int, NEW ou2 \in Int,
         Flips(l, t, t2, g2, ol, ol2), Flips(u, t, t2, g2, ou, ou2),
         NEW lower, NEW upper, NEW lower2, NEW upper2,
         lower.initialized, upper.initialized, lower2.initialized, upper2.initialized
  PROVE  GrowthBetween(g2, GrowthBelow(lower2, l, t2, g2, ol2),
                           GrowthAbove(upper2, u, t2, g2, ou2))
           = LET inside == GrowthBetween(g, GrowthBelow(lower, l, t, g, ol),
                                            GrowthAbove(upper, u, t, g, ou))
             IN  IF l <= t /\ t < u THEN WrapU128(inside + g2 - g) ELSE inside
<1> DEFINE before == IF t < l THEN ol - ou ELSE IF t < u THEN (g - ol) - ou ELSE ou - ol
           after  == IF t2 < l THEN ol2 - ou2 ELSE IF t2 < u THEN (g2 - ol2) - ou2 ELSE ou2 - ol2
           moved  == IF t < l THEN ol - ou ELSE IF t < u THEN (g2 - ol) - ou ELSE ou - ol
<1>1. /\ GrowthBetween(g2, GrowthBelow(lower2, l, t2, g2, ol2),
                            GrowthAbove(upper2, u, t2, g2, ou2)) = WrapU128(after)
      /\ GrowthBetween(g, GrowthBelow(lower, l, t, g, ol),
                           GrowthAbove(upper, u, t, g, ou)) = WrapU128(before)
  BY GrowthInsideRange, SMTT(60)
<1>2. before \in Int /\ after \in Int /\ moved \in Int
  OBVIOUS
<1>3. PICK i \in Int : WrapU128(g2 - ol) = (g2 - ol) + i * TO_Q128
  BY WrapMultiple
<1>4. PICK j \in Int : WrapU128(g2 - ou) = (g2 - ou) + j * TO_Q128
  BY WrapMultiple
<1>5. TO_Q128 \in Int
  BY Widths
<1> DEFINE I == i * TO_Q128
           J == j * TO_Q128
<1>6. I \in Int /\ J \in Int
  BY <1>5
<1>7. /\ ol2 = IF (t < l) = (t2 < l) THEN ol ELSE (g2 - ol) + I
      /\ ou2 = IF (t < u) = (t2 < u) THEN ou ELSE (g2 - ou) + J
  BY <1>3, <1>4 DEF Flips
<1>8. after \in {moved, moved + I, moved - I, moved + J, moved - J, moved + I - J, moved + J - I}
  <2> HIDE DEF I, J
  <2>1. CASE t < l
    BY <1>6, <1>7, <2>1
  <2>2. CASE ~(t < l) /\ t < u
    BY <1>6, <1>7, <2>2
  <2>3. CASE ~(t < u)
    BY <1>6, <1>7, <2>3
  <2> QED
    BY <2>1, <2>2, <2>3
<1>9. \E k \in Int : after = moved + k * TO_Q128
  <2> HIDE DEF after, moved
  <2>1. /\ moved = moved + 0 * TO_Q128
        /\ moved + I = moved + i * TO_Q128
        /\ moved - I = moved + (-i) * TO_Q128
        /\ moved + J = moved + j * TO_Q128
        /\ moved - J = moved + (-j) * TO_Q128
        /\ moved + I - J = moved + (i - j) * TO_Q128
        /\ moved + J - I = moved + (j - i) * TO_Q128
    BY <1>2, <1>5
  <2>2. 0 \in Int /\ -i \in Int /\ -j \in Int /\ i - j \in Int /\ j - i \in Int
    OBVIOUS
  <2> HIDE DEF I, J
  <2> QED
    BY <1>8, <2>1, <2>2
<1>10. WrapU128(after) = WrapU128(moved)
  <2> HIDE DEF after, moved
  <2> QED
    BY <1>2, <1>9, SameWrap
<1>11. CASE l <= t /\ t < u
  <2>1. moved = before + (g2 - g) /\ g2 - g \in Int
    BY <1>11
  <2> HIDE DEF before, moved
  <2>2. WrapU128(WrapU128(before) + (g2 - g)) = WrapU128(moved)
    BY <1>2, <2>1, WrapTerm
  <2>3. WrapU128(before) + g2 - g = WrapU128(before) + (g2 - g)
    BY <1>2, WrapMultiple
  <2> QED
    BY <1>1, <1>10, <1>11, <2>2, <2>3
<1>12. CASE ~(l <= t /\ t < u)
  <2>1. moved = before
    BY <1>12
  <2> HIDE DEF before, moved, after
  <2> QED
    BY <1>1, <1>10, <1>12, <2>1
<1> QED
  BY <1>11, <1>12

\* A tick's part in the growth inside: the tick is as initialized as it was, with
\* the same growth outside, or has been initialized by the convention.
Continued(tick, t2, tick_index, current, global, outside, outside2) ==
  \/ (t2.initialized <=> tick.initialized) /\ outside2 = outside
  \/ /\ ~tick.initialized /\ t2.initialized
     /\ outside2 = OutsideAtInit(tick_index, current, global)

\* A tick that becomes initialized by the convention has the growth on either side
\* of it that it had before: all growth so far was below.
LEMMA GrowthContinues ==
  ASSUME NEW current \in Int, NEW tick, NEW t2, NEW tick_index \in Int, NEW g \in U128,
         NEW o, NEW o2, Continued(tick, t2, tick_index, current, g, o, o2)
  PROVE  /\ GrowthBelow(t2, tick_index, current, g, o2) = GrowthBelow(tick, tick_index, current, g, o)
         /\ GrowthAbove(t2, tick_index, current, g, o2) = GrowthAbove(tick, tick_index, current, g, o)
<1>1. g - 0 = g /\ g - g = 0 /\ WrapU128(g) = g /\ WrapU128(0) = 0
  <2>1. 0 \in U128 /\ g \in Int
    BY Widths DEF U128
  <2> QED
    BY <2>1, WrapWord
<1>2. GrowthBelow(t2, tick_index, current, g, o2) = GrowthBelow(tick, tick_index, current, g, o)
  BY <1>1 DEF Continued, GrowthBelow, OutsideAtInit
<1>3. GrowthAbove(t2, tick_index, current, g, o2) = GrowthAbove(tick, tick_index, current, g, o)
  BY <1>1 DEF Continued, GrowthAbove, OutsideAtInit
<1> QED
  BY <1>2, <1>3

-----------------------------------------------------------------------------
(* Updates *)

\* A difference of two or three words is an integer, whose wrapped value is a
\* word again.
LEMMA WrappedDifference ==
  ASSUME NEW x \in Int, NEW y \in Int, NEW z \in Int
  PROVE  WrapU128(x - y) \in U128 /\ GrowthBetween(x, y, z) \in U128
<1>1. x - y \in Int
  OBVIOUS
<1>2. WrapU128(x - y) \in U128
  BY <1>1, Conversions
<1>3. WrapU128(x - y) - z \in Int
  BY <1>2, Widths DEF U128
<1> QED
  BY <1>2, <1>3, Conversions DEF GrowthBetween

\* Crossing a tick yields a tick.
LEMMA CrossType ==
  ASSUME NEW tick \in Tick, NEW growths \in [Token -> U128],
         NEW infos \in [RewardIndex -> WhirlpoolRewardInfo]
  PROVE  next_tick_cross_update(tick, growths, infos) \in Tick
<1>1. U128 \subseteq Int
  BY Widths
<1> DEFINE outside == [x \in Token |-> WrapU128(growths[x] - tick.fee_growth_outside[x])]
           rewards == [i \in RewardIndex |->
                         IF infos[i].initialized
                         THEN WrapU128(infos[i].growth_global_x64 - tick.reward_growths_outside[i])
                         ELSE tick.reward_growths_outside[i]]
<1>2. outside \in [Token -> U128]
  <2>1. \A x \in Token : growths[x] \in Int /\ tick.fee_growth_outside[x] \in Int
    BY <1>1 DEF Tick
  <2> QED
    BY <2>1, WrappedDifference
<1>3. rewards \in [RewardIndex -> U128]
  <2>1. \A i \in RewardIndex : /\ infos[i].growth_global_x64 \in Int
                               /\ tick.reward_growths_outside[i] \in Int
                               /\ tick.reward_growths_outside[i] \in U128
    BY <1>1 DEF Tick, WhirlpoolRewardInfo
  <2> QED
    BY <2>1, WrappedDifference
<1>4. next_tick_cross_update(tick, growths, infos) =
        [tick EXCEPT !.fee_growth_outside = outside, !.reward_growths_outside = rewards]
  BY DEF next_tick_cross_update
<1> HIDE DEF outside, rewards
<1> QED
  BY <1>2, <1>3, <1>4 DEF Tick

\* Adding or removing liquidity at a tick yields a tick, unless it is refused.
LEMMA ModifyTickType ==
  ASSUME NEW tick \in Tick, NEW tick_index \in Int, NEW current \in Int,
         NEW growths \in [Token -> U128],
         NEW infos \in [RewardIndex -> WhirlpoolRewardInfo],
         NEW delta \in Int, NEW is_upper_tick \in BOOLEAN,
         ~TickUpdateFails(tick, delta, is_upper_tick)
  PROVE  next_tick_modify_liquidity_update(tick, tick_index, current, growths, infos,
                                           delta, is_upper_tick) \in Tick
<1>1. U128 \subseteq Int /\ 0 \in U128 /\ 0 \in Int
  BY Widths DEF U128
<1>2. DefaultTick \in Tick
  BY <1>1 DEF DefaultTick, Tick
<1>3. GrossAfter(tick, delta) \in U128
  <2>1. tick.liquidity_gross \in Int
    BY <1>1 DEF Tick
  <2> QED
    BY <2>1, AddLiquidityType DEF GrossAfter, TickUpdateFails
<1>4. NetAfter(tick, delta, is_upper_tick) \in Int
  BY DEF NetAfter, Tick
<1> DEFINE outside == IF tick.liquidity_gross # 0 THEN tick.fee_growth_outside
                      ELSE [x \in Token |-> OutsideAtInit(tick_index, current, growths[x])]
           rewards == IF tick.liquidity_gross # 0 THEN tick.reward_growths_outside
                      ELSE [i \in RewardIndex |->
                              OutsideAtInit(tick_index, current, infos[i].growth_global_x64)]
<1>5. outside \in [Token -> U128]
  BY <1>1 DEF Tick, OutsideAtInit
<1>6. rewards \in [RewardIndex -> U128]
  BY <1>1 DEF Tick, WhirlpoolRewardInfo, OutsideAtInit
<1>7. next_tick_modify_liquidity_update(tick, tick_index, current, growths, infos,
                                        delta, is_upper_tick)
        = IF delta = 0 THEN tick
          ELSE IF GrossAfter(tick, delta) = 0 THEN DefaultTick
          ELSE [initialized     |-> TRUE,
                liquidity_gross |-> GrossAfter(tick, delta),
                liquidity_net   |-> NetAfter(tick, delta, is_upper_tick),
                fee_growth_outside |-> outside, reward_growths_outside |-> rewards]
  BY DEF next_tick_modify_liquidity_update
<1> HIDE DEF outside, rewards
<1>8. [initialized     |-> TRUE,
       liquidity_gross |-> GrossAfter(tick, delta),
       liquidity_net   |-> NetAfter(tick, delta, is_upper_tick),
       fee_growth_outside |-> outside, reward_growths_outside |-> rewards] \in Tick
  BY <1>3, <1>4, <1>5, <1>6 DEF Tick
<1> QED
  BY <1>2, <1>7, <1>8

\* The growths inside a range are words.
LEMMA GrowthsInsideType ==
  ASSUME NEW current \in Int, NEW lower \in Tick, NEW upper \in Tick,
         NEW lower_index \in Int, NEW upper_index \in Int,
         NEW growths \in [Token -> U128],
         NEW infos \in [RewardIndex -> WhirlpoolRewardInfo]
  PROVE  /\ next_fee_growths_inside(current, lower, lower_index, upper, upper_index, growths)
              \in [Token -> U128]
         /\ next_reward_growths_inside(current, lower, lower_index, upper, upper_index, infos)
              \in [RewardIndex -> U128]
<1>1. U128 \subseteq Int /\ 0 \in U128
  BY Widths DEF U128
<1>2. ASSUME NEW global \in Int, NEW outside \in Int
      PROVE  /\ GrowthBelow(lower, lower_index, current, global, outside) \in Int
             /\ GrowthAbove(upper, upper_index, current, global, outside) \in Int
  <2>1. WrapU128(global - outside) \in Int
    BY <1>1, WrappedDifference
  <2> QED
    BY <2>1 DEF GrowthBelow, GrowthAbove
<1>3. ASSUME NEW x \in Token
      PROVE  GrowthBetween(growths[x],
               GrowthBelow(lower, lower_index, current, growths[x], lower.fee_growth_outside[x]),
               GrowthAbove(upper, upper_index, current, growths[x], upper.fee_growth_outside[x]))
             \in U128
  <2>1. /\ growths[x] \in Int /\ lower.fee_growth_outside[x] \in Int
        /\ upper.fee_growth_outside[x] \in Int
    BY <1>1 DEF Tick
  <2> QED
    BY <1>2, <2>1, WrappedDifference
<1>4. ASSUME NEW i \in RewardIndex
      PROVE  GrowthBetween(infos[i].growth_global_x64,
               GrowthBelow(lower, lower_index, current, infos[i].growth_global_x64,
                           lower.reward_growths_outside[i]),
               GrowthAbove(upper, upper_index, current, infos[i].growth_global_x64,
                           upper.reward_growths_outside[i]))
             \in U128
  <2>1. /\ infos[i].growth_global_x64 \in Int /\ lower.reward_growths_outside[i] \in Int
        /\ upper.reward_growths_outside[i] \in Int
    BY <1>1 DEF Tick, WhirlpoolRewardInfo
  <2> QED
    BY <1>2, <2>1, WrappedDifference
<1> QED
  BY <1>1, <1>3, <1>4 DEF next_fee_growths_inside, next_reward_growths_inside

\* What a position earns is a u64, nothing when the product overflows.
LEMMA GrowthEarnedType ==
  ASSUME NEW liquidity \in U128, NEW growth_inside \in U128, NEW checkpoint \in U128
  PROVE  GrowthEarned(liquidity, growth_inside, checkpoint) \in U64
<1> DEFINE n == WrapU128(growth_inside - checkpoint)
<1>1. n \in U128 /\ U128 \subseteq Nat /\ 0 \in U64 /\ FALSE \in BOOLEAN
  <2>1. growth_inside \in Int /\ checkpoint \in Int /\ 0 \in Int
    BY Widths
  <2>2. n \in U128
    BY <2>1, WrappedDifference
  <2> HIDE DEF n
  <2> QED
    BY <2>2, Widths DEF U64
<1> HIDE DEF n
<1>2. checked_mul_shift_right_round_up_if(liquidity, n, FALSE) \in U64 \cup {Err}
  BY <1>1, MulShiftType
<1> QED
  BY <1>1, <1>2 DEF GrowthEarned, OrZero, checked_mul_shift_right, n

\* The reward accumulators stay words.
LEMMA RewardInfosType ==
  ASSUME NEW infos \in [RewardIndex -> WhirlpoolRewardInfo], NEW liquidity \in U128,
         NEW last \in Nat, NEW timestamp \in Nat, timestamp >= last
  PROVE  next_whirlpool_reward_infos(infos, liquidity, last, timestamp)
           \in [RewardIndex -> WhirlpoolRewardInfo]
<1>1. U128 \subseteq Int /\ liquidity \in Nat /\ timestamp - last \in Nat
  BY Widths
<1> DEFINE elapsed == timestamp - last
<1> HIDE DEF elapsed
<1>2. ASSUME NEW i \in RewardIndex
      PROVE  [infos[i] EXCEPT !.growth_global_x64 =
                WrapU128(@ + OrZero(checked_mul_div(elapsed, infos[i].emissions_per_second_x64,
                                                    liquidity)))] \in WhirlpoolRewardInfo
  <2> DEFINE e == infos[i].emissions_per_second_x64
             g == infos[i].growth_global_x64
             d == OrZero(checked_mul_div(elapsed, e, liquidity))
  <2>1. e \in Nat /\ g \in Int /\ elapsed \in Nat
    BY <1>1, Widths DEF WhirlpoolRewardInfo, elapsed
  <2> HIDE DEF e, g
  <2>2. d \in Int
    BY <1>1, <2>1, MulDivTypes DEF OrZero
  <2> HIDE DEF d
  <2>3. WrapU128(g + d) \in U128
    BY <2>1, <2>2, Conversions
  <2> QED
    BY <2>3 DEF WhirlpoolRewardInfo, e, g, d
<1> QED
  BY <1>2 DEF next_whirlpool_reward_infos, elapsed
=============================================================================
