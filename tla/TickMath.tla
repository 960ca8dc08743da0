------------------------------- MODULE TickMath -------------------------------
(***************************************************************************)
(* Ticks and square roots of prices (math/tick_math.rs) at their true size *)
(* and with their true constants: 1.0001 ^ (tick / 2) as a product of one  *)
(* factor for each bit of the tick, and its inverse by the bits of a       *)
(* logarithm.  The numbers are those of module U256Math, on words that TLC *)
(* can multiply; NUM_WORDS must make up 256 bits at least.                 *)
(*                                                                         *)
(* The other modules on prices take a table of them that increases; here   *)
(* the table is walked along, tick by tick.                                *)
(***************************************************************************)
EXTENDS U256Math, Sequences

CONSTANT Windows         \* bound: the stretches of ticks that are walked along

VARIABLES
  tick,
  sqrt_price,              \* the price of tick
  found,                   \* the tick found for that price
  below                    \* the tick found for the price just below

vars == <<tick, sqrt_price, found, below>>

\* MAX_TICK_INDEX and MIN_TICK_INDEX, whose names are those of the scaled tick
\* line's ends elsewhere.
MAX_TICK == 443636
MIN_TICK == -443636

\* A literal of the source, six digits at a time.
Decimal(groups) ==
  LET value[i \in 0 .. Len(groups)] ==
        IF i = 0 THEN Zero ELSE add(mul(value[i - 1], new(0, 1000000)), new(0, groups[i]))
  IN  value[Len(groups)]

Decimals(literals) == [k \in 1 .. Len(literals) |-> Decimal(literals[k])]

\* An integer of two words.
ToInt(x) == hi_lo(x[1], x[0])

PowerOfTwo(n) == shift_left(new(0, 1), n)

MAX_SQRT_PRICE_X64 == Decimal(<<79226, 673515, 401279, 992447, 579055>>)
MIN_SQRT_PRICE_X64 == Decimal(<<4295, 048016>>)

-----------------------------------------------------------------------------
(* From ticks to prices *)

\* sqrt(1.0001) ^ (2 ^ k), with 96 bits after the point.
PositiveFactors ==
  Decimals(<< <<79232, 123823, 359799, 118286, 999567>>,
              <<79236, 085330, 515764, 027303, 304731>>,
              <<79244, 008939, 048815, 603706, 035061>>,
              <<79259, 858533, 276714, 757314, 932305>>,
              <<79291, 567232, 598584, 799939, 703904>>,
              <<79355, 022692, 464371, 645785, 046466>>,
              <<79482, 085999, 252804, 386437, 311141>>,
              <<79736, 823300, 114093, 921829, 183326>>,
              <<80248, 749790, 819932, 309965, 073892>>,
              <<81282, 483887, 344747, 381513, 967011>>,
              <<83390, 072131, 320151, 908154, 831281>>,
              <<87770, 609709, 833776, 024991, 924138>>,
              <<97234, 110755, 111693, 312479, 820773>>,
              <<119332, 217159, 966728, 226237, 229890>>,
              <<179736, 315981, 702064, 433883, 588727>>,
              <<407748, 233172, 238350, 107850, 275304>>,
              <<2, 098478, 828474, 011932, 436660, 412517>>,
              <<55, 581415, 166113, 811149, 459800, 483533>>,
              <<38992, 368544, 603139, 932233, 054999, 993551>> >>)

\* sqrt(1.0001) ^ -(2 ^ k), with 64 bits after the point.
NegativeFactors ==
  Decimals(<< <<18, 445821, 805675, 392311>>,
              <<18, 444899, 583751, 176498>>,
              <<18, 443055, 278223, 354162>>,
              <<18, 439367, 220385, 604838>>,
              <<18, 431993, 317065, 449817>>,
              <<18, 417254, 355718, 160513>>,
              <<18, 387811, 781193, 591352>>,
              <<18, 329067, 761203, 520168>>,
              <<18, 212142, 134806, 087854>>,
              <<17, 980523, 815641, 551639>>,
              <<17, 526086, 738831, 147013>>,
              <<16, 651378, 430235, 024244>>,
              <<15, 030750, 278693, 429944>>,
              <<12, 247334, 978882, 834399>>,
              <<8, 131365, 268884, 726200>>,
              <<3, 584323, 654723, 342297>>,
              <<696457, 651847, 595233>>,
              <<26294, 789957, 452057>>,
              <<37, 481735, 321082>> >>)

HasBit(t, k) == (t \div 2 ^ (k - 1)) % 2 = 1

\* Mutant: each number is shifted by half before they are multiplied.
MulShiftByHalves(n0, n1, bits) == mul(shift_right(n0, bits \div 2), shift_right(n1, bits \div 2))

\* mul_shift_96, and the same by 64 bits in u128.
MulShift(n0, n1, bits) == shift_right(mul(n0, n1), bits)

\* The product of the factors whose bit is set.
Product(t, factors, bits) ==
  LET product[k \in 1 .. Len(factors) + 1, ratio \in U256Muldiv] ==
        IF k > Len(factors) THEN ratio
        ELSE product[k + 1, IF HasBit(t, k) THEN MulShift(ratio, factors[k], bits) ELSE ratio]
  IN  product[1, PowerOfTwo(bits)]

get_sqrt_price_negative_tick(t) == Product(-t, NegativeFactors, 64)

PositiveRatio(t) == Product(t, PositiveFactors, 96)

get_sqrt_price_positive_tick(t) == shift_right(PositiveRatio(t), 32)

sqrt_price_from_tick_index(t) ==
  IF t >= 0 THEN get_sqrt_price_positive_tick(t) ELSE get_sqrt_price_negative_tick(t)

-----------------------------------------------------------------------------
(* From prices to ticks *)

LOG_B_2_X32                  == Decimal(<<59, 543866, 431248>>)
BIT_PRECISION                == 14
LOG_B_P_ERR_MARGIN_LOWER_X64 == Decimal(<<184467, 440737, 095516>>)
LOG_B_P_ERR_MARGIN_UPPER_X64 == Decimal(<<15, 793534, 762490, 258745>>)

\* The place of the highest bit.
Msb(x) == WORD_BITS * num_words(x) - leading_zeros(x[num_words(x) - 1]) - 1

\* Squaring a number between 1 and 2 tells the next bit of its logarithm.
LogarithmFraction(r0) ==
  LET fraction[i \in 0 .. BIT_PRECISION, bits \in Nat, r \in U256Muldiv] ==
        IF i = BIT_PRECISION THEN bits
        ELSE LET square == mul(r, r)
                 more   == IF shift_right(square, 127) = Zero THEN 0 ELSE 1
             IN  fraction[i + 1, 2 * bits + more, shift_right(square, 63 + more)]
  IN  fraction[0, 0, r0]

\* The logarithm to base 2 of a Q64.64 number plus 64, in units of
\* 2 ^ -BIT_PRECISION.
Log2Plus64(p) ==
  LET msb == Msb(p)
  IN  msb * 2 ^ BIT_PRECISION
      + LogarithmFraction(IF msb >= 64 THEN shift_right(p, msb - 63) ELSE shift_left(p, 63 - msb))

\* The logarithm to base sqrt(1.0001), as Q64.64, and a tick from such a one.
\* Offset keeps the intermediate values positive.
Offset == 2 ^ 20

LogarithmOfSqrt10001(log2_plus_64) ==
  LET scaled == mul(shift_left(new(0, log2_plus_64), 18), LOG_B_2_X32)
  IN  sub(add(scaled, PowerOfTwo(84)), shift_left(LOG_B_2_X32, 38))

TickEstimate(logbp) == ToInt(shift_right(logbp, 64)) - Offset

\* Mutant: the estimate from below is believed.
TickFromLow(tick_low, tick_high, p) == tick_low

\* When the estimates differ, the price of the higher one decides.
TickBetween(tick_low, tick_high, p) ==
  IF tick_low = tick_high THEN tick_low
  ELSE IF lte(sqrt_price_from_tick_index(tick_high), p) THEN tick_high ELSE tick_low

tick_index_from_sqrt_price(p) ==
  LET logbp == LogarithmOfSqrt10001(Log2Plus64(p))
  IN  TickBetween(TickEstimate(sub(logbp, LOG_B_P_ERR_MARGIN_LOWER_X64)),
                  TickEstimate(add(logbp, LOG_B_P_ERR_MARGIN_UPPER_X64)), p)

-----------------------------------------------------------------------------
(* The walk *)

FoundBelow(p) == tick_index_from_sqrt_price(sub(p, new(0, 1)))

\* The conversions of tick t, there and back.
VisitTick(t) ==
  /\ tick' = t
  /\ sqrt_price' = sqrt_price_from_tick_index(t)
  /\ found' = tick_index_from_sqrt_price(sqrt_price')
  /\ below' = FoundBelow(sqrt_price')

Init ==
  /\ tick = MIN_TICK
  /\ sqrt_price = MIN_SQRT_PRICE_X64
  /\ found = MIN_TICK
  /\ below = MIN_TICK - 1

EnterWindow == tick = MIN_TICK /\ \E window \in Windows : VisitTick(window[1])

NextTick ==
  /\ \E window \in Windows : window[1] <= tick /\ tick < window[2]
  /\ VisitTick(tick + 1)

Next == EnterWindow \/ NextTick

Spec == Init /\ [][Next]_vars

-----------------------------------------------------------------------------
(* Properties *)

\* Prices increase, and neighbours are sqrt(1.0001) apart to 32 bits, also where
\* every bit of the tick and with it every factor changes
\* (tick_math.rs:103-267).
NeighboursInProportion ==
  [][ tick' = tick + 1 =>
      LET expected == mul(PositiveFactors[1], sqrt_price)
          actual   == shift_left(sqrt_price', 96)
          error    == IF lt(actual, expected) THEN sub(expected, actual) ELSE sub(actual, expected)
      IN  /\ lt(sqrt_price, sqrt_price')
          /\ lte(error, shift_left(sqrt_price, 64)) ]_vars

\* What the unit test test_exact_bit_values expects of 0 and of each power of
\* two and its negative (tick_math.rs:455).
ExactBitValues ==
  << <<0, <<18, 446744, 073709, 551616>>, <<18, 446744, 073709, 551616>>>>,
     <<1, <<18, 447666, 387855, 959850>>, <<18, 445821, 805675, 392311>>>>,
     <<2, <<18, 448588, 748116, 922571>>, <<18, 444899, 583751, 176498>>>>,
     <<4, <<18, 450433, 606991, 734263>>, <<18, 443055, 278223, 354162>>>>,
     <<8, <<18, 454123, 878217, 468680>>, <<18, 439367, 220385, 604838>>>>,
     <<16, <<18, 461506, 635090, 006701>>, <<18, 431993, 317065, 449817>>>>,
     <<32, <<18, 476281, 010653, 910144>>, <<18, 417254, 355718, 160513>>>>,
     <<64, <<18, 505865, 242158, 250041>>, <<18, 387811, 781193, 591352>>>>,
     <<128, <<18, 565175, 891880, 433522>>, <<18, 329067, 761203, 520168>>>>,
     <<256, <<18, 684368, 066214, 940582>>, <<18, 212142, 134806, 087854>>>>,
     <<512, <<18, 925053, 041275, 764671>>, <<17, 980523, 815641, 551639>>>>,
     <<1024, <<19, 415764, 168677, 886926>>, <<17, 526086, 738831, 147013>>>>,
     <<2048, <<20, 435687, 552633, 177494>>, <<16, 651378, 430235, 024244>>>>,
     <<4096, <<22, 639080, 592224, 303007>>, <<15, 030750, 278693, 429944>>>>,
     <<8192, <<27, 784196, 929998, 399742>>, <<12, 247334, 978882, 834399>>>>,
     <<16384, <<41, 848122, 137994, 986128>>, <<8, 131365, 268884, 726200>>>>,
     <<32768, <<94, 936283, 578220, 370716>>, <<3, 584323, 654723, 342297>>>>,
     <<65536, <<488, 590176, 327622, 479860>>, <<696457, 651847, 595233>>>>,
     <<131072, <<12941, 056668, 319229, 769860>>, <<26294, 789957, 452057>>>>,
     <<262144, <<9, 078618, 265828, 848800, 676189>>, <<37, 481735, 321082>>>> >>

BitValuesExact ==
  \A i \in 1 .. Len(ExactBitValues) :
    LET row == ExactBitValues[i]
    IN  /\ tick = row[1] => sqrt_price = Decimal(row[2])
        /\ tick = -row[1] => sqrt_price = Decimal(row[3])

\* The extreme ticks have the extreme prices, no factor takes the product out of
\* its u128, and one more than the greatest tick would.
ExtremesExact ==
  /\ tick = MIN_TICK => sqrt_price = MIN_SQRT_PRICE_X64
  /\ tick = MAX_TICK => /\ sqrt_price = MAX_SQRT_PRICE_X64
                              /\ shift_right(PositiveRatio(tick + 1), 128) # Zero
  /\ tick >= 0 => shift_right(PositiveRatio(tick), 128) = Zero

\* The tick found for a tick's price is that tick, and for one less than it the
\* tick before, although the logarithm has 14 bits and a tick takes a quarter
\* of such a unit; the prices themselves are those the tests know
\* (tick_math.rs:5, 37, 98, 410, 455).
ConversionsExact == found = tick /\ below = tick - 1 /\ BitValuesExact /\ ExtremesExact
=============================================================================
