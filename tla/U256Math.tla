------------------------------- MODULE U256Math -------------------------------
(***************************************************************************)
(* Integers of several words (math/u256_math.rs), on words of WORD_BITS    *)
(* bits, of which an integer has NUM_WORDS.  The program has four words of *)
(* 64 bits; products, dividends and the results of shifts pass through     *)
(* u128, two words, which wraps where the code says so.                    *)
(*                                                                         *)
(* An integer is the function from the index of a word to the word, the    *)
(* lowest first, as the array `items` is.                                  *)
(***************************************************************************)
EXTENDS Integers

CONSTANTS WORD_BITS, NUM_WORDS

ASSUME U256MathAssumption == WORD_BITS \in Nat \ {0} /\ NUM_WORDS \in Nat /\ NUM_WORDS >= 4

Base  == 2 ^ WORD_BITS
Word  == 0 .. Base - 1
Index == 0 .. NUM_WORDS - 1

U256Muldiv == [Index -> Word]

\* The trait LoHi.
lo(t) == t % Base
hi(t) == t \div Base
hi_lo(h, l) == h * Base + l

\* Wrapping arithmetic of two words.
Wrap(t) == t % (Base * Base)

new(h, l) ==
  [i \in Index |-> CASE i = 0 -> lo(l) [] i = 1 -> hi(l) [] i = 2 -> lo(h) [] i = 3 -> hi(h)
                     [] OTHER -> 0]

Zero == new(0, 0)

num_words(x) ==
  IF x = Zero THEN 0
  ELSE 1 + CHOOSE i \in Index : x[i] # 0 /\ \A j \in Index : j > i => x[j] = 0

-----------------------------------------------------------------------------
(* Shifts *)

shift_word_left(x) == [i \in Index |-> IF i = 0 THEN 0 ELSE x[i - 1]]

\* None when a word would be lost.
checked_shift_word_left(x) == IF x[NUM_WORDS - 1] > 0 THEN "None" ELSE shift_word_left(x)

shift_left(x, shift_amount) ==
  LET words   == shift_amount \div WORD_BITS
      bits    == shift_amount % WORD_BITS
      At(i)   == IF i < words THEN 0 ELSE x[i - words]
  IN  IF shift_amount >= WORD_BITS * NUM_WORDS THEN Zero
      ELSE [i \in Index |->
              lo(At(i) * 2 ^ bits)
              + (IF i = 0 THEN 0 ELSE At(i - 1) \div 2 ^ (WORD_BITS - bits))]

shift_right(x, shift_amount) ==
  LET words   == shift_amount \div WORD_BITS
      bits    == shift_amount % WORD_BITS
      At(i)   == IF i + words \in Index THEN x[i + words] ELSE 0
  IN  IF shift_amount >= WORD_BITS * NUM_WORDS THEN Zero
      ELSE [i \in Index |-> At(i) \div 2 ^ bits + lo(At(i + 1) * 2 ^ (WORD_BITS - bits))]

-----------------------------------------------------------------------------
(* Comparisons *)

eq(x, y) == \A i \in Index : x[i] = y[i]

\* The highest word that differs decides.
lt(x, y) == \E i \in Index : x[i] < y[i] /\ \A j \in Index : j > i => x[j] = y[j]
gt(x, y) == \E i \in Index : x[i] > y[i] /\ \A j \in Index : j > i => x[j] = y[j]
lte(x, y) == lt(x, y) \/ eq(x, y)
gte(x, y) == gt(x, y) \/ eq(x, y)

-----------------------------------------------------------------------------
(* Sums and products, which wrap at NUM_WORDS *)

add(x, y) ==
  LET carry[i \in 0 .. NUM_WORDS] == IF i = 0 THEN 0 ELSE hi(x[i - 1] + y[i - 1] + carry[i - 1])
  IN  [i \in Index |-> lo(x[i] + y[i] + carry[i])]

\* A borrow may arise from the other operand's word or from the borrow before.
sub(x, y) ==
  LET borrow[i \in 0 .. NUM_WORDS] ==
        IF i = 0 THEN 0
        ELSE IF x[i - 1] < y[i - 1] \/ lo(x[i - 1] - y[i - 1]) < borrow[i - 1] THEN 1 ELSE 0
  IN  [i \in Index |-> lo(x[i] - y[i] - borrow[i])]

\* The negative modulo 2^256, by way of the greatest integer.
get_add_inverse(x) ==
  IF eq(x, Zero) THEN Zero ELSE add(sub([i \in Index |-> Base - 1], x), new(0, 1))

\* The words of x times one of the other's, added word by word to the result.
RowSteps(result, x, m, word, j) ==
  LET step[i \in 0 .. m] ==
        IF i = 0 THEN [result |-> result, k |-> 0]
        ELSE LET before == step[i - 1]
                 t      == Wrap(x[i - 1] * word + before.result[i - 1 + j] + before.k)
             IN  IF i - 1 + j \in Index
                 THEN [result |-> [before.result EXCEPT ![i - 1 + j] = lo(t)], k |-> hi(t)]
                 ELSE before
  IN  step[m]

\* Mutant: the carry out of a row is dropped.
AddRowWithoutCarry(result, x, m, word, j) == RowSteps(result, x, m, word, j).result

\* One round of the outer loop of mul.
AddRow(result, x, m, word, j) ==
  LET row == RowSteps(result, x, m, word, j)
  IN  IF j + m \in Index THEN [row.result EXCEPT ![j + m] = row.k] ELSE row.result

mul(x, y) ==
  LET m == num_words(x)
      rows[j \in 0 .. NUM_WORDS, result \in U256Muldiv] ==
        IF j = num_words(y) THEN result ELSE rows[j + 1, AddRow(result, x, m, y[j], j)]
  IN  rows[0, Zero]

\* The product of two u128, as two u128: the cross products are added to the
\* middle words, and what carries from there to the upper ones.
Middle(v, n) == hi(lo(v) * lo(n)) + lo(lo(v) * hi(n)) + lo(hi(v) * lo(n))

ProductLow(v, n) == hi_lo(lo(Middle(v, n)), lo(lo(v) * lo(n)))

ProductHigh(v, n) == hi(v) * hi(n) + hi(Middle(v, n)) + hi(lo(v) * hi(n)) + hi(hi(v) * lo(n))

mul_u256(v, n) == new(ProductHigh(v, n), ProductLow(v, n))

\* The error of try_into_u128, None, is no number.
try_into_u128(x) == IF num_words(x) > 2 THEN "None" ELSE hi_lo(x[1], x[0])
-----------------------------------------------------------------------------
(* Division of several words by two or more, one word of the quotient at a time *)

leading_zeros(word) == WORD_BITS - (CHOOSE n \in 0 .. WORD_BITS : word < 2 ^ n /\ 2 * word >= 2 ^ n)

\* Division of several words by one.
DivByWord(x, word) ==
  LET k[j \in 0 .. NUM_WORDS] ==             \* what is left above word j
        IF j = NUM_WORDS THEN 0 ELSE hi_lo(k[j + 1], x[j]) % word
  IN  [quotient  |-> [j \in Index |-> hi_lo(k[j + 1], x[j]) \div word],
       remainder |-> new(0, k[0])]

\* Mutant: the first guess stands.
EstimateUnrefined(d0, d1, d0_2, d1_2) == d0 \div d1

\* The guess for a word of the quotient, from the two highest words of each
\* side: too large by at most one once it is refined.
Estimate(d0, d1, d0_2, d1_2) ==
  LET refined[q \in Nat, r \in Nat] ==
        IF hi(q) # 0 \/ Wrap(q * d1_2) > hi_lo(lo(r), d0_2)
        THEN IF hi(r + d1) # 0 THEN q - 1 ELSE refined[q - 1, r + d1]
        ELSE q
  IN  refined[d0 \div d1, d0 % d1]

\* The dividend less qhat times the divisor, from word index on, and what is
\* borrowed from above.
SubtractProduct(dividend, divisor, n, qhat, index) ==
  LET t(i, k) == Wrap(dividend[index + i] - k - lo(qhat * divisor[i]))
      borrow[i \in 0 .. n] ==
        IF i = 0 THEN 0
        ELSE lo(hi(qhat * divisor[i - 1]) - hi(t(i - 1, borrow[i - 1])))
  IN  [dividend |-> [p \in Index |-> IF p >= index /\ p < index + n
                                     THEN lo(t(p - index, borrow[p - index])) ELSE dividend[p]],
       borrow   |-> borrow[n]]

\* The divisor added back, and what carries upwards.
AddBack(dividend, divisor, n, index) ==
  LET carry[i \in 0 .. n] ==
        IF i = 0 THEN 0 ELSE hi(Wrap(dividend[index + i - 1] + divisor[i - 1] + carry[i - 1]))
  IN  [dividend |-> [p \in Index |-> IF p >= index /\ p < index + n
                                     THEN lo(dividend[p] + divisor[p - index] + carry[p - index])
                                     ELSE dividend[p]],
       carry    |-> carry[n]]

\* div_loop.  The word above the highest one is kept in carry_space.  Adding
\* back reads and writes that word in the array wherever it is: it panics when
\* the array has no such word.
div_loop(index, n, dividend, carry_space, divisor) ==
  LET use_carry == index + n = NUM_WORDS
      d_head    == IF use_carry THEN carry_space ELSE dividend[index + n]
      qhat      == Estimate(hi_lo(d_head, dividend[index + n - 1]), divisor[n - 1],
                            dividend[index + n - 2], divisor[n - 2])
      less      == SubtractProduct(dividend, divisor, n, qhat, index)
      head      == lo(d_head - less.borrow)
      back      == AddBack(less.dividend, divisor, n, index)
  IN  IF less.borrow <= d_head
      THEN [panics |-> FALSE, word |-> lo(qhat),
            dividend |-> IF use_carry THEN less.dividend ELSE [less.dividend EXCEPT ![index + n] = head],
            carry_space |-> IF use_carry THEN head ELSE carry_space]
      ELSE [panics |-> use_carry, word |-> lo(qhat - 1),
            dividend |-> IF use_carry THEN back.dividend
                         ELSE [back.dividend EXCEPT ![index + n] = lo(head + back.carry)],
            carry_space |-> carry_space]
=============================================================================
