----------------------------- MODULE U256Division -----------------------------
(***************************************************************************)
(* U256Muldiv::div (math/u256_math.rs), with one action for each of its    *)
(* cases and for each word of the quotient that its loop finds.            *)
(***************************************************************************)
EXTENDS U256Math

VARIABLES
  status,                  \* "start", "loop", "done" or "panicked"
  inputs,                  \* history: what was divided by what
  dividend, divisor, quotient,
  carry_space,             \* the word above the highest one of the dividend
  shift,                   \* how far both were shifted
  words                    \* words of the quotient still to be found

vars == <<status, inputs, dividend, divisor, quotient, carry_space, shift, words>>

CONSTANT Operands           \* bound: what is divided by what

Init ==
  /\ status = "start"
  /\ dividend \in Operands /\ divisor \in Operands
  /\ inputs = <<dividend, divisor>>
  /\ quotient = Zero
  /\ carry_space = 0 /\ shift = 0 /\ words = 0

m == num_words(dividend)
n == num_words(divisor)

\* The dividend holds the remainder when a division is done.
Done(q, remainder) ==
  /\ status' = "done"
  /\ quotient' = q /\ dividend' = remainder
  /\ UNCHANGED <<inputs, divisor, carry_space, shift, words>>

DivideByZero ==
  /\ status = "start" /\ n = 0
  /\ status' = "panicked"
  /\ UNCHANGED <<inputs, dividend, divisor, quotient, carry_space, shift, words>>

\* Cases 0 and 1.
DividendShorter == status = "start" /\ n > 0 /\ (m = 0 \/ m < n) /\ Done(Zero, dividend)

\* Case 2.
DivideTwoWords ==
  /\ status = "start" /\ n > 0 /\ m >= n /\ m < 3
  /\ LET x == try_into_u128(dividend)
         y == try_into_u128(divisor)
     IN  Done(new(0, x \div y), new(0, x % y))

\* Case 3.
DivideByWord ==
  /\ status = "start" /\ n = 1 /\ m >= 3
  /\ LET result == DivByWord(dividend, divisor[0])
     IN  Done(result.quotient, result.remainder)

\* Mutant: nothing is kept of what leaves the highest word.
NoCarrySpace(s) == 0

\* What leaves the highest of all words.
CarrySpace(s) ==
  IF m = NUM_WORDS /\ leading_zeros(dividend[m - 1]) < s
  THEN dividend[m - 1] \div 2 ^ (WORD_BITS - s) ELSE 0

\* Both are shifted until the divisor's highest bit is set.
Normalize ==
  /\ status = "start" /\ n > 1 /\ m >= n /\ m >= 3
  /\ LET s == leading_zeros(divisor[n - 1])
     IN  /\ carry_space' = CarrySpace(s)
         /\ dividend' = shift_left(dividend, s) /\ divisor' = shift_left(divisor, s)
         /\ shift' = s
  /\ words' = m - n + 1
  /\ status' = "loop"
  /\ UNCHANGED <<inputs, quotient>>

DivLoop ==
  /\ status = "loop" /\ words > 0
  /\ LET result == div_loop(words - 1, n, dividend, carry_space, divisor)
     IN  /\ status' = IF result.panics THEN "panicked" ELSE status
         /\ dividend' = result.dividend /\ carry_space' = result.carry_space
         /\ quotient' = [quotient EXCEPT ![words - 1] = result.word]
  /\ words' = words - 1
  /\ UNCHANGED <<inputs, divisor, shift>>

Finish == status = "loop" /\ words = 0 /\ Done(quotient, shift_right(dividend, shift))

Next ==
  \/ DivideByZero \/ DividendShorter \/ DivideTwoWords \/ DivideByWord
  \/ Normalize \/ DivLoop \/ Finish

Spec == Init /\ [][Next]_vars

-----------------------------------------------------------------------------
(* Properties *)

Value(x) ==
  LET upTo[i \in 0 .. NUM_WORDS] == IF i = 0 THEN 0 ELSE upTo[i - 1] + x[i - 1] * Base ^ (i - 1)
  IN  upTo[NUM_WORDS]

Limit == Base ^ NUM_WORDS

\* In every round of the loop, the quotient found so far times the divisor and
\* what is left of the dividend make up the dividend, and what is left has no
\* more than the words still to be found (u256_math.rs:373).
LoopInvariant ==
  status = "loop" =>
    LET left == Value(dividend) + carry_space * Limit
    IN  /\ Value(quotient) * Value(divisor) + left = Value(inputs[1]) * 2 ^ shift
        /\ left < Value(divisor) * Base ^ words

\* A division that ends yields quotient and remainder, whichever of the cases
\* it takes (u256_math.rs:305).
DivisionExact ==
  status = "done" =>
    /\ Value(quotient) = Value(inputs[1]) \div Value(inputs[2])
    /\ Value(dividend) = Value(inputs[1]) % Value(inputs[2])

SumsExact(x, y) ==
  /\ Value(add(x, y)) = (Value(x) + Value(y)) % Limit
  /\ Value(sub(x, y)) = (Value(x) - Value(y)) % Limit
  /\ Value(get_add_inverse(x)) = (0 - Value(x)) % Limit

ProductsExact(x, y) ==
  /\ Value(mul(x, y)) = (Value(x) * Value(y)) % Limit
  /\ num_words(x) <= 2 /\ num_words(y) <= 2 =>
       Value(mul_u256(Value(x), Value(y))) = Value(x) * Value(y)

OrderExact(x, y) ==
  /\ eq(x, y) <=> Value(x) = Value(y)
  /\ lt(x, y) <=> Value(x) < Value(y)
  /\ gt(x, y) <=> Value(x) > Value(y)
  /\ lte(x, y) <=> Value(x) <= Value(y)
  /\ gte(x, y) <=> Value(x) >= Value(y)

ShiftsExact(x) ==
  /\ \A s \in 0 .. WORD_BITS * NUM_WORDS + 1 :
       /\ Value(shift_left(x, s)) = (Value(x) * 2 ^ s) % Limit
       /\ Value(shift_right(x, s)) = Value(x) \div 2 ^ s
  /\ IF Value(x) * Base < Limit
     THEN Value(checked_shift_word_left(x)) = Value(x) * Base
     ELSE checked_shift_word_left(x) = "None"

\* The words of sums, differences, products and shifts are those of the
\* integers' modulo 2^256, also where carries run through several words, and
\* comparisons agree with the integers', for operands of different lengths too
\* (u256_math.rs:51-302, 451).
ArithmeticExact ==
  status = "start" =>
    LET x == inputs[1]
        y == inputs[2]
    IN  SumsExact(x, y) /\ ProductsExact(x, y) /\ OrderExact(x, y) /\ ShiftsExact(x)

\* What the tests of div say (u256_math.rs:683, 1045): it yields the quotient
\* for any two integers, and panics on zero only.
PanicsOnZeroOnly == status = "panicked" => inputs[2] = Zero
=============================================================================
