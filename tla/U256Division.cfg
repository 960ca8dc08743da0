SPECIFICATION Spec
CONSTANTS
  WORD_BITS = 2
  NUM_WORDS = 4
  WordValues = {0, 1, 2, 3}
  Operands <- MCOperands
CHECK_DEADLOCK FALSE
INVARIANTS
  LoopInvariant
  DivisionExact
  ArithmeticExact
