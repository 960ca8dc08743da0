------------------------------ MODULE TickArrays ------------------------------
(***************************************************************************)
(* The geometry of tick arrays and the search for the next initialized     *)
(* tick: state/tick.rs and util/swap_tick_sequence.rs.                     *)
(*                                                                         *)
(* A tick array is identified by its start tick.  The arrays of a pool     *)
(* partition the tick line, so their contents are kept together, in one    *)
(* function of tick indices (see Whirlpool), and the search below only     *)
(* needs the set of initialized ticks.  A swap's array sequence is a       *)
(* sequence of start ticks; the code's array indices 0, 1, 2 are 1, 2, 3.  *)
(***************************************************************************)
EXTENDS TokenMath, Sequences

CONSTANTS
  TICK_ARRAY_SIZE,     \* 88 in the code
  tick_spacing         \* of the pool, fixed at its creation

ASSUME ArrayAssumption ==
  /\ TICK_ARRAY_SIZE \in Nat \ {0}
  /\ tick_spacing \in Nat \ {0}

TICKS_IN_ARRAY == TICK_ARRAY_SIZE * tick_spacing

\* 443636 is not a multiple of 11 and TICK_ARRAY_SIZE is one: no array begins at
\* MIN_TICK_INDEX.
ASSUME EdgeAssumption == (-MIN_TICK_INDEX) % TICKS_IN_ARRAY # 0

-----------------------------------------------------------------------------
(* state/tick.rs *)

check_is_out_of_bounds(tick_index) ==
  tick_index > MAX_TICK_INDEX \/ tick_index < MIN_TICK_INDEX

\* The start of the array that holds MIN_TICK_INDEX.  Rust's % keeps the sign
\* of the dividend: MIN - (MIN % n + n) is MIN - (n - ((-MIN) % n)).
MIN_ARRAY_START ==
  MIN_TICK_INDEX - (TICKS_IN_ARRAY - ((-MIN_TICK_INDEX) % TICKS_IN_ARRAY))

check_is_valid_start_tick(tick_index) ==
  IF check_is_out_of_bounds(tick_index)
  THEN tick_index <= MIN_TICK_INDEX /\ tick_index = MIN_ARRAY_START
  ELSE tick_index % TICKS_IN_ARRAY = 0

check_is_usable_tick(tick_index) ==
  ~check_is_out_of_bounds(tick_index) /\ tick_index % tick_spacing = 0

UsableTicks == {t \in TickIndices : t % tick_spacing = 0}

\* The search range of an array: its own ticks, or those one spacing to the
\* left when the search goes right (shifted).
in_search_range(start_tick_index, tick_index, shifted) ==
  LET lower == IF shifted THEN start_tick_index - tick_spacing ELSE start_tick_index
  IN  tick_index >= lower /\ tick_index < lower + TICKS_IN_ARRAY

check_in_array_bounds(start_tick_index, tick_index) ==
  in_search_range(start_tick_index, tick_index, FALSE)

is_min_tick_array(start_tick_index) == start_tick_index <= MIN_TICK_INDEX

is_max_tick_array(start_tick_index) ==
  start_tick_index + TICKS_IN_ARRAY > MAX_TICK_INDEX

\* get_offset: division rounded towards minus infinity, which is TLA+'s \div.
tick_offset(start_tick_index, tick_index) ==
  (tick_index - start_tick_index) \div tick_spacing

\* Whether get_tick / update_tick find the tick in the array.
HoldsTick(start_tick_index, tick_index) ==
  /\ check_in_array_bounds(start_tick_index, tick_index)
  /\ check_is_usable_tick(tick_index)

-----------------------------------------------------------------------------
(* The search within one array.  Outcomes: an initialized tick, or none in *)
(* this array, or an array that does not cover the search tick.            *)

NotFound        == MAX_TICK_INDEX + 1
InvalidSequence == MAX_TICK_INDEX + 2

LeastOf(S)    == CHOOSE s \in S : \A r \in S : s <= r
GreatestOf(S) == CHOOSE s \in S : \A r \in S : s >= r

\* Leftwards the tick of the current offset counts, rightwards it does not.
get_next_init_tick_index(initialized, start_tick_index, tick_index, a_to_b) ==
  LET offset == tick_offset(start_tick_index, tick_index)
      ahead  == {t \in initialized :
                   /\ check_in_array_bounds(start_tick_index, t)
                   /\ IF a_to_b THEN tick_offset(start_tick_index, t) <= offset
                      ELSE tick_offset(start_tick_index, t) > offset}
  IN  IF ~in_search_range(start_tick_index, tick_index, ~a_to_b) THEN InvalidSequence
      ELSE IF ahead = {} THEN NotFound
      ELSE IF a_to_b THEN GreatestOf(ahead) ELSE LeastOf(ahead)

-----------------------------------------------------------------------------
(* util/swap_tick_sequence.rs: the search across the sequence of arrays.   *)

\* Mutant: rightwards the search enters the next array at its first tick, which
\* the search then leaves out.
SearchIndexOnFirstTick(arrays, first, i, tick_index, a_to_b) ==
  IF i = first THEN tick_index
  ELSE IF a_to_b THEN arrays[i - 1] - 1
  ELSE arrays[i - 1] + TICKS_IN_ARRAY

\* Where the search enters the i-th array, having begun in the first-th.
SearchIndex(arrays, first, i, tick_index, a_to_b) ==
  IF i = first THEN tick_index
  ELSE IF a_to_b THEN arrays[i - 1] - 1
  ELSE arrays[i - 1] + TICKS_IN_ARRAY - 1

AtEdge(start_tick_index, a_to_b) ==
  IF a_to_b THEN is_min_tick_array(start_tick_index) ELSE is_max_tick_array(start_tick_index)

\* The tick an array yields when it holds no initialized tick ahead: the edge
\* of the tick line, or, from the last array given, that array's own edge.
EdgeTick(start_tick_index, a_to_b) ==
  IF AtEdge(start_tick_index, a_to_b)
  THEN IF a_to_b THEN MIN_TICK_INDEX ELSE MAX_TICK_INDEX
  ELSE IF a_to_b THEN start_tick_index ELSE start_tick_index + TICKS_IN_ARRAY - 1

SearchFailed == [array_index |-> 0, tick_index |-> InvalidSequence]

\* The loop over the arrays stops at the first one that errs, holds a tick, is
\* at the edge, or is the last; it errs on an index beyond the sequence.
get_next_initialized_tick_index(initialized, arrays, tick_index, a_to_b, first) ==
  LET found(i) == get_next_init_tick_index(initialized, arrays[i],
                    SearchIndex(arrays, first, i, tick_index, a_to_b), a_to_b)
      stops    == {i \in first .. Len(arrays) :
                     \/ found(i) # NotFound
                     \/ AtEdge(arrays[i], a_to_b)
                     \/ i = Len(arrays)}
      at       == LeastOf(stops)
  IN  IF stops = {} \/ found(at) = InvalidSequence THEN SearchFailed
      ELSE [array_index |-> at,
            tick_index  |-> IF found(at) = NotFound THEN EdgeTick(arrays[at], a_to_b)
                            ELSE found(at)]

\* Mutant: the sequence advances on the wrong edge when moving right.
NextArrayIndexEdgeSwapped(arrays, array_index, tick_index, a_to_b) ==
  IF tick_offset(arrays[array_index], tick_index) = 0
  THEN array_index + 1 ELSE array_index

\* After crossing the tick at a given place of the sequence, swap_manager.rs
\* moves on to the next array when the tick was the array's last in that
\* direction.
NextArrayIndex(arrays, array_index, tick_index, a_to_b) ==
  IF tick_offset(arrays[array_index], tick_index) = (IF a_to_b THEN 0 ELSE TICK_ARRAY_SIZE - 1)
  THEN array_index + 1 ELSE array_index
=============================================================================
