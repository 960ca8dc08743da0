------------------------------ MODULE StepProofs ------------------------------
(***************************************************************************)
(* The parts of an iteration of the swap loop: which tick it heads for     *)
(* (TickSearch), and what the pool receives and pays on the way there      *)
(* (SwapRoundTrip).                                                        *)
(*                                                                         *)
(* The sweep: one search passes no initialized tick (SearchSkipsNothing),  *)
(* so by induction over the iterations the ticks crossed are those between *)
(* the start and the current tick.  That a sweep in order uses all of its  *)
(* arrays rests on where the current tick is relative to the array the     *)
(* next search begins in.                                                  *)
(***************************************************************************)
EXTENDS SwapRoundTrip, TickSearch, MathProofs

\* The typed part of the sweep's state, and what its history left true: the
\* current tick is on the trade's side of the start, and while the search goes
\* on, a tick is left in its direction.
SearchTyped ==
  /\ initialized \in SUBSET UsableTicks
  /\ arrays \in Seq(Int)
  /\ Len(arrays) \in Nat \ {0}
  /\ \A i \in 1 .. Len(arrays) : check_is_valid_start_tick(arrays[i])
  /\ a_to_b \in BOOLEAN
  /\ from \in Int /\ tick \in Int
  /\ array_index \in Nat \ {0}
  /\ IF a_to_b THEN tick <= from ELSE from <= tick
  /\ status = "searching" => IF a_to_b THEN MIN_TICK_INDEX <= tick ELSE tick < MAX_TICK_INDEX

\* The sequences of arrays that a caller can pass.
LEMMA SequencesTyped ==
  ASSUME NEW s \in Sequences3
  PROVE  /\ s \in Seq(Int) /\ Len(s) \in Nat \ {0}
         /\ \A i \in 1 .. Len(s) : check_is_valid_start_tick(s[i])
<1>1. \A x \in Starts : x \in Int /\ check_is_valid_start_tick(x)
  BY DEF Starts
<1>2. CASE s \in {<<x>> : x \in Starts}
  <2>1. PICK x \in Starts : s = <<x>>
    BY <1>2
  <2> QED
    BY <1>1, <2>1
<1>3. CASE s \in Starts \X Starts
  <2>1. PICK x \in Starts, y \in Starts : s = <<x, y>>
    BY <1>3
  <2> QED
    BY <1>1, <2>1
<1>4. CASE s \in Starts \X Starts \X Starts
  <2>1. PICK x \in Starts, y \in Starts, z \in Starts : s = <<x, y, z>>
    BY <1>4
  <2> QED
    BY <1>1, <2>1
<1> QED
  BY <1>2, <1>3, <1>4 DEF Sequences3

\* An iteration of the sweep heads for a tick of the tick line, ahead of the
\* current one.
LEMMA FoundAhead ==
  ASSUME SearchTyped, status = "searching", Found # SearchFailed
  PROVE  /\ Found.array_index \in array_index .. Len(arrays)
         /\ Found.tick_index \in TickIndices /\ Found.tick_index \in Int
         /\ IF a_to_b THEN Found.tick_index <= tick ELSE tick < Found.tick_index
<1>1. /\ initialized \in SUBSET UsableTicks /\ arrays \in Seq(Int)
      /\ \A i \in 1 .. Len(arrays) : check_is_valid_start_tick(arrays[i])
      /\ tick \in Int /\ a_to_b \in BOOLEAN /\ array_index \in Nat \ {0}
      /\ IF a_to_b THEN MIN_TICK_INDEX <= tick ELSE tick < MAX_TICK_INDEX
      /\ Found = get_next_initialized_tick_index(initialized, arrays, tick, a_to_b, array_index)
  BY DEF SearchTyped, Found
<1> QED
  BY <1>1, SearchYieldsTickAhead, ArrayTypes

\* The typed part is kept by every step.
LEMMA SearchTypedMoves ==
  ASSUME SearchTyped, [SearchNext]_searchvars
  PROVE  SearchTyped'
<1>1. CASE Sweep
  <2> DEFINE n == Found.tick_index
  <2>1. /\ Found.array_index \in array_index .. Len(arrays)
        /\ n \in TickIndices /\ n \in Int
        /\ IF a_to_b THEN n <= tick ELSE tick < n
    BY <1>1, FoundAhead DEF Sweep
  <2>2. /\ tick' = (IF a_to_b THEN n - 1 ELSE n)
        /\ status' = IF n = (IF a_to_b THEN MIN_TICK_INDEX ELSE MAX_TICK_INDEX)
                     THEN "done" ELSE "searching"
        /\ array_index' \in {Found.array_index, Found.array_index + 1}
        /\ UNCHANGED <<initialized, arrays, a_to_b, from>>
    BY <1>1 DEF Sweep, NextArrayIndex
  <2> HIDE DEF n
  <2>3. tick' \in Int /\ array_index' \in Nat \ {0}
    BY <2>1, <2>2 DEF SearchTyped
  <2>4. IF a_to_b' THEN tick' <= from' ELSE from' <= tick'
    BY <2>1, <2>2 DEF SearchTyped
  <2>5. status' = "searching" =>
          IF a_to_b' THEN MIN_TICK_INDEX <= tick' ELSE tick' < MAX_TICK_INDEX
    BY <2>1, <2>2, ArrayTypes DEF SearchTyped, TickIndices
  <2> QED
    BY <2>2, <2>3, <2>4, <2>5 DEF SearchTyped
<1>2. CASE Fail
  BY <1>2 DEF Fail, SearchTyped
<1>3. CASE UNCHANGED searchvars
  BY <1>3 DEF searchvars, SearchTyped
<1> QED
  BY <1>1, <1>2, <1>3 DEF SearchNext

\* An iteration crosses the initialized ticks between the current tick and the
\* one it goes to, and no other.
LEMMA SweepMoves ==
  ASSUME SearchTyped, swept = Passed, [SearchNext]_searchvars
  PROVE  swept' = Passed'
<1>1. CASE Sweep
  <2> DEFINE n == Found.tick_index
  <2>1. /\ n \in Int
        /\ IF a_to_b THEN n <= tick ELSE tick < n
    BY <1>1, FoundAhead DEF Sweep
  <2>2. /\ \A t \in initialized : /\ a_to_b /\ t <= tick => t <= n
                                  /\ ~a_to_b /\ tick < t => n <= t
        /\ n \in initialized => HoldsTick(arrays[Found.array_index], n)
    <3>1. /\ initialized \in SUBSET UsableTicks /\ arrays \in Seq(Int)
          /\ \A i \in 1 .. Len(arrays) : check_is_valid_start_tick(arrays[i])
          /\ tick \in Int /\ a_to_b \in BOOLEAN /\ array_index \in Nat \ {0}
          /\ Found = get_next_initialized_tick_index(initialized, arrays, tick, a_to_b,
                                                     array_index)
          /\ Found # SearchFailed
      BY <1>1 DEF SearchTyped, Found, Sweep
    <3> QED
      BY <3>1, SearchSkipsNothing
  <2>3. /\ swept' = IF HoldsTick(arrays[Found.array_index], n)
                    THEN swept \cup ({n} \cap initialized) ELSE swept
        /\ tick' = (IF a_to_b THEN n - 1 ELSE n)
        /\ UNCHANGED <<initialized, arrays, a_to_b, from>>
    BY <1>1 DEF Sweep
  <2>4. swept' = swept \cup ({n} \cap initialized)
    BY <2>2, <2>3
  <2> HIDE DEF n
  <2>5. /\ tick \in Int /\ from \in Int /\ a_to_b \in BOOLEAN
        /\ \A t \in initialized : t \in Int
        /\ IF a_to_b THEN tick <= from ELSE from <= tick
    BY ArrayTypes DEF SearchTyped
  <2>6. CASE a_to_b
    <3>1. \A t \in initialized : n - 1 < t /\ t <= from <=> (tick < t /\ t <= from) \/ t = n
      BY <2>1, <2>2, <2>5, <2>6
    <3>2. Passed' = {t \in initialized : n - 1 < t /\ t <= from}
      BY <2>3, <2>6 DEF Passed
    <3>3. swept = {t \in initialized : tick < t /\ t <= from}
      BY <2>6 DEF Passed
    <3> QED
      BY <2>4, <3>1, <3>2, <3>3
  <2>7. CASE ~a_to_b
    <3>1. \A t \in initialized : from < t /\ t <= n <=> (from < t /\ t <= tick) \/ t = n
      BY <2>1, <2>2, <2>5, <2>7
    <3>2. Passed' = {t \in initialized : from < t /\ t <= n}
      BY <2>3, <2>7 DEF Passed
    <3>3. swept = {t \in initialized : from < t /\ t <= tick}
      BY <2>7 DEF Passed
    <3> QED
      BY <2>4, <3>1, <3>2, <3>3
  <2> QED
    BY <2>6, <2>7
<1>2. CASE Fail
  BY <1>2 DEF Fail, Passed
<1>3. CASE UNCHANGED searchvars
  BY <1>3 DEF searchvars, Passed
<1> QED
  BY <1>1, <1>2, <1>3 DEF SearchNext

\* The initial states of the sweep.
LEMMA SearchInitTyped ==
  ASSUME SearchInit
  PROVE  SearchTyped /\ swept = Passed
<1>1. /\ initialized \in SUBSET UsableTicks /\ a_to_b \in BOOLEAN /\ array_index \in Nat \ {0}
      /\ arrays \in Seq(Int) /\ Len(arrays) \in Nat \ {0}
      /\ \A i \in 1 .. Len(arrays) : check_is_valid_start_tick(arrays[i])
  BY SequencesTyped DEF SearchInit
<1>2. /\ from \in Int /\ tick = from /\ swept = {}
      /\ IF a_to_b THEN MIN_TICK_INDEX <= from ELSE from < MAX_TICK_INDEX
  BY ArrayTypes DEF SearchInit
<1>3. initialized \subseteq Int
  BY <1>1, ArrayTypes
<1>4. Passed = {}
  <2>1. \A t \in initialized : ~(tick < t /\ t <= from) /\ ~(from < t /\ t <= tick)
    BY <1>2, <1>3
  <2>2. CASE a_to_b
    BY <2>1, <2>2 DEF Passed
  <2>3. CASE ~a_to_b
    BY <2>1, <2>3 DEF Passed
  <2> QED
    BY <1>1, <2>2, <2>3
<1>5. SearchTyped
  BY <1>1, <1>2 DEF SearchTyped
<1> QED
  BY <1>2, <1>4, <1>5

\* Whatever arrays the caller passes, in whatever order, the loop crosses every
\* initialized tick it passes, and none twice or out of its way, for every set
\* of initialized ticks, spacing and array size (util/swap_tick_sequence.rs:99).
THEOREM SweepCrossesAll == SearchSpec => []SweepSkipsNothing
<1> DEFINE Inv == SearchTyped /\ swept = Passed
<1>1. SearchInit => Inv
  BY SearchInitTyped
<1>2. Inv /\ [SearchNext]_searchvars => Inv'
  BY SearchTypedMoves, SweepMoves
<1>3. Inv => SweepSkipsNothing
  BY DEF SweepSkipsNothing
<1> HIDE DEF Inv
<1> QED
  BY <1>1, <1>2, <1>3, PTL DEF SearchSpec

-----------------------------------------------------------------------------
(* Arrays in order. *)

\* All arrays are used up: the sweep has reached the far edge of the last one.
UsedUp ==
  /\ array_index = Len(arrays) + 1
  /\ IF a_to_b THEN tick = arrays[Len(arrays)] - 1
     ELSE tick + tick_spacing >= arrays[Len(arrays)] + TICKS_IN_ARRAY

\* With the arrays in order, the next search begins in the array it is given, and
\* it is not asked for an array beyond the last before the last is used up.
Positioned ==
  InOrder =>
    /\ status = "searching" =>
         \/ /\ array_index \in 1 .. Len(arrays)
            /\ in_search_range(arrays[array_index], tick, ~a_to_b)
         \/ UsedUp
    /\ status = "failed" => UsedUp

\* A search of an array that covers the search tick does not err.
LEMMA InRangeIsValid ==
  ASSUME NEW ticks \in SUBSET UsableTicks, NEW start \in Int, NEW index \in Int,
         NEW leftwards \in BOOLEAN, in_search_range(start, index, ~leftwards)
  PROVE  get_next_init_tick_index(ticks, start, index, leftwards) # InvalidSequence
<1> DEFINE offset == tick_offset(start, index)
           ahead  == {t \in ticks :
                        /\ check_in_array_bounds(start, t)
                        /\ IF leftwards THEN tick_offset(start, t) <= offset
                           ELSE tick_offset(start, t) > offset}
<1>1. get_next_init_tick_index(ticks, start, index, leftwards) =
        IF ahead = {} THEN NotFound
        ELSE IF leftwards THEN GreatestOf(ahead) ELSE LeastOf(ahead)
  BY DEF get_next_init_tick_index
<1>2. \A t \in ahead : t \in Int /\ MIN_TICK_INDEX <= t /\ t <= MAX_TICK_INDEX
  BY ArrayTypes DEF TickIndices
<1> HIDE DEF ahead
<1>3. NotFound # InvalidSequence
  BY ArrayTypes DEF NotFound, InvalidSequence
<1>4. ASSUME ahead # {} PROVE LeastOf(ahead) \in ahead /\ GreatestOf(ahead) \in ahead
  <2>1. /\ ahead \subseteq Int /\ MIN_TICK_INDEX \in Int /\ MAX_TICK_INDEX \in Int
        /\ \A t \in ahead : MIN_TICK_INDEX <= t
        /\ \A t \in ahead : t <= MAX_TICK_INDEX
    BY <1>2, ArrayTypes
  <2> QED
    BY <1>4, <2>1, LeastInSet, GreatestInSet
<1> QED
  BY <1>1, <1>2, <1>3, <1>4, ArrayTypes DEF InvalidSequence

\* With the arrays in order, and the current tick covered by the one the search
\* begins in, every later one covers the tick it is entered at.
LEMMA InOrderEntries ==
  ASSUME SearchTyped, InOrder, array_index \in 1 .. Len(arrays),
         in_search_range(arrays[array_index], tick, ~a_to_b),
         NEW i \in array_index .. Len(arrays)
  PROVE  /\ SearchIndex(arrays, array_index, i, tick, a_to_b) \in Int
         /\ in_search_range(arrays[i], SearchIndex(arrays, array_index, i, tick, a_to_b), ~a_to_b)
<1> DEFINE index == SearchIndex(arrays, array_index, i, tick, a_to_b)
<1>1. arrays \in Seq(Int) /\ tick \in Int /\ a_to_b \in BOOLEAN
  BY DEF SearchTyped
<1>2. CASE i = array_index
  BY <1>1, <1>2 DEF SearchIndex
<1>3. CASE i # array_index
  <2>1. i \in 2 .. Len(arrays) /\ i - 1 \in 1 .. Len(arrays) /\ i \in 1 .. Len(arrays)
    BY <1>1, <1>3
  <2> DEFINE a == arrays[i - 1]
             b == arrays[i]
  <2>2. a \in Int /\ b \in Int
    BY <1>1, <2>1
  <2>3. b = IF a_to_b THEN a - TICKS_IN_ARRAY ELSE a + TICKS_IN_ARRAY
    BY <2>1 DEF InOrder
  <2>4. index = IF a_to_b THEN a - 1 ELSE a + TICKS_IN_ARRAY - 1
    BY <1>3 DEF SearchIndex
  <2> HIDE DEF a, index
  <2> SUFFICES index \in Int /\ in_search_range(b, index, ~a_to_b)
    BY DEF index
  <2> HIDE DEF b
  <2> QED
    BY <1>1, <2>2, <2>3, <2>4, ArrayTypes DEF in_search_range
<1> QED
  BY <1>2, <1>3

\* Hence such a search succeeds.
LEMMA InOrderFinds ==
  ASSUME SearchTyped, InOrder, array_index \in 1 .. Len(arrays),
         in_search_range(arrays[array_index], tick, ~a_to_b)
  PROVE  Found # SearchFailed
<1> DEFINE found(i) == get_next_init_tick_index(initialized, arrays[i],
                         SearchIndex(arrays, array_index, i, tick, a_to_b), a_to_b)
           stops == {i \in array_index .. Len(arrays) :
                       \/ found(i) # NotFound
                       \/ AtEdge(arrays[i], a_to_b)
                       \/ i = Len(arrays)}
           at == LeastOf(stops)
<1>1. /\ initialized \in SUBSET UsableTicks /\ arrays \in Seq(Int) /\ a_to_b \in BOOLEAN
      /\ Len(arrays) \in Nat \ {0}
  BY DEF SearchTyped
<1>2. at \in stops
  <2>1. stops \subseteq Int /\ (\A i \in stops : 0 <= i) /\ 0 \in Int
    BY <1>1
  <2>2. Len(arrays) \in stops
    BY <1>1
  <2> HIDE DEF stops
  <2> QED
    BY <2>1, <2>2, LeastInSet
<1>3. at \in array_index .. Len(arrays)
  BY <1>2
<1>4. Found = IF stops = {} \/ found(at) = InvalidSequence THEN SearchFailed
              ELSE [array_index |-> at,
                    tick_index  |-> IF found(at) = NotFound THEN EdgeTick(arrays[at], a_to_b)
                                    ELSE found(at)]
  BY DEF Found, get_next_initialized_tick_index
<1> HIDE DEF stops, at
<1>5. /\ SearchIndex(arrays, array_index, at, tick, a_to_b) \in Int
      /\ in_search_range(arrays[at], SearchIndex(arrays, array_index, at, tick, a_to_b), ~a_to_b)
  BY <1>3, InOrderEntries
<1>6. found(at) # InvalidSequence
  <2>1. arrays[at] \in Int
    BY <1>1, <1>3
  <2> QED
    BY <1>1, <1>5, <2>1, InRangeIsValid
<1> HIDE DEF found
<1>7. at # 0 /\ stops # {}
  BY <1>2, <1>3
<1> QED
  BY <1>4, <1>6, <1>7 DEF SearchFailed

\* Where an iteration leaves the sweep, in terms of the array it stopped in: at
\* its far edge, or inside.
LeavesArrayAt(start, n, leftwards) ==
  IF tick_offset(start, n) = (IF leftwards THEN 0 ELSE TICK_ARRAY_SIZE - 1)
  THEN IF leftwards THEN n = start
       ELSE start + TICKS_IN_ARRAY <= n + tick_spacing /\ n < start + TICKS_IN_ARRAY
  ELSE in_search_range(start, IF leftwards THEN n - 1 ELSE n, ~leftwards)

\* After a step to the tick the search has found in an array, unless that is the end
\* of the tick line, the swap has either reached the last tick of the array in its
\* direction or is where the array can be searched again (swap_manager.rs:156).
LEMMA PositionAfter ==
  ASSUME NEW start \in Int, check_is_valid_start_tick(start), NEW ticks \in SUBSET UsableTicks,
         NEW n \in Int, check_in_array_bounds(start, n), NEW leftwards \in BOOLEAN,
         n \in ticks \/ n = EdgeTick(start, leftwards),
         n # (IF leftwards THEN MIN_TICK_INDEX ELSE MAX_TICK_INDEX)
  PROVE  LeavesArrayAt(start, n, leftwards)
<1> DEFINE s == tick_spacing
           d == n - start
           o == tick_offset(start, n)
           z == TICK_ARRAY_SIZE
<1>1. /\ s \in Nat \ {0} /\ s \in Int /\ z \in Int /\ d \in Int
      /\ start <= n /\ n < start + TICKS_IN_ARRAY /\ TICKS_IN_ARRAY = z * s
      /\ TICKS_IN_ARRAY \in Int
  BY ArrayTypes DEF check_in_array_bounds, in_search_range, TICKS_IN_ARRAY
<1>2. o \in Int /\ o * s <= d /\ d < o * s + s
  <2>1. o = d \div s
    BY DEF tick_offset
  <2> HIDE DEF d, s, o
  <2> QED
    BY <1>1, <2>1, DivMod
<1>3. CASE leftwards
  <2>1. ASSUME o = 0 PROVE n = start
    <3>1. CASE n \in ticks
      <4>1. n - start = o * s
        BY <3>1, UsableTickOffset
      <4> QED
        BY <1>1, <2>1, <4>1
    <3>2. CASE n \notin ticks
      BY <1>3, <3>2 DEF EdgeTick
    <3> QED
      BY <3>1, <3>2
  <2>2. ASSUME o # 0 PROVE n # start
    <3> SUFFICES ASSUME n = start PROVE o = 0
      BY <2>2
    <3>1. d = 0 /\ 0 \in Int
      BY <1>1
    <3> HIDE DEF o, d, s
    <3>2. o * s < (0 + 1) * s /\ (-1) * s < o * s
      BY <1>1, <1>2, <3>1
    <3>3. o < 0 + 1 /\ -1 < o
      BY <1>1, <1>2, <3>2, MulCancelStrict
    <3> QED
      BY <1>2, <3>3
  <2> HIDE DEF o
  <2>3. o # 0 => in_search_range(start, n - 1, FALSE)
    BY <1>1, <2>2 DEF in_search_range
  <2> QED
    BY <1>3, <2>1, <2>3 DEF o, LeavesArrayAt
<1>4. CASE ~leftwards
  <2> HIDE DEF o, d, s, z
  <2>1. ASSUME o = z - 1 PROVE start + TICKS_IN_ARRAY <= n + s
    <3>1. o * s = z * s - s
      BY <1>1, <2>1
    <3> QED
      BY <1>1, <1>2, <3>1 DEF d
  <2>2. ASSUME o # z - 1 PROVE n < start - s + TICKS_IN_ARRAY
    <3>1. o * s < z * s
      BY <1>1, <1>2 DEF d
    <3>2. o < z
      BY <1>1, <1>2, <3>1, MulCancelStrict
    <3>3. o + 1 <= z - 1 /\ o + 1 \in Int /\ z - 1 \in Int
      BY <1>1, <1>2, <2>2, <3>2
    <3>4. (o + 1) * s <= (z - 1) * s
      BY <1>1, <3>3, MulMonotone
    <3>5. (o + 1) * s = o * s + s /\ (z - 1) * s = z * s - s
      BY <1>1, <1>2
    <3> QED
      BY <1>1, <1>2, <3>4, <3>5 DEF d
  <2>3. o # z - 1 => in_search_range(start, n, TRUE)
    BY <1>1, <2>2 DEF in_search_range, s
  <2> QED
    BY <1>1, <1>4, <2>1, <2>3 DEF o, z, s, LeavesArrayAt
<1> QED
  BY <1>3, <1>4

\* An iteration heads for a tick of the array the search stopped in, initialized
\* or at its edge.
LEMMA FoundInArray ==
  ASSUME SearchTyped, Found # SearchFailed
  PROVE  /\ check_in_array_bounds(arrays[Found.array_index], Found.tick_index)
         /\ \/ Found.tick_index \in initialized
            \/ Found.tick_index = EdgeTick(arrays[Found.array_index], a_to_b)
<1>1. /\ initialized \in SUBSET UsableTicks /\ arrays \in Seq(Int)
      /\ \A i \in 1 .. Len(arrays) : check_is_valid_start_tick(arrays[i])
      /\ tick \in Int /\ a_to_b \in BOOLEAN /\ array_index \in Nat \ {0}
      /\ Found = get_next_initialized_tick_index(initialized, arrays, tick, a_to_b, array_index)
      /\ Found # SearchFailed
  BY DEF SearchTyped, Found
<1>2. check_in_array_bounds(arrays[Found.array_index], Found.tick_index)
  BY <1>1, SearchSkipsNothing
<1>3. Found.tick_index \in initialized \cup {EdgeTick(arrays[Found.array_index], a_to_b)}
  BY <1>1, SearchSkipsNothing
<1> QED
  BY <1>2, <1>3

\* Every iteration leaves the sweep positioned.
LEMMA PositionedMoves ==
  ASSUME SearchTyped, Positioned, [SearchNext]_searchvars
  PROVE  Positioned'
<1>1. CASE Sweep
  <2> SUFFICES ASSUME InOrder', status' = "searching"
               PROVE  \/ /\ array_index' \in 1 .. Len(arrays')
                         /\ in_search_range(arrays'[array_index'], tick', ~a_to_b')
                      \/ UsedUp'
    <3>1. status' # "failed"
      BY <1>1 DEF Sweep
    <3> QED
      BY <3>1 DEF Positioned
  <2> DEFINE n     == Found.tick_index
             j     == Found.array_index
             start == arrays[j]
             last  == Len(arrays)
  <2>1. /\ UNCHANGED <<initialized, arrays, a_to_b, from>>
        /\ tick' = (IF a_to_b THEN n - 1 ELSE n)
        /\ n # (IF a_to_b THEN MIN_TICK_INDEX ELSE MAX_TICK_INDEX)
        /\ array_index' = IF tick_offset(start, n) = (IF a_to_b THEN 0 ELSE TICK_ARRAY_SIZE - 1)
                          THEN j + 1 ELSE j
    BY <1>1 DEF Sweep, NextArrayIndex
  <2>2. /\ initialized \in SUBSET UsableTicks /\ arrays \in Seq(Int)
        /\ \A i \in 1 .. Len(arrays) : check_is_valid_start_tick(arrays[i])
        /\ tick \in Int /\ a_to_b \in BOOLEAN /\ array_index \in Nat \ {0}
        /\ last \in Nat
    BY DEF SearchTyped
  <2>3. j \in array_index .. last /\ n \in Int
    BY <1>1, FoundAhead DEF Sweep
  <2>4. j \in 1 .. last /\ start \in Int /\ check_is_valid_start_tick(start)
    BY <2>2, <2>3
  <2>5. /\ check_in_array_bounds(start, n)
        /\ n \in initialized \/ n = EdgeTick(start, a_to_b)
    BY <1>1, FoundInArray DEF Sweep
  <2>6. \A i \in 2 .. last : arrays[i] = IF a_to_b THEN arrays[i - 1] - TICKS_IN_ARRAY
                                         ELSE arrays[i - 1] + TICKS_IN_ARRAY
    BY <2>1 DEF InOrder
  <2> DEFINE moves == tick_offset(start, n) = (IF a_to_b THEN 0 ELSE TICK_ARRAY_SIZE - 1)
  <2>7. IF moves
        THEN IF a_to_b THEN n = start
             ELSE start + TICKS_IN_ARRAY <= n + tick_spacing /\ n < start + TICKS_IN_ARRAY
        ELSE in_search_range(start, IF a_to_b THEN n - 1 ELSE n, ~a_to_b)
    <3> HIDE DEF n, start
    <3>1. LeavesArrayAt(start, n, a_to_b)
      BY <2>1, <2>2, <2>3, <2>4, <2>5, PositionAfter
    <3> QED
      BY <3>1 DEF LeavesArrayAt
  <2>8. array_index' = (IF moves THEN j + 1 ELSE j)
    BY <2>1
  <2> HIDE DEF moves, n, j
  <2>9. CASE ~moves
    BY <2>1, <2>4, <2>7, <2>8, <2>9
  <2>10. CASE moves /\ j = last
    <3>1. start = arrays[last] /\ array_index' = last + 1
      BY <2>8, <2>10
    <3>2. IF a_to_b THEN tick' = start - 1 ELSE tick' + tick_spacing >= start + TICKS_IN_ARRAY
      BY <2>1, <2>3, <2>4, <2>7, <2>10, ArrayTypes
    <3> QED
      BY <2>1, <3>1, <3>2 DEF UsedUp
  <2>11. CASE moves /\ j # last
    <3> DEFINE b == arrays[j + 1]
    <3>1. j + 1 \in 2 .. last /\ j + 1 \in 1 .. last /\ (j + 1) - 1 = j
      BY <2>2, <2>4, <2>11
    <3>2. b = (IF a_to_b THEN start - TICKS_IN_ARRAY ELSE start + TICKS_IN_ARRAY) /\ b \in Int
      BY <2>2, <2>6, <3>1
    <3>3. in_search_range(b, tick', ~a_to_b)
      <4> HIDE DEF b, start
      <4> QED
        BY <2>1, <2>2, <2>3, <2>4, <2>7, <2>11, <3>2, ArrayTypes DEF in_search_range
    <3>4. array_index' = j + 1
      BY <2>8, <2>11
    <3> QED
      BY <2>1, <3>1, <3>3, <3>4
  <2> QED
    BY <2>9, <2>10, <2>11
<1>2. CASE Fail
  <2> SUFFICES ASSUME InOrder' PROVE UsedUp'
    BY <1>2 DEF Positioned, Fail
  <2>1. /\ InOrder /\ status = "searching" /\ Found = SearchFailed
        /\ UNCHANGED <<initialized, arrays, a_to_b, from, tick, array_index>>
    BY <1>2 DEF Fail, InOrder
  <2>2. UsedUp
    BY <2>1, InOrderFinds DEF Positioned
  <2> QED
    BY <2>1, <2>2 DEF UsedUp
<1>3. CASE UNCHANGED searchvars
  BY <1>3 DEF searchvars, Positioned, InOrder, UsedUp
<1> QED
  BY <1>1, <1>2, <1>3 DEF SearchNext

\* With the arrays in order, the loop fails only once it has used up all of
\* them: TickArraySequenceInvalidIndex means that the trade needs more arrays
\* than it was given, never that it went past one (manager/swap_manager.rs:160).
THEOREM SweepUsesAllArrays == SearchSpec => []InOrderSweepUsesAllArrays
<1> DEFINE Inv == SearchTyped /\ Positioned
<1>1. SearchInit => Inv
  <2> SUFFICES ASSUME SearchInit PROVE Inv
    OBVIOUS
  <2>1. SearchTyped
    BY SearchInitTyped
  <2>2. array_index = 1 /\ status = "searching" /\ tick = from
    BY DEF SearchInit
  <2>3. InOrder => in_search_range(arrays[array_index], tick, ~a_to_b)
    BY <2>2 DEF InOrder
  <2>4. array_index \in 1 .. Len(arrays)
    BY <2>1, <2>2 DEF SearchTyped
  <2> QED
    BY <2>1, <2>2, <2>3, <2>4 DEF Positioned
<1>2. Inv /\ [SearchNext]_searchvars => Inv'
  BY SearchTypedMoves, PositionedMoves
<1>3. Inv => InOrderSweepUsesAllArrays
  BY DEF Positioned, UsedUp, InOrderSweepUsesAllArrays
<1> HIDE DEF Inv
<1> QED
  BY <1>1, <1>2, <1>3, PTL DEF SearchSpec

-----------------------------------------------------------------------------
(* What is charged for an amount that is specified as input. *)

\* The price is rounded such that the move costs no more than the amount it was
\* computed from: the inequality behind it for token a.
LEMMA CostInA ==
  ASSUME NEW p \in Nat, NEW r \in Nat, NEW L \in Nat, NEW Q \in Nat, NEW x \in Nat,
         (L * p) * Q <= r * (L * Q + p * x)
  PROVE  (L * (p - r)) * Q <= x * (p * r)
OBVIOUS

\* Token A in: the price computed for an amount, rounded up, is one that the
\* move to it costs no more than the amount.
LEMMA AInCost ==
  ASSUME NEW p \in PriceRange, NEW L \in U128, NEW x \in Nat,
         NEW r \in PriceRange, r <= p, get_next_sqrt_price_from_a_round_up(p, L, x, TRUE) = r,
         get_amount_delta_a(p, r, L, TRUE) # Err
  PROVE  get_amount_delta_a(p, r, L, TRUE) <= x
<1> DEFINE m == (L * p) * TO_Q64
           k == L * TO_Q64 + p * x
<1>1. /\ p \in Nat \ {0} /\ r \in Nat \ {0} /\ L \in Nat /\ TO_Q64 \in Nat
      /\ p \in Int /\ r \in Int /\ x \in Int /\ r # Err
  <2>1. p \in Nat \ {0} /\ r \in Nat \ {0}
    BY PriceBounds
  <2>2. L \in Nat /\ TO_Q64 \in Nat
    BY Widths
  <2>3. r # Err
    BY <2>1 DEF Err
  <2> QED
    BY <2>1, <2>2, <2>3
<1>2. Upper(p, r) = p /\ Lower(p, r) = r
  BY <1>1 DEF Upper, Lower
<1>3. (L * (p - r)) * TO_Q64 <= x * (p * r)
  <2>1. CASE x = 0
    <3>1. r = p
      BY <2>1 DEF get_next_sqrt_price_from_a_round_up
    <3> QED
      BY <1>1, <2>1, <3>1
  <2>2. CASE x # 0
    <3>1. ~(k <= 0) /\ r = DivRound(m, k, TRUE)
      BY <1>1, <2>2 DEF get_next_sqrt_price_from_a_round_up
    <3>2. m \in Int /\ k \in Nat
      BY <1>1
    <3> HIDE DEF m, k
    <3>3. m <= r * k
      <4>1. k \in Nat \ {0}
        BY <3>1, <3>2
      <4>2. m <= DivRound(m, k, TRUE) * k
        BY <3>2, <4>1, DivRoundBounds
      <4> QED
        BY <3>1, <4>2, Zenon
    <3> QED
      BY <1>1, <3>3, CostInA DEF m, k
  <2> QED
    BY <2>1, <2>2
<1> DEFINE d  == get_amount_delta_a(p, r, L, TRUE)
           up == TRUE
<1> SUFFICES d <= x
  OBVIOUS
<1>8. up \in BOOLEAN /\ d = get_amount_delta_a(p, r, L, up) /\ d # Err
  OBVIOUS
<1> HIDE DEF d, up
<1> QED
  BY <1>1, <1>2, <1>3, <1>8, DeltaABounds

\* The same for token b.
LEMMA BInCost ==
  ASSUME NEW p \in PriceRange, NEW L \in U128, NEW x \in Nat,
         NEW r \in PriceRange, p <= r, get_next_sqrt_price_from_b_round_down(p, L, x, TRUE) = r,
         get_amount_delta_b(p, r, L, TRUE) # Err
  PROVE  get_amount_delta_b(p, r, L, TRUE) <= x
<1> DEFINE m == x * TO_Q64
           q == DivRound(m, L, FALSE)
<1>1. /\ p \in Nat /\ r \in Nat /\ L \in Nat /\ TO_Q64 \in Nat
      /\ p \in Int /\ r \in Int /\ x \in Int /\ r # Err
  <2>1. p \in Nat /\ r \in Nat
    BY PriceBounds
  <2>2. L \in Nat /\ TO_Q64 \in Nat
    BY Widths
  <2>3. r # Err
    BY <2>1 DEF Err
  <2> QED
    BY <2>1, <2>2, <2>3
<1>2. Upper(p, r) = r /\ Lower(p, r) = p
  BY <1>1 DEF Upper, Lower
<1>3. m \in Int
  BY <1>1
<1>4. L # 0 /\ r = CheckU128(p + q)
  BY <1>1 DEF get_next_sqrt_price_from_b_round_down, div_round_up_if
<1> HIDE DEF m
<1>5. q \in Int /\ q * L <= m
  BY <1>1, <1>3, <1>4, DivRoundBounds
<1> HIDE DEF q
<1>6. r = p + q
  <2>1. p + q \in Int
    BY <1>1, <1>5
  <2> QED
    BY <1>1, <1>4, <2>1, Conversions
<1>7. L * (r - p) <= x * TO_Q64
  BY <1>1, <1>5, <1>6 DEF m
<1> DEFINE d  == get_amount_delta_b(p, r, L, TRUE)
           up == TRUE
<1> SUFFICES d <= x
  OBVIOUS
<1>8. up \in BOOLEAN /\ d = get_amount_delta_b(p, r, L, up) /\ d # Err
  OBVIOUS
<1> HIDE DEF d, up
<1> QED
  BY <1>1, <1>2, <1>7, <1>8, DeltaBBounds

\* What is left for the trade once the fee is set aside, and its fee, make up no
\* more than what remains.
LEMMA CalcWithinRate ==
  ASSUME NEW remaining \in U64, NEW fee_rate \in 0 .. MAX_FEE_RATE,
         AmountCalc(remaining, fee_rate, TRUE) # Err
  PROVE  AmountCalc(remaining, fee_rate, TRUE) * FEE_RATE_MUL_VALUE
           <= remaining * (FEE_RATE_MUL_VALUE - fee_rate)
<1> DEFINE M == FEE_RATE_MUL_VALUE
           n == remaining * (M - fee_rate)
           q == DivRound(n, M, FALSE)
           f == checked_mul_div(remaining, M - fee_rate, M)
<1>1. /\ M \in Nat \ {0} /\ M \in Int /\ fee_rate \in Nat /\ remaining \in Nat
      /\ M - fee_rate \in Nat
  BY FeeRateAssumption, Widths
<1>2. n \in Int
  BY <1>1
<1>3. AmountCalc(remaining, fee_rate, TRUE) = CheckU64(f)
  BY DEF AmountCalc
<1>4. f \in {Err, q}
  BY DEF checked_mul_div, checked_mul_div_round_up_if
<1> HIDE DEF f, n, M
<1>5. q \in Int /\ q * M <= n
  BY <1>1, <1>2, DivRoundBounds
<1>6. Err \in Int /\ Err \notin U64
  BY Widths
<1>7. f \in Int
  BY <1>4, <1>5, <1>6
<1>8. CheckU64(f) = f /\ f \in U64
  BY <1>3, <1>7, Conversions
<1>9. CheckU64(f) = q
  BY <1>4, <1>6, <1>8
<1> QED
  BY <1>3, <1>5, <1>9 DEF n, M

\* A step with an exact input charges no more than that.
LEMMA InputWithinCalc ==
  ASSUME NEW remaining \in U64, NEW fee_rate \in 0 .. MAX_FEE_RATE, NEW L \in U128,
         NEW p \in PriceRange, NEW t \in PriceRange, NEW leftwards \in BOOLEAN,
         NEW c, Settled(c, remaining, fee_rate, L, p, t, TRUE, leftwards)
  PROVE  c.amount_in <= AmountCalc(remaining, fee_rate, TRUE)
<1> DEFINE calc == AmountCalc(remaining, fee_rate, TRUE)
           max  == get_amount_fixed_delta(p, t, L, TRUE, leftwards)
           r    == c.next_price
           d    == c.amount_in
<1>1. /\ calc \in U64 /\ max \in U64
      /\ r = NextSqrtPrice(calc, max, L, p, t, TRUE, leftwards)
      /\ r \in PriceRange
      /\ IF leftwards THEN t <= r /\ r <= p ELSE p <= r /\ r <= t
      /\ d # Err
      /\ d = IF leftwards THEN get_amount_delta_a(p, r, L, TRUE)
             ELSE get_amount_delta_b(p, r, L, TRUE)
  BY DEF Settled
<1>2. max = IF leftwards THEN get_amount_delta_a(p, t, L, TRUE)
            ELSE get_amount_delta_b(p, t, L, TRUE)
  BY DEF get_amount_fixed_delta
<1> HIDE DEF calc, max, r, d
<1>3. calc \in Nat /\ max \in Nat
  BY <1>1, Widths
<1>4. CASE calc >= max
  <2>1. r = t
    BY <1>1, <1>4 DEF NextSqrtPrice
  <2> QED
    BY <1>1, <1>2, <1>3, <1>4, <2>1 DEF d, calc
<1>5. CASE ~(calc >= max)
  <2>1. r = get_next_sqrt_price(p, L, calc, TRUE, leftwards)
    BY <1>1, <1>5 DEF NextSqrtPrice
  <2>2. CASE leftwards
    <3>1. r = get_next_sqrt_price_from_a_round_up(p, L, calc, TRUE)
      BY <2>1, <2>2 DEF get_next_sqrt_price
    <3>2. d <= calc
      BY <1>1, <1>3, <2>2, <3>1, AInCost
    <3> QED
      BY <3>2 DEF d, calc
  <2>3. CASE ~leftwards
    <3>1. r = get_next_sqrt_price_from_b_round_down(p, L, calc, TRUE)
      BY <2>1, <2>3 DEF get_next_sqrt_price
    <3>2. d <= calc
      BY <1>1, <1>3, <2>3, <3>1, BInCost
    <3> QED
      BY <3>2 DEF d, calc
  <2> QED
    BY <2>2, <2>3
<1> QED
  BY <1>4, <1>5

-----------------------------------------------------------------------------
(* What a step that succeeds guarantees. *)

\* The fee is at least its rate of what the step charges before it, and an exact
\* input covers both.
LEMMA SettledFee ==
  ASSUME NEW remaining \in U64, NEW fee_rate \in 0 .. MAX_FEE_RATE, NEW L \in U128,
         NEW p \in PriceRange, NEW t \in PriceRange,
         NEW is_input \in BOOLEAN, NEW leftwards \in BOOLEAN,
         NEW c, Settled(c, remaining, fee_rate, L, p, t, is_input, leftwards)
  PROVE  /\ c.fee_amount \in Nat
         /\ c.fee_amount * (FEE_RATE_MUL_VALUE - fee_rate) >= c.amount_in * fee_rate
         /\ is_input => c.amount_in + c.fee_amount <= remaining
<1> DEFINE M == FEE_RATE_MUL_VALUE
           k == M - fee_rate
           d == c.amount_in
           f == c.fee_amount
           is_max == c.next_price = t
           calc == AmountCalc(remaining, fee_rate, TRUE)
<1>1. /\ M \in Nat \ {0} /\ k \in Nat \ {0} /\ fee_rate \in Nat /\ remaining \in Nat
      /\ k = M - fee_rate /\ k + fee_rate = M /\ remaining < TO_Q64 /\ TO_Q64 \in Nat
  BY FeeRateAssumption, Widths DEF U64
<1>2. d \in Nat
  BY SettledAmounts
<1>3. f # Err /\ f = FeeAmount(d, remaining, fee_rate, is_input, is_max) /\ is_max \in BOOLEAN
  BY DEF Settled
<1> HIDE DEF M, k, d, f, is_max
\* The input and its fee rate together are no more than what remains.
<1>4. ASSUME is_input PROVE d * M <= remaining * k
  <2>1. calc \in Nat /\ calc * M <= remaining * k
    <3>1. calc \in U64
      BY <1>4 DEF Settled
    <3>2. calc \in Nat /\ calc # Err
      BY <3>1, Widths
    <3> QED
      BY <3>2, CalcWithinRate DEF M, k
  <2>2. d <= calc
    <3>1. Settled(c, remaining, fee_rate, L, p, t, TRUE, leftwards)
      BY <1>4
    <3> QED
      BY <3>1, InputWithinCalc DEF d
  <2> HIDE DEF calc
  <2>3. d * M <= calc * M
    BY <1>1, <1>2, <2>1, <2>2, MulMonotone
  <2> QED
    BY <1>1, <1>2, <2>1, <2>3
<1>5. CASE is_input /\ ~is_max
  <2>1. d * M <= remaining * M
    <3>1. remaining * k <= remaining * M
      BY <1>1
    <3> QED
      BY <1>1, <1>2, <1>4, <1>5, <3>1
  <2>2. d <= remaining
    BY <1>1, <1>2, <2>1, MulCancel
  <2> DEFINE rest == remaining - d
  <2>3. f = rest % TO_Q64
    BY <1>3, <1>5 DEF FeeAmount, WrapU64
  <2>4. rest \in 0 .. (TO_Q64 - 1)
    BY <1>1, <1>2, <2>2
  <2>5. f = rest
    <3> HIDE DEF rest
    <3> QED
      BY <1>1, <2>3, <2>4
  <2>6. f * k >= d * fee_rate
    <3>1. f * k = remaining * k - d * k
      BY <1>1, <1>2, <2>5
    <3>2. d * M = d * k + d * fee_rate
      BY <1>1, <1>2
    <3> QED
      BY <1>1, <1>2, <1>4, <1>5, <3>1, <3>2
  <2> QED
    BY <1>1, <1>2, <2>2, <2>5, <2>6 DEF d, f, k, M
<1>6. CASE ~(is_input /\ ~is_max)
  <2> DEFINE n == d * fee_rate
             q == DivRound(n, k, TRUE)
             g == checked_mul_div_round_up(d, fee_rate, k)
  <2>1. f = CheckU64(g)
    BY <1>3, <1>6 DEF FeeAmount, k, M
  <2>2. n \in Nat /\ n \in Int
    BY <1>1, <1>2
  <2>3. g \in {Err, q}
    BY DEF checked_mul_div_round_up, checked_mul_div_round_up_if
  <2> HIDE DEF n, g
  <2>4. q \in Int /\ q * k >= n
    BY <1>1, <2>2, DivRoundBounds
  <2>5. \A high \in Int : n <= high * k => q <= high
    BY <1>1, <2>2, QuotientUpTo
  <2> HIDE DEF q
  <2>6. Err \in Int /\ Err \notin U64
    BY Widths
  <2>7. g \in Int
    BY <2>3, <2>4, <2>6
  <2>8. f = g /\ g \in U64
    BY <1>3, <2>1, <2>7, Conversions
  <2>9. f = q /\ f \in Nat
    BY <2>3, <2>6, <2>8, Widths
  <2>10. ASSUME is_input PROVE d + f <= remaining
    <3>1. d * M = d * k + d * fee_rate
      BY <1>1, <1>2
    <3>2. n <= (remaining - d) * k
      BY <1>1, <1>2, <1>4, <2>10, <3>1 DEF n
    <3>3. q <= remaining - d
      BY <1>1, <1>2, <2>5, <3>2
    <3> QED
      BY <1>1, <1>2, <2>4, <2>9, <3>3
  <2> QED
    BY <2>4, <2>9, <2>10 DEF n, d, f, k, M
<1> QED
  BY <1>5, <1>6

\* No step takes or gives more than what remains of the amount that the trader
\* specified: AmountRemainingOverflow is never raised
\* (manager/swap_manager.rs:87-101).
THEOREM StepWithinAmount ==
  ASSUME NEW remaining \in U64, NEW fee_rate \in 0 .. MAX_FEE_RATE, NEW L \in U128,
         NEW p \in PriceRange, NEW t \in PriceRange,
         NEW is_input \in BOOLEAN, NEW leftwards \in BOOLEAN,
         IF leftwards THEN t <= p ELSE p <= t,
         NEW c, c = compute_swap(remaining, fee_rate, L, p, t, is_input, leftwards),
         c # SwapStepError
  PROVE  IF is_input THEN c.amount_in + c.fee_amount <= remaining
         ELSE c.amount_out <= remaining
<1>1. Settled(c, remaining, fee_rate, L, p, t, is_input, leftwards)
  BY StepSettled
<1>2. ~is_input => c.amount_out <= remaining
  BY <1>1 DEF Settled
<1>3. is_input => c.amount_in + c.fee_amount <= remaining
  BY <1>1, SettledFee
<1> QED
  BY <1>2, <1>3

-----------------------------------------------------------------------------
(* The trader's two steps. *)

\* The request is one the loop can make, and the results are those of steps that
\* succeeded, the second with the proceeds of the first.
RoundTripIInv ==
  /\ request \in Requests
  /\ IF request.a_to_b THEN request.target <= request.current
     ELSE request.target >= request.current
  /\ Traded => Settled(result, request.amount, request.fee_rate, request.liquidity,
                       request.current, request.target, request.is_input, request.a_to_b)
  /\ back \notin {None, SwapStepError} =>
       /\ Traded
       /\ Settled(back, result.amount_out, request.fee_rate, request.liquidity,
                  result.next_price, request.current, TRUE, ~request.a_to_b)

\* The fields of a request are what compute_swap takes.
LEMMA RequestTyped ==
  ASSUME request \in Requests
  PROVE  /\ request.amount \in U64 /\ request.fee_rate \in 0 .. MAX_FEE_RATE
         /\ request.liquidity \in U128
         /\ request.current \in PriceRange /\ request.target \in PriceRange
         /\ request.is_input \in BOOLEAN /\ request.a_to_b \in BOOLEAN
         /\ request.current \in Int /\ request.target \in Int
<1>1. /\ request.amount \in Amounts /\ request.fee_rate \in FeeRates
      /\ request.liquidity \in Liquidities
      /\ request.current \in Prices /\ request.target \in Prices
      /\ request.is_input \in BOOLEAN /\ request.a_to_b \in BOOLEAN
  BY DEF Requests
<1>2. /\ Amounts \subseteq U64 /\ FeeRates \subseteq 0 .. MAX_FEE_RATE
      /\ Liquidities \subseteq U128 /\ Prices \subseteq PriceRange
  BY RoundTripAssumption DEF PriceRange
<1>3. PriceRange \subseteq Int
  BY PriceBounds
<1> QED
  BY <1>1, <1>2, <1>3

\* Whatever has been traded came from requests in the domain, and from steps
\* that did not fail.
LEMMA RoundTripInvariant == Spec => []RoundTripIInv
<1>1. Init => RoundTripIInv
  BY DEF Init, RoundTripIInv, Traded
<1>2. RoundTripIInv /\ [Next]_vars => RoundTripIInv'
  <2> SUFFICES ASSUME RoundTripIInv, [Next]_vars PROVE RoundTripIInv'
    OBVIOUS
  <2> DEFINE L     == request.liquidity
             p     == request.current
             t     == request.target
             fee   == request.fee_rate
             leftwards == request.a_to_b
  <2>1. /\ request \in Requests /\ (IF leftwards THEN t <= p ELSE p <= t)
        /\ request.amount \in U64 /\ fee \in 0 .. MAX_FEE_RATE /\ L \in U128
        /\ p \in PriceRange /\ t \in PriceRange /\ p \in Int
        /\ request.is_input \in BOOLEAN /\ leftwards \in BOOLEAN
    BY RequestTyped DEF RoundTripIInv
  <2>2. CASE Trade
    <3>1. /\ UNCHANGED <<request, back>> /\ ~Traded
          /\ result' = compute_swap(request.amount, fee, L, p, t, request.is_input, leftwards)
      BY <2>2 DEF Trade, Traded
    <3>2. back' \in {None, SwapStepError}
      BY <3>1 DEF RoundTripIInv
    <3>3. Traded' => Settled(result', request.amount, fee, L, p, t, request.is_input, leftwards)
      <4> SUFFICES ASSUME Traded'
                   PROVE  Settled(result', request.amount, fee, L, p, t, request.is_input,
                                  leftwards)
        OBVIOUS
      <4>1. result' # SwapStepError
        BY DEF Traded
      <4> HIDE DEF L, p, t, fee, leftwards
      <4> QED
        BY <2>1, <3>1, <4>1, StepSettled
    <3> QED
      BY <3>1, <3>2, <3>3 DEF RoundTripIInv
  <2>3. CASE TradeBack
    <3> DEFINE q == result.next_price
               o == result.amount_out
               backwards == ~leftwards
    <3>1. /\ UNCHANGED <<request, result>> /\ Traded /\ Traded'
          /\ back' = compute_swap(o, fee, L, q, p, TRUE, backwards)
      BY <2>3 DEF TradeBack, Traded
    <3>2. /\ q \in PriceRange /\ o \in U64 /\ backwards \in BOOLEAN
          /\ IF leftwards THEN q <= p ELSE p <= q
      BY <3>1 DEF RoundTripIInv, Settled
    <3>3. IF backwards THEN p <= q ELSE q <= p
      BY <2>1, <3>2
    <3>4. back' # SwapStepError => Settled(back', o, fee, L, q, p, TRUE, backwards)
      <4> SUFFICES ASSUME back' # SwapStepError PROVE Settled(back', o, fee, L, q, p, TRUE, backwards)
        OBVIOUS
      <4> DEFINE yes == TRUE
      <4>1. back' = compute_swap(o, fee, L, q, p, yes, backwards) /\ yes \in BOOLEAN
        BY <3>1
      <4> HIDE DEF L, p, t, fee, leftwards, q, o, backwards, yes
      <4>2. Settled(back', o, fee, L, q, p, yes, backwards)
        BY <2>1, <3>2, <3>3, <4>1, StepSettled
      <4> QED
        BY <4>2 DEF yes
    <3>5. Settled(result, request.amount, fee, L, p, t, request.is_input, leftwards)
      BY <3>1 DEF RoundTripIInv
    <3> QED
      BY <2>1, <3>1, <3>4, <3>5 DEF RoundTripIInv
  <2>4. CASE UNCHANGED vars
    BY <2>4 DEF vars, RoundTripIInv, Traded
  <2> QED
    BY <2>2, <2>3, <2>4 DEF Next
<1> QED
  BY <1>1, <1>2, PTL DEF Spec

\* The roundings favour the pool: on every step it receives at least, and pays at
\* most, what the exact curve gives for the move the price really made
\* (math/swap_math.rs:83).
THEOREM StepFavoursPool == Spec => []PoolFavoured
<1>1. RoundTripIInv => PoolFavoured
  <2> SUFFICES ASSUME RoundTripIInv, Traded PROVE PoolFavoured
    BY DEF PoolFavoured
  <2> DEFINE L     == request.liquidity
             p     == request.current
             lower == Lower(p, result.next_price)
             upper == Upper(p, result.next_price)
             diff  == L * (upper - lower)
             d     == result.amount_in
             o     == result.amount_out
  <2>1. /\ L \in U128 /\ p \in PriceRange /\ request.a_to_b \in BOOLEAN
        /\ Settled(result, request.amount, request.fee_rate, L, p, request.target,
                   request.is_input, request.a_to_b)
    BY RequestTyped DEF RoundTripIInv
  <2>2. L \in Nat /\ TO_Q64 \in Nat
    BY <2>1, Widths
  <2> HIDE DEF L, p
  <2>3. /\ d \in Nat /\ o \in Nat
        /\ lower \in Nat \ {0} /\ upper \in Nat \ {0} /\ lower <= upper
        /\ request.a_to_b => /\ d * (upper * lower) >= diff * TO_Q64
                             /\ o * TO_Q64 <= diff
        /\ ~request.a_to_b => /\ d * TO_Q64 >= diff
                              /\ o * (upper * lower) <= diff * TO_Q64
    BY <2>1, SettledAmounts
  <2> HIDE DEF lower, upper, d, o
  <2>4. d * upper * lower = d * (upper * lower) /\ o * upper * lower = o * (upper * lower)
    BY <2>3
  <2> SUFFICES IF request.a_to_b
               THEN d * upper * lower >= diff * TO_Q64 /\ o * TO_Q64 <= diff
               ELSE o * upper * lower <= diff * TO_Q64 /\ d * TO_Q64 >= diff
    BY DEF PoolFavoured, L, p, lower, upper, d, o
  <2> QED
    BY <2>1, <2>3, <2>4
<1> QED
  BY <1>1, RoundTripInvariant, PTL

\* The fee is never below its rate, rounding included: neither the rounding of the
\* fee nor that of the input lets a trader pay less (math/swap_math.rs:88).
THEOREM StepFeeNotBelowRate == Spec => []FeeNotBelowRate
<1>1. RoundTripIInv => FeeNotBelowRate
  <2> SUFFICES ASSUME RoundTripIInv, Traded
               PROVE  result.fee_amount * (FEE_RATE_MUL_VALUE - request.fee_rate)
                        >= result.amount_in * request.fee_rate
    BY DEF FeeNotBelowRate
  <2>1. /\ request.amount \in U64 /\ request.fee_rate \in 0 .. MAX_FEE_RATE
        /\ request.liquidity \in U128
        /\ request.current \in PriceRange /\ request.target \in PriceRange
        /\ request.is_input \in BOOLEAN /\ request.a_to_b \in BOOLEAN
    BY RequestTyped DEF RoundTripIInv
  <2>2. Settled(result, request.amount, request.fee_rate, request.liquidity,
                request.current, request.target, request.is_input, request.a_to_b)
    BY DEF RoundTripIInv
  <2> QED
    BY <2>1, <2>2, SettledFee
<1> QED
  BY <1>1, RoundTripInvariant, PTL

-----------------------------------------------------------------------------
(* The way back. *)

\* Token a: what is paid for part of a move is no more than what was charged for
\* all of it, whatever the roundings.
LEMMA PartOfMoveA ==
  ASSUME NEW p \in Nat \ {0}, NEW q \in Nat \ {0}, NEW r \in Nat \ {0}, q <= r, r <= p,
         NEW L \in Nat, NEW Q \in Nat, NEW x \in Nat, NEW y \in Nat,
         x * (r * q) <= (L * (r - q)) * Q,
         y * (p * q) >= (L * (p - q)) * Q
  PROVE  x <= y
<1> DEFINE k == L * Q
           w == p * r * q
<1>1. k \in Nat /\ w \in Nat \ {0}
  OBVIOUS
<1>2. (x * (r * q)) * p <= ((L * (r - q)) * Q) * p
  <2>1. x * (r * q) \in Int /\ (L * (r - q)) * Q \in Int /\ p \in Nat
    OBVIOUS
  <2> QED
    BY <2>1, MulMonotone
<1>3. ((L * (p - q)) * Q) * r <= (y * (p * q)) * r
  <2>1. y * (p * q) \in Int /\ (L * (p - q)) * Q \in Int /\ r \in Nat
    OBVIOUS
  <2> QED
    BY <2>1, MulMonotone
<1>4. (x * (r * q)) * p = x * w /\ (y * (p * q)) * r = y * w
  OBVIOUS
<1>5. /\ ((L * (r - q)) * Q) * p = k * ((r - q) * p)
      /\ ((L * (p - q)) * Q) * r = k * ((p - q) * r)
  OBVIOUS
<1>6. (r - q) * p <= (p - q) * r
  <2>1. r * q <= p * q
    BY MulMonotone
  <2>2. (r - q) * p = r * p - q * p /\ (p - q) * r = p * r - q * r
    OBVIOUS
  <2>3. r * p = p * r /\ q * p = p * q /\ q * r = r * q
    OBVIOUS
  <2> QED
    BY <2>1, <2>2, <2>3
<1>7. ((r - q) * p) * k <= ((p - q) * r) * k
  <2>1. (r - q) * p \in Int /\ (p - q) * r \in Int
    OBVIOUS
  <2> QED
    BY <1>1, <1>6, <2>1, MulMonotone
<1>8. k * ((r - q) * p) <= k * ((p - q) * r)
  BY <1>1, <1>7
<1>9. x * w <= y * w
  BY <1>2, <1>3, <1>4, <1>5, <1>8
<1> HIDE DEF w
<1> QED
  BY <1>1, <1>9, MulCancel

\* Token b.
LEMMA PartOfMoveB ==
  ASSUME NEW p \in Nat \ {0}, NEW q \in Nat \ {0}, NEW r \in Nat \ {0}, p <= r, r <= q,
         NEW L \in Nat, NEW Q \in Nat \ {0}, NEW x \in Nat, NEW y \in Nat,
         x * Q <= L * (q - r),
         y * Q >= L * (q - p)
  PROVE  x <= y
<1>1. (q - r) * L <= (q - p) * L
  <2>1. q - r \in Int /\ q - p \in Int /\ q - r <= q - p
    OBVIOUS
  <2> QED
    BY <2>1, MulMonotone
<1>2. x * Q <= y * Q
  BY <1>1
<1> QED
  BY <1>2, MulCancel

\* Selling the proceeds of a step back never returns more than the step charged,
\* even before its fee (math/swap_math.rs:19).
THEOREM RoundTripNoProfit == Spec => []NoProfitFromRoundTrip
<1>1. RoundTripIInv => NoProfitFromRoundTrip
  <2> SUFFICES ASSUME RoundTripIInv, Traded, back \notin {None, SwapStepError}
               PROVE  back.amount_out <= result.amount_in + result.fee_amount
    BY DEF NoProfitFromRoundTrip
  <2> DEFINE L == request.liquidity
             p == request.current
             q == result.next_price
             r == back.next_price
             x == back.amount_out
             y == result.amount_in
             backwards == ~request.a_to_b
  <2>1. /\ request.amount \in U64 /\ request.fee_rate \in 0 .. MAX_FEE_RATE /\ L \in U128
        /\ p \in PriceRange /\ request.target \in PriceRange
        /\ request.is_input \in BOOLEAN /\ request.a_to_b \in BOOLEAN /\ backwards \in BOOLEAN
    BY RequestTyped DEF RoundTripIInv
  <2>2. /\ Settled(result, request.amount, request.fee_rate, L, p, request.target,
                   request.is_input, request.a_to_b)
        /\ Settled(back, result.amount_out, request.fee_rate, L, q, p, TRUE, backwards)
    BY DEF RoundTripIInv
  <2>3. /\ q \in PriceRange /\ r \in PriceRange
        /\ IF request.a_to_b THEN q <= r /\ r <= p ELSE p <= r /\ r <= q
    <3>1. q \in PriceRange /\ r \in PriceRange
      BY <2>2 DEF Settled
    <3>2. IF backwards THEN p <= r /\ r <= q ELSE q <= r /\ r <= p
      BY <2>2 DEF Settled
    <3> QED
      BY <2>1, <3>1, <3>2
  <2>4. /\ p \in Nat \ {0} /\ q \in Nat \ {0} /\ r \in Nat \ {0}
        /\ L \in Nat /\ TO_Q64 \in Nat \ {0}
    <3>1. PriceRange \subseteq Nat \ {0}
      BY PriceBounds
    <3>2. U128 \subseteq Nat /\ TO_Q64 \in Nat \ {0}
      BY Widths
    <3> QED
      BY <2>1, <2>3, <3>1, <3>2
  <2>5. result.fee_amount \in Nat
    BY <2>1, <2>2, SettledFee
  <2>6. /\ y \in Nat
        /\ request.a_to_b => y * (Upper(p, q) * Lower(p, q)) >= (L * (Upper(p, q) - Lower(p, q))) * TO_Q64
        /\ ~request.a_to_b => y * TO_Q64 >= L * (Upper(p, q) - Lower(p, q))
    BY <2>1, <2>2, SettledAmounts
  <2>7. /\ x \in Nat
        /\ backwards => x * TO_Q64 <= L * (Upper(q, r) - Lower(q, r))
        /\ ~backwards => x * (Upper(q, r) * Lower(q, r)) <= (L * (Upper(q, r) - Lower(q, r))) * TO_Q64
    BY <2>1, <2>2, <2>3, SettledAmounts, ZenonT(60)
  <2>8. x <= y
    <3> HIDE DEF L, p, q, r, x, y
    <3>1. CASE request.a_to_b
      <4>1. /\ Upper(p, q) = p /\ Lower(p, q) = q /\ Upper(q, r) = r /\ Lower(q, r) = q
        BY <2>3, <2>4, <3>1 DEF Upper, Lower
      <4> HIDE DEF backwards
      <4>2. y * (p * q) >= (L * (p - q)) * TO_Q64
        BY <2>6, <3>1, <4>1
      <4>3. x * (r * q) <= (L * (r - q)) * TO_Q64
        BY <2>7, <3>1, <4>1 DEF backwards
      <4> QED
        BY <2>3, <2>4, <2>6, <2>7, <3>1, <4>2, <4>3, PartOfMoveA
    <3>2. CASE ~request.a_to_b
      <4>1. /\ Upper(p, q) = q /\ Lower(p, q) = p /\ Upper(q, r) = q /\ Lower(q, r) = r
        BY <2>3, <2>4, <3>2 DEF Upper, Lower
      <4>2. y * TO_Q64 >= L * (q - p)
        BY <2>6, <3>2, <4>1
      <4>3. x * TO_Q64 <= L * (q - r)
        BY <2>7, <3>2, <4>1
      <4> QED
        BY <2>3, <2>4, <2>6, <2>7, <3>2, <4>2, <4>3, PartOfMoveB
    <3> QED
      BY <2>1, <3>1, <3>2
  <2> QED
    BY <2>5, <2>6, <2>7, <2>8
<1> QED
  BY <1>1, RoundTripInvariant, PTL
=============================================================================
