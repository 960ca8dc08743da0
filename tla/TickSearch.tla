------------------------------ MODULE TickSearch ------------------------------
(***************************************************************************)
(* The search for the next initialized tick over every sequence of up to   *)
(* three arrays, in order or not, from every tick a pool can be at, and    *)
(* over every set of initialized ticks.  A behaviour repeats the search    *)
(* from the tick just reached, as the swap loop does when nothing stops    *)
(* it: it sweeps the arrays it was given.                                  *)
(***************************************************************************)
EXTENDS TickArrays

VARIABLES initialized, arrays, a_to_b, from, tick, array_index, swept, status

searchvars == <<initialized, arrays, a_to_b, from, tick, array_index, swept, status>>

\* The arrays a pool of this spacing can have, and what a caller may pass of
\* them: one to three distinct ones.
Starts == {s \in MIN_ARRAY_START .. MAX_TICK_INDEX : check_is_valid_start_tick(s)}

Sequences3 ==
  {<<s>> : s \in Starts}
  \cup {s \in Starts \X Starts : s[1] # s[2]}
  \cup {s \in Starts \X Starts \X Starts : s[1] # s[2] /\ s[2] # s[3] /\ s[1] # s[3]}

\* The loop is not entered at the price of the trader's limit, and no limit is
\* beyond the prices of the extreme ticks (swap_manager.rs:33, 65): a trade
\* leftwards begins at MIN_TICK_INDEX or above, one rightwards below
\* MAX_TICK_INDEX.
SearchInit ==
  /\ initialized \in SUBSET UsableTicks
  /\ arrays \in Sequences3
  /\ a_to_b \in BOOLEAN
  /\ from \in (MIN_TICK_INDEX - 1) .. MAX_TICK_INDEX
  /\ IF a_to_b THEN MIN_TICK_INDEX <= from ELSE from < MAX_TICK_INDEX
  /\ tick = from
  /\ array_index = 1
  /\ swept = {}
  /\ status = "searching"

Found == get_next_initialized_tick_index(initialized, arrays, tick, a_to_b, array_index)

\* One iteration of the swap loop that goes all the way to the tick found.
Sweep ==
  /\ status = "searching"
  /\ Found # SearchFailed
  /\ swept' = IF HoldsTick(arrays[Found.array_index], Found.tick_index)
              THEN swept \cup ({Found.tick_index} \cap initialized) ELSE swept
  /\ array_index' = NextArrayIndex(arrays, Found.array_index, Found.tick_index, a_to_b)
  /\ tick' = IF a_to_b THEN Found.tick_index - 1 ELSE Found.tick_index
  /\ status' = IF Found.tick_index = (IF a_to_b THEN MIN_TICK_INDEX ELSE MAX_TICK_INDEX)
               THEN "done" ELSE "searching"
  /\ UNCHANGED <<initialized, arrays, a_to_b, from>>

Fail ==
  /\ status = "searching"
  /\ Found = SearchFailed
  /\ status' = "failed"
  /\ UNCHANGED <<initialized, arrays, a_to_b, from, tick, array_index, swept>>

SearchNext == Sweep \/ Fail

SearchSpec == SearchInit /\ [][SearchNext]_searchvars

\* The ticks between the start of the sweep and where it is now.
Passed ==
  IF a_to_b THEN {t \in initialized : tick < t /\ t <= from}
  ELSE {t \in initialized : from < t /\ t <= tick}

\* Whatever arrays the caller passes, in whatever order, the loop crosses every
\* initialized tick it passes, and none twice or out of its way
\* (util/swap_tick_sequence.rs:99).
SweepSkipsNothing == swept = Passed

\* The arrays that follow one another in the direction of the trade, beginning
\* with the one the search starts in.
InOrder ==
  /\ in_search_range(arrays[1], from, ~a_to_b)
  /\ \A i \in 2 .. Len(arrays) :
       arrays[i] = IF a_to_b THEN arrays[i - 1] - TICKS_IN_ARRAY
                   ELSE arrays[i - 1] + TICKS_IN_ARRAY

\* With the arrays in order, the loop fails only once it has used up all of
\* them: it never asks for an array it was given and passed by
\* (manager/swap_manager.rs:160).
InOrderSweepUsesAllArrays ==
  (status = "failed" /\ InOrder) =>
    /\ array_index = Len(arrays) + 1
    /\ IF a_to_b THEN tick = arrays[Len(arrays)] - 1
       ELSE tick + tick_spacing >= arrays[Len(arrays)] + TICKS_IN_ARRAY
=============================================================================
