----------------------------- MODULE TwoHopProofs -----------------------------
(***************************************************************************)
(* Two-hop swaps, for any two pools, any mints and any arguments.          *)
(*                                                                         *)
(* Both pools keep their inductive invariant, by the lemmas of             *)
(* WhirlpoolProofs about one pool, cited of each.  What is added here is   *)
(* how the two loops hang together: the hop that runs second was asked for *)
(* exactly what the other one yields, or takes, at its end, and stays so,  *)
(* as a loop that has ended makes no further iteration.                    *)
(***************************************************************************)
EXTENDS TwoHopSwap, TLAPS

\* The trader has accounts for the mints of both pools.
Funds ==
  /\ mint \in MintPairs
  /\ \A i \in 1 .. 2, x \in Token : mint[i][x] \in DOMAIN owner /\ owner[mint[i][x]] \in Nat

\* What was checked of the running two-hop swap at its start.
Accepted ==
  ~Idle => /\ hops \in TwoHopRequests
           /\ IntermediateMint(hops) = mint[2][TokenIn(hops.a_to_b[2])]
           /\ One!ValidArrays(hops.arrays[1]) /\ Two!ValidArrays(hops.arrays[2])

\* Each pool's loop serves its hop: the first one to run is asked for the amount
\* specified, the second one for what the first yields (or takes) at its end.
LoopsServeHops ==
  /\ Idle => One!Idle /\ Two!Idle
  /\ ~Idle /\ hops.is_input =>
       /\ ~One!Idle /\ swap_one.request = HopRequest(hops, 1, hops.amount)
       /\ ~Two!Idle => /\ ~One!LoopContinues(swap_one)
                       /\ swap_two.request = HopRequest(hops, 2, One!AmountReceived(swap_one))
  /\ ~Idle /\ ~hops.is_input =>
       /\ ~Two!Idle /\ swap_two.request = HopRequest(hops, 2, hops.amount)
       /\ ~One!Idle => /\ ~Two!LoopContinues(swap_two)
                       /\ swap_one.request = HopRequest(hops, 1, Two!AmountPaid(swap_two))

HopIInv == One!IInv /\ Two!IInv /\ Funds /\ Accepted /\ LoopsServeHops

-----------------------------------------------------------------------------
(* The pools are pools: what Whirlpool assumes holds of both. *)

\* The words of the first pool are the words here.
LEMMA OneWords ==
  /\ One!U64 = U64 /\ One!U128 = U128 /\ One!Token = Token
  /\ One!SwapRequest = [amount : U64, other_amount_threshold : U64, sqrt_price_limit : U128,
                      is_input : BOOLEAN, a_to_b : BOOLEAN, arrays : Seq(Int)]
BY DEF One!U64, One!U128, U64, U128, One!TO_Q128, TO_Q128, One!Token, Token, One!SwapRequest

\* The assumptions about a pool hold of the first.
LEMMA OneAssumptions ==
  /\ One!WordAssumption /\ One!TickRangeAssumption /\ One!SqrtPriceAssumption
  /\ One!FeeRateAssumption /\ One!ArrayAssumption /\ One!EdgeAssumption
  /\ One!RewardAssumption /\ One!PoolAssumption
<1>1. /\ One!WordAssumption /\ One!TickRangeAssumption /\ One!FeeRateAssumption
      /\ One!ArrayAssumption /\ One!RewardAssumption
  BY WordAssumption, TickRangeAssumption, FeeRateAssumption, ArrayAssumption, RewardAssumption
     DEF One!WordAssumption, One!TickRangeAssumption, One!FeeRateAssumption, One!ArrayAssumption,
         One!RewardAssumption
<1>2. One!SqrtPriceAssumption
  BY SqrtPriceAssumption
     DEF One!SqrtPriceAssumption, One!TickIndices, TickIndices, One!TO_Q128, TO_Q128
<1>3. One!EdgeAssumption
  BY EdgeAssumption DEF One!EdgeAssumption, One!TICKS_IN_ARRAY, TICKS_IN_ARRAY
<1>4. One!PoolAssumption
  BY PoolsAssumption, OneWords DEF One!PoolAssumption
<1> QED
  BY <1>1, <1>2, <1>3, <1>4

\* A pool that nothing happens to keeps its invariant.
LEMMA OneUntouched ==
  ASSUME One!IInv, UNCHANGED pool_one, swap_one' = swap_one
  PROVE  /\ One!IInv' /\ (One!Idle' <=> One!Idle)
         /\ tick_arrays_one' = tick_arrays_one
         /\ One!LoopContinues(swap_one)' <=> One!LoopContinues(swap_one)
         /\ One!AmountPaid(swap_one)' = One!AmountPaid(swap_one)
         /\ One!AmountReceived(swap_one)' = One!AmountReceived(swap_one)
<1>1. UNCHANGED One!vars
  BY DEF pool_one, One!vars, One!config, One!curve, One!fees, One!rewards
<1>2. One!IInv'
  BY <1>1, One!StutteringStep, OneAssumptions
<1> QED
  BY <1>2 DEF One!Idle, One!NoSwap, pool_one, One!LoopContinues, One!AmountPaid,
              One!AmountReceived, One!SpecifiedTotal

\* A hop's loop starts in the first pool.
LEMMA OneStarts ==
  ASSUME One!IInv, One!Idle, UNCHANGED pool_one,
         NEW r \in One!SwapRequest, NEW timestamp \in U64, One!ValidArrays(r.arrays),
         ~One!SwapRejected(r, timestamp), swap_one' = One!StartedSwap(r, timestamp)
  PROVE  /\ One!IInv' /\ ~One!Idle' /\ swap_one'.request = r
         /\ tick_arrays_one' = tick_arrays_one
<1>1. timestamp \in One!U64
  BY OneWords
<1>2. UNCHANGED <<One!config, One!curve, One!fees, One!rewards, tick_arrays_one, ticks_one,
                  positions_one, vault_one, reward_vault_one>>
  BY DEF pool_one, One!config, One!curve, One!fees, One!rewards
<1>3. One!IInv'
  BY <1>1, <1>2, One!SwapStartedStep, OneAssumptions
<1>4. swap_one' \in One!SwapState /\ swap_one'.request = r
  <2>1. One!TypeOK
    BY DEF One!IInv
  <2> QED
    BY <1>1, <2>1, One!StartedSwapType, OneAssumptions
<1>5. swap_one' # One!NoSwap
  BY <1>4, One!SwapStateNotIdle, OneAssumptions
<1> QED
  BY <1>2, <1>3, <1>4, <1>5 DEF One!Idle, One!NoSwap

\* It runs.
LEMMA OneRuns ==
  ASSUME One!IInv, One!SwapStep
  PROVE  /\ One!IInv' /\ ~One!Idle /\ ~One!Idle' /\ One!LoopContinues(swap_one)
         /\ swap_one'.request = swap_one.request
         /\ tick_arrays_one' = tick_arrays_one
<1>1. One!IInv'
  BY One!SwapStepStep, OneAssumptions
<1>2. /\ ~One!Idle /\ ~One!Idle' /\ One!LoopContinues(swap_one)
      /\ swap_one'.request = swap_one.request
  BY One!IterationKeepsRequest, OneAssumptions
<1>3. tick_arrays_one' = tick_arrays_one
  BY DEF One!SwapStep
<1> QED
  BY <1>1, <1>2, <1>3

\* And it ends: its results are written, or undone.
LEMMA OneEnds ==
  ASSUME One!IInv,
         \/ ~One!Idle /\ One!UpdateAndSwap
         \/ UNCHANGED pool_one /\ swap_one' = One!NoSwap
  PROVE  One!IInv' /\ One!Idle'
<1>1. CASE ~One!Idle /\ One!UpdateAndSwap
  <2>1. One!IInv'
    BY <1>1, One!UpdateAndSwapStep, OneAssumptions
  <2> QED
    BY <1>1, <2>1 DEF One!UpdateAndSwap, One!Idle, One!NoSwap
<1>2. CASE UNCHANGED pool_one /\ swap_one' = One!NoSwap
  <2>1. UNCHANGED <<One!config, One!curve, One!fees, One!rewards, tick_arrays_one, ticks_one,
                    positions_one, vault_one, reward_vault_one>>
    BY <1>2 DEF pool_one, One!config, One!curve, One!fees, One!rewards
  <2>2. One!IInv'
    BY <1>2, <2>1, One!SwapUndoneStep, OneAssumptions
  <2> QED
    BY <1>2, <2>2 DEF One!Idle, One!NoSwap
<1> QED
  BY <1>1, <1>2

\* What its loop has paid and received.
LEMMA OneAmounts ==
  ASSUME One!IInv, ~One!Idle
  PROVE  /\ One!AmountPaid(swap_one) \in U64 /\ One!AmountReceived(swap_one) \in U64
         /\ One!AmountPaid(swap_one) \in Nat /\ One!AmountReceived(swap_one) \in Nat
         /\ swap_one.request.is_input =>
              One!AmountPaid(swap_one) <= swap_one.request.amount
         /\ ~swap_one.request.is_input =>
              One!AmountReceived(swap_one) <= swap_one.request.amount
<1>1. /\ One!AmountPaid(swap_one) \in U64 /\ One!AmountReceived(swap_one) \in U64
      /\ swap_one.request.is_input => One!AmountPaid(swap_one) <= swap_one.request.amount
      /\ ~swap_one.request.is_input => One!AmountReceived(swap_one) <= swap_one.request.amount
  BY One!SwapAmounts, OneAssumptions, OneWords
<1>2. \A x \in U64 : x \in Nat
  BY WordAssumption DEF U64
<1> QED
  BY <1>1, <1>2

\* Liquidity is provided to it while no two-hop swap runs, or it is switched on or off.
LEMMA OneOthers ==
  ASSUME One!IInv, One!Idle,
         \/ \E p \in 1 .. NumPositions, range \in PositionRanges,
               amount \in LiquidityAmounts, timestamp \in Timestamps :
              \/ One!OpenPosition(p, range[1], range[2])
              \/ One!IncreaseLiquidity(p, amount, timestamp)
         \/ \E flag \in EnableFlags : One!SetEnableFlag(flag)
  PROVE  One!IInv' /\ One!Idle'
<1>1. CASE \E p \in 1 .. NumPositions, range \in PositionRanges,
               amount \in LiquidityAmounts, timestamp \in Timestamps :
              \/ One!OpenPosition(p, range[1], range[2])
              \/ One!IncreaseLiquidity(p, amount, timestamp)
  <2>1. PICK p \in 1 .. NumPositions, range \in PositionRanges,
             amount \in LiquidityAmounts, timestamp \in Timestamps :
              \/ One!OpenPosition(p, range[1], range[2])
              \/ One!IncreaseLiquidity(p, amount, timestamp)
    BY <1>1
  <2>2. One!PositionNext
    BY <2>1 DEF One!PositionNext, One!PositionIds
  <2>3. One!IInv'
    BY <2>2, One!PositionStep, OneAssumptions
  <2>4. swap_one' = swap_one
    BY <2>1 DEF One!OpenPosition, One!IncreaseLiquidity
  <2> QED
    BY <2>3, <2>4 DEF One!Idle, One!NoSwap
<1>2. CASE \E flag \in EnableFlags : One!SetEnableFlag(flag)
  <2>1. One!ConfigNext
    BY <1>2 DEF One!ConfigNext
  <2>2. One!IInv'
    BY <2>1, One!PoolStep, OneAssumptions
  <2>3. swap_one' = swap_one
    BY <1>2 DEF One!SetEnableFlag
  <2> QED
    BY <2>2, <2>3 DEF One!Idle, One!NoSwap
<1> QED
  BY <1>1, <1>2

\* The words of the second pool are the words here.
LEMMA TwoWords ==
  /\ Two!U64 = U64 /\ Two!U128 = U128 /\ Two!Token = Token
  /\ Two!SwapRequest = [amount : U64, other_amount_threshold : U64, sqrt_price_limit : U128,
                      is_input : BOOLEAN, a_to_b : BOOLEAN, arrays : Seq(Int)]
BY DEF Two!U64, Two!U128, U64, U128, Two!TO_Q128, TO_Q128, Two!Token, Token, Two!SwapRequest

\* The assumptions about a pool hold of the second.
LEMMA TwoAssumptions ==
  /\ Two!WordAssumption /\ Two!TickRangeAssumption /\ Two!SqrtPriceAssumption
  /\ Two!FeeRateAssumption /\ Two!ArrayAssumption /\ Two!EdgeAssumption
  /\ Two!RewardAssumption /\ Two!PoolAssumption
<1>1. /\ Two!WordAssumption /\ Two!TickRangeAssumption /\ Two!FeeRateAssumption
      /\ Two!ArrayAssumption /\ Two!RewardAssumption
  BY WordAssumption, TickRangeAssumption, FeeRateAssumption, ArrayAssumption, RewardAssumption
     DEF Two!WordAssumption, Two!TickRangeAssumption, Two!FeeRateAssumption, Two!ArrayAssumption,
         Two!RewardAssumption
<1>2. Two!SqrtPriceAssumption
  BY SqrtPriceAssumption
     DEF Two!SqrtPriceAssumption, Two!TickIndices, TickIndices, Two!TO_Q128, TO_Q128
<1>3. Two!EdgeAssumption
  BY EdgeAssumption DEF Two!EdgeAssumption, Two!TICKS_IN_ARRAY, TICKS_IN_ARRAY
<1>4. Two!PoolAssumption
  BY PoolsAssumption, TwoWords DEF Two!PoolAssumption
<1> QED
  BY <1>1, <1>2, <1>3, <1>4

\* A pool that nothing happens to keeps its invariant.
LEMMA TwoUntouched ==
  ASSUME Two!IInv, UNCHANGED pool_two, swap_two' = swap_two
  PROVE  /\ Two!IInv' /\ (Two!Idle' <=> Two!Idle)
         /\ tick_arrays_two' = tick_arrays_two
         /\ Two!LoopContinues(swap_two)' <=> Two!LoopContinues(swap_two)
         /\ Two!AmountPaid(swap_two)' = Two!AmountPaid(swap_two)
         /\ Two!AmountReceived(swap_two)' = Two!AmountReceived(swap_two)
<1>1. UNCHANGED Two!vars
  BY DEF pool_two, Two!vars, Two!config, Two!curve, Two!fees, Two!rewards
<1>2. Two!IInv'
  BY <1>1, Two!StutteringStep, TwoAssumptions
<1> QED
  BY <1>2 DEF Two!Idle, Two!NoSwap, pool_two, Two!LoopContinues, Two!AmountPaid,
              Two!AmountReceived, Two!SpecifiedTotal

\* A hop's loop starts in the second pool.
LEMMA TwoStarts ==
  ASSUME Two!IInv, Two!Idle, UNCHANGED pool_two,
         NEW r \in Two!SwapRequest, NEW timestamp \in U64, Two!ValidArrays(r.arrays),
         ~Two!SwapRejected(r, timestamp), swap_two' = Two!StartedSwap(r, timestamp)
  PROVE  /\ Two!IInv' /\ ~Two!Idle' /\ swap_two'.request = r
         /\ tick_arrays_two' = tick_arrays_two
<1>1. timestamp \in Two!U64
  BY TwoWords
<1>2. UNCHANGED <<Two!config, Two!curve, Two!fees, Two!rewards, tick_arrays_two, ticks_two,
                  positions_two, vault_two, reward_vault_two>>
  BY DEF pool_two, Two!config, Two!curve, Two!fees, Two!rewards
<1>3. Two!IInv'
  BY <1>1, <1>2, Two!SwapStartedStep, TwoAssumptions
<1>4. swap_two' \in Two!SwapState /\ swap_two'.request = r
  <2>1. Two!TypeOK
    BY DEF Two!IInv
  <2> QED
    BY <1>1, <2>1, Two!StartedSwapType, TwoAssumptions
<1>5. swap_two' # Two!NoSwap
  BY <1>4, Two!SwapStateNotIdle, TwoAssumptions
<1> QED
  BY <1>2, <1>3, <1>4, <1>5 DEF Two!Idle, Two!NoSwap

\* It runs.
LEMMA TwoRuns ==
  ASSUME Two!IInv, Two!SwapStep
  PROVE  /\ Two!IInv' /\ ~Two!Idle /\ ~Two!Idle' /\ Two!LoopContinues(swap_two)
         /\ swap_two'.request = swap_two.request
         /\ tick_arrays_two' = tick_arrays_two
<1>1. Two!IInv'
  BY Two!SwapStepStep, TwoAssumptions
<1>2. /\ ~Two!Idle /\ ~Two!Idle' /\ Two!LoopContinues(swap_two)
      /\ swap_two'.request = swap_two.request
  BY Two!IterationKeepsRequest, TwoAssumptions
<1>3. tick_arrays_two' = tick_arrays_two
  BY DEF Two!SwapStep
<1> QED
  BY <1>1, <1>2, <1>3

\* And it ends: its results are written, or undone.
LEMMA TwoEnds ==
  ASSUME Two!IInv,
         \/ ~Two!Idle /\ Two!UpdateAndSwap
         \/ UNCHANGED pool_two /\ swap_two' = Two!NoSwap
  PROVE  Two!IInv' /\ Two!Idle'
<1>1. CASE ~Two!Idle /\ Two!UpdateAndSwap
  <2>1. Two!IInv'
    BY <1>1, Two!UpdateAndSwapStep, TwoAssumptions
  <2> QED
    BY <1>1, <2>1 DEF Two!UpdateAndSwap, Two!Idle, Two!NoSwap
<1>2. CASE UNCHANGED pool_two /\ swap_two' = Two!NoSwap
  <2>1. UNCHANGED <<Two!config, Two!curve, Two!fees, Two!rewards, tick_arrays_two, ticks_two,
                    positions_two, vault_two, reward_vault_two>>
    BY <1>2 DEF pool_two, Two!config, Two!curve, Two!fees, Two!rewards
  <2>2. Two!IInv'
    BY <1>2, <2>1, Two!SwapUndoneStep, TwoAssumptions
  <2> QED
    BY <1>2, <2>2 DEF Two!Idle, Two!NoSwap
<1> QED
  BY <1>1, <1>2

\* What its loop has paid and received.
LEMMA TwoAmounts ==
  ASSUME Two!IInv, ~Two!Idle
  PROVE  /\ Two!AmountPaid(swap_two) \in U64 /\ Two!AmountReceived(swap_two) \in U64
         /\ Two!AmountPaid(swap_two) \in Nat /\ Two!AmountReceived(swap_two) \in Nat
         /\ swap_two.request.is_input =>
              Two!AmountPaid(swap_two) <= swap_two.request.amount
         /\ ~swap_two.request.is_input =>
              Two!AmountReceived(swap_two) <= swap_two.request.amount
<1>1. /\ Two!AmountPaid(swap_two) \in U64 /\ Two!AmountReceived(swap_two) \in U64
      /\ swap_two.request.is_input => Two!AmountPaid(swap_two) <= swap_two.request.amount
      /\ ~swap_two.request.is_input => Two!AmountReceived(swap_two) <= swap_two.request.amount
  BY Two!SwapAmounts, TwoAssumptions, TwoWords
<1>2. \A x \in U64 : x \in Nat
  BY WordAssumption DEF U64
<1> QED
  BY <1>1, <1>2

\* Liquidity is provided to it while no two-hop swap runs, or it is switched on or off.
LEMMA TwoOthers ==
  ASSUME Two!IInv, Two!Idle,
         \/ \E p \in 1 .. NumPositions, range \in PositionRanges,
               amount \in LiquidityAmounts, timestamp \in Timestamps :
              \/ Two!OpenPosition(p, range[1], range[2])
              \/ Two!IncreaseLiquidity(p, amount, timestamp)
         \/ \E flag \in EnableFlags : Two!SetEnableFlag(flag)
  PROVE  Two!IInv' /\ Two!Idle'
<1>1. CASE \E p \in 1 .. NumPositions, range \in PositionRanges,
               amount \in LiquidityAmounts, timestamp \in Timestamps :
              \/ Two!OpenPosition(p, range[1], range[2])
              \/ Two!IncreaseLiquidity(p, amount, timestamp)
  <2>1. PICK p \in 1 .. NumPositions, range \in PositionRanges,
             amount \in LiquidityAmounts, timestamp \in Timestamps :
              \/ Two!OpenPosition(p, range[1], range[2])
              \/ Two!IncreaseLiquidity(p, amount, timestamp)
    BY <1>1
  <2>2. Two!PositionNext
    BY <2>1 DEF Two!PositionNext, Two!PositionIds
  <2>3. Two!IInv'
    BY <2>2, Two!PositionStep, TwoAssumptions
  <2>4. swap_two' = swap_two
    BY <2>1 DEF Two!OpenPosition, Two!IncreaseLiquidity
  <2> QED
    BY <2>3, <2>4 DEF Two!Idle, Two!NoSwap
<1>2. CASE \E flag \in EnableFlags : Two!SetEnableFlag(flag)
  <2>1. Two!ConfigNext
    BY <1>2 DEF Two!ConfigNext
  <2>2. Two!IInv'
    BY <2>1, Two!PoolStep, TwoAssumptions
  <2>3. swap_two' = swap_two
    BY <1>2 DEF Two!SetEnableFlag
  <2> QED
    BY <2>2, <2>3 DEF Two!Idle, Two!NoSwap
<1> QED
  BY <1>1, <1>2

-----------------------------------------------------------------------------
(* The hops. *)

\* What swap() is called with for a hop is a swap request (two_hop_swap.rs:122).
LEMMA HopRequestType ==
  ASSUME NEW r \in TwoHopRequest, NEW i \in 1 .. 2, NEW amount \in U64
  PROVE  /\ HopRequest(r, i, amount) \in One!SwapRequest
         /\ HopRequest(r, i, amount) \in Two!SwapRequest
         /\ HopRequest(r, i, amount).arrays = r.arrays[i]
<1>1. 0 \in U64
  BY WordAssumption DEF U64
<1>2. r.limit[i] \in U128 /\ r.is_input \in BOOLEAN /\ r.a_to_b[i] \in BOOLEAN
      /\ r.arrays[i] \in Seq(Int)
  BY DEF TwoHopRequest
<1> QED
  BY <1>1, <1>2, OneWords, TwoWords DEF HopRequest

\* The arguments of a call are of their types, and are not those of no call.
LEMMA RequestType ==
  ASSUME NEW r \in TwoHopRequests
  PROVE  /\ r \in TwoHopRequest /\ r # NoHops
         /\ r.amount \in U64 /\ r.other_amount_threshold \in U64 /\ r.timestamp \in U64
         /\ r.is_input \in BOOLEAN
<1>1. r \in TwoHopRequest
  BY TraderAssumption
<1>2. "timestamp" \in DOMAIN r
  BY <1>1 DEF TwoHopRequest
<1>3. "timestamp" \notin DOMAIN NoHops
  BY DEF NoHops
<1> QED
  BY <1>1, <1>2, <1>3 DEF TwoHopRequest

\* Initially no hop runs.
LEMMA HopInit == ASSUME Init PROVE HopIInv
<1>1. /\ \A start \in tick_arrays_one : start \in Int /\ check_is_valid_start_tick(start)
      /\ \A start \in tick_arrays_two : start \in Int /\ check_is_valid_start_tick(start)
  BY TraderAssumption DEF Init
<1>2. /\ \A t \in Int : check_is_valid_start_tick(t) <=> One!check_is_valid_start_tick(t)
      /\ \A t \in Int : check_is_valid_start_tick(t) <=> Two!check_is_valid_start_tick(t)
  BY DEF check_is_valid_start_tick, One!check_is_valid_start_tick, Two!check_is_valid_start_tick,
         check_is_out_of_bounds, One!check_is_out_of_bounds, Two!check_is_out_of_bounds,
         MIN_ARRAY_START, One!MIN_ARRAY_START, Two!MIN_ARRAY_START,
         TICKS_IN_ARRAY, One!TICKS_IN_ARRAY, Two!TICKS_IN_ARRAY
<1>3. One!IInv
  <2>1. \A start \in tick_arrays_one : One!check_is_valid_start_tick(start)
    BY <1>1, <1>2
  <2> QED
    BY <1>1, <2>1, One!InitializePoolStep, OneAssumptions DEF Init
<1>4. Two!IInv
  <2>1. \A start \in tick_arrays_two : Two!check_is_valid_start_tick(start)
    BY <1>1, <1>2
  <2> QED
    BY <1>1, <2>1, Two!InitializePoolStep, TwoAssumptions DEF Init
<1>5. Funds
  BY TraderAssumption DEF Init, Funds
<1>6. Idle /\ One!Idle /\ Two!Idle
  BY DEF Init, Idle, One!InitializePool, Two!InitializePool, One!Idle, Two!Idle
<1> QED
  BY <1>3, <1>4, <1>5, <1>6 DEF HopIInv, Accepted, LoopsServeHops

\* The transaction starts: the first loop that runs is asked for the amount
\* specified, and the other has not begun (two_hop_swap.rs:125, 153).
LEMMA BeginKeeps ==
  ASSUME HopIInv, NEW r \in TwoHopRequests, Begin(r) PROVE HopIInv'
<1>1. /\ r \in TwoHopRequest /\ r # NoHops
      /\ r.amount \in U64 /\ r.timestamp \in U64 /\ r.is_input \in BOOLEAN
  BY RequestType
<1>2. /\ One!IInv /\ Two!IInv /\ One!Idle /\ Two!Idle
      /\ One!ValidArrays(r.arrays[1]) /\ Two!ValidArrays(r.arrays[2])
      /\ hops' = r /\ UNCHANGED pool_one /\ UNCHANGED pool_two /\ mint' = mint /\ owner' = owner
  BY DEF Begin, HopIInv, LoopsServeHops
<1> DEFINE first  == HopRequest(r, 1, r.amount)
           second == HopRequest(r, 2, r.amount)
<1>3. /\ first \in One!SwapRequest /\ first.arrays = r.arrays[1]
      /\ second \in Two!SwapRequest /\ second.arrays = r.arrays[2]
  BY <1>1, HopRequestType
<1>4. Funds'
  BY <1>2 DEF HopIInv, Funds
<1>5. ~Idle'
  BY <1>1, <1>2 DEF Idle, NoHops
<1>6. Accepted'
  <2>1. IntermediateMint(r) = mint[2][TokenIn(r.a_to_b[2])]
    BY DEF Begin, IntermediateMint
  <2>2. tick_arrays_one' = tick_arrays_one /\ tick_arrays_two' = tick_arrays_two
    BY <1>2 DEF pool_one, pool_two
  <2>3. One!ValidArrays(hops.arrays[1])' /\ Two!ValidArrays(hops.arrays[2])'
    BY <1>2, <2>2 DEF One!ValidArrays, Two!ValidArrays
  <2> QED
    BY <1>2, <2>1, <2>3 DEF Accepted, IntermediateMint
<1>7. CASE r.is_input
  <2>1. /\ ~One!SwapRejected(first, r.timestamp)
        /\ swap_one' = One!StartedSwap(first, r.timestamp) /\ swap_two' = swap_two
    BY <1>7 DEF Begin
  <2> HIDE DEF first, second
  <2>2. One!IInv' /\ ~One!Idle' /\ swap_one'.request = first
    BY <1>1, <1>2, <1>3, <2>1, OneStarts
  <2>3. Two!IInv' /\ Two!Idle'
    BY <1>2, <2>1, TwoUntouched
  <2>4. LoopsServeHops'
    <3>1. first = HopRequest(hops, 1, hops.amount)'
      BY <1>2 DEF first, HopRequest
    <3>2. hops'.is_input
      BY <1>2, <1>7
    <3> QED
      BY <1>5, <2>2, <2>3, <3>1, <3>2 DEF LoopsServeHops
  <2> QED
    BY <1>4, <1>6, <2>2, <2>3, <2>4 DEF HopIInv
<1>8. CASE ~r.is_input
  <2>1. /\ ~Two!SwapRejected(second, r.timestamp)
        /\ swap_two' = Two!StartedSwap(second, r.timestamp) /\ swap_one' = swap_one
    BY <1>8 DEF Begin
  <2> HIDE DEF first, second
  <2>2. Two!IInv' /\ ~Two!Idle' /\ swap_two'.request = second
    BY <1>1, <1>2, <1>3, <2>1, TwoStarts
  <2>3. One!IInv' /\ One!Idle'
    BY <1>2, <2>1, OneUntouched
  <2>4. LoopsServeHops'
    <3>1. second = HopRequest(hops, 2, hops.amount)'
      BY <1>2 DEF second, HopRequest
    <3>2. ~hops'.is_input
      BY <1>2, <1>8
    <3> QED
      BY <1>5, <2>2, <2>3, <3>1, <3>2 DEF LoopsServeHops
  <2> QED
    BY <1>4, <1>6, <2>2, <2>3, <2>4 DEF HopIInv
<1> QED
  BY <1>7, <1>8

\* An iteration of either loop leaves what the other one was asked for: a loop
\* that iterates has not ended (two_hop_swap.rs:139, 167).
LEMMA LoopStepKeeps ==
  ASSUME HopIInv, LoopStep PROVE HopIInv'
<1>1. /\ One!IInv /\ Two!IInv /\ mint' = mint /\ owner' = owner /\ hops' = hops
  BY DEF HopIInv, LoopStep, trader
<1>2. Funds'
  BY <1>1 DEF HopIInv, Funds
<1>3. ASSUME tick_arrays_one' = tick_arrays_one, tick_arrays_two' = tick_arrays_two
      PROVE  Accepted'
  <2>1. Idle' <=> Idle
    BY <1>1 DEF Idle, NoHops
  <2>2. \A arrays : /\ One!ValidArrays(arrays)' <=> One!ValidArrays(arrays)
                    /\ Two!ValidArrays(arrays)' <=> Two!ValidArrays(arrays)
    BY <1>3 DEF One!ValidArrays, Two!ValidArrays
  <2> QED
    BY <1>1, <2>1, <2>2 DEF HopIInv, Accepted, IntermediateMint
<1>4. CASE One!SwapStep /\ UNCHANGED <<pool_two, swap_two>>
  <2>1. /\ One!IInv' /\ ~One!Idle /\ ~One!Idle' /\ One!LoopContinues(swap_one)
        /\ swap_one'.request = swap_one.request /\ tick_arrays_one' = tick_arrays_one
    BY <1>1, <1>4, OneRuns
  <2>2. /\ Two!IInv' /\ (Two!Idle' <=> Two!Idle) /\ tick_arrays_two' = tick_arrays_two
        /\ Two!LoopContinues(swap_two)' <=> Two!LoopContinues(swap_two)
        /\ Two!AmountPaid(swap_two)' = Two!AmountPaid(swap_two)
        /\ swap_two' = swap_two
    BY <1>1, <1>4, TwoUntouched
  <2>3. ~Idle /\ ~Idle'
    BY <1>1, <2>1 DEF HopIInv, LoopsServeHops, Idle, NoHops
  <2>4. LoopsServeHops'
    <3>1. CASE hops.is_input
      <4>1. Two!Idle'
        BY <2>1, <2>2, <2>3, <3>1 DEF HopIInv, LoopsServeHops
      <4>2. swap_one'.request = HopRequest(hops, 1, hops.amount)'
        BY <1>1, <2>1, <2>3, <3>1 DEF HopIInv, LoopsServeHops, HopRequest
      <4> QED
        BY <1>1, <2>1, <2>3, <3>1, <4>1, <4>2 DEF LoopsServeHops
    <3>2. CASE ~hops.is_input
      <4>1. /\ ~Two!Idle' /\ ~Two!LoopContinues(swap_two)'
            /\ swap_two.request = HopRequest(hops, 2, hops.amount)
            /\ swap_one.request = HopRequest(hops, 1, Two!AmountPaid(swap_two))
        BY <2>1, <2>2, <2>3, <3>2 DEF HopIInv, LoopsServeHops
      <4>2. /\ swap_two'.request = HopRequest(hops, 2, hops.amount)'
            /\ swap_one'.request = HopRequest(hops, 1, Two!AmountPaid(swap_two))'
        BY <1>1, <2>1, <2>2, <4>1 DEF HopRequest
      <4> QED
        BY <1>1, <2>1, <2>3, <3>2, <4>1, <4>2 DEF LoopsServeHops
    <3> QED
      BY <3>1, <3>2
  <2> QED
    BY <1>2, <1>3, <2>1, <2>2, <2>4 DEF HopIInv
<1>5. CASE Two!SwapStep /\ UNCHANGED <<pool_one, swap_one>>
  <2>1. /\ Two!IInv' /\ ~Two!Idle /\ ~Two!Idle' /\ Two!LoopContinues(swap_two)
        /\ swap_two'.request = swap_two.request /\ tick_arrays_two' = tick_arrays_two
    BY <1>1, <1>5, TwoRuns
  <2>2. /\ One!IInv' /\ (One!Idle' <=> One!Idle) /\ tick_arrays_one' = tick_arrays_one
        /\ One!LoopContinues(swap_one)' <=> One!LoopContinues(swap_one)
        /\ One!AmountReceived(swap_one)' = One!AmountReceived(swap_one)
        /\ swap_one' = swap_one
    BY <1>1, <1>5, OneUntouched
  <2>3. ~Idle /\ ~Idle'
    BY <1>1, <2>1 DEF HopIInv, LoopsServeHops, Idle, NoHops
  <2>4. LoopsServeHops'
    <3>1. CASE ~hops.is_input
      <4>1. One!Idle'
        BY <2>1, <2>2, <2>3, <3>1 DEF HopIInv, LoopsServeHops
      <4>2. swap_two'.request = HopRequest(hops, 2, hops.amount)'
        BY <1>1, <2>1, <2>3, <3>1 DEF HopIInv, LoopsServeHops, HopRequest
      <4> QED
        BY <1>1, <2>1, <2>3, <3>1, <4>1, <4>2 DEF LoopsServeHops
    <3>2. CASE hops.is_input
      <4>1. /\ ~One!Idle' /\ ~One!LoopContinues(swap_one)'
            /\ swap_one.request = HopRequest(hops, 1, hops.amount)
            /\ swap_two.request = HopRequest(hops, 2, One!AmountReceived(swap_one))
        BY <2>1, <2>2, <2>3, <3>2 DEF HopIInv, LoopsServeHops
      <4>2. /\ swap_one'.request = HopRequest(hops, 1, hops.amount)'
            /\ swap_two'.request = HopRequest(hops, 2, One!AmountReceived(swap_one))'
        BY <1>1, <2>1, <2>2, <4>1 DEF HopRequest
      <4> QED
        BY <1>1, <2>1, <2>3, <3>2, <4>1, <4>2 DEF LoopsServeHops
    <3> QED
      BY <3>1, <3>2
  <2> QED
    BY <1>2, <1>3, <2>1, <2>2, <2>4 DEF HopIInv
<1> QED
  BY <1>4, <1>5 DEF LoopStep

\* The other pool's loop starts where the first one has ended, with what that one
\* yields, or takes (two_hop_swap.rs:142, 170).
LEMMA BeginSecondKeeps ==
  ASSUME HopIInv, BeginSecond PROVE HopIInv'
<1>1. /\ One!IInv /\ Two!IInv /\ mint' = mint /\ owner' = owner /\ hops' = hops
      /\ UNCHANGED pool_one /\ UNCHANGED pool_two /\ BetweenHops /\ ~SecondRejected
  BY DEF HopIInv, BeginSecond, trader
<1>2. Funds'
  BY <1>1 DEF HopIInv, Funds
<1>3. tick_arrays_one' = tick_arrays_one /\ tick_arrays_two' = tick_arrays_two
  BY <1>1 DEF pool_one, pool_two
<1>4. ~Idle /\ ~Idle' /\ hops \in TwoHopRequests
  BY <1>1 DEF BetweenHops, OneFinished, TwoFinished, HopIInv, LoopsServeHops, Accepted, Idle, NoHops
<1>5. /\ hops \in TwoHopRequest /\ hops.timestamp \in U64
      /\ One!ValidArrays(hops.arrays[1]) /\ Two!ValidArrays(hops.arrays[2])
  BY <1>4, RequestType DEF HopIInv, Accepted
<1>6. Accepted'
  <2>1. \A arrays : /\ One!ValidArrays(arrays)' <=> One!ValidArrays(arrays)
                    /\ Two!ValidArrays(arrays)' <=> Two!ValidArrays(arrays)
    BY <1>3 DEF One!ValidArrays, Two!ValidArrays
  <2> QED
    BY <1>1, <1>4, <2>1 DEF HopIInv, Accepted, IntermediateMint
<1>7. CASE hops.is_input
  <2> DEFINE r == HopRequest(hops, 2, One!AmountReceived(swap_one))
  <2>1. /\ ~One!Idle /\ ~One!LoopContinues(swap_one) /\ Two!Idle
        /\ swap_one.request = HopRequest(hops, 1, hops.amount)
    BY <1>1, <1>4, <1>7 DEF BetweenHops, OneFinished, TwoFinished, HopIInv, LoopsServeHops
  <2>2. r \in Two!SwapRequest /\ r.arrays = hops.arrays[2]
    BY <1>1, <1>5, <2>1, OneAmounts, HopRequestType
  <2>3. /\ ~Two!SwapRejected(r, hops.timestamp) /\ swap_one' = swap_one
        /\ swap_two' = Two!StartedSwap(r, hops.timestamp)
    BY <1>1, <1>7 DEF BeginSecond, SecondRejected, SecondAmount
  <2> HIDE DEF r
  <2>4. Two!IInv' /\ ~Two!Idle' /\ swap_two'.request = r
    BY <1>1, <1>5, <2>1, <2>2, <2>3, TwoStarts
  <2>5. /\ One!IInv' /\ ~One!Idle' /\ ~One!LoopContinues(swap_one)'
        /\ One!AmountReceived(swap_one)' = One!AmountReceived(swap_one)
    BY <1>1, <2>1, <2>3, OneUntouched
  <2>6. /\ swap_one'.request = HopRequest(hops, 1, hops.amount)'
        /\ swap_two'.request = HopRequest(hops, 2, One!AmountReceived(swap_one))'
    BY <1>1, <2>1, <2>3, <2>4, <2>5 DEF r, HopRequest
  <2>7. LoopsServeHops'
    BY <1>1, <1>4, <1>7, <2>4, <2>5, <2>6 DEF LoopsServeHops
  <2> QED
    BY <1>2, <1>6, <2>4, <2>5, <2>7 DEF HopIInv
<1>8. CASE ~hops.is_input
  <2> DEFINE r == HopRequest(hops, 1, Two!AmountPaid(swap_two))
  <2>1. /\ ~Two!Idle /\ ~Two!LoopContinues(swap_two) /\ One!Idle
        /\ swap_two.request = HopRequest(hops, 2, hops.amount)
    BY <1>1, <1>4, <1>8 DEF BetweenHops, OneFinished, TwoFinished, HopIInv, LoopsServeHops
  <2>2. r \in One!SwapRequest /\ r.arrays = hops.arrays[1]
    BY <1>1, <1>5, <2>1, TwoAmounts, HopRequestType
  <2>3. /\ ~One!SwapRejected(r, hops.timestamp) /\ swap_two' = swap_two
        /\ swap_one' = One!StartedSwap(r, hops.timestamp)
    BY <1>1, <1>8 DEF BeginSecond, SecondRejected, SecondAmount
  <2> HIDE DEF r
  <2>4. One!IInv' /\ ~One!Idle' /\ swap_one'.request = r
    BY <1>1, <1>5, <2>1, <2>2, <2>3, OneStarts
  <2>5. /\ Two!IInv' /\ ~Two!Idle' /\ ~Two!LoopContinues(swap_two)'
        /\ Two!AmountPaid(swap_two)' = Two!AmountPaid(swap_two)
    BY <1>1, <2>1, <2>3, TwoUntouched
  <2>6. /\ swap_two'.request = HopRequest(hops, 2, hops.amount)'
        /\ swap_one'.request = HopRequest(hops, 1, Two!AmountPaid(swap_two))'
    BY <1>1, <2>1, <2>3, <2>4, <2>5 DEF r, HopRequest
  <2>7. LoopsServeHops'
    BY <1>1, <1>4, <1>8, <2>4, <2>5, <2>6 DEF LoopsServeHops
  <2> QED
    BY <1>2, <1>6, <2>4, <2>5, <2>7 DEF HopIInv
<1> QED
  BY <1>7, <1>8

\* The mints of a hop that was accepted: those of a pool differ, and the trader
\* has accounts for them (two_hop_swap.rs:95-107).
LEMMA HopMints ==
  ASSUME HopIInv, ~Idle
  PROVE  /\ IntermediateMint(hops) # InputMint(hops) /\ IntermediateMint(hops) # OutputMint(hops)
         /\ \A m \in {InputMint(hops), IntermediateMint(hops), OutputMint(hops)} :
              m \in DOMAIN owner /\ owner[m] \in Nat
<1>1. /\ \A x : TokenIn(x) \in Token /\ TokenOut(x) \in Token
      /\ \A x : {TokenIn(x), TokenOut(x)} = {"a", "b"} /\ TokenIn(x) # TokenOut(x)
  BY DEF TokenIn, TokenOut, Token
<1>2. \A i \in 1 .. 2 : mint[i]["a"] # mint[i]["b"]
  BY TraderAssumption DEF HopIInv, Funds
<1>3. \A x : \A i \in 1 .. 2 : mint[i][TokenIn(x)] # mint[i][TokenOut(x)]
  BY <1>2 DEF TokenIn, TokenOut
<1>4. IntermediateMint(hops) = mint[2][TokenIn(hops.a_to_b[2])]
  BY DEF HopIInv, Accepted
<1>5. \A x : \A i \in 1 .. 2 : /\ mint[i][TokenIn(x)] \in DOMAIN owner /\ owner[mint[i][TokenIn(x)]] \in Nat
                           /\ mint[i][TokenOut(x)] \in DOMAIN owner /\ owner[mint[i][TokenOut(x)]] \in Nat
  BY <1>1 DEF HopIInv, Funds
<1>6. IntermediateMint(hops) # InputMint(hops) /\ IntermediateMint(hops) # OutputMint(hops)
  BY <1>3, <1>4 DEF IntermediateMint, InputMint, OutputMint
<1> QED
  BY <1>5, <1>6 DEF IntermediateMint, InputMint, OutputMint

\* What each loop has paid and received when both have ended, against what the
\* other one has, the amount and the threshold.
LEMMA CommittedAmounts ==
  ASSUME HopIInv, ~Idle, ~One!Idle, ~Two!Idle, ThresholdMet
  PROVE  /\ One!AmountPaid(swap_one) \in Nat /\ One!AmountReceived(swap_one) \in Nat
         /\ Two!AmountPaid(swap_two) \in Nat /\ Two!AmountReceived(swap_two) \in Nat
         /\ hops.is_input =>
              /\ One!AmountPaid(swap_one) <= hops.amount
              /\ Two!AmountPaid(swap_two) <= One!AmountReceived(swap_one)
              /\ hops.other_amount_threshold <= Two!AmountReceived(swap_two)
         /\ ~hops.is_input =>
              /\ One!AmountReceived(swap_one) <= Two!AmountPaid(swap_two)
              /\ One!AmountPaid(swap_one) <= hops.other_amount_threshold
<1>1. /\ One!AmountPaid(swap_one) \in Nat /\ One!AmountReceived(swap_one) \in Nat
      /\ swap_one.request.is_input => One!AmountPaid(swap_one) <= swap_one.request.amount
      /\ ~swap_one.request.is_input => One!AmountReceived(swap_one) <= swap_one.request.amount
  BY OneAmounts DEF HopIInv
<1>2. /\ Two!AmountPaid(swap_two) \in Nat /\ Two!AmountReceived(swap_two) \in Nat
      /\ swap_two.request.is_input => Two!AmountPaid(swap_two) <= swap_two.request.amount
  BY TwoAmounts DEF HopIInv
<1>3. hops.other_amount_threshold \in Nat
  BY RequestType, WordAssumption DEF HopIInv, Accepted, U64
<1>4. CASE hops.is_input
  <2>1. /\ swap_one.request.is_input /\ swap_one.request.amount = hops.amount
        /\ swap_two.request.is_input /\ swap_two.request.amount = One!AmountReceived(swap_one)
    BY <1>4 DEF HopIInv, LoopsServeHops, HopRequest
  <2> QED
    BY <1>1, <1>2, <1>4, <2>1 DEF ThresholdMet
<1>5. CASE ~hops.is_input
  <2>1. ~swap_one.request.is_input /\ swap_one.request.amount = Two!AmountPaid(swap_two)
    BY <1>5 DEF HopIInv, LoopsServeHops, HopRequest
  <2> QED
    BY <1>1, <1>2, <1>3, <1>5, <2>1 DEF ThresholdMet
<1> QED
  BY <1>1, <1>2, <1>4, <1>5

\* The balances after both hops have moved their tokens (two_hop_swap.rs:200-228):
\* input and output may be the same mint.
LEMMA CommittedBalances ==
  ASSUME HopIInv, Commit
  PROVE  /\ DOMAIN owner' = DOMAIN owner
         /\ \A m \in DOMAIN owner \ {InputMint(hops), IntermediateMint(hops), OutputMint(hops)} :
              owner'[m] = owner[m]
         /\ \A m \in {InputMint(hops), IntermediateMint(hops), OutputMint(hops)} :
              /\ owner'[m] \in Nat
              /\ owner'[m] = owner[m] - (IF m = InputMint(hops) THEN One!AmountPaid(swap_one) ELSE 0)
                   + (IF m = OutputMint(hops) THEN Two!AmountReceived(swap_two) ELSE 0)
                   + (IF m = IntermediateMint(hops)
                      THEN One!AmountReceived(swap_one) - Two!AmountPaid(swap_two) ELSE 0)
<1> DEFINE in   == InputMint(hops)
           mid  == IntermediateMint(hops)
           out  == OutputMint(hops)
           paid1 == One!AmountPaid(swap_one)     got1 == One!AmountReceived(swap_one)
           paid2 == Two!AmountPaid(swap_two)     got2 == Two!AmountReceived(swap_two)
<1>1. ~One!Idle /\ ~Two!Idle /\ ~Idle
  BY DEF Commit, OneFinished, TwoFinished, HopIInv, LoopsServeHops
<1>2. /\ mid # in /\ mid # out
      /\ in \in DOMAIN owner /\ mid \in DOMAIN owner /\ out \in DOMAIN owner
      /\ owner[in] \in Nat /\ owner[mid] \in Nat /\ owner[out] \in Nat
  BY <1>1, HopMints
<1>3. paid1 \in Nat /\ got1 \in Nat /\ paid2 \in Nat /\ got2 \in Nat
  BY <1>1, CommittedAmounts DEF Commit
<1>4. /\ AfterOne = Moved(owner, in, paid1, mid, got1)
      /\ owner' = Moved(AfterOne, mid, paid2, out, got2)
      /\ owner[in] >= paid1 /\ AfterOne[mid] >= paid2
  BY DEF AfterOne, AfterTwo, Commit, Funded
<1> HIDE DEF in, mid, out, paid1, got1, paid2, got2
<1>5. /\ DOMAIN AfterOne = DOMAIN owner
      /\ AfterOne[in] = owner[in] - paid1 /\ AfterOne[mid] = owner[mid] + got1
      /\ \A m \in DOMAIN owner \ {in, mid} : AfterOne[m] = owner[m]
  <2>1. /\ in # mid /\ owner[in] \in Int /\ owner[mid] \in Int
        /\ in \in DOMAIN owner /\ mid \in DOMAIN owner /\ paid1 \in Nat /\ got1 \in Nat
    BY <1>2, <1>3
  <2>2. /\ DOMAIN Moved(owner, in, paid1, mid, got1) = DOMAIN owner
        /\ Moved(owner, in, paid1, mid, got1)[in] = owner[in] - paid1
        /\ Moved(owner, in, paid1, mid, got1)[mid] = owner[mid] + got1
        /\ \A m \in DOMAIN owner \ {in, mid} : Moved(owner, in, paid1, mid, got1)[m] = owner[m]
    BY <2>1 DEF Moved
  <2> QED
    BY <1>4, <2>2
<1>6. AfterOne[out] \in Nat /\ AfterOne[in] \in Nat /\ AfterOne[mid] \in Nat
  <2>1. CASE out = in
    BY <1>2, <1>3, <1>4, <1>5, <2>1
  <2>2. CASE out # in
    <3>1. AfterOne[out] = owner[out]
      BY <1>2, <1>5, <2>2
    <3> QED
      BY <1>2, <1>3, <1>4, <1>5, <3>1
  <2> QED
    BY <2>1, <2>2
<1>7. /\ DOMAIN owner' = DOMAIN AfterOne
      /\ owner'[mid] = AfterOne[mid] - paid2 /\ owner'[out] = AfterOne[out] + got2
      /\ \A m \in DOMAIN AfterOne \ {mid, out} : owner'[m] = AfterOne[m]
  <2>1. /\ mid # out /\ AfterOne[mid] \in Int /\ AfterOne[out] \in Int
        /\ mid \in DOMAIN AfterOne /\ out \in DOMAIN AfterOne /\ paid2 \in Nat /\ got2 \in Nat
    BY <1>2, <1>3, <1>5, <1>6
  <2>2. /\ DOMAIN Moved(AfterOne, mid, paid2, out, got2) = DOMAIN AfterOne
        /\ Moved(AfterOne, mid, paid2, out, got2)[mid] = AfterOne[mid] - paid2
        /\ Moved(AfterOne, mid, paid2, out, got2)[out] = AfterOne[out] + got2
        /\ \A m \in DOMAIN AfterOne \ {mid, out} :
             Moved(AfterOne, mid, paid2, out, got2)[m] = AfterOne[m]
    BY <2>1 DEF Moved
  <2> QED
    BY <1>4, <2>2
<1>8. \A m \in DOMAIN owner \ {in, mid, out} : owner'[m] = owner[m]
  BY <1>5, <1>7
<1>9. ASSUME NEW m \in {in, mid, out}
      PROVE  /\ owner'[m] \in Nat
             /\ owner'[m] = owner[m] - (IF m = in THEN paid1 ELSE 0)
                  + (IF m = out THEN got2 ELSE 0) + (IF m = mid THEN got1 - paid2 ELSE 0)
  <2>1. CASE m = mid
    BY <1>2, <1>3, <1>4, <1>5, <1>6, <1>7, <2>1
  <2>2. CASE m = in /\ in = out
    BY <1>2, <1>3, <1>4, <1>5, <1>6, <1>7, <2>2
  <2>3. CASE m = in /\ in # out
    <3>1. owner'[in] = AfterOne[in]
      BY <1>2, <1>5, <1>7, <2>3
    <3> QED
      BY <1>2, <1>3, <1>4, <1>5, <1>6, <2>3, <3>1
  <2>4. CASE m = out /\ in # out
    <3>1. AfterOne[out] = owner[out]
      BY <1>2, <1>5, <2>4
    <3> QED
      BY <1>2, <1>3, <1>6, <1>7, <2>4, <3>1
  <2> QED
    BY <2>1, <2>2, <2>3, <2>4
<1> QED
  BY <1>5, <1>7, <1>8, <1>9 DEF in, mid, out, paid1, got1, paid2, got2

\* Both hops are written and the tokens move.
LEMMA CommitKeeps ==
  ASSUME HopIInv, Commit PROVE HopIInv'
<1>1. /\ One!IInv /\ Two!IInv /\ ~One!Idle /\ ~Two!Idle
      /\ One!UpdateAndSwap /\ Two!UpdateAndSwap /\ hops' = NoHops /\ mint' = mint
  BY DEF HopIInv, Commit, OneFinished, TwoFinished
<1>2. One!IInv' /\ One!Idle'
  BY <1>1, OneEnds
<1>3. Two!IInv' /\ Two!Idle'
  BY <1>1, TwoEnds
<1>4. Idle'
  BY <1>1 DEF Idle, NoHops
<1>5. Funds'
  <2>1. \A i \in 1 .. 2, x \in Token : mint[i][x] \in DOMAIN owner /\ owner[mint[i][x]] \in Nat
    BY DEF HopIInv, Funds
  <2>2. \A m \in DOMAIN owner : owner[m] \in Nat => m \in DOMAIN owner' /\ owner'[m] \in Nat
    BY CommittedBalances
  <2> QED
    BY <1>1, <2>1, <2>2 DEF HopIInv, Funds
<1> QED
  BY <1>2, <1>3, <1>4, <1>5 DEF HopIInv, Accepted, LoopsServeHops

\* An error undoes both.
LEMMA FailKeeps ==
  ASSUME HopIInv, Fail PROVE HopIInv'
<1>1. /\ One!IInv /\ Two!IInv /\ UNCHANGED pool_one /\ UNCHANGED pool_two
      /\ swap_one' = One!NoSwap /\ swap_two' = Two!NoSwap
      /\ hops' = NoHops /\ mint' = mint /\ owner' = owner
  BY DEF HopIInv, Fail
<1>2. One!IInv' /\ One!Idle'
  BY <1>1, OneEnds
<1>3. Two!IInv' /\ Two!Idle'
  BY <1>1, TwoEnds
<1>4. Idle' /\ Funds'
  BY <1>1 DEF Idle, NoHops, HopIInv, Funds
<1> QED
  BY <1>2, <1>3, <1>4 DEF HopIInv, Accepted, LoopsServeHops

\* Liquidity is provided, or a pool switched on or off, while no hop runs.
LEMMA OthersKeep ==
  ASSUME HopIInv, Provide \/ SetEnableFlag PROVE HopIInv'
<1>1. /\ One!IInv /\ Two!IInv /\ Idle /\ One!Idle /\ Two!Idle
      /\ mint' = mint /\ owner' = owner /\ hops' = hops
  BY DEF HopIInv, LoopsServeHops, Provide, SetEnableFlag, trader
<1>2. \/ /\ \/ \E p \in 1 .. NumPositions, range \in PositionRanges,
                  amount \in LiquidityAmounts, timestamp \in Timestamps :
                 \/ One!OpenPosition(p, range[1], range[2])
                 \/ One!IncreaseLiquidity(p, amount, timestamp)
            \/ \E flag \in EnableFlags : One!SetEnableFlag(flag)
         /\ UNCHANGED pool_two /\ swap_two' = swap_two
      \/ /\ \/ \E p \in 1 .. NumPositions, range \in PositionRanges,
                  amount \in LiquidityAmounts, timestamp \in Timestamps :
                 \/ Two!OpenPosition(p, range[1], range[2])
                 \/ Two!IncreaseLiquidity(p, amount, timestamp)
            \/ \E flag \in EnableFlags : Two!SetEnableFlag(flag)
         /\ UNCHANGED pool_one /\ swap_one' = swap_one
  BY DEF Provide, SetEnableFlag
<1>3. One!IInv' /\ One!Idle' /\ Two!IInv' /\ Two!Idle'
  BY <1>1, <1>2, OneOthers, TwoOthers, OneUntouched, TwoUntouched
<1>4. Idle' /\ Funds'
  BY <1>1 DEF Idle, NoHops, HopIInv, Funds
<1> QED
  BY <1>3, <1>4 DEF HopIInv, Accepted, LoopsServeHops

\* Nothing happens.
LEMMA HopStutters ==
  ASSUME HopIInv, UNCHANGED vars PROVE HopIInv'
<1>1. /\ UNCHANGED pool_one /\ swap_one' = swap_one /\ UNCHANGED pool_two /\ swap_two' = swap_two
      /\ mint' = mint /\ owner' = owner /\ hops' = hops
  BY DEF vars, trader
<1>2. /\ One!IInv' /\ (One!Idle' <=> One!Idle) /\ tick_arrays_one' = tick_arrays_one
      /\ One!LoopContinues(swap_one)' <=> One!LoopContinues(swap_one)
      /\ One!AmountReceived(swap_one)' = One!AmountReceived(swap_one)
  BY <1>1, OneUntouched DEF HopIInv
<1>3. /\ Two!IInv' /\ (Two!Idle' <=> Two!Idle) /\ tick_arrays_two' = tick_arrays_two
      /\ Two!LoopContinues(swap_two)' <=> Two!LoopContinues(swap_two)
      /\ Two!AmountPaid(swap_two)' = Two!AmountPaid(swap_two)
  BY <1>1, TwoUntouched DEF HopIInv
<1>4. (Idle' <=> Idle) /\ Funds'
  BY <1>1 DEF Idle, NoHops, HopIInv, Funds
<1>5. Accepted'
  <2>1. \A arrays : /\ One!ValidArrays(arrays)' <=> One!ValidArrays(arrays)
                    /\ Two!ValidArrays(arrays)' <=> Two!ValidArrays(arrays)
    BY <1>2, <1>3 DEF One!ValidArrays, Two!ValidArrays
  <2> QED
    BY <1>1, <1>4, <2>1 DEF HopIInv, Accepted, IntermediateMint
<1>6. LoopsServeHops'
  <2>1. \A i, amount : HopRequest(hops', i, amount) = HopRequest(hops, i, amount)
    BY <1>1
  <2> QED
    BY <1>1, <1>2, <1>3, <1>4, <2>1 DEF HopIInv, LoopsServeHops, HopRequest
<1> QED
  BY <1>2, <1>3, <1>4, <1>5, <1>6 DEF HopIInv

\* The inductive invariant of the transaction.
LEMMA HopStep == ASSUME HopIInv, [Next]_vars PROVE HopIInv'
BY BeginKeeps, LoopStepKeeps, BeginSecondKeeps, CommitKeeps, FailKeeps, OthersKeep, HopStutters
   DEF Next

\* HopIInv is an invariant: both pools keep theirs whatever runs on the other one,
\* and the loop that runs second has been asked for exactly what the one that ran
\* first yields or takes (two_hop_swap.rs:118-173).
THEOREM PoolsAndHopsInvariant == Spec => []HopIInv
<1>1. Init => HopIInv
  BY HopInit
<1>2. HopIInv /\ [Next]_vars => HopIInv'
  BY HopStep
<1> QED
  BY <1>1, <1>2, PTL DEF Spec

-----------------------------------------------------------------------------
(* What the trader gets. *)

\* A transaction ends in one of two ways.
LEMMA HopsFinish ==
  ASSUME HopIInv, [Next]_vars, Finishes
  PROVE  Commit \/ (Fail /\ owner' = owner)
<1>1. ~UNCHANGED vars
  BY DEF Finishes, vars, trader, Idle, NoHops
<1>2. ~LoopStep /\ ~BeginSecond
  BY DEF Finishes, LoopStep, BeginSecond, trader, Idle, NoHops
<1>3. ~Provide /\ ~SetEnableFlag /\ \A r \in TwoHopRequests : ~Begin(r)
  BY DEF Finishes, Provide, SetEnableFlag, Begin
<1> QED
  BY <1>1, <1>2, <1>3 DEF Next, Fail

\* No two-hop swap takes more from the trader, or gives less, than was asked for,
\* whatever the pools, the requests and the interleaving with what else happens to
\* the pools (two_hop_swap.rs:184-197).
THEOREM TraderIsProtected == Spec => TraderProtected
<1> DEFINE Step ==
      Finishes /\ owner' # owner =>
        LET spent    == IF hops.is_input THEN hops.amount ELSE hops.other_amount_threshold
            gained   == IF hops.is_input THEN hops.other_amount_threshold ELSE 0
        IN  \A m \in {InputMint(hops), OutputMint(hops)} :
              owner'[m] >= owner[m] - (IF m = InputMint(hops) THEN spent ELSE 0)
                                    + (IF m = OutputMint(hops) THEN gained ELSE 0)
<1>1. ASSUME HopIInv, [Next]_vars PROVE Step
  <2>1. SUFFICES ASSUME Finishes, owner' # owner,
                        NEW m \in {InputMint(hops), OutputMint(hops)}
                 PROVE  owner'[m] >= owner[m]
                          - (IF m = InputMint(hops)
                             THEN IF hops.is_input THEN hops.amount ELSE hops.other_amount_threshold
                             ELSE 0)
                          + (IF m = OutputMint(hops)
                             THEN IF hops.is_input THEN hops.other_amount_threshold ELSE 0
                             ELSE 0)
    OBVIOUS
  <2>2. Commit
    BY <1>1, <2>1, HopsFinish
  <2>3. ~Idle /\ ~One!Idle /\ ~Two!Idle /\ ThresholdMet
    BY <2>1, <2>2 DEF Finishes, Commit, OneFinished, TwoFinished
  <2>4. m # IntermediateMint(hops) /\ owner[m] \in Nat
    BY <1>1, <2>3, HopMints
  <2>5. owner'[m] = owner[m] - (IF m = InputMint(hops) THEN One!AmountPaid(swap_one) ELSE 0)
                   + (IF m = OutputMint(hops) THEN Two!AmountReceived(swap_two) ELSE 0) + 0
    BY <1>1, <2>2, <2>4, CommittedBalances
  <2>6. hops.amount \in Nat /\ hops.other_amount_threshold \in Nat
    BY <1>1, <2>3, RequestType, WordAssumption DEF HopIInv, Accepted, U64
  <2>7. CASE hops.is_input
    BY <1>1, <2>3, <2>4, <2>5, <2>6, <2>7, CommittedAmounts
  <2>8. CASE ~hops.is_input
    BY <1>1, <2>3, <2>4, <2>5, <2>6, <2>8, CommittedAmounts
  <2> QED
    BY <2>7, <2>8
<1>2. HopIInv /\ [Next]_vars => [Step]_vars
  BY <1>1
<1> QED
  BY <1>2, PoolsAndHopsInvariant, PTL DEF Spec, TraderProtected

\* The second hop never uses more of the intermediate token than the first yields
\* (exact input), and the first never yields more than the second takes (exact
\* output), for any pools and requests (two_hop_swap.rs:142, 170).
THEOREM IntermediateAlwaysMatches == Spec => IntermediateMatches
<1> DEFINE Step ==
      Finishes =>
        IF hops.is_input
        THEN owner'[IntermediateMint(hops)] >= owner[IntermediateMint(hops)]
        ELSE owner'[IntermediateMint(hops)] <= owner[IntermediateMint(hops)]
<1>1. ASSUME HopIInv, [Next]_vars PROVE Step
  <2>1. SUFFICES ASSUME Finishes
                 PROVE  IF hops.is_input
                        THEN owner'[IntermediateMint(hops)] >= owner[IntermediateMint(hops)]
                        ELSE owner'[IntermediateMint(hops)] <= owner[IntermediateMint(hops)]
    OBVIOUS
  <2>2. /\ owner[IntermediateMint(hops)] \in Nat
        /\ IntermediateMint(hops) # InputMint(hops) /\ IntermediateMint(hops) # OutputMint(hops)
    BY <1>1, <2>1, HopMints DEF Finishes
  <2>3. CASE owner' = owner
    BY <2>2, <2>3
  <2>4. CASE Commit
    <3>1. ~Idle /\ ~One!Idle /\ ~Two!Idle /\ ThresholdMet
      BY <2>1, <2>4 DEF Finishes, Commit, OneFinished, TwoFinished
    <3>2. owner'[IntermediateMint(hops)] = owner[IntermediateMint(hops)] - 0 + 0
            + (One!AmountReceived(swap_one) - Two!AmountPaid(swap_two))
      BY <1>1, <2>2, <2>4, CommittedBalances
    <3> QED
      BY <1>1, <2>2, <3>1, <3>2, CommittedAmounts
  <2> QED
    BY <1>1, <2>1, <2>3, <2>4, HopsFinish
<1>2. HopIInv /\ [Next]_vars => [Step]_vars
  BY <1>1
<1> QED
  BY <1>2, PoolsAndHopsInvariant, PTL DEF Spec, IntermediateMatches

\* The prices both loops have reached.
HopPrices ==
  /\ ~One!Idle =>
       WithinLimit(hops.a_to_b[1], hops.limit[1], sqrt_price_one, swap_one.curr_sqrt_price)
  /\ ~Two!Idle =>
       WithinLimit(hops.a_to_b[2], hops.limit[2], sqrt_price_two, swap_two.curr_sqrt_price)

\* A loop has its own hop's direction and limit, and is within them.
LEMMA LoopsWithinLimits == ASSUME HopIInv PROVE HopPrices
<1>1. ASSUME ~One!Idle
      PROVE  WithinLimit(hops.a_to_b[1], hops.limit[1], sqrt_price_one, swap_one.curr_sqrt_price)
  <2>1. ~Idle
    BY <1>1 DEF HopIInv, LoopsServeHops
  <2>2. \E amount : swap_one.request = HopRequest(hops, 1, amount)
    BY <1>1, <2>1 DEF HopIInv, LoopsServeHops
  <2>3. /\ swap_one.request.sqrt_price_limit = hops.limit[1]
        /\ swap_one.request.a_to_b = hops.a_to_b[1]
    BY <2>2 DEF HopRequest
  <2>4. One!SwapWithinLimits
    BY DEF HopIInv, One!IInv
  <2>5. IF swap_one.request.a_to_b
        THEN swap_one.request.sqrt_price_limit <= swap_one.curr_sqrt_price
             /\ swap_one.curr_sqrt_price <= sqrt_price_one
        ELSE swap_one.request.sqrt_price_limit >= swap_one.curr_sqrt_price
             /\ swap_one.curr_sqrt_price >= sqrt_price_one
    BY <1>1, <2>4 DEF One!SwapWithinLimits, One!CurrPrice
  <2> QED
    BY <2>3, <2>5 DEF WithinLimit
<1>2. ASSUME ~Two!Idle
      PROVE  WithinLimit(hops.a_to_b[2], hops.limit[2], sqrt_price_two, swap_two.curr_sqrt_price)
  <2>1. ~Idle
    BY <1>2 DEF HopIInv, LoopsServeHops
  <2>2. \E amount : swap_two.request = HopRequest(hops, 2, amount)
    BY <1>2, <2>1 DEF HopIInv, LoopsServeHops
  <2>3. /\ swap_two.request.sqrt_price_limit = hops.limit[2]
        /\ swap_two.request.a_to_b = hops.a_to_b[2]
    BY <2>2 DEF HopRequest
  <2>4. Two!SwapWithinLimits
    BY DEF HopIInv, Two!IInv
  <2>5. IF swap_two.request.a_to_b
        THEN swap_two.request.sqrt_price_limit <= swap_two.curr_sqrt_price
             /\ swap_two.curr_sqrt_price <= sqrt_price_two
        ELSE swap_two.request.sqrt_price_limit >= swap_two.curr_sqrt_price
             /\ swap_two.curr_sqrt_price >= sqrt_price_two
    BY <1>2, <2>4 DEF Two!SwapWithinLimits, Two!CurrPrice
  <2> QED
    BY <2>3, <2>5 DEF WithinLimit
<1> QED
  BY <1>1, <1>2 DEF HopPrices

\* Only the end of a transaction moves a price, and to what the loop has reached.
LEMMA PricesMove ==
  ASSUME HopIInv, [Next]_vars
  PROVE  \/ UNCHANGED <<sqrt_price_one, sqrt_price_two>>
         \/ /\ ~Idle /\ ~One!Idle /\ ~Two!Idle
            /\ sqrt_price_one' = swap_one.curr_sqrt_price
            /\ sqrt_price_two' = swap_two.curr_sqrt_price
<1>1. CASE \E r \in TwoHopRequests : Begin(r)
  BY <1>1 DEF Begin, pool_one, pool_two
<1>2. CASE LoopStep
  BY <1>2 DEF LoopStep, pool_one, pool_two, One!SwapStep, Two!SwapStep, One!curve, Two!curve
<1>3. CASE BeginSecond
  BY <1>3 DEF BeginSecond, pool_one, pool_two
<1>4. CASE Commit
  <2>1. ~One!Idle /\ ~Two!Idle
    BY <1>4 DEF Commit, OneFinished, TwoFinished
  <2>2. ~Idle
    BY <2>1 DEF HopIInv, LoopsServeHops
  <2>3. sqrt_price_one' = swap_one.curr_sqrt_price /\ sqrt_price_two' = swap_two.curr_sqrt_price
    BY <1>4 DEF Commit, One!UpdateAndSwap, Two!UpdateAndSwap
  <2> QED
    BY <2>1, <2>2, <2>3
<1>5. CASE Fail
  BY <1>5 DEF Fail, pool_one, pool_two
<1>6. CASE Provide
  <2>1. PICK p \in 1 .. NumPositions, range \in PositionRanges,
             amount \in LiquidityAmounts, timestamp \in Timestamps :
          \/ /\ One!OpenPosition(p, range[1], range[2]) \/ One!IncreaseLiquidity(p, amount, timestamp)
             /\ UNCHANGED <<pool_two, swap_two>>
          \/ /\ Two!OpenPosition(p, range[1], range[2]) \/ Two!IncreaseLiquidity(p, amount, timestamp)
             /\ UNCHANGED <<pool_one, swap_one>>
    BY <1>6 DEF Provide
  <2>2. /\ One!OpenPosition(p, range[1], range[2]) => sqrt_price_one' = sqrt_price_one
        /\ Two!OpenPosition(p, range[1], range[2]) => sqrt_price_two' = sqrt_price_two
    BY DEF One!OpenPosition, Two!OpenPosition, One!curve, Two!curve
  <2>3. /\ One!IncreaseLiquidity(p, amount, timestamp) => sqrt_price_one' = sqrt_price_one
        /\ Two!IncreaseLiquidity(p, amount, timestamp) => sqrt_price_two' = sqrt_price_two
    BY DEF One!IncreaseLiquidity, Two!IncreaseLiquidity
  <2>4. /\ UNCHANGED pool_one => sqrt_price_one' = sqrt_price_one
        /\ UNCHANGED pool_two => sqrt_price_two' = sqrt_price_two
    BY DEF pool_one, pool_two
  <2> QED
    BY <2>1, <2>2, <2>3, <2>4
<1>7. CASE SetEnableFlag
  BY <1>7 DEF SetEnableFlag, One!SetEnableFlag, Two!SetEnableFlag, One!curve, Two!curve,
              pool_one, pool_two
<1>8. CASE UNCHANGED vars
  BY <1>8 DEF vars, pool_one, pool_two
<1> QED
  BY <1>1, <1>2, <1>3, <1>4, <1>5, <1>6, <1>7, <1>8 DEF Next

\* In every iteration of either loop, and in what is written at the end, each
\* pool's price is between where its hop found it and that hop's own limit, for
\* any two limits (two_hop_swap.rs:139, 150).
THEOREM HopsStayWithinLimits == Spec => HopsWithinLimits
<1> DEFINE Step ==
      /\ ~One!Idle' => WithinLimit(hops'.a_to_b[1], hops'.limit[1],
                                   sqrt_price_one', swap_one'.curr_sqrt_price)
      /\ ~Two!Idle' => WithinLimit(hops'.a_to_b[2], hops'.limit[2],
                                   sqrt_price_two', swap_two'.curr_sqrt_price)
      /\ sqrt_price_one' # sqrt_price_one =>
           ~Idle /\ WithinLimit(hops.a_to_b[1], hops.limit[1], sqrt_price_one, sqrt_price_one')
      /\ sqrt_price_two' # sqrt_price_two =>
           ~Idle /\ WithinLimit(hops.a_to_b[2], hops.limit[2], sqrt_price_two, sqrt_price_two')
<1>1. HopIInv => HopPrices
  BY LoopsWithinLimits
<1>2. ASSUME HopIInv, HopPrices', [Next]_vars PROVE Step
  <2>1. /\ ~One!Idle' => WithinLimit(hops'.a_to_b[1], hops'.limit[1],
                                     sqrt_price_one', swap_one'.curr_sqrt_price)
        /\ ~Two!Idle' => WithinLimit(hops'.a_to_b[2], hops'.limit[2],
                                     sqrt_price_two', swap_two'.curr_sqrt_price)
    BY <1>2 DEF HopPrices, WithinLimit
  <2>2. CASE UNCHANGED <<sqrt_price_one, sqrt_price_two>>
    BY <2>1, <2>2
  <2>3. CASE /\ ~Idle /\ ~One!Idle /\ ~Two!Idle
             /\ sqrt_price_one' = swap_one.curr_sqrt_price
             /\ sqrt_price_two' = swap_two.curr_sqrt_price
    BY <1>1, <1>2, <2>1, <2>3 DEF HopPrices
  <2> QED
    BY <1>2, <2>2, <2>3, PricesMove
<1>3. HopIInv /\ HopPrices' /\ [Next]_vars => [Step]_vars
  BY <1>2
<1> QED
  BY <1>1, <1>3, PoolsAndHopsInvariant, PTL DEF Spec, HopsWithinLimits
=============================================================================
