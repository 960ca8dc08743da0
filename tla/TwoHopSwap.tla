------------------------------ MODULE TwoHopSwap ------------------------------
(***************************************************************************)
(* two_hop_swap.rs: two swaps on two pools in one transaction.  Exact      *)
(* input runs the loop of the first pool and gives what it yields to the   *)
(* second; exact output runs the second pool's loop first, and asks the    *)
(* first for what it takes.  Only then is the threshold checked, are both  *)
(* accounts written, and are the tokens moved, always first hop first.     *)
(*                                                                         *)
(* Each pool is an instance of Whirlpool with variables of its own; the    *)
(* instances are of WhirlpoolProofs, so that the lemmas about one pool can *)
(* be cited of each.                                                       *)
(* owner is the trader's balance of each mint, mint the mints of the two   *)
(* pools' tokens.  What others do to the pools is left to Whirlpool, but   *)
(* for what the hops need: liquidity, and the flag.                        *)
(***************************************************************************)
EXTENDS TickArrays, TickManager

CONSTANTS
  NumPositions, DAY_IN_SECONDS, TokenSupply,
  InitialSqrtPrices, PositionRanges, LiquidityAmounts, Timestamps, FeeRates,
  ProtocolFeeRates, EnableFlags, InitialTickArrays,
  MintPairs,            \* the mints the two pools may have
  OwnerFunds,           \* the balances a trader may start with
  TwoHopRequests        \* the arguments two_hop_swap is called with

VARIABLES
  is_enabled_one, fee_rate_one, protocol_fee_rate_one, liquidity_one, sqrt_price_one,
  tick_current_index_one, fee_growth_global_one, protocol_fee_owed_one, reward_infos_one,
  reward_timestamp_one, tick_arrays_one, ticks_one, positions_one, vault_one, reward_vault_one, swap_one,
  is_enabled_two, fee_rate_two, protocol_fee_rate_two, liquidity_two, sqrt_price_two,
  tick_current_index_two, fee_growth_global_two, protocol_fee_owed_two, reward_infos_two,
  reward_timestamp_two, tick_arrays_two, ticks_two, positions_two, vault_two, reward_vault_two, swap_two,
  mint, owner, hops

One == INSTANCE WhirlpoolProofs WITH
  is_enabled <- is_enabled_one, fee_rate <- fee_rate_one,
  protocol_fee_rate <- protocol_fee_rate_one, liquidity <- liquidity_one,
  sqrt_price <- sqrt_price_one, tick_current_index <- tick_current_index_one,
  fee_growth_global <- fee_growth_global_one, protocol_fee_owed <- protocol_fee_owed_one,
  reward_infos <- reward_infos_one, reward_last_updated_timestamp <- reward_timestamp_one,
  tick_arrays <- tick_arrays_one, ticks <- ticks_one, positions <- positions_one,
  vault <- vault_one, reward_vault <- reward_vault_one, swap <- swap_one,
  SwapRequests <- {}, EmissionRates <- {}, RewardDeposits <- {}

Two == INSTANCE WhirlpoolProofs WITH
  is_enabled <- is_enabled_two, fee_rate <- fee_rate_two,
  protocol_fee_rate <- protocol_fee_rate_two, liquidity <- liquidity_two,
  sqrt_price <- sqrt_price_two, tick_current_index <- tick_current_index_two,
  fee_growth_global <- fee_growth_global_two, protocol_fee_owed <- protocol_fee_owed_two,
  reward_infos <- reward_infos_two, reward_last_updated_timestamp <- reward_timestamp_two,
  tick_arrays <- tick_arrays_two, ticks <- ticks_two, positions <- positions_two,
  vault <- vault_two, reward_vault <- reward_vault_two, swap <- swap_two,
  SwapRequests <- {}, EmissionRates <- {}, RewardDeposits <- {}

pool_one ==
  <<is_enabled_one, fee_rate_one, protocol_fee_rate_one, liquidity_one, sqrt_price_one,
  tick_current_index_one, fee_growth_global_one, protocol_fee_owed_one, reward_infos_one,
  reward_timestamp_one, tick_arrays_one, ticks_one, positions_one, vault_one, reward_vault_one>>
pool_two ==
  <<is_enabled_two, fee_rate_two, protocol_fee_rate_two, liquidity_two, sqrt_price_two,
  tick_current_index_two, fee_growth_global_two, protocol_fee_owed_two, reward_infos_two,
  reward_timestamp_two, tick_arrays_two, ticks_two, positions_two, vault_two, reward_vault_two>>
trader == <<mint, owner, hops>>

vars == <<pool_one, swap_one, pool_two, swap_two, trader>>

-----------------------------------------------------------------------------
(* A request has the amount, the threshold, the side of the amount and the *)
(* timestamp, and, for each hop, a_to_b, limit and arrays.                 *)

TwoHopRequest ==
  [amount : U64, other_amount_threshold : U64, is_input : BOOLEAN, timestamp : U64,
   a_to_b : [1 .. 2 -> BOOLEAN], limit : [1 .. 2 -> U128], arrays : [1 .. 2 -> Seq(Int)]]

\* What Whirlpool assumes of the instructions' arguments.
ASSUME PoolsAssumption ==
  /\ NumPositions \in Nat /\ DAY_IN_SECONDS \in Nat
  /\ TokenSupply \in [Token -> U64]
  /\ InitialSqrtPrices \subseteq U128
  /\ PositionRanges \subseteq Int \X Int
  /\ LiquidityAmounts \subseteq U128
  /\ Timestamps \subseteq U64
  /\ FeeRates \subseteq Nat /\ ProtocolFeeRates \subseteq Nat
  /\ EnableFlags \subseteq BOOLEAN

\* The arrays are made by initialize_tick_array, the mints of a pool are in
\* strict order (state/whirlpool.rs:88), and the trader has accounts for them.
ASSUME TraderAssumption ==
  /\ \A start \in InitialTickArrays : start \in Int /\ check_is_valid_start_tick(start)
  /\ TwoHopRequests \subseteq TwoHopRequest
  /\ \A pair \in MintPairs : \A i \in 1 .. 2 : pair[i]["a"] # pair[i]["b"]
  /\ \A funds \in OwnerFunds, pair \in MintPairs : \A i \in 1 .. 2, x \in Token :
       pair[i][x] \in DOMAIN funds /\ funds[pair[i][x]] \in Nat

NoHops == [amount |-> 0]

Idle == hops = NoHops

TokenIn(a_to_b)  == IF a_to_b THEN "a" ELSE "b"
TokenOut(a_to_b) == IF a_to_b THEN "b" ELSE "a"

InputMint(r)        == mint[1][TokenIn(r.a_to_b[1])]
IntermediateMint(r) == mint[1][TokenOut(r.a_to_b[1])]
OutputMint(r)       == mint[2][TokenOut(r.a_to_b[2])]

\* Mutant: both hops get the first one's price limit.
HopRequestFirstLimit(r, i, amount) ==
  [amount |-> amount, other_amount_threshold |-> 0, sqrt_price_limit |-> r.limit[1],
   is_input |-> r.is_input, a_to_b |-> r.a_to_b[i], arrays |-> r.arrays[i]]

\* The call of swap() for a hop; its threshold is not looked at.
HopRequest(r, i, amount) ==
  [amount |-> amount, other_amount_threshold |-> 0, sqrt_price_limit |-> r.limit[i],
   is_input |-> r.is_input, a_to_b |-> r.a_to_b[i], arrays |-> r.arrays[i]]

OneFinished == ~One!Idle /\ ~One!LoopContinues(swap_one)
TwoFinished == ~Two!Idle /\ ~Two!LoopContinues(swap_two)
BetweenHops == (OneFinished /\ Two!Idle) \/ (TwoFinished /\ One!Idle)

\* Mutant: what the first hop took in is passed on.
SecondAmountPaid ==
  IF hops.is_input THEN One!AmountPaid(swap_one) ELSE Two!AmountReceived(swap_two)

\* What the hop that runs second is asked for.
SecondAmount ==
  IF hops.is_input THEN One!AmountReceived(swap_one) ELSE Two!AmountPaid(swap_two)

\* Mutant: the threshold is compared with the intermediate amount.
ThresholdOnIntermediate ==
  IF hops.is_input THEN hops.other_amount_threshold <= One!AmountReceived(swap_one)
  ELSE hops.other_amount_threshold >= Two!AmountPaid(swap_two)

ThresholdMet ==
  IF hops.is_input THEN hops.other_amount_threshold <= Two!AmountReceived(swap_two)
  ELSE hops.other_amount_threshold >= One!AmountPaid(swap_one)

\* The trader's balances after a hop has paid in and paid out.
Moved(balance, from, paid, to, received) ==
  [[balance EXCEPT ![from] = @ - paid] EXCEPT ![to] = @ + received]

AfterOne ==
  Moved(owner, InputMint(hops), One!AmountPaid(swap_one),
        IntermediateMint(hops), One!AmountReceived(swap_one))

AfterTwo ==
  Moved(AfterOne, IntermediateMint(hops), Two!AmountPaid(swap_two),
        OutputMint(hops), Two!AmountReceived(swap_two))

\* The token program moves no more than an account holds.
Funded ==
  /\ owner[InputMint(hops)] >= One!AmountPaid(swap_one)
  /\ AfterOne[IntermediateMint(hops)] >= Two!AmountPaid(swap_two)
  /\ One!CanTransfer(swap_one) /\ Two!CanTransfer(swap_two)

-----------------------------------------------------------------------------
(* The transaction *)

Begin(r) ==
  /\ Idle
  /\ mint[1][TokenOut(r.a_to_b[1])] = mint[2][TokenIn(r.a_to_b[2])]
  /\ One!ValidArrays(r.arrays[1]) /\ Two!ValidArrays(r.arrays[2])
  /\ hops' = r
  /\ IF r.is_input
     THEN /\ ~One!SwapRejected(HopRequest(r, 1, r.amount), r.timestamp)
          /\ swap_one' = One!StartedSwap(HopRequest(r, 1, r.amount), r.timestamp)
          /\ UNCHANGED swap_two
     ELSE /\ ~Two!SwapRejected(HopRequest(r, 2, r.amount), r.timestamp)
          /\ swap_two' = Two!StartedSwap(HopRequest(r, 2, r.amount), r.timestamp)
          /\ UNCHANGED swap_one
  /\ UNCHANGED <<pool_one, pool_two, mint, owner>>

LoopStep ==
  /\ \/ One!SwapStep /\ UNCHANGED <<pool_two, swap_two>>
     \/ Two!SwapStep /\ UNCHANGED <<pool_one, swap_one>>
  /\ UNCHANGED trader

SecondRejected ==
  IF hops.is_input THEN Two!SwapRejected(HopRequest(hops, 2, SecondAmount), hops.timestamp)
  ELSE One!SwapRejected(HopRequest(hops, 1, SecondAmount), hops.timestamp)

\* The first loop has ended; the other pool's starts.
BeginSecond ==
  /\ BetweenHops
  /\ ~SecondRejected
  /\ IF hops.is_input
     THEN swap_two' = Two!StartedSwap(HopRequest(hops, 2, SecondAmount), hops.timestamp) /\ UNCHANGED swap_one
     ELSE swap_one' = One!StartedSwap(HopRequest(hops, 1, SecondAmount), hops.timestamp) /\ UNCHANGED swap_two
  /\ UNCHANGED <<pool_one, pool_two, trader>>

Commit ==
  /\ OneFinished /\ TwoFinished
  /\ ThresholdMet
  /\ Funded
  /\ One!UpdateAndSwap
  /\ Two!UpdateAndSwap
  /\ owner' = AfterTwo
  /\ hops' = NoHops
  /\ UNCHANGED mint

\* An error in either loop, between them or after them undoes everything.
Fail ==
  /\ ~Idle
  /\ \/ ~One!Idle /\ One!LoopContinues(swap_one) /\ One!StepFails(swap_one)
     \/ ~Two!Idle /\ Two!LoopContinues(swap_two) /\ Two!StepFails(swap_two)
     \/ BetweenHops /\ SecondRejected
     \/ OneFinished /\ TwoFinished /\ ~(ThresholdMet /\ Funded)
  /\ swap_one' = One!NoSwap /\ swap_two' = Two!NoSwap
  /\ hops' = NoHops
  /\ UNCHANGED <<pool_one, pool_two, mint, owner>>

-----------------------------------------------------------------------------
(* What else happens to the pools. *)

Provide ==
  /\ Idle
  /\ \E p \in 1 .. NumPositions, range \in PositionRanges,
        amount \in LiquidityAmounts, timestamp \in Timestamps :
       \/ /\ One!OpenPosition(p, range[1], range[2]) \/ One!IncreaseLiquidity(p, amount, timestamp)
          /\ UNCHANGED <<pool_two, swap_two>>
       \/ /\ Two!OpenPosition(p, range[1], range[2]) \/ Two!IncreaseLiquidity(p, amount, timestamp)
          /\ UNCHANGED <<pool_one, swap_one>>
  /\ UNCHANGED trader

SetEnableFlag ==
  /\ Idle
  /\ \E flag \in EnableFlags :
       \/ One!SetEnableFlag(flag) /\ UNCHANGED <<pool_two, swap_two>>
       \/ Two!SetEnableFlag(flag) /\ UNCHANGED <<pool_one, swap_one>>
  /\ UNCHANGED trader

Init ==
  /\ One!InitializePool /\ tick_arrays_one = InitialTickArrays
  /\ Two!InitializePool /\ tick_arrays_two = InitialTickArrays
  /\ mint \in MintPairs
  /\ owner \in OwnerFunds
  /\ hops = NoHops

Next ==
  \/ \E r \in TwoHopRequests : Begin(r)
  \/ LoopStep
  \/ BeginSecond
  \/ Commit
  \/ Fail
  \/ Provide
  \/ SetEnableFlag

Spec == Init /\ [][Next]_vars

-----------------------------------------------------------------------------
(* Properties *)

Finishes == ~Idle /\ Idle'

\* Whatever the two loops did, the trader's balances keep the request: with
\* exact input, no more than the amount leaves the input token's account and at
\* least the threshold arrives; with exact output, no more than the threshold
\* leaves it.  Input and output may be the same token (two_hop_swap.rs:186).
TraderProtected ==
  [][ Finishes /\ owner' # owner =>
        LET spent    == IF hops.is_input THEN hops.amount ELSE hops.other_amount_threshold
            gained   == IF hops.is_input THEN hops.other_amount_threshold ELSE 0
        IN  \A m \in {InputMint(hops), OutputMint(hops)} :
              owner'[m] >= owner[m] - (IF m = InputMint(hops) THEN spent ELSE 0)
                                    + (IF m = OutputMint(hops) THEN gained ELSE 0) ]_vars

\* The second hop of an exact input never takes more of the intermediate token
\* than the first has yielded; the first hop of an exact output never yields more
\* than the second takes, so that none is left with the trader.
IntermediateMatches ==
  [][ Finishes =>
        IF hops.is_input
        THEN owner'[IntermediateMint(hops)] >= owner[IntermediateMint(hops)]
        ELSE owner'[IntermediateMint(hops)] <= owner[IntermediateMint(hops)] ]_vars

WithinLimit(a_to_b, limit, start, price) ==
  IF a_to_b THEN limit <= price /\ price <= start ELSE start <= price /\ price <= limit

\* Each pool's price stays between where its hop found it and that hop's own
\* limit: in every iteration of either loop, and in what is written when both have
\* ended.  Nothing else moves a price (two_hop_swap.rs:139, 150).
HopsWithinLimits ==
  [][ /\ ~One!Idle' => WithinLimit(hops'.a_to_b[1], hops'.limit[1],
                                   sqrt_price_one', swap_one'.curr_sqrt_price)
      /\ ~Two!Idle' => WithinLimit(hops'.a_to_b[2], hops'.limit[2],
                                   sqrt_price_two', swap_two'.curr_sqrt_price)
      /\ sqrt_price_one' # sqrt_price_one =>
           ~Idle /\ WithinLimit(hops.a_to_b[1], hops.limit[1], sqrt_price_one, sqrt_price_one')
      /\ sqrt_price_two' # sqrt_price_two =>
           ~Idle /\ WithinLimit(hops.a_to_b[2], hops.limit[2], sqrt_price_two, sqrt_price_two') ]_vars

\* A pool that is not enabled is not traded with: "if the `is_enabled` is false,
\* the swap, open/close position and deposit/withdraw liquidity would be
\* disabled" (state/whirlpool.rs:15).
DisabledPoolIsNotTraded ==
  [][ /\ ~is_enabled_one => UNCHANGED <<liquidity_one, sqrt_price_one, ticks_one>>
      /\ ~is_enabled_two => UNCHANGED <<liquidity_two, sqrt_price_two, ticks_two>> ]_vars
=============================================================================
