# Whirlpool: a TLA+ model of the concentrated-liquidity pool

This directory specifies the Whirlpool program (`programs/whirlpool`), a
concentrated-liquidity exchange that runs on chain: what its state is, what each
instruction does to it, which properties make it correct, how they are checked
with TLC on small machines, and which of them are proved with TLAPS for every
machine.  Paths below are relative to the repository; `W` stands for
`programs/whirlpool/src`.

Contents

1. The system
2. What is hard about it
3. The modules and the code they model
4. How the model abstracts the program
5. The runs
6. The proofs
7. What is not modelled
8. Plan

## 1. The system

A *pool* trades token A against token B along a curve with a square-root price
`sqrt_price` (Q64.64).  The price line is cut by *ticks*, `price(t) = 1.0001^(t/2)`;
only multiples of the pool's `tick_spacing` may bound a position.  A *position*
provides `liquidity` between two ticks.  While the price is inside that range
the position earns a share of every swap's fee and of up to three *rewards* that
are emitted per second.  Ticks are stored 88 at a time in *tick array* accounts,
which the caller of a swap has to pass in.

| Component | State | Operations |
|---|---|---|
| Fixed-point arithmetic: `W/math/bit_math.rs`, `liquidity_math.rs`, `bn.rs` | none | checked multiply, shift and divide with either rounding, wrap-around, signed liquidity deltas |
| Integers of 256 bits: `W/math/u256_math.rs` | four words of 64 bits; the locals of the division's loop | add, subtract, multiply, shift, compare, divide |
| Prices and amounts: `W/math/tick_math.rs`, `token_math.rs` | none | tick to price and back, the tokens between two prices, the price an amount leads to |
| Swap step: `W/math/swap_math.rs` | none | `compute_swap`: from a price towards a target with an amount of input or output |
| Tick arrays: `W/state/tick.rs`, `W/util/swap_tick_sequence.rs` | the ticks of an array, its start; the sequence a swap was given and its place in it | search for the next initialized tick in one array and in a sequence, read and update a tick, advance to the next array |
| Updates: `W/manager/tick_manager.rs`, `position_manager.rs`, `whirlpool_manager.rs` | none (they compute new values from old) | cross a tick, change a tick's or a position's liquidity, growth inside a range, settle a position, accrue rewards |
| Pool: `W/state/whirlpool.rs`, `W/state/position.rs`, `W/manager/liquidity_manager.rs`, `W/instructions/*` | the Whirlpool account (liquidity, price, tick, fee growth, protocol fee, rewards, enable flag, rates), Position accounts, token vaults | open, close, increase, decrease, update, collect fees, rewards and protocol fees, initialize tick arrays and rewards, set emissions, rates and the flag |
| Swap: `W/instructions/swap.rs`, `W/manager/swap_manager.rs`, `W/util/swap_utils.rs` | the loop's locals | one loop per instruction, then the threshold check, the write-back and the transfers |
| Two-hop swap: `W/instructions/two_hop_swap.rs` | two pools | two swaps in one transaction, the second paid with what the first yields |
| Configuration: `W/state/config.rs`, `fee_tier.rs`, `W/instructions/initialize_*`, `set_*` | authorities, default rates, fee tiers | create a configuration, a fee tier and a pool; hand authorities over |
| Position tokens: `W/util/token.rs`, `util.rs` | mint and token account of each position | mint one, burn it on closing, check owner or delegate |
| SDK (`sdk/src`): fetcher, quotes, client, transaction building | cache of accounts | fetch, refresh, quote a swap off chain, compose transactions |

How they interact.  Every instruction is one transaction: the runtime locks the
accounts it writes, and undoes everything when the handler returns an error.
A change of liquidity reads both boundary ticks and the pool, accrues the rewards
up to the present, settles the position, and then writes pool, ticks and
position; a swap reads ticks through the arrays passed in, crosses the
initialized ones on its way and, at the end, writes the pool and moves the tokens.
Pool, ticks, positions and vaults are therefore kept consistent only by
*differences*: a tick's `liquidity_net` is what the pool's liquidity changes by
when the tick is crossed, `growth_outside` is meaningful only relative to the side
the price is on, and what a position is owed is a difference of growths that wrap
around.  No test can read off one account that something is wrong; the error shows
when somebody else withdraws.

What makes each component correct:

* arithmetic: a result that does not fit its word is an error, never a wrong
  number; every division is rounded in the pool's favour;
* integers of 256 bits: they are the integers, and nothing but a zero divisor or a
  product that is too large fails;
* prices: they increase with the tick, and lead back to it;
* swap step: it uses no more than the amount given, stops between the price and
  the target, takes at least the fee rate, and never gives a rounding away;
* search: it finds exactly the next initialized tick in the direction of the
  trade, or an edge of the arrays before it;
* ticks and positions: the pool's liquidity is what the positions around the
  current tick provide; the ticks hold what the positions begin and end with;
* fees and rewards: what is paid goes to those who were in range when it was earned,
  once, and is not lost;
* vaults: they cover everything that is owed and withdrawable;
* swap loop: it ends, and moves with the trade and within the limit;
* configuration: a setting changes only by the hand of whoever holds the role for it
  *in that configuration*, and nothing is created twice;
* position tokens: exactly the token's holder, and whoever that holder has let in, can
  act on a position;
* the SDK's cache: a caller gets the account it asked for, as fresh as it asked.

## 2. What is hard about it

The list with source lines is under `hazards` in `PROJECT.json`.  In short:

* **Price and tick disagree by one.**  After a crossing to the left the current
  tick is one below the tick whose price the pool stands at.  Every
  later operation has to keep that convention, a step that does not move the
  price (dust, no liquidity) included, or the crossed liquidity is counted twice.
* **Edges.**  Arrays are searched over a range shifted by one spacing to the right;
  the first and the last array are cut off by the tick line; a swap can end on a
  tick that is not on the grid, or one below the lowest tick there is.
* **The caller chooses the arrays**: out of order, repeated, with gaps, not holding
  the current tick.
* **Order inside a step.**  Fees are added before the tick is crossed, the
  growth inside a range is computed before the boundary ticks are written, rewards
  are accrued before the emission rate changes.
* **Roundings** in four combinations of side and direction, of the price before the
  amounts.
* **Long histories.**  Growth outside a tick is set by convention when it is
  initialized, forgotten when it is cleared; growths wrap around.
* **Time** comes from the clock sysvar, and may stand still or step back between
  transactions.
* **Late failure.**  A swap can fail on its last iteration, its threshold or its
  transfer, after ticks have been written.
* **The loop** has no bound but its progress.
* **Two hops**: the second loop starts with what the first one yields, in either
  order, and everything is checked only at the end.
* **Long division** guesses each word of the quotient and corrects the guess; the last
  correction happens once in 2^63 random operands.
* **Prices** are products of rounded constants, and their inverse is a logarithm of 14
  bits between two estimates.
* **The caller chooses every account**: configuration, fee tier, pool and signer are
  matched by account constraints alone, instruction by instruction.
* **A position's rights are a token**, which is transferred, delegated, sold with its
  account or burnt without the program's knowing.
* **The SDK's cache** is read before an `await` and written after it.

## 3. The modules and the code they model

| Module | Models | State and actions |
|---|---|---|
| `FixedPoint` | `math/bit_math.rs`, `liquidity_math.rs` | operators: width checks, `checked_mul_div`, `checked_mul_shift_right`, rounding divisions, `add_liquidity_delta`, conversion to a signed delta. A failure is the value `Err`. |
| `U256Math` | `math/u256_math.rs` | operators on integers of several words: sums, products, shifts, comparisons, word by word with their carries |
| `U256Division`, `MCU256Division` | `div` and `div_loop` | the locals of the division; one action per early case, `Normalize`, one per round of the loop, and a panic |
| `TokenMath` | `math/token_math.rs`; ticks' prices as a table | operators: `get_amount_delta_a/b`, `get_next_sqrt_price`, tick to price and back |
| `TickMath` | `math/tick_math.rs`, with its constants, at full width | a walk along the tick line: `tick`, its price, and what the inverse finds for that price and for the one just below |
| `SwapMath` | `math/swap_math.rs`, `calculate_fees` and the price target of `swap_manager.rs` | operators: `compute_swap`, its amounts, fee and next price |
| `SwapRoundTrip` | a trader around `compute_swap` | `Trade`, `TradeBack` |
| `TickArrays` | `state/tick.rs`, `util/swap_tick_sequence.rs` | operators: geometry of arrays, search of one array and of a sequence, the next array index |
| `TickSearch` | the search as the swap loop drives it | `Sweep`, `Fail` |
| `MCSwapStep` | - | `SwapRoundTrip`, `TickSearch` and (as an instance, at full width) `TickMath` in one run |
| `TickManager` | `manager/tick_manager.rs`, `position_manager.rs`, `whirlpool_manager.rs` | operators: crossing, modifying, growth inside, settling, accruing |
| `RangeAccounting` | the abstract specification: what a position is promised | growth, whether the price is in range, liquidity, what is pending and owed; `Accrue`, `EnterOrLeave`, `Settle` |
| `LiquidityFixture` | `util/test_utils/liquidity_test_fixture.rs` around `_calculate_modify_liquidity` | one position, its two ticks and the pool; change of liquidity, growth of fees and of rewards, crossing of either tick. It implements `RangeAccounting` twice, for the fees and for the rewards |
| `LiquidityTests`, `MCLiquidity` | the 46 unit tests of `manager/liquidity_manager.rs` | each a start and its steps through `LiquidityFixture`, with what it asserts on the way |
| `Whirlpool` | the instructions on a pool, `state/whirlpool.rs`, `state/position.rs`, `manager/liquidity_manager.rs`, `manager/swap_manager.rs`, `util/swap_utils.rs` | one variable per field of the account, `ticks`, `positions`, `vault`, `reward_vault`, `swap`; one action per instruction, three for a swap |
| `WhirlpoolProperties` | - | what makes a pool correct |
| `RewardEmission` | - | what was emitted of each reward and what was paid, recorded beside the pool |
| `MCWhirlpool`, `MCTermination` | - | small instances and the history they need |
| `TwoHopSwap`, `MCTwoHop` | `instructions/two_hop_swap.rs` | two pools (instances of `Whirlpool` with variables of their own), the trader's balances `owner`, the running request `hops`; `Begin`, `LoopStep`, `BeginSecond`, `Commit`, `Fail` |
| `Governance` | `state/config.rs`, `state/fee_tier.rs`, what `state/whirlpool.rs` keeps on rates, the flag and rewards' authorities; the account constraints of the `initialize_*` and `set_*` instructions and of `collect_protocol_fees` | `configs`, `fee_tiers`, `pools` as functions on the addresses that exist, `signer` of the last instruction; one action per instruction |
| `PositionToken` | `util/util.rs`, `util/token.rs` and the account constraints of the instructions on positions; the SPL token program around them | `position`, `mint`, `account`; opening (with and without metadata), deposits, withdrawals and closing; transfers, approvals, revocations, changes of owner and of close authority, burning |
| `MCAccess` | - | `Governance` and `PositionToken` in one run |
| `AccountFetcher`, `MCFetcher` | `sdk/src/network/public/fetcher.ts` | the chain's accounts, the cache in the order of its keys, the calls under way with the answers they have; `Read`, `RefreshAll`, `ListPoolsWithParams`, each with its continuation, `CallFails`, and the outside world's `Write` and `Answer` |
| `MathProofs`, `StepProofs`, `WhirlpoolProofs`, `AccountingProofs`, `LiquidityProofs`, `TwoHopProofs`, `AccessProofs`, `FetcherProofs` | - | proofs, section 6 |

Composition.  `FixedPoint` is extended by `TokenMath`, which is extended by `SwapMath`
(with `calculate_fees`) and by `TickArrays`; `Whirlpool` is built on all of them and on
`TickManager`, so that a swap step in `Whirlpool` runs the same `compute_swap` and
the same search that `SwapRoundTrip` and `TickSearch` check on their own, over
many more inputs, and a change of liquidity runs the same updates that
`LiquidityFixture` checks against `RangeAccounting` and against the unit tests.
`TwoHopSwap` runs the same loop, `SwapStep`, in each of its two pools, and
ends with `UpdateAndSwap`, the part of `SwapCommit` that both instructions share.
`TickMath` computes with the words of `U256Math`.  `Governance` and `PositionToken` are
the account constraints that `Whirlpool` leaves out: which combinations of accounts
and signers get as far as its actions.

How the pool's state corresponds to the accounts:

* `liquidity`, `sqrt_price`, `tick_current_index`, `fee_rate`, `protocol_fee_rate`,
  `reward_infos`, `reward_last_updated_timestamp` are fields of the Whirlpool
  account; `fee_growth_global` and `protocol_fee_owed` are its pairs of `_a` and
  `_b` fields, as functions of the token.
* `tick_arrays` is the set of start ticks of arrays that exist.  The contents of all
  arrays are one function `ticks` of the usable tick indices, because arrays
  partition the tick line; a tick of an array that does not exist has its default
  value and is not touched, which the guards see to (`HasTickArrays`, `ValidArrays`).
* `positions[p]` is a Position account with a state, `none` before it is opened and
  `closed` after; the mint of a position is a fresh key, so a number is not used again.
* `vault`, `reward_vault` are the balances of the token accounts.  The token program
  refuses to overdraw; what is not in the vault is with the traders, so that a vault
  never holds more than `TokenSupply`.
* `swap` holds the locals of the swap loop, or `NoSwap`.

`W/instructions/swap.rs` is the only instruction that is more than one action.
`SwapBegin` makes the handler's first checks and loads the locals; each `SwapStep`
is one iteration (search, `compute_swap`, fees, crossing, advance of the array
index); `SwapCommit` is the end of the handler (threshold, write-back, transfers)
and `SwapFail` an error at any of these points.  The transaction holds the pool's
write lock throughout, and no other action is enabled while it runs: the purpose
of the steps is to state properties about the loop's intermediate states, not to
interleave them.  `ticks` is replaced by the loop's copy at the commit only, which is
what the runtime's undo amounts to.  That a failed swap, on one pool or on two, leaves
nothing behind is therefore so by construction here, as it is not the program's own doing;
no property claims to check it, and the two hazards are listed without one.

## 4. How the model abstracts the program

* **The machine is scaled.**  `TO_Q64` stands for 2^64 everywhere: a u64 is a number
  below `TO_Q64`, a u128 one below its square, a u256 one below its fourth power;
  prices are multiples of 1/`TO_Q64`.  All width checks, shifts and wraps are
  relative to it, so no constant of the model depends on 64.  The runs use 16,
  where overflow is close by (`liquidity` uses 2^15, so that the amounts of the unit
  tests fit); the proofs hold for every value from 2 on.  `U256Math` is scaled by the
  bits of a word and the number of words.
* **Tick prices are a table** `SqrtPrice`, of which only strict monotonicity is assumed
  (`SqrtPriceAssumption`); the ends of the table are the minimum and the maximum
  price.  That the program's own table increases, and that its inverse is exact, is
  what `TickMath` checks, with the program's constants and without scaling: 256 bits as
  18 words of 15 bits.
* **Geometry**: `TICK_ARRAY_SIZE` and `tick_spacing` are parameters.  No array begins at
  `MIN_TICK_INDEX` (`EdgeAssumption`): 443636 is not a multiple of 11, which 88 is.
* **Array indices** are 1-based, and an index beyond the sequence is `Len + 1`.
  Passing an array twice makes the account loader of `swap.rs` find it borrowed; the
  sequences of `Whirlpool` are therefore without repetition.
* **Time**: an instruction gets any timestamp of `Timestamps`; nothing says that
  it is later than the last one, as the code has to cope with (it fails when the
  timestamp is before `reward_last_updated_timestamp`).
* **The SDK's cache** is a sequence of keys and values, because a JavaScript object
  lists its keys in the order they were added in and `refreshAll` depends on it.
  `get` and `list` are one action, as `get` does to one address what `list` does to
  several.  The contents of an account are its own name and how often it was written, so
  that data cached under another account's key shows, or `Null` when it does not exist;
  an account that is closed again, and one cached under two entities, are left out.
  Two histories beside the state say what each account has held (`held`), and which
  accounts a `refreshAll` found in the cache without having asked for them (`overrun`).
* **Quotients are exact.**  `FixedPoint` and `TokenMath` divide integers, where the program
  calls `div`.  What panics in the program aborts the transaction and leaves no state,
  so a panic can only take away behaviours of these models.
* **Addresses.**  In `Governance` an account at a derived address is named by the seeds of
  the address; two accounts are the same exactly when their seeds are.  Keys and
  mints are members of small sets, mints are ordered as keys are.
* **The fixture** of the liquidity tests lets ticks carry other positions' liquidity.  Nobody
  takes more of it than the position put there, which is what the fixture's users, and
  the program's instructions, see to.  The unit tests of overflow are scaled down by
  ten, as the comment of `LiquidityTests` says.
* **Left out** of `Whirlpool`: signers and addresses; `token_max`, `token_min` (they can only turn a
  success into a failure that changes nothing, unlike the swap's threshold, which
  is checked after ticks were written, and which is kept); logs, account
  sizes and rent.
* **External code**: the SPL token program (`TransferFromOwner`, `TransferToOwner`
  and the deposits into a reward's vault), as far as balances go; in `PositionToken`,
  its instructions on mints and accounts as far as owner, delegate, close authority
  and amount go.

## 5. The runs

| Run | Question | Bounds |
|---|---|---|
| `swap_step` | Is each part of a loop iteration right by itself: the step, the search, the tick's price? | *Step*: words of 16 values, five liquidities including 0, nine prices as current and as target, on ticks and between them, three fee rates including 0, five amounts, both sides and directions. *Search*: eleven ticks, spacing 2, arrays of two ticks; every set of initialized ticks, every sequence of up to three distinct arrays in any order, every start the loop is entered in (a swap at an end of the tick line, out of it, is at its limit and does not search). *Prices*: 6 ticks to either side of 0, of every power of two and its negative, of three ticks whose bits alternate and their negatives, and at both ends of the tick line |
| `u256_division` | Are the words the integers? | every two integers of four words of two bits |
| `u256_division_panics` | Does a division panic on zero only, as its tests say? | the same; the answer is no |
| `liquidity` | Is a position paid what accrued while the price was in its range? Does the model do what the unit tests expect? | words of 15 bits; accumulators that start at 0 or five units below the greatest u128, ticks with and without other liquidity, deposits and withdrawals of 2, five operations; and all 46 unit tests to their ends |
| `fees` | Do the book, the vaults, the fees and the limits agree through any history? | two positions on the overlapping ranges -2..2 and 0..4, five operations, swaps of two sizes, both kinds, both directions, with and without a limit, starting in any of three arrays |
| `edges` | The same at both ends of the tick line; and does every swap end? | amounts that stop on the way and amounts that run to the end, in both directions; spacing 1, initial prices at both extremes and in the middle, ranges that touch or exceed the ends, a missing array that may be created, two fee rates of which one is illegal, four operations |
| `rewards` | Are emissions paid once, at the right rate, only to those in range, does what a short vault cannot pay stay owed, and what does a disabled pool still do? | two rewards, two rates, three timestamps in any order, deposits into the vaults, enabling and disabling, six operations |
| `two_hop` | Do two swaps in one transaction keep what the trader asked for? | two pools on mints x,y and y,z or both on x,y, a position each (one of them may have none), exact input and output in every combination of directions, amounts 3 and 7, thresholds 0, 1 and 6, a limit on the way or none for each hop, a trader with or without the intermediate token; one trade |
| `two_hop_disabled` | Is a disabled pool left alone by a two-hop swap, as the comment on the flag says? | the same pools and requests, three steps before the trade; the answer is no |
| `access` | Can anybody change what it holds no role for, or act on a position whose token it does not hold? | *Governance*: two configurations of which one exists, three keys that hold its roles apart or together, two mints, two spacings, legal and illegal rates, two rewards, four instructions with every combination of accounts. *Tokens*: two positions, three persons with an account of each mint, approvals of one and of two, six steps |
| `fetcher` | Do concurrent calls of the SDK's cache mix accounts up, or return something older than they were asked for? | a pool and a tick array, existing or not at the start, at most three versions together; two calls under way, three in all; lists that ask for an account twice, in two chunks; answers and failures in any order |
| `fetcher_refresh_all` | Does `refreshAll` update what is in the cache? | the same; the answer is no when another call adds an account meanwhile |

Three runs check machines that share nothing side by side: a behaviour of `swap_step` is
one of a step, of a search or of a walk along the prices, one of `access` is one of
instructions or of tokens, and one of `liquidity` is one unit test or a free
sequence of operations.  Letting them take turns would show nothing more.

What the properties say (each is stated with a comment where it is defined):

* `LiquidityBook`: the pool's liquidity is that of the positions around the current tick,
  and a tick holds what begins and ends there.  It holds in every iteration of a swap,
  where the price may stand exactly on a tick that has just been crossed to the left.
* `PriceMatchesTick`: the convention that makes this work: a tick holds the prices from
  its own to that of the next, *including* the next one's after a crossing.
* `PoolSolvent`: after any history, the vaults cover the protocol's fees, all that
  positions could collect and all liquidity withdrawn at the current price.
* `FeesGoToRangesInUse`: an iteration credits the ranges that hold the tick it started
  from.  It is an action property over growths that wrap around, and relates ticks, pool
  and positions before and after.
* `FeesNeverForfeited`, `RewardsNeverForfeited`: what a position is due (`FeesOf`,
  `RewardDue`: what it is owed and what its liquidity has earned since the last
  settlement) falls only when that position collects, and by exactly what it is paid.
  Both compute what is due exactly, where the program's product may overflow to 0
  (`Unsettled`), and speak of every step, write-backs of swaps included: a
  settlement that pays nothing and moves the checkpoint violates them.  A reward that the
  vault is too short for stays owed.  For rewards the statement is limited to a reward of which
  fewer than `TO_Q64` tokens have been emitted: a rate is not bounded by what there is of
  the token, and the product does overflow beyond that.
* `FeesPaidAsAccrued`, `RewardsPaidAsAccrued`: the refinement.  `RangeAccounting` knows no
  ticks and no checkpoints: growth is pending while the price is inside, and a change
  of the position pays it out.  The mapping takes what is pending from the growth
  inside the range and the checkpoint.  That a crossing, or the initialization of a
  tick by this position or by another, changes none of it, is what the convention of
  `tick_manager.rs:54` is for.
* `AsAsserted`: what the unit tests assert, number by number.
* `SwapWithinLimits`: direction and price limit, in every iteration.
* `SwapTerminates`: a swap that has started ends.
* `RewardsWithinEmission`: what positions can claim and were paid of a reward is no
  more than what was emitted while there was liquidity in range.
* `RewardsInitializedInOrder`, `DisabledPoolStandsStill`: the life cycle of rewards and of
  the pool's flag.
* `PoolFavoured`, `FeeNotBelowRate`, `NoProfitFromRoundTrip`: one step of a swap.
  `PoolFavoured` compares with the exact curve, for the move the price really made.
* `SweepSkipsNothing`, `InOrderSweepUsesAllArrays`: the search.
* `PricesConvertExactly`, `NeighboursInProportion`: the tick found for a tick's price is
  that tick, and for one less it is the tick before; neighbours' prices are in the
  proportion they should be, to 32 bits; the values are those the unit tests list.
* `ArithmeticExact`, `DivisionExact`, `LoopInvariant`: words and integers agree; the
  invariant of long division holds in every round.
* `HopsWithinLimits`: in every iteration of either loop of a two-hop swap, and in what is
  written at its end, a pool's price is between where the hop found it and that hop's limit.
* `TraderProtected`, `IntermediateMatches`: the trader's side of a two-hop swap.  The second
  hop of an exact input takes no more than the first has yielded, and may take less
  when it stops at its limit; the rest stays with the trader.  With exact output it is
  the first hop that may stop early: it then yields less than the second takes, and
  the difference comes out of the trader's own account of the intermediate token.
  The threshold does not bound that amount, and no property claims that it does.
* `OnlyRoleHoldersChange`, `NothingReinitialized`, `NewPoolTakesOwnDefaults`,
  `OnePoolPerPair`: whichever configuration, tier, pool and key a caller combines.  A new
  pool may take the fee rate of *any* tier of its configuration, as `initialize_pool.rs:41`
  does not compare the spacings; the property says no more than that.
* `OneTokenPerPosition`, `OnlyHolderActs`, `ClosedByRightfulKey`: the
  keys that can act on a position are the owner of the account that holds its token
  and its delegate for exactly one; after a burn, nobody.  A position is closed by one
  key that passes both rules: it may act on the position, and the token program lets it
  close the account, as its close authority or, where there is none, its owner.

* `NothingInvented`, `FreshWhenRefreshed`, `FailsOnlyWithRpc`,
  `RefreshAllUpdatesWhatItAskedFor`: the SDK's cache.  The first says that what is cached or
  returned for an account is a state of that account, not one of another and not one it never was
  in; it depends on the order of
  the cache's keys, which an update does not change.  Its one exception is the null of the bug
  below, for accounts that a `refreshAll` was overrun by.  A *cached* value may still
  become older: when two refreshing reads overlap and the older answer is handled
  last.  The code promises nothing else, and no property claims it.

**A bug in the cache.**  `refreshAll` (`fetcher.ts:291`) asks for the keys that are in the
cache when it begins, and afterwards goes through the entries that are in it by then
(line 295), taking the answer with the same position.  Keys are only ever added at the
end, so the entries it asked for are matched correctly, but one that another call
has added in the meantime has no answer: `undefined` parses as `null`, and an account that
exists is remembered as one that does not, until somebody asks with `refresh`.  The
run `fetcher_refresh_all` shows it: a read returns and caches an account while a
`refreshAll` is under way, and the end of the latter replaces it by null.

**A bug in the division.**  `div_loop` guesses a quotient word, and adds the divisor back
when the guess was one too large (`u256_math.rs:558`).  The carry of that addition goes
into the next word of the dividend.  In the first round of a dividend of four words there
is none, the carry space stands for it, and `get_word_u128` panics:
2^255 divided by 2^191 + 1 is an example.  The tests take their operands at random and
state that every quotient is right.  The run `u256_division_panics` shows it; such a
panic aborts the transaction that runs into it.

**A disagreement between a comment and the code.**  `W/state/whirlpool.rs:15` says of
the pool's flag that "if the `is_enabled` is false, the swap, open/close position and
deposit/withdraw liquidity would be disabled".  `swap.rs:58` and the instructions on
positions call `require_enabled`; the handler of `two_hop_swap.rs` (line 75) does
not, so that either hop may trade with a disabled pool.  The run `two_hop_disabled`
shows it: `DisabledPoolIsNotTraded` is violated by a disabled first pool on which a
two-hop swap commits.  `DisabledPoolStandsStill` in the run `rewards`, and its theorem,
are about the instructions on one pool.

A second comment, about no behaviour that a property states, differs too: `lib.rs:442` says
that `set_reward_authority` fails unless the index is that of the lowest uninitialized
reward, and its handler accepts every index whose authority has signed.  `Governance`
has it as the handler does.

Why these bounds are enough.  The hazards of section 2 need few actors and short
histories but many shapes: two overlapping positions give a tick line with three
different liquidities, on which a swap crosses ticks in both directions and
ends on a tick, between ticks or at a limit.  Five operations suffice for
deposit, deposit, swap, swap back and withdrawal or collection; four for the book
and the price at the edges.  With 16 instead of
2^64, liquidity 8 and amounts of 3 and 7, roundings are as large as the amounts, and
overflows happen: they are the interesting case here, rather than an
exception.  `MaxOps` counts instructions that change the pool; opening a position
and creating an array do not count.

In `u256_division`, words of two bits reach every path of the division, also the
correction that is so rare with 64 bits, and every dividend is divided by every divisor.
The prices of ticks are products of one factor per bit, so that errors show where many bits
change at once: the walk crosses each power of two, and alternating bits.  It
does not visit all 887 273 ticks.  In `access` four instructions suffice to hand a role
over, use it, and have its former holder try; six steps with tokens, to
open a position, delegate its token, move it or its account, and act.  Symmetry is used
for the persons and the positions of `access` and for the callers of `fetcher`, which
nothing tells apart; keys, mints and configurations of `Governance` are ordered or named
in the initial state, and are not symmetric.

Deadlock is checked in `liquidity`, where a unit test that got stuck would be one that the
model refuses; elsewhere it is not, as the bounded histories end.

Fairness.  The only liveness property, `SwapTerminates`, is about one instruction.  A handler that was
started is run by the runtime until it returns: `FairSpec` has weak fairness of
`SwapProgress`, and nothing is assumed about instructions being sent.
`MCTermination` states the same fairness with a variable that flips with every
step, because TLC then need not evaluate the enabling condition of the swap's
three actions; one of them is always enabled while a swap runs.  (The runtime
limits the computation of a transaction; a swap it stops is undone
like any other failure, which is why termination is a property of the loop and not
one of the runtime.)

Mutants.  Next to some definitions stand others named after a plausible error
(`TickAfterUnguarded`, `CrossWithoutFlip`, ...), marked `Mutant` in their comments.
No specification uses them; putting one in the place of the definition it varies
makes the property it belongs to fail in the same run, which shows that the run's
bounds reach the case.

## 6. The proofs

Eight modules hold proofs.  They assume what the models assume of their constants:
`WordAssumption` (`TO_Q64` at least 2), `TickRangeAssumption`, `SqrtPriceAssumption`
(the price table increases), `FeeRateAssumption` (rates are below 100%),
`ArrayAssumption`, `EdgeAssumption`, `RewardAssumption`, `PoolAssumption`,
`FixtureAssumption` and `RoundTripAssumption` (the types of the arguments, and the
fixture's places around its range), `PoolsAssumption` and `TraderAssumption` (the same of two
pools, and of a trader who has accounts for their mints), `GovernanceAssumption`,
`PositionTokenAssumption` and `FetcherAssumption`.  TLC evaluates each on every run that uses it.

| Theorem | Module | Statement |
|---|---|---|
| `SwapStepNeverOvershoots` | `MathProofs` | a successful `compute_swap` yields u64 amounts and a price between the current price and the target |
| `SearchYieldsTickAhead` | `MathProofs` | the search over any sequence of valid arrays yields a tick of the tick line that is ahead in the direction of the trade |
| `SearchSkipsNothing` | `MathProofs` | it passes no initialized tick, and yields an initialized tick of the array it names or the edge of that array |
| `SweepCrossesAll` | `StepProofs` | `SearchSpec => []SweepSkipsNothing` |
| `SweepUsesAllArrays` | `StepProofs` | `SearchSpec => []InOrderSweepUsesAllArrays` |
| `StepWithinAmount` | `StepProofs` | a step charges, with its fee, at most what remains of an exact input, and pays at most what remains of an exact output |
| `StepFavoursPool` | `StepProofs` | `Spec => []PoolFavoured` of `SwapRoundTrip` |
| `StepFeeNotBelowRate` | `StepProofs` | `Spec => []FeeNotBelowRate` |
| `RoundTripNoProfit` | `StepProofs` | `Spec => []NoProfitFromRoundTrip` |
| `Invariance` | `WhirlpoolProofs` | `Spec => []IInv` |
| `TypeCorrectness` | `WhirlpoolProofs` | `Spec => []TypeOK` |
| `TickFollowsPrice` | `WhirlpoolProofs` | `Spec => []PriceMatchesTick` |
| `SwapStaysWithinLimits` | `WhirlpoolProofs` | `Spec => []SwapWithinLimits` |
| `RewardOrder` | `WhirlpoolProofs` | `Spec => []RewardsInitializedInOrder` |
| `DisabledPool` | `WhirlpoolProofs` | `Spec => DisabledPoolStandsStill` |
| `BooksKept` | `WhirlpoolProofs` | `Spec => []BookIInv` |
| `LiquidityBooked` | `WhirlpoolProofs` | `Spec => []LiquidityBook`, for any number of positions |
| `FeesReachRangesInUse` | `AccountingProofs` | `Spec => FeesGoToRangesInUse` |
| `RewardsWereEmitted` | `AccountingProofs` | `EmissionSpec => []RewardsWithinEmission`, for any number of positions and rewards |
| `PoolStaysSolvent` | `AccountingProofs` | `Spec => []PoolSolvent`, for any number of positions and any prices of ticks |
| `FeesAreKept` | `AccountingProofs` | `Spec => FeesNeverForfeited` |
| `TypeCorrect` | `LiquidityProofs` | `Spec => []TypeOK` of `LiquidityFixture` |
| `FeesAccounting` | `LiquidityProofs` | `Spec => FeesPaidAsAccrued`: `LiquidityFixture` implements `RangeAccounting` for the fees |
| `RewardsAccounting` | `LiquidityProofs` | `Spec => RewardsPaidAsAccrued`: and for the rewards |
| `TypeCorrect` | `AccessProofs` | `Spec => []TypeOK` of `Governance` |
| `AccountsAtTheirAddress` | `AccessProofs` | `Spec => []SeedsMatch`: pools and tiers are at the address their fields derive |
| `OnePoolForAPair` | `AccessProofs` | `Spec => []OnePoolPerPair` |
| `RolesHold` | `AccessProofs` | `Spec => OnlyRoleHoldersChange` |
| `AccountsStay` | `AccessProofs` | `Spec => NothingReinitialized` |
| `DefaultsOfOwnConfig` | `AccessProofs` | `Spec => NewPoolTakesOwnDefaults` |
| `OneToken` | `AccessProofs` | `PositionTokenSpec => []OneTokenPerPosition` |
| `HolderActs` | `AccessProofs` | `PositionTokenSpec => OnlyHolderActs` |
| `RightfulKeyCloses` | `AccessProofs` | `PositionTokenSpec => ClosedByRightfulKey` |
| `PoolsAndHopsInvariant` | `TwoHopProofs` | `Spec => []HopIInv` of `TwoHopSwap` |
| `TraderIsProtected` | `TwoHopProofs` | `Spec => TraderProtected` |
| `IntermediateAlwaysMatches` | `TwoHopProofs` | `Spec => IntermediateMatches` |
| `HopsStayWithinLimits` | `TwoHopProofs` | `Spec => HopsWithinLimits` |
| `FetcherTypes` | `FetcherProofs` | `Spec => []TypeOK` of `AccountFetcher` |
| `NothingIsInvented` | `FetcherProofs` | `Spec => []NothingInvented` |
| `RefreshesAreFresh` | `FetcherProofs` | `Spec => []FreshWhenRefreshed` |
| `OnlyRpcFails` | `FetcherProofs` | `Spec => []FailsOnlyWithRpc` |
| `RefreshAllIsComplete` | `FetcherProofs` | `Spec => RefreshAllUpdatesWhatItAskedFor` |

The inductive invariant of the pool.  `TypeOK` is not inductive: that the next price of a step
is a u128 depends on its being between the current price and a target that is a
price of the table; that the target is one depends on the search yielding a tick of
the tick line, hence on the arrays' being valid and on the current tick's not being
too far out, hence on the agreement of tick and price.  The last step of a swap to
the left may leave the tick at `MIN_TICK_INDEX - 1`, which has no price.  So

    IInv == TypeOK /\ PoolInv /\ SwapInv /\ SwapWithinLimits

where `PoolInv` says that the account's tick holds its price and that every existing
array starts where one may, and `SwapInv` says the same of the running swap, that
its limit is a legal price, that its array index is not 0 and that its timestamp is
not before the last update.

The inductive invariant of the book adds the book twice: that of the account, to which the pool
returns when the swap fails, and that of the loop's locals, which the account takes over:

    BookIInv == IInv /\ RangesSound(positions) /\ AccountBooked /\ SwapBooked

`AccountBooked` and `SwapBooked` are the sums of `LiquidityBook`, over the account and over
the locals; `RangesSound` says that the range of every position that carries
liquidity is between two different usable ticks.  `IInv` is needed for the swap:
which tick an iteration crosses, and that it jumps over no other, follows from where the
tick and the price stand and from `SearchSkipsNothing`.

The inductive invariant of the rewards, `BookIInv /\ EmissionInv`, cannot be stated on what
positions can claim: that is rounded down when a position is settled, and may grow by
a unit in one step for a growth that came in many.  `EmissionInv` has

    EmittedCovers           what all positions are due, before rounding, and what was
                            paid is at most what was emitted
    NoGrowthUninitialized   no tick has growth of a reward that is not initialized
    SwapKeepsInside         while a swap runs, the growth inside the range of a position
                            with liquidity, with the growth there will be at the swap's
                            end, is the same with the loop's ticks as with the account's

`BookIInv` is needed because a second's emission is divided by the pool's liquidity and
multiplied by that of each position in range: only if these add up to the pool's is no
more handed out than was emitted.

The inductive invariant of solvency, `BookIInv /\ SolvencyInv`, has to speak of exact amounts
too.  `PoolSolvent` adds up amounts each of which is rounded over its own range and at the
current price, and a swap changes all of them at once.  `SolvencyInv` says, of the
account and of the running swap (`AccountSolvent`, `SwapSolvent`), that for each token

    Covered(x, Reserve, ...)    what is in the vault beside the protocol's fees, less what the
                                positions are due in fees before rounding (`FeeDues`), covers the
                                exact amount of the token that their liquidity stands for

The exact amount of token A is a sum of fractions, with the price at a position's boundary, or
the current one, below the line.  The table of prices is finite, so that there is a common multiple
of its entries (`Multiple`, whose existence is proved), and multiplied by it and by the current price the
sum is one of integers.  Only its part within the ranges in use depends on the
current price, by the sum of their liquidity, which is the pool's: that is what
`BookIInv` is needed for, and what lets one step of a swap be compared with all positions at
once.  While a swap runs, `SwapFunds` counts what it will pay and be paid at its end.

For `FeesNeverForfeited` two more invariants are needed beside solvency: a position that is not
open is owed nothing (`ClosedOweNothing`), and

    DuesRise    while a swap runs whose payment still fits the vault, every position is due
                at least as much with the loop's growth and ticks as with the account's

which says that the write-back of a swap takes nothing.  It has that condition because a loop
may well push the growth past a whole turn of its accumulator; but then the trader would
owe the vault more than a word, and the transfer fails.

The inductive invariant of the fixture.  What is pending can be computed from the growth
inside the range only once both ticks are initialized: before, the code takes the whole
growth to lie below a tick, so that the growth inside moves with the pool's although the
price is elsewhere.  A position with liquidity therefore needs both, and what keeps them
initialized is that each holds at least that liquidity:

    IInv == TypeOK /\ (the price is at one of the three places)
            /\ (all rewards are initialized) /\ Holds(tick_lower) /\ Holds(tick_upper)

where `Holds` says that the tick is initialized exactly when its gross liquidity is
positive, and that it is not less than the position's.

The inductive invariant of the search, `SearchTyped /\ Positioned`, says where the current
tick is in the arrays: with the arrays in order, in the search range of the current one, or at
the far edge of the last one when all are used up.  It also says that, while the
search goes on, there is a tick left in its direction.  That is why `SearchInit`
starts where the loop is entered and not at an end of the tick line, moving out of it:
there the price is at its limit, the loop's condition fails before the first search, and a
search would report the edge it stands on without having looked at it.

The inductive invariant of the round trip is that the results are those of steps that
succeeded (`Settled`): their price lies in the move, and the amounts are the rounded amounts
of that move.

The inductive invariant of the configurations, `TypeOK /\ SeedsMatch`, says that every pool and
every tier is at the address that its own fields derive.  An account constraint compares a
*field* of the account it is given; with `SeedsMatch` it determines the account.

The inductive invariant of the tokens, `TokenTypeOK /\ AccountsSound /\ BurntWereOpen /\ TokenUnique`,
replaces the count of `OneTokenPerPosition` by: no two accounts hold a token of the same
mint, and one does exactly as long as the supply is 1, the position is open and its holder
has not burnt the token.  The mint's authority is gone, so that no second one can be made.

The inductive invariant of two hops joins those of both pools with what ties their loops
together:

    HopIInv == One!IInv /\ Two!IInv /\ Funds /\ Accepted /\ LoopsServeHops

`LoopsServeHops` is the point of it: the hop that runs first was asked for the amount
specified, and the one that runs second for exactly what the first yields (or takes) at its end.
The first loop has ended then, so that the amount does not change any more.  `Accepted`
keeps what `Begin` checked of the mints and the arrays, `Funds` that the trader has an account
for each mint.

The inductive invariant of the fetcher, `TypeOK /\ ChainHeld /\ CacheHeld /\ \A c \in Calls : CallInv(c)`,
says what an answer is worth while it waits for the others: the n-th answer holds an
account for each key of the n-th chunk, in their order, which the chain has held
between the start of the call and now (`AnswersMatch`); a call asks for exactly what its
values leave undefined, in their order (`AsksForTheRest`); and `refreshAll` asks
for a beginning of the cache's keys (`RefreshesFromFirst`), since keys are only added, at
the end.

The argument.

1. `MathProofs`.  What a quotient rounded down or up is, that products keep
   order and can be cancelled, that the checked operations return a word or `Err`.  Then, in
   each of the four cases (token A or B, paid in or out), the
   price `get_next_sqrt_price` leads to does not pass the target when the amount is
   below what the whole move costs.  The code compares the amount with the rounded
   cost, and rounds the price the other way; each case is an inequality between
   rounded quotients (`AInBetween`, `AOutBetween`, `BInBetween`, `BOutBetween`).
2. The ticks, in the same module.  One array yields a tick within its own bounds and ahead;
   skipping to the next array keeps the starting point within reach of its edge; the
   edge of an array, cut at the end of the tick line, is ahead too.  What an array has
   no initialized tick in, the next array's search begins beyond; so no
   initialized tick is passed.  Then crossing, modifying, growth inside, settling and
   accruing preserve the types, and the arithmetic modulo 2^128: `WrapTerm` and
   its kin let a wrap inside a sum be dropped under the outermost one.
   `GrowthInsideMoves`: when the growth moves and the current tick moves with the ticks it
   crosses flipped, the growth inside a range moves by the same if the range held
   the tick before, and stands still otherwise.
   Last, the amounts of a step: what it charges and pays for a move, against the exact move
   (`StepSettled`, `SettledAmounts`).
3. `StepProofs`.  The search as the loop drives it: each search begins at the tick before, so
   that the sweep's ticks are consecutive (`SweepCrossesAll`); crossing the last tick
   of an array, or a tick inside it, leaves the next search where it can work
   (`PositionAfter`).  The step: the price computed for an amount costs no more than
   that amount (`AInCost`, `InputWithinCalc`), so that the subtractions of the loop never fail;
   an amount rounded up pays for the exact move; and what is paid for part
   of a move is no more than what was charged for all of it
   (`PartOfMoveA`, `PartOfMoveB`), which is why a round trip gains nothing.
4. `WhirlpoolProofs`.  One lemma per group of actions.  `SwapStepStep` is the hard one:
   `StepTarget` combines 2 and the order of the table, so that the target is on the
   right side of the price and within the limit; 1 gives the next price;
   `TickAfterHoldsPrice` goes through the three cases of `TickAfter` (tick reached, price
   moved, price not moved).  Reward order is inductive together with `TypeOK`; that a disabled
   pool stands still needs that no swap runs while it is disabled
   (`SwapEnabledStep`), as the flag cannot change in the middle of one.
5. `WhirlpoolProofs`, the book.  Sums over the positions, which are recursive functions on
   `0 .. NumPositions`: that two functions with equal values have equal sums, that sums
   add, that changing one value changes the sum by the difference, that a sum of
   naturals that is 0 has only zeros.  From these, moving the current tick over a tick
   changes the sum of the ranges in use by that tick's net liquidity, and by
   nothing when it moves between two neighbouring initialized ticks.  Each
   instruction then keeps the book: an iteration of a swap (`SwapStepKeepsBook`), and a change of
   liquidity, which writes both ticks, the position and the pool in one step
   (`ModifyKeepsBook`).  In `AccountingProofs`, `FeesReachRangesInUse` is `GrowthInsideMoves` for a position with
   liquidity, whose ticks the book says are initialized and are flipped exactly
   when they are crossed.
6. `AccountingProofs`, the rewards.  An instruction accrues first and acts then.  Accruing raises what a
   position in range is due by its liquidity times the growth, and the sum over the positions
   by no more than the seconds emit (`AccruedGrowth`, `DuesAccrue`).  What it does then must
   raise what nobody is due (`CoversWhenNoneDueMore`): a settled position is owed no
   more than it was due (`SettledDue`, which holds also where the product overflows and
   the code credits 0); a tick that is initialized takes the growth outside that an
   uninitialized one stands for, so that the other positions of that tick are not
   touched (`TickContinues`); a reward that is initialized has no growth
   anywhere (`InitializationKeeps`).  A swap writes the future growth into the ticks
   it crosses, and each iteration keeps the growth inside (`InsideOfIteration`, from
   `GrowthInsideMoves`), so that its commit is an accrual (`EmissionEnd`) and
   its failure leaves nothing.
7. `AccountingProofs`, solvency.  An amount of the program times its weight is the exact
   amount, rounded in the pool's favour (`RangeWorth`).  A change of liquidity settles its
   position, which is due no more afterwards (`ModifySettles`, `SettledFees`), and pays for
   what it adds to the claims (`PaidForChange`).  An iteration of a swap changes the claims by the
   pool's liquidity times the move (`ClaimsAcross`; crossing a tick changes nothing at
   the price of that tick, `HeldAcross`), and what the trader pays and receives covers that
   (`MoveA`, `MoveB`, `PaidForMove`).  Its fee raises what the positions in use are due by no more
   than the fee without the protocol's share (`GrowthOfFee`, `FeeDuesOfIteration`).
   `CoveredIsSolvent` leads back from the exact amounts to the rounded ones.
8. `AccountingProofs`, forfeits.  What a position is owed is a u64 that wraps, and a product that
   overflows counts as 0 (`position_manager.rs:23`).  By solvency what a
   position is due, computed exactly, is a word (`FeesFit`), so that the product does not overflow
   (`EarnedExactly`) and settling moves it whole from earned to owed
   (`SettlingKeepsFees`); no instruction on another position touches it
   (`FeesUnchanged`).  Each iteration of a swap keeps `DuesRise` (`RiseOfIteration`): growth
   raises what is due unless it wraps past it (`DueOfRises`), and all that is due is covered
   by what the vault will hold (`SwapDueCovered`).  The commit then raises what can be
   collected (`CommitKeepsFees`), and collecting lowers it by what is paid (`StepKeepsFees`).
9. `LiquidityProofs`.  Three lemmas on the growth inside a range carry
   the proof: with both ticks initialized it moves with the pool's growth inside the range
   and stands still outside (`GrowthSinceCheckpoint`); crossing a tick, which flips the
   growth outside of it and the side the price is on, does not change it
   (`GrowthInsideAcrossLower`, `...Upper`); initializing a tick does not either
   (`GrowthInsideAtInitialization`), which is why checkpoints taken just before are good.
   Each kind of step then maps to a step of `RangeAccounting`, or to a stutter when it
   concerns the other accumulators (`FeesStep`, `RewardsStep`).
10. `AccessProofs`.  An instruction on a pool is an edit of it by the signer
   (`PoolEditPermitted`); one lemma per instruction shows that its constraints permit it, and
   one lemma that permitted edits make safe steps.  For the tokens, one lemma per
   instruction of the program and of the token program (`OpenedKeeps`, `BurnKeeps`,
   `TransferKeeps`, ...).
11. `TwoHopProofs`.  The pools are instances of `WhirlpoolProofs`, whose lemmas about
   one pool are cited of each: a two-hop swap
   starts a loop of each pool, runs it, ends it or leaves it alone (`OneStarts`, `OneRuns`,
   `OneEnds`, `OneUntouched`, and the same of the second).  The trader's balances move once,
   in `Commit`, by the amounts of both swaps (`CommittedBalances`); what these are follows from
   `LoopsServeHops`, the swaps' own limits, and the checks of the handler (`CommittedAmounts`).  The
   input and the intermediate token differ, and so do the intermediate and the output
   token (`HopMints`), but input and output may be one, which both moves then concern.
   A hop's loop has the direction and the limit of its own hop (`LoopsServeHops`) and is
   within them because its pool's `IInv` says so (`LoopsWithinLimits`); prices change only
   in `Commit`, to what the loops have reached (`PricesMove`).
12. `FetcherProofs`.  The loops of the code are recursive functions over a prefix of the
   naturals.  What they yield (the keys cached anew, the undefined values, the joined
   responses) is proved by induction on that prefix, for which
   the least counterexample of a well-founded order stands in (`CountTo`).  The arithmetic is that of
   chunks: that the responses, joined, hold what was asked for in its order, whatever the
   size of a chunk and of the last one.

Model-checked only:

* `PricesConvertExactly`, `NeighboursInProportion` (about 128-bit constants), `AsAsserted` (the
  numbers of the unit tests): facts about given numbers, which TLC evaluates.
* `ArithmeticExact`, `DivisionExact`, `LoopInvariant` of `U256Division`: words are digits to a base
  `2 ^ WORD_BITS`, and the provers have no theory of powers; what a carry does is
  induction over the words besides.
* `RewardsNeverForfeited`: the proof for the fees rests on solvency, which rewards do not have,
  as their vaults may be short.
* `SwapTerminates`: liveness.

## 7. What is not modelled

* The SDK's quotes (`sdk/src/quotes`).  They repeat the program's loop in TypeScript on cached
  accounts; a model of them is a second model of the loop.  Their hazard has no
  property: a quote does not stop at the boundary of an array.
* The SDK's client, instruction builders and composites: they assemble account lists and
  call wallet and RPC libraries.
* The SDK's parsing, other than to null, the rent-exempt minimum, and accounts that are closed.
* Instances of the program beside its accounts: compute limits, rent, account sizes, logs.
* Token metadata (an external program) but for its being made; deployment scripts,
  migrations, the generated IDL and HTML.

## 8. Plan

Done: the arithmetic, 256-bit words and ticks' prices; step and search; the updates, with
the abstract accounting and the unit tests; the pool with its swap loop; two hops;
configurations and roles; position tokens; the SDK's cache; and the proofs of section 6.

In order of importance, what is left:

1. The quoted swap of the SDK against the loop of the program, on the same pool.
