------------------------------ MODULE MCSwapStep ------------------------------
(***************************************************************************)
(* The parts of an iteration of the swap loop, each by itself: how far a   *)
(* step goes and what it costs (SwapRoundTrip) and which tick it heads for *)
(* (TickSearch), over all inputs of a small machine, and the price of that *)
(* tick (TickMath), at full width.  A behaviour is one of one of them;     *)
(* they share nothing, so that taking their steps in turn would show       *)
(* nothing more.                                                           *)
(*                                                                         *)
(* TickMath walks across 0, across each power of two and its negative,     *)
(* where every factor used so far gives way to the next, across ticks      *)
(* whose bits alternate, and along the last ticks at either end.           *)
(***************************************************************************)
EXTENDS SwapRoundTrip, TickSearch

CONSTANTS
  (* of TickMath *)
  WORD_BITS, NUM_WORDS, Windows,
  (* bounds: the powers of two and the other ticks that are walked across,    *)
  (* and how far a walk reaches on either side                                *)
  Bits, Mixed, Reach

VARIABLES part, price_tick, sqrt_price, found, below

pricevars == <<price_tick, sqrt_price, found, below>>

Prices64 == INSTANCE TickMath WITH tick <- price_tick

\* Eleven ticks; tick 0 has the price 1 (= TO_Q64 = 16).
MCSqrtPrice ==
  [t \in -5 .. 5 |-> CASE t = -5 -> 4  [] t = -4 -> 5  [] t = -3 -> 7  [] t = -2 -> 9
                       [] t = -1 -> 12 [] t = 0 -> 16  [] t = 1 -> 21  [] t = 2 -> 28
                       [] t = 3 -> 37  [] t = 4 -> 49  [] t = 5 -> 64]

MCPrices == {4, 7, 10, 16, 17, 28, 33, 49, 64}

MCMinTick == -5
MCMaxTick == 5

Crossed == {2 ^ k : k \in Bits} \cup Mixed

\* TickMath's MAX_TICK; the first tick is its negative.
LastTick == 443636

MCWindows ==
  {<<t - Reach, t + Reach>> : t \in Crossed \cup {-c : c \in Crossed} \cup {0}}
  \cup {<<-LastTick, -LastTick + Reach>>, <<LastTick - Reach, LastTick>>}

NoStep == request = None /\ result = None /\ back = None

NoSearch ==
  /\ initialized = {} /\ arrays = <<0>> /\ a_to_b = TRUE
  /\ from = 0 /\ tick = 0 /\ array_index = 1 /\ swept = {} /\ status = "none"

NoPrices == price_tick = 0 /\ sqrt_price = Prices64!Zero /\ found = 0 /\ below = -1

MCInit ==
  \/ part = "step" /\ Init /\ NoSearch /\ NoPrices
  \/ part = "search" /\ NoStep /\ SearchInit /\ NoPrices
  \/ part = "prices" /\ NoStep /\ NoSearch /\ Prices64!Init

StepPart   == part = "step" /\ Next /\ UNCHANGED <<part, searchvars, pricevars>>
SearchPart == part = "search" /\ SearchNext /\ UNCHANGED <<part, vars, pricevars>>
PricesPart == part = "prices" /\ Prices64!Next /\ UNCHANGED <<part, vars, searchvars>>

MCSpec ==
  MCInit /\ [][StepPart \/ SearchPart \/ PricesPart]_<<part, vars, searchvars, pricevars>>

\* The price of a tick leads back to it, one less to the tick before, and the
\* prices are those the tests know (tick_math.rs:37, 98, 455).
PricesConvertExactly == part = "prices" => Prices64!ConversionsExact

\* Prices increase, and neighbours are sqrt(1.0001) apart to 32 bits
\* (tick_math.rs:103-267).
NeighboursInProportion == Prices64!NeighboursInProportion
=============================================================================
