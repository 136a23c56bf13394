------------------------------ MODULE PrePrice ------------------------------
(***************************************************************************)
(* The price of a pre order of Auto-M (auto_m.py, gate G6).  The value that*)
(* guarantees the set's spread is fitted to the grid of the set's unit, a  *)
(* value that crosses the market is taken back to where the order rests,   *)
(* and the price must fit the market's tick and the allowed range.  Then an*)
(* order is placed, kept, or cancelled and placed again.  Prices are whole *)
(* numbers of a small unit; `first` is the side that is ordered first.     *)
(***************************************************************************)
EXTENDS Integers

CONSTANTS
  Touches, Raws,          \* the best opposite quotes and the values before fitting
  Units, Offsets, Nths,   \* settings: grid unit and its first price, which quote counts
  RangePct,               \* pre_range, percent
  Edge, TickBelow, TickAbove,  \* two price bands of the LS market (ticks.py)
  Step                    \* one step of Hyperliquid's grid

ASSUME PriceAssumption ==
  /\ Touches \cup Raws \subseteq Nat /\ Units \subseteq Nat \ {0} /\ Offsets \subseteq Nat
  /\ Nths \subseteq Nat \ {0} /\ TickBelow \in Nat \ {0} /\ TickAbove \in Nat \ {0}
  /\ Step \in Nat \ {0} /\ RangePct \in Nat /\ Edge \in Nat

VARIABLES
  first, side, gridUnit, gridBase, nth,  \* the set and its settings
  raw, touch,                      \* the market as it stands
  order,                           \* pre_price of the order at work, or Unpriced
  leaving                          \* cancel_sent or replace_pending

priceSet == <<first, side, gridUnit, gridBase, nth>>
preVars == <<first, side, gridUnit, gridBase, nth, raw, touch, order, leaving>>

Unpriced == 0

(* ticks.tick_for, and the number of won a quote stands from the next.     *)
TickFor(p) == IF p < Edge THEN TickBelow ELSE TickAbove
Quoted(p) == IF first = "ls" THEN TickFor(p) ELSE Step
Away(p, d) == IF side = "buy" THEN p - d ELSE p + d

(* Mutant: the grid is fitted to the nearest price.                        *)
SnapNearest(p) == ((p - gridBase + gridUnit \div 2) \div gridUnit) * gridUnit + gridBase

(* snap_to_unit, hl_snap_to_unit: bought lower, sold higher.               *)
Snap(p) == IF side = "buy" THEN ((p - gridBase) \div gridUnit) * gridUnit + gridBase
           ELSE -((gridBase - p) \div gridUnit) * gridUnit + gridBase

(* rel_quote_by_tick (LS: only the best quote is known) and rel_quote.     *)
Rel == IF side = "buy" THEN touch + (nth - 1) * Quoted(touch)
       ELSE touch - (nth - 1) * Quoted(touch)

(* range_start and limit_price; the tick is that of the quote, on          *)
(* Hyperliquid the set's unit.                                             *)
RangeStart == Away(Rel, IF first = "ls" THEN TickFor(Rel) ELSE gridUnit)
WithinLimit(p) == IF side = "buy" THEN 100 * p >= RangeStart * (100 - RangePct)
                  ELSE 100 * p <= RangeStart * (100 + RangePct)

(* maker_start (LS).                                                       *)
MakerStart(p) ==
  IF (side = "sell" /\ p < RangeStart) \/ (side = "buy" /\ p > RangeStart)
  THEN Snap(RangeStart) ELSE p

(* The order must not meet the market (Hyperliquid refuses it).            *)
AloStep(p) ==
  IF (side = "sell" /\ p <= touch) \/ (side = "buy" /\ p >= touch)
  THEN Away(touch, Step) ELSE p

Price == IF first = "ls" THEN MakerStart(Snap(raw)) ELSE AloStep(Snap(raw))

(* The price suits the market's tick; the unit and the offset suit the grid*)
(* (hl_unit_errors).                                                       *)
Fits == IF first = "ls" THEN Price % TickFor(Rel) = 0
        ELSE gridUnit % Step = 0 /\ gridBase % Step = 0 /\ gridBase < gridUnit

PriceInit ==
  /\ first \in {"ls", "hl"} /\ side \in {"buy", "sell"} /\ nth \in Nths
  /\ gridUnit \in Units /\ gridBase \in {o \in Offsets : o < gridUnit}
  /\ raw \in Raws /\ touch \in {t \in Touches : t % Quoted(t) = 0}
  /\ order = Unpriced /\ leaving = FALSE

(* evaluate after the gates: what to do about the order.                   *)
PlaceAtPrice ==
  /\ Fits /\ WithinLimit(Price) /\ order = Unpriced /\ order' = Price
  /\ UNCHANGED <<leaving, raw, touch>> /\ UNCHANGED priceSet

CancelAtPrice ==
  /\ order # Unpriced /\ ~leaving
  /\ ~(Fits /\ WithinLimit(Price)) \/ order # Price
  /\ leaving' = TRUE
  /\ UNCHANGED <<order, raw, touch>> /\ UNCHANGED priceSet

(* The cancel is confirmed, or the order filled before.                    *)
OrderGone ==
  /\ order # Unpriced /\ order' = Unpriced /\ leaving' = FALSE
  /\ UNCHANGED <<raw, touch>> /\ UNCHANGED priceSet

MarketMoves ==
  /\ raw' \in Raws /\ touch' \in {t \in Touches : t % Quoted(t) = 0}
  /\ UNCHANGED <<order, leaving>> /\ UNCHANGED priceSet

(* The user changes the set while it works (autom_set).                    *)
SetGrid ==
  /\ gridUnit' \in Units /\ gridBase' \in {o \in Offsets : o < gridUnit'}
  /\ UNCHANGED <<first, side, nth, raw, touch, order, leaving>>

PriceNext == PlaceAtPrice \/ CancelAtPrice \/ OrderGone \/ MarketMoves \/ SetGrid

PriceSpec == PriceInit /\ [][PriceNext]_preVars

PlacedNow == order = Unpriced /\ order' # Unpriced
Better(p, q) == IF side = "buy" THEN p <= q ELSE p >= q

-----------------------------------------------------------------------------
(* However the value, the grid and the quotes lie, an order that is placed *)
(* guarantees the spread (it is no worse than the value before fitting) and*)
(* does not take: it rests on its side of the best opposite quote, unless  *)
(* the user lets the order go in to a further quote (maker_start, ALO).    *)
PlacedKeepsTheSpread ==
  [][PlacedNow => Better(order', raw) /\ (nth = 1 \/ first = "hl" => Better(order', touch)
                                                    /\ order' # touch)]_preVars
=============================================================================
