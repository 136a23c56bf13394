------------------------------ MODULE StockPrice ------------------------------
(***************************************************************************)
(* The current price of one stock (gateways/ls_ws.py, bootstrap.py): it is *)
(* weighed from the best quotes of the unified book.  In an auction, a halt*)
(* or a volatility interruption (VI) of the stock the quotes are those of a *)
(* single price, and the price is the last one from before.  Quotes, trades *)
(* and the messages that say that such a pause begins or ends come one     *)
(* after another by the same connection.                                   *)
(***************************************************************************)
EXTENDS Naturals, Sequences

CONSTANTS MaxQuotes, MaxPauses, MaxWire   \* quotes and trades sent, pauses, the line

VARIABLES
  auction, vi,   \* the exchange: single price by the market, by a VI of the stock
  line,          \* frames under way
  quotes,        \* quotes of the stock by market, each a frame or NoQuote
  trades,        \* the last trade by market, 0 for none
  expected,      \* expected_prices
  phase, viState,\* what was heard of the market and of the VI
  before,        \* _stock_last_before_pause
  seed,          \* the first query of the price: "asked", "done"
  framesSent           \* [frames, pauses]

priceVars == <<auction, vi, line, quotes, trades, expected, phase, viState, before, seed, framesSent>>

QuoteMarkets == {"uni", "krx", "nxt"}
NoQuote == [k |-> "none"]
NoPrice == [value |-> 0, single |-> FALSE]

StockPriceInit ==
  /\ auction = FALSE /\ vi = FALSE /\ line = <<>>
  /\ quotes = [m \in QuoteMarkets |-> NoQuote] /\ trades = [m \in QuoteMarkets |-> 0]
  /\ expected = 0 /\ phase = "open" /\ viState = FALSE
  /\ before = NoPrice /\ seed = "asked" /\ framesSent = [frames |-> 0, pauses |-> 0]

-----------------------------------------------------------------------------
(* The exchange.  A quote has a side or none (bid 1, ask 2), the markets    *)
(* that have quantity on both sides, and whether it was made by a single    *)
(* price.                                                                   *)
SendFrame(f) ==
  /\ framesSent.frames < MaxQuotes /\ Len(line) < MaxWire
  /\ line' = Append(line, f)
  /\ framesSent' = [framesSent EXCEPT !.frames = @ + 1]
  /\ UNCHANGED <<auction, vi, quotes, trades, expected, phase, viState, before, seed>>

SendQuote(b, a, in) ==
  SendFrame([k |-> "quote", bid |-> b, ask |-> a, in |-> in, single |-> auction \/ vi])

SendTrade(name, p) == SendFrame([k |-> "trade", exch |-> name, price |-> p])
SendExpected(p) == auction /\ SendFrame([k |-> "expected", price |-> p])

TurnAuction ==
  /\ Len(line) < MaxWire /\ (auction \/ framesSent.pauses < MaxPauses)
  /\ auction' = ~auction
  /\ line' = Append(line, [k |-> "jif", to |-> IF auction THEN "open" ELSE "auction"])
  /\ framesSent' = [framesSent EXCEPT !.pauses = IF auction THEN @ ELSE @ + 1]
  /\ UNCHANGED <<vi, quotes, trades, expected, phase, viState, before, seed>>

TurnVi ==
  /\ Len(line) < MaxWire /\ (vi \/ framesSent.pauses < MaxPauses)
  /\ vi' = ~vi
  /\ line' = Append(line, [k |-> "vi", active |-> ~vi])
  /\ framesSent' = [framesSent EXCEPT !.pauses = IF vi THEN @ ELSE @ + 1]
  /\ UNCHANGED <<auction, quotes, trades, expected, phase, viState, before, seed>>

-----------------------------------------------------------------------------
(* _stock_paused *)
Paused == phase = "auction" \/ viState

(* quote_price: neither side, one side, or both weighed.                   *)
QuotePrice(f) == [value |-> f.bid + f.ask, single |-> f.single]

(* _note_stock_last *)
NoteStockLast(f) == IF Paused \/ QuotePrice(f).value = 0 THEN before ELSE QuotePrice(f)

(* stock_last: the value, and what it leaves as the one to keep.           *)
StockLast ==
  IF Paused THEN before
  ELSE IF quotes["uni"] = NoQuote \/ QuotePrice(quotes["uni"]).value = 0 THEN NoPrice
  ELSE QuotePrice(quotes["uni"])

Next1 == Head(line)

(* _parse_unified_quotes and fan_quote: a market without quantity on both  *)
(* sides keeps the quote it had; the unified one may have one side only.   *)
HearQuote ==
  /\ line # <<>> /\ Next1.k = "quote" /\ line' = Tail(line)
  /\ quotes' = [m \in QuoteMarkets |->
       IF m \in Next1.in \/ (m = "uni" /\ Next1.bid + Next1.ask > 0) THEN Next1
       ELSE quotes[m]]
  /\ before' = IF Next1.bid + Next1.ask > 0 THEN NoteStockLast(Next1) ELSE before
  /\ UNCHANGED <<auction, vi, trades, expected, phase, viState, seed, framesSent>>

(* _market_of_exchname *)
MarketOf(name) == IF name \in {"krx", "nxt"} THEN name ELSE "uni"

(* _parse_trade and fan_trade: the unified trade is the last of any.       *)
HearTrade ==
  /\ line # <<>> /\ Next1.k = "trade" /\ line' = Tail(line)
  /\ trades' = [trades EXCEPT ![MarketOf(Next1.exch)] = Next1.price, !["uni"] = Next1.price]
  /\ UNCHANGED <<auction, vi, quotes, expected, phase, viState, before, seed, framesSent>>

HearExpected ==
  /\ line # <<>> /\ Next1.k = "expected" /\ line' = Tail(line)
  /\ expected' = Next1.price
  /\ UNCHANGED <<auction, vi, quotes, trades, phase, viState, before, seed, framesSent>>

HearJif ==
  /\ line # <<>> /\ Next1.k = "jif" /\ line' = Tail(line)
  /\ phase' = Next1.to
  /\ UNCHANGED <<auction, vi, quotes, trades, expected, viState, before, seed, framesSent>>

(* _parse_vi and _on_vi *)
HearVi ==
  /\ line # <<>> /\ Next1.k = "vi" /\ line' = Tail(line)
  /\ viState' = Next1.active
  /\ UNCHANGED <<auction, vi, quotes, trades, expected, phase, before, seed, framesSent>>

(* A judgement reads the price; out of a pause what it reads is kept.      *)
ReadLast ==
  /\ before' = IF Paused \/ StockLast = NoPrice THEN before ELSE StockLast
  /\ UNCHANGED <<auction, vi, line, quotes, trades, expected, phase, viState, seed, framesSent>>

(* _seed_prices: the price of the query, where nothing came yet.           *)
SeedPrices(p) ==
  /\ seed = "asked" /\ seed' = "done"
  /\ before' = IF before = NoPrice THEN [value |-> p, single |-> FALSE] ELSE before
  /\ trades' = [trades EXCEPT !["krx"] = IF @ = 0 THEN p ELSE @]
  /\ UNCHANGED <<auction, vi, line, quotes, expected, phase, viState, framesSent>>

StockPriceNext ==
  \/ \E b \in {0, 1}, a \in {0, 2}, in \in SUBSET {"krx", "nxt"} :
       (b + a < 3 => in = {}) /\ SendQuote(b, a, in)
  \/ \E name \in {"krx", "nxt", "other"} : SendTrade(name, 3)
  \/ SendExpected(3) \/ SeedPrices(3) \/ TurnAuction \/ TurnVi
  \/ HearQuote \/ HearTrade \/ HearExpected \/ HearJif \/ HearVi \/ ReadLast

StockPriceSpec == StockPriceInit /\ [][StockPriceNext]_priceVars

-----------------------------------------------------------------------------
(* While a pause lasts the price stands still: no quote, trade, VI inside  *)
(* an auction or end of one of two pauses moves it (stock_last,            *)
(* _note_stock_last).                                                      *)
PauseHoldsPrice ==
  [][Paused /\ Paused' /\ before # NoPrice => StockLast' = StockLast]_priceVars
=============================================================================
