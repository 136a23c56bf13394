------------------------------ MODULE Placing -------------------------------
(***************************************************************************)
(* Orders as the wiring places them (bootstrap.py): the limits that every  *)
(* order for Hyperliquid passes, and the placing, amending and cancelling  *)
(* of domestic orders.  The two share no state.                            *)
(***************************************************************************)
EXTENDS Naturals, Sequences

(***************************************************************************)
(* Hyperliquid's limits (limits.py; place, place_many): the amount of one  *)
(* day's fills, the size of an order and its distance from the oracle.     *)
(* The day's amount counts the fills that were reported, not the orders at *)
(* work; within one request the orders before are counted with it.         *)
(*                                                                         *)
(* An order is weighed at its limit price, or at the mark if it has none   *)
(* (_hl_order_notional), and a fill counts at the price it was made at     *)
(* (_accumulate_hl_fill): a lot is weighed as 1, and as nothing in a       *)
(* market order while no mark was received; what a fill counts is open.    *)
(* "near", "far" say on which side of the band about the oracle the limit  *)
(* price lies, "market" is an order without one.                           *)
(***************************************************************************)
CONSTANTS DayLimit,   \* HL daily limit, 0: none
          SizeLimit,  \* an order this large or larger is refused, 0: none
          Sizes,      \* contracts of an order
          FillAmounts, \* what the fills of one report can come to
          MaxHlSent,  \* bound: orders sent
          MaxMidnights \* bound: midnights

ASSUME HlLimitAssumption ==
  /\ {DayLimit, SizeLimit, MaxHlSent, MaxMidnights} \subseteq Nat
  /\ Sizes \subseteq Nat /\ FillAmounts \subseteq Nat

VARIABLES
  total,   \* _hl_filled: the amount of the day
  work,    \* work[i]: what order i can still fill
  untold,  \* untold[i]: filled, not reported yet
  nsent,   \* orders sent
  unpriced, \* orders that were weighed as nothing
  band,    \* hl_price_limit_pct > 0: a band about the oracle is set
  oracle,  \* mark and oracle prices were received
  nights,  \* midnights
  slip,    \* history: what the fills of the last request came to beyond what they weighed
  shared   \* history: an order was sent while another could still fill

hlLimitVars == <<total, work, untold, nsent, unpriced, band, oracle, nights, slip, shared>>

SentToday == 1 .. MaxHlSent
HlPrices == {"near", "far", "market"}

HlLimitInit ==
  /\ total = 0 /\ nsent = 0 /\ oracle = FALSE /\ nights = 0 /\ shared = FALSE
  /\ unpriced = {} /\ slip = 0 /\ band \in BOOLEAN
  /\ work = [i \in SentToday |-> 0] /\ untold = [i \in SentToday |-> 0]

(* _hl_order_notional                                                      *)
Blind(order) == order.price = "market" /\ ~oracle
Weighs(order) == IF Blind(order) THEN 0 ELSE order.qty

(* would_exceed_daily_limit, qty_limit_error, price_limit_error: the last  *)
(* one, where a band is set, refuses what it cannot check.  The mark that  *)
(* stands for the price of a market order is taken to lie in the band.     *)
WouldExceed(had, amount) == DayLimit > 0 /\ had + amount > DayLimit
TooLarge(q) == SizeLimit > 0 /\ q >= SizeLimit
OffBand(price) == band /\ (~oracle \/ price = "far")

(* Mutant: each order of a request is checked on its own.                  *)
PassAlone(orders) ==
  LET Pass[i \in 0 .. Len(orders)] ==
        IF i = 0 THEN <<>>
        ELSE IF WouldExceed(total, Weighs(orders[i])) \/ TooLarge(orders[i].qty)
                  \/ OffBand(orders[i].price)
          THEN Pass[i - 1] ELSE Append(Pass[i - 1], orders[i])
  IN Pass[Len(orders)]

(* place_many: the orders of a request that go out, each checked with what *)
(* was queued before it.                                                   *)
Queue(had, order) ==
  IF \/ WouldExceed(total + had.queued, Weighs(order))
     \/ TooLarge(order.qty) \/ OffBand(order.price)
    THEN had
  ELSE [out |-> Append(had.out, order), queued |-> had.queued + Weighs(order)]

PassMany(orders) ==
  LET Pass[i \in 0 .. Len(orders)] ==
        IF i = 0 THEN [out |-> <<>>, queued |-> 0] ELSE Queue(Pass[i - 1], orders[i])
  IN Pass[Len(orders)].out

Working == \E i \in SentToday : work[i] + untold[i] > 0

(* place, place_many: one request of one or two orders.                    *)
PlaceRequest(orders) ==
  LET out == PassMany(orders)
      new == nsent + 1 .. nsent + Len(out)
  IN /\ nsent < MaxHlSent /\ out # <<>> /\ nsent + Len(out) <= MaxHlSent
     /\ nsent' = nsent + Len(out)
     /\ work' = [i \in SentToday |-> IF i \in new THEN out[i - nsent].qty ELSE work[i]]
     /\ unpriced' = {i \in SentToday : IF i \in new THEN Blind(out[i - nsent]) ELSE i \in unpriced}
     /\ slip' = 0
     /\ shared' = (shared \/ Working)
     /\ UNCHANGED <<total, untold, band, oracle, nights>>

HlFillsLot(i) ==
  /\ work[i] > 0
  /\ work' = [work EXCEPT ![i] = @ - 1]
  /\ untold' = [untold EXCEPT ![i] = @ + 1]
  /\ UNCHANGED <<total, nsent, unpriced, band, oracle, nights, slip, shared>>

HlOrderEnds(i) ==
  /\ work[i] > 0
  /\ work' = [work EXCEPT ![i] = 0]
  /\ UNCHANGED <<total, untold, nsent, unpriced, band, oracle, nights, slip, shared>>

(* _accumulate_hl_fill: as the order book applies the report, at the price *)
(* the lots were filled at.                                                *)
AccumulateHlFill(i, amount) ==
  LET weighed == IF i \in unpriced THEN 0 ELSE untold[i] IN
  /\ untold[i] > 0
  /\ untold' = [untold EXCEPT ![i] = 0]
  /\ total' = total + amount
  /\ slip' = IF amount > weighed THEN slip + (amount - weighed) ELSE slip
  /\ UNCHANGED <<work, nsent, unpriced, band, oracle, nights, shared>>

(* DailyFilled: a new day starts from nothing.                             *)
MidnightReset ==
  /\ nights < MaxMidnights
  /\ nights' = nights + 1
  /\ total' = 0 /\ slip' = 0 /\ shared' = Working
  /\ UNCHANGED <<work, untold, nsent, unpriced, band, oracle>>

OracleCtx ==
  /\ ~oracle /\ oracle' = TRUE
  /\ UNCHANGED <<total, work, untold, nsent, unpriced, band, nights, slip, shared>>

(* set_hl_risk_limits: the settings are saved.                             *)
SetRiskLimits ==
  /\ band' = ~band
  /\ UNCHANGED <<total, work, untold, nsent, unpriced, oracle, nights, slip, shared>>

HlLimitNext ==
  \/ \E q \in Sizes, p \in HlPrices :
       \/ PlaceRequest(<<[qty |-> q, price |-> p]>>)
       \/ \E r \in Sizes, o \in HlPrices :
            PlaceRequest(<<[qty |-> q, price |-> p], [qty |-> r, price |-> o]>>)
  \/ \E i \in SentToday :
       \/ HlFillsLot(i) \/ HlOrderEnds(i)
       \/ \E amount \in FillAmounts : AccumulateHlFill(i, amount)
  \/ MidnightReset \/ OracleCtx \/ SetRiskLimits

HlLimitSpec == HlLimitInit /\ [][HlLimitNext]_hlLimitVars

-----------------------------------------------------------------------------
(* The fills of a day pass the limit by no more than what those of the     *)
(* last request, of however many orders, came to beyond what they were     *)
(* weighed as: the worse prices of the requests before it are in the total *)
(* that it was weighed with, and do not add up.  Unless two requests were  *)
(* at work at once: what is at work and not filled is not counted          *)
(* (would_exceed_daily_limit, place_many).                                 *)
DayWithinLimit == DayLimit > 0 /\ ~shared => total <= DayLimit + slip

-----------------------------------------------------------------------------
(***************************************************************************)
(* Domestic orders (place, amend_price, cancel).  An amend gives the order *)
(* a new number; amends and cancels name a quantity, and the broker        *)
(* refuses one that is more than the order has left.  A request is         *)
(* answered on one connection, the notices come on another, in order: what *)
(* comes for a number before its answer is kept and replayed when the      *)
(* order is registered.                                                    *)
(***************************************************************************)
CONSTANTS MaxNumbers, \* bound: order numbers given out
          OrderSize,  \* quantity of a new order
          Clients     \* bound: requests at a time

ASSUME DomesticAssumption == MaxNumbers \in Nat /\ OrderSize \in Nat

VARIABLES
  real,   \* the broker's orders: what each has left
  given,  \* numbers given out
  book,   \* the order book: what each order has left, as far as it knows
  seen,   \* numbers the book has registered
  news,   \* notices on their way
  heardEarly,  \* heardEarly[n]: the quantity of the notices kept for n
  req,    \* the requests
  mute    \* history: a request was never answered

domesticVars == <<real, given, book, seen, news, heardEarly, req, mute>>

Numbers == 1 .. MaxNumbers
NoRequest == [op |-> "none", of |-> 0, qty |-> 0, new |-> 0]

DoInit ==
  /\ real = [n \in Numbers |-> 0] /\ given = 0
  /\ book = [n \in Numbers |-> 0] /\ seen = {}
  /\ news = <<>> /\ heardEarly = [n \in Numbers |-> 0]
  /\ req = [c \in Clients |-> NoRequest] /\ mute = FALSE

-----------------------------------------------------------------------------
(* The requests: the quantity is what the book has left when it is sent.   *)

AskBrokerFor(c, op, n, q) ==
  /\ req[c].op = "none"
  /\ req' = [req EXCEPT ![c] = [op |-> op, of |-> n, qty |-> q, new |-> 0]]
  /\ UNCHANGED <<real, given, book, seen, news, heardEarly, mute>>

AskPlace(c) == AskBrokerFor(c, "place", 0, OrderSize)
AskAmend(c, n) == n \in seen /\ book[n] > 0 /\ AskBrokerFor(c, "amend", n, book[n])
AskCancel(c, n) == n \in seen /\ book[n] > 0 /\ AskBrokerFor(c, "cancel", n, book[n])

GoneAtBroker(n, q) == [of |-> n, qty |-> q]

TellOf(op) == CASE op = "place" -> "tell place" [] op = "amend" -> "tell amend" [] op = "cancel" -> "done"

(* The broker takes the request, or refuses it.                            *)
BrokerTakes(c) ==
  LET r == req[c]
      m == given + 1
  IN /\ r.op \in {"place", "amend", "cancel"}
     /\ r.op # "place" => r.qty <= real[r.of]
     /\ r.op # "cancel" => m \in Numbers
     /\ given' = IF r.op = "cancel" THEN given ELSE m
     /\ real' = [n \in Numbers |->
          IF n = r.of THEN real[n] - r.qty
          ELSE IF n = m /\ r.op # "cancel" THEN r.qty ELSE real[n]]
     /\ news' = IF r.op = "place" THEN news ELSE Append(news, GoneAtBroker(r.of, r.qty))
     /\ req' = [req EXCEPT ![c].op = TellOf(@),
                           ![c].new = IF r.op = "cancel" THEN 0 ELSE m]
     /\ UNCHANGED <<book, seen, heardEarly, mute>>

BrokerRefuses(c) ==
  /\ req[c].op \in {"place", "amend", "cancel"}
  /\ req' = [req EXCEPT ![c] = NoRequest]
  /\ UNCHANGED <<real, given, book, seen, news, heardEarly, mute>>

BrokerFillsOne(n) ==
  /\ real[n] > 0
  /\ real' = [real EXCEPT ![n] = @ - 1]
  /\ news' = Append(news, GoneAtBroker(n, 1))
  /\ UNCHANGED <<given, book, seen, heardEarly, req, mute>>

-----------------------------------------------------------------------------
Less(m, n) == IF n > m THEN 0 ELSE m - n

(* Mutant: the order is registered, what came before is not replayed.      *)
RegisteredOnly(n, q) == q

(* track, replay_pending: what the book has left of an order it registers. *)
Registered(n, q) == Less(q, heardEarly[n])

(* The answer of a placement, or of an amend: the order it replaced is     *)
(* closed in the book at once, whether or not its notice has come.         *)
TheAnswer(c) ==
  LET r == req[c] IN
  /\ r.op \in {"tell place", "tell amend", "done"}
  /\ IF r.op = "done" THEN UNCHANGED <<book, seen, heardEarly>>
     ELSE /\ seen' = seen \cup {r.new}
          /\ heardEarly' = [heardEarly EXCEPT ![r.new] = 0]
          /\ book' = [n \in Numbers |->
               IF n = r.new THEN Registered(n, r.qty)
               ELSE IF n = r.of THEN 0 ELSE book[n]]
  /\ req' = [req EXCEPT ![c] = NoRequest]
  /\ UNCHANGED <<real, given, news, mute>>

(* Nobody learns the number: until the next resynchronisation the book     *)
(* knows nothing of the order.                                             *)
NoAnswer(c) ==
  /\ req[c].op # "none"
  /\ req[c].op \in {"tell place", "tell amend"} => ~mute
  /\ mute' = (mute \/ req[c].op \in {"tell place", "tell amend"})
  /\ req' = [req EXCEPT ![c] = NoRequest]
  /\ UNCHANGED <<real, given, book, seen, news, heardEarly>>

HearNews ==
  /\ news # <<>>
  /\ LET e == Head(news) IN
     IF e.of \in seen
       THEN book' = [book EXCEPT ![e.of] = Less(@, e.qty)] /\ UNCHANGED heardEarly
       ELSE heardEarly' = [heardEarly EXCEPT ![e.of] = @ + e.qty] /\ UNCHANGED book
  /\ news' = Tail(news)
  /\ UNCHANGED <<real, given, seen, req, mute>>

DoNext ==
  \/ \E c \in Clients :
       \/ AskPlace(c) \/ BrokerTakes(c) \/ BrokerRefuses(c) \/ TheAnswer(c) \/ NoAnswer(c)
       \/ \E n \in Numbers : AskAmend(c, n) \/ AskCancel(c, n)
  \/ \E n \in Numbers : BrokerFillsOne(n)
  \/ HearNews

DoSpec == DoInit /\ [][DoNext]_domesticVars

-----------------------------------------------------------------------------
(* Once nothing is on its way, every order has exactly as much left in the *)
(* book as at the broker, whatever was filled, amended and cancelled at    *)
(* the same time, if every request was answered (place, amend_price).      *)
BookIsReal ==
  news = <<>> /\ ~mute /\ (\A c \in Clients : req[c].op = "none") => book = real
=============================================================================
