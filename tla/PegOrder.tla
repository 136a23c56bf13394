------------------------------ MODULE PegOrder ------------------------------
(***************************************************************************)
(* The order that follows the quote (peg_order.py, pegging.py): one limit   *)
(* order is kept at a level of the book, moved when the level moves and    *)
(* turned into the opposite side when it is filled.  LS moves it by one    *)
(* amend request; at Hyperliquid it is cancelled and placed anew.  The     *)
(* steps of a controller run on the event loop, the Run box on another     *)
(* thread: switching off starts `stop`, which runs beside a step that is   *)
(* waiting for an answer.                                                  *)
(***************************************************************************)
EXTENDS Integers, FiniteSets, FiniteSetsExt, Sequences

CONSTANTS PegPrices,   \* prices the level may have
          PegQty,      \* the quantity entered
          MaxPegRuns,  \* bound: times Run is switched on
          MaxPegOrders \* bound: orders at the broker
ASSUME PegAssumption == PegQty \in Nat \ {0} /\ 0 \notin PegPrices

VARIABLES
  ctl,     \* the controllers made so far, PegController plus where its step waits
  active,  \* controller["active"]; 0 when the box is off
  pegs,    \* the broker's orders: whose, side, quantity, filled, what the book was told, live
  stops,   \* the stop() to begin (order 0) or waiting for their cancel: <<controller, order>>
  level    \* the target price; 0 when the quote does not give one
pgVars == <<ctl, active, pegs, stops, level>>

OtherSide(side) == IF side = "buy" THEN "sell" ELSE "buy"
NewCtl(v) == [venue |-> v, side |-> "buy", qty |-> PegQty, order |-> 0, price |-> 0,
              pending |-> FALSE, stalled |-> FALSE, at |-> "rest", goal |-> 0, on |-> 0]
PgInit == ctl = << >> /\ active = 0 /\ pegs = << >> /\ stops = {} /\ level = 0

-----------------------------------------------------------------------------
(* The broker.                                                             *)
Placed(c, qty) == Append(pegs, [by |-> c, side |-> ctl[c].side, qty |-> qty, filled |-> 0,
                                told |-> 0, live |-> TRUE])
Off(n, set) == [set EXCEPT ![n].live = FALSE]
LiveOf(c) == {n \in DOMAIN pegs : pegs[n].by = c /\ pegs[n].live}
Remaining(n) == pegs[n].qty - pegs[n].filled

PegFill(n) ==
  /\ pegs[n].live
  /\ pegs' = [pegs EXCEPT ![n].filled = @ + 1, ![n].live = pegs[n].filled + 1 < pegs[n].qty]
  /\ UNCHANGED <<ctl, active, stops, level>>

-----------------------------------------------------------------------------
(* A step from its start to its first request: a fill of the whole order    *)
(* turns the side and goes on as if there was none; then target_price and  *)
(* decide.  k: the controller as the step finds it.                         *)
WholeOrder(c) == ctl[c].order # 0 /\ pegs[ctl[c].order].told = pegs[ctl[c].order].qty
Flipped(c) ==
  IF WholeOrder(c) /\ ~ctl[c].stalled THEN [ctl[c] EXCEPT !.side = OtherSide(@), !.qty = pegs[ctl[c].order].told,
                                  !.order = 0, !.price = 0]
  ELSE ctl[c]
Began(c) ==
  LET k == [Flipped(c) EXCEPT !.pending = FALSE, !.goal = level, !.on = Flipped(c).order]
  IN IF k.stalled \/ level = 0 \/ k.price = level THEN [k EXCEPT !.at = "rest"]
     ELSE [k EXCEPT !.at = IF k.price = 0 THEN "place"
                           ELSE IF k.venue = "hl" THEN "cancel" ELSE "amend"]

(* step_and_show on a quote, a fill or the tick of each second: a step that *)
(* is running is asked to look once more.                                  *)
Wake(c) ==
  /\ active = c
  /\ ctl' = [ctl EXCEPT ![c] = IF @.at = "rest" THEN Began(c) ELSE [@ EXCEPT !.pending = TRUE]]
  /\ UNCHANGED <<active, pegs, stops, level>>

(* The book learns of the fills.                                           *)
TellFills(n) ==
  /\ pegs[n].told < pegs[n].filled /\ pegs' = [pegs EXCEPT ![n].told = pegs[n].filled]
  /\ UNCHANGED <<ctl, active, stops, level>>

(* The loop of step_and_show goes on while asked to and still active.  A    *)
(* rate limit asks for it itself.                                          *)
Rested(k) == [k EXCEPT !.at = IF k.pending THEN "again" ELSE "rest"]
Again(c) ==
  /\ ctl[c].at = "again"
  /\ ctl' = [ctl EXCEPT ![c] = IF active = c THEN Began(c) ELSE [@ EXCEPT !.at = "rest"]]
  /\ UNCHANGED <<active, pegs, stops, level>>

(* The outcomes of a request that leave the controller as it is (a refusal, *)
(* a limit, an order that is gone), and the one that is not known: it       *)
(* stalls and the box goes off, without a stop().                          *)
Refused(c) == /\ \E limited \in BOOLEAN :
                   ctl' = [ctl EXCEPT ![c] = Rested([@ EXCEPT !.pending = ctl[c].pending \/ limited])]
              /\ UNCHANGED <<active, pegs, stops, level>>
Unknown(c, after) ==
  /\ pegs' \in {pegs, after}
  /\ ctl' = [ctl EXCEPT ![c].stalled = TRUE, ![c].at = "rest"]
  /\ active' = (IF active = c THEN 0 ELSE active) /\ UNCHANGED <<stops, level>>

PlaceAnswer(c) ==
  LET after == Placed(c, ctl[c].qty)
  IN /\ ctl[c].at = "place" /\ Len(pegs) < MaxPegOrders
     /\ \/ /\ pegs' = after
           /\ ctl' = [ctl EXCEPT ![c] = Rested([@ EXCEPT !.order = Len(after), !.price = ctl[c].goal])]
           /\ UNCHANGED <<active, stops, level>>
        \/ Refused(c)
        \/ Unknown(c, after)

(* Only a cancel that was done is followed by the new order, of the whole   *)
(* quantity.                                                               *)
CancelAnswer(c) ==
  LET n == ctl[c].on
  IN /\ ctl[c].at = "cancel"
     /\ \/ /\ pegs[n].live /\ pegs' = Off(n, pegs)
           /\ ctl' = [ctl EXCEPT ![c].order = 0, ![c].price = 0, ![c].at = "place"]
           /\ UNCHANGED <<active, stops, level>>
        \/ Refused(c)
        \/ pegs[n].live /\ Unknown(c, Off(n, pegs))

(* amend_price gives the order a new number and what remains of it.         *)
AmendAnswer(c) ==
  LET n == ctl[c].on
      after == Off(n, Placed(c, Remaining(n)))
  IN /\ ctl[c].at = "amend" /\ Len(pegs) < MaxPegOrders
     /\ \/ /\ pegs[n].live /\ pegs' = after
           /\ ctl' = [ctl EXCEPT ![c] = Rested([@ EXCEPT !.order = Len(after), !.price = ctl[c].goal])]
           /\ UNCHANGED <<active, stops, level>>
        \/ Refused(c)
        \/ pegs[n].live /\ Unknown(c, after)

-----------------------------------------------------------------------------
(* on_run_toggle.  Off: the step that runs is not waited for.               *)
PegOn(v) ==
  /\ active = 0 /\ Len(ctl) < MaxPegRuns
  /\ ctl' = Append(ctl, NewCtl(v)) /\ active' = Len(ctl) + 1
  /\ UNCHANGED <<pegs, stops, level>>
PegOff ==
  /\ active # 0 /\ active' = 0 /\ stops' = stops \cup {<<active, 0>>}
  /\ UNCHANGED <<ctl, pegs, level>>
(* stop(), on the loop: an order the book holds for open is cancelled.      *)
BeginStop(c) ==
  LET n == ctl[c].order
      cancels == n # 0 /\ pegs[n].told < pegs[n].qty
      rest == stops \ {<<c, 0>>}
  IN /\ <<c, 0>> \in stops
     /\ stops' = (IF cancels THEN rest \cup {<<c, n>>} ELSE rest)
     /\ ctl' = (IF cancels THEN ctl ELSE [ctl EXCEPT ![c].order = 0, ![c].price = 0])
     /\ UNCHANGED <<active, pegs, level>>
(* The cancel of stop() answers: done, or gone; a refusal ends stop() too.  *)
StopAnswer(c, n) ==
  /\ <<c, n>> \in stops /\ stops' = stops \ {<<c, n>>}
  /\ \/ /\ pegs' = Off(n, pegs) /\ ctl' = [ctl EXCEPT ![c].order = 0, ![c].price = 0]
     \/ UNCHANGED <<ctl, pegs>>
  /\ UNCHANGED <<active, level>>
SetLevel(p) == level' = p /\ p # level /\ UNCHANGED <<ctl, active, pegs, stops>>

PgNext ==
  \/ \E c \in DOMAIN ctl : \/ Wake(c) \/ Again(c) \/ PlaceAnswer(c) \/ CancelAnswer(c)
                           \/ AmendAnswer(c) \/ BeginStop(c)
                           \/ \E n \in DOMAIN pegs : StopAnswer(c, n)
  \/ \E n \in DOMAIN pegs : PegFill(n) \/ TellFills(n)
  \/ \E v \in {"ls", "hl"} : PegOn(v)
  \/ PegOff
  \/ \E p \in PegPrices \cup {0} : SetLevel(p)
PgSpec == PgInit /\ [][PgNext]_pgVars

-----------------------------------------------------------------------------
(* However requests, fills and switches fall together, a run of the box     *)
(* never has two orders in the market, and what it knows of is the one it   *)
(* has - except after a request without an answer, when it stands still     *)
(* (step, step_and_show).                                                  *)
OnePegOrder ==
  \A c \in DOMAIN ctl :
    /\ Cardinality(LiveOf(c)) <= 1
    /\ active = c /\ ctl[c].at = "rest" => LiveOf(c) \subseteq {ctl[c].order}
=============================================================================
