--------------------------- MODULE AuctionOrders ---------------------------
(***************************************************************************)
(* The closing-auction orders of one underlying (auction_order.py,         *)
(* auction_order_engine.py).  Process 1 sends, one after the other, the    *)
(* reserved rows that the expected price would fill; process 2 hedges the  *)
(* currency for what is about to fill; process 3 gathers the fills and     *)
(* places the opposite Hyperliquid orders, once.                           *)
(*                                                                         *)
(* The engine is one asyncio loop: a step runs up to the next await.       *)
(* Prices are ranks; 0 is a price nobody has sent yet.  An order is its    *)
(* number, the position in `ord`; the broker fills it lot by lot and tells *)
(* of a lot in a notice that any other may overtake, and may repeat.       *)
(***************************************************************************)
EXTENDS Integers, SequencesExt

CONSTANTS SideOf,      \* <<side of row 1, ...>> in the order of the screen
          QtyOf,       \* <<contracts of row 1, ...>>
          Prices,      \* ranks of order prices and expected prices
          Moments,     \* the order times a user may set
          Grace,       \* START_GRACE_S
          Horizon,     \* bound: the last instant
          MaxOrd,      \* bound: orders the broker accepts
          MaxTimes,    \* bound: order times set anew
          MaxArms,     \* bound: reservations and runs switched on, and those order times
          AuRepeats,   \* bound: notices delivered a second time
          FxPer,       \* currency contracts that hedge one futures contract
          FxUnit,      \* fx_unit: contracts of one currency order
          HlPer,       \* HL_PER_CONTRACT
          HlNames      \* HL_ROWS

Rows == DOMAIN SideOf
Sell == {r \in Rows : SideOf[r] = "sell"}

ASSUME RowsAssumption ==
  /\ SideOf \in Seq({"sell", "buy"}) /\ QtyOf \in [Rows -> Nat \ {0}]
  /\ \A r, s \in Rows : r < s /\ s \in Sell => r \in Sell
ASSUME HlNamesAssumption == HlNames # << >> /\ HlPer \in Nat \ {0}
ASSUME FxAssumption == FxPer \in Nat /\ FxUnit \in Nat
ASSUME AuBoundsAssumption == {Horizon, MaxOrd, MaxTimes, MaxArms, AuRepeats} \subseteq Nat

VARIABLES
  now, lsAt, fxAt,  \* the PC clock and the two order times
  on,               \* rows switched on
  ls,               \* process 1: the time it ran for, where its task is and
                    \* the rows that have not had their turn
  rows, past,       \* DayState.rows; order numbers of the day's earlier rounds
  fx,               \* process 2: its run switch, the contracts to send and sent
  hl, fills,        \* process 3: its run switch and orders; DayState.fills
  ord, notices,     \* the broker: orders, notices in flight
  early,            \* orders with a fill told before the engine knew them
  heard, counted,   \* lots told in this round; lots that a hedge counted
  answered,         \* orders whose number place() has returned
  arms, times, again \* what the bounds count

setVars == <<now, lsAt, fxAt, on>>
hedged  == <<fills, heard, counted>>
broker  == <<ord, notices, early, answered, again>>
bounds  == <<arms, times>>
auVars  == <<setVars, ls, rows, past, fx, hl, hedged, broker, bounds>>

Ids == 1 .. MaxOrd
NoRow == [st |-> "none", id |-> 0, px |-> 0]
NoFills == [k \in Ids |-> 0]
Total(f) == FoldFunction(+, 0, f)

(* The rows are sent from the top of the screen down. *)
NextRow == Min(ls.turn)
RowFires(r, px, exp) == IF r \in Sell THEN px < exp ELSE px > exp
Signed(r, n) == IF r \in Sell THEN -n ELSE n
SplitQty(total, unit) ==
  CASE total <= 0 -> << >>
    [] total > 0 /\ (unit <= 0 \/ unit >= total) -> <<total>>
    [] OTHER -> [i \in 1 .. total \div unit |-> unit]
                  \o (IF total % unit = 0 THEN << >> ELSE <<total % unit>>)
(* The parts of a Hyperliquid total: even, none empty, the rest to the first. *)
HlSplit(total) ==
  LET n == IF total < Len(HlNames) THEN total ELSE Len(HlNames)
  IN  [i \in 1 .. n |-> total \div n + (IF i = 1 THEN total % n ELSE 0)]
NetFilled(f) == Total([k \in DOMAIN ord |-> Signed(ord[k].row, f[k])])
Magnitude(n) == IF n < 0 THEN -n ELSE n
PlacedRows == {r \in Rows : rows[r].st = "placed"}
KnownIds == past \cup {rows[r].id : r \in PlacedRows}
(* What the expected price fills of the rows placed: buys less sells. *)
NetFillable(exp) ==
  Total([r \in PlacedRows |-> IF RowFires(r, rows[r].px, exp)
                                THEN Signed(r, QtyOf[r]) ELSE 0])

AuInit ==
  /\ now = 0 /\ lsAt = 0 /\ fxAt = 0 /\ on = {}
  /\ ls = [for |-> -1, started |-> FALSE, done |-> FALSE, task |-> "none",
           turn |-> {}]
  /\ rows = [r \in Rows |-> NoRow] /\ past = {}
  /\ fx = [for |-> -1, run |-> FALSE, started |-> FALSE, done |-> FALSE,
           task |-> "none", left |-> << >>, net |-> 0, sent |-> << >>]
  /\ hl = [run |-> FALSE, done |-> FALSE, task |-> "none", net |-> 0,
           out |-> << >>]
  /\ fills = NoFills /\ heard = NoFills /\ counted = NoFills
  /\ ord = << >> /\ notices = {} /\ early = {} /\ answered = {}
  /\ again = 0 /\ arms = 0 /\ times = 0

-----------------------------------------------------------------------------
(* The screen's commands. *)
RowsOn(r) ==
  /\ r \notin on /\ arms + times < MaxArms
  /\ on' = on \cup {r} /\ arms' = arms + 1
  /\ UNCHANGED <<now, lsAt, fxAt, ls, rows, past, fx, hl, hedged, broker, times>>

(* The rows are switched off, by hand or, with both runs, by clear_armed.   *)
RowsOff ==
  /\ on # {} /\ on' = {}
  /\ \/ UNCHANGED <<fx, hl>>
     \/ fx' = [fx EXCEPT !.run = FALSE] /\ hl' = [hl EXCEPT !.run = FALSE]
  /\ UNCHANGED <<now, lsAt, fxAt, ls, rows, past, hedged, broker, bounds>>

SetTime(t) ==
  /\ times < MaxTimes /\ arms + times < MaxArms /\ times' = times + 1
  /\ \/ t # lsAt /\ lsAt' = t /\ UNCHANGED fxAt
     \/ t # fxAt /\ fxAt' = t /\ UNCHANGED lsAt
  /\ UNCHANGED <<now, on, ls, rows, past, fx, hl, hedged, broker, arms>>

RunFx ==
  /\ ~fx.run /\ arms + times < MaxArms
  /\ fx' = [fx EXCEPT !.run = TRUE] /\ arms' = arms + 1
  /\ UNCHANGED <<setVars, ls, rows, past, hl, hedged, broker, times>>

RunOff ==
  /\ \/ fx.run /\ fx' = [fx EXCEPT !.run = FALSE] /\ UNCHANGED hl
     \/ hl.run /\ hl' = [hl EXCEPT !.run = FALSE] /\ UNCHANGED fx
  /\ UNCHANGED <<setVars, ls, rows, past, hedged, broker, bounds>>

(* Mutant: the fills of the last round are kept. *)
RunHlKeeps ==
  /\ ~hl.run /\ arms + times < MaxArms /\ arms' = arms + 1
  /\ hl' = [hl EXCEPT !.run = TRUE, !.done = FALSE]
  /\ UNCHANGED <<setVars, ls, rows, past, fx, hedged, broker, times>>

(* Switched on after it has run, process 3 opens a round and forgets fills. *)
RunHl ==
  /\ ~hl.run /\ arms + times < MaxArms /\ arms' = arms + 1
  /\ hl' = [hl EXCEPT !.run = TRUE, !.done = FALSE]
  /\ fills' = IF hl.done THEN NoFills ELSE fills
  /\ heard' = IF hl.done THEN NoFills ELSE heard
  /\ UNCHANGED <<setVars, ls, rows, past, fx, counted, broker, times>>

-----------------------------------------------------------------------------
(* Mutant: the order time counts as moved while the task still runs. *)
MovedEarly(p, at) == p.started /\ at # p.for /\ now < at

(* The 20 ms timer: each process is wound back, or started, or let be.      *)
RowsDue(at) == at <= now /\ now < at + Grace
Moved(p, at) == p.done /\ at # p.for /\ now < at

TickLs ==
  \/ /\ Moved(ls, lsAt)
     /\ ls' = [ls EXCEPT !.started = FALSE, !.done = FALSE]
     /\ past' = past \cup {rows[r].id : r \in PlacedRows}
     /\ rows' = [r \in Rows |-> NoRow]
  \/ /\ on # {} /\ ~ls.started /\ RowsDue(lsAt)
     /\ ls' = [ls EXCEPT !.started = TRUE, !.for = lsAt, !.task = "spawned"]
     /\ UNCHANGED <<rows, past>>
  \/ /\ ~Moved(ls, lsAt) /\ ~(on # {} /\ ~ls.started /\ RowsDue(lsAt))
     /\ UNCHANGED <<ls, rows, past>>

TickFx ==
  \/ /\ Moved(fx, fxAt)
     /\ fx' = [fx EXCEPT !.started = FALSE, !.done = FALSE, !.sent = << >>]
  \/ /\ fx.run /\ ~fx.started /\ RowsDue(fxAt)
     /\ fx' = [fx EXCEPT !.started = TRUE, !.for = fxAt, !.task = "spawned"]
  \/ /\ ~Moved(fx, fxAt) /\ ~(fx.run /\ ~fx.started /\ RowsDue(fxAt))
     /\ UNCHANGED fx

Tick ==
  /\ TickLs /\ TickFx
  /\ UNCHANGED <<setVars, hl, hedged, broker, bounds>>

Clock ==
  /\ now < Horizon /\ now' = now + 1
  /\ UNCHANGED <<lsAt, fxAt, on, ls, rows, past, fx, hl, hedged, broker, bounds>>

-----------------------------------------------------------------------------
(* Process 1.  The rows are listed once; each is judged at its turn, with   *)
(* the prices of that moment: px of the row, exp of the future (0: none).   *)
ListRows ==
  /\ ls.task = "spawned"
  /\ ls' = [ls EXCEPT !.task = "turn", !.turn = on]
  /\ UNCHANGED <<setVars, rows, past, fx, hl, hedged, broker, bounds>>

TurnOver(l) == ls' = [l EXCEPT !.turn = @ \ {NextRow}]

Turn(px, exp) ==
  /\ ls.task = "turn" /\ ls.turn # {}
  /\ LET r == NextRow
         missing == px = 0 \/ exp = 0
         fires == ~missing /\ RowFires(r, px, exp)
     IN  IF rows[r].st # "none"
           THEN TurnOver(ls) /\ UNCHANGED rows
           ELSE /\ rows' = [rows EXCEPT ![r] =
                    [st |-> IF fires THEN "fired" ELSE "skipped", id |-> 0,
                     px |-> IF fires THEN px ELSE 0]]
                /\ IF fires THEN ls' = [ls EXCEPT !.task = "sent"] ELSE TurnOver(ls)
  /\ UNCHANGED <<setVars, past, fx, hl, hedged, broker, bounds>>

(* The broker takes the order; its answer, or nothing, comes later.         *)
BrokerAccepts ==
  /\ ls.task = "sent" /\ Len(ord) < MaxOrd
  /\ ord' = Append(ord, [row |-> NextRow, done |-> 0])
  /\ ls' = [ls EXCEPT !.task = "accepted"]
  /\ UNCHANGED <<setVars, rows, past, fx, hl, hedged, notices, early, answered, again, bounds>>

(* place() returns the number, or raises: refused, or no answer in time.    *)
RowPlaced ==
  /\ ls.task = "accepted"
  /\ rows' = [rows EXCEPT ![NextRow].st = "placed", ![NextRow].id = Len(ord)]
  /\ TurnOver([ls EXCEPT !.task = "turn"])
  /\ answered' = answered \cup {Len(ord)}
  /\ UNCHANGED <<setVars, past, fx, hl, hedged, ord, notices, early, again, bounds>>

RowFails ==
  /\ ls.task \in {"sent", "accepted"}
  /\ rows' = [rows EXCEPT ![NextRow] = [NoRow EXCEPT !.st = "failed"]]
  /\ TurnOver([ls EXCEPT !.task = "turn"])
  /\ UNCHANGED <<setVars, past, fx, hl, hedged, broker, bounds>>

LsEnds ==
  /\ ls.task = "turn" /\ ls.turn = {}
  /\ on' = {} /\ ls' = [ls EXCEPT !.task = "none", !.done = TRUE]
  /\ UNCHANGED <<now, lsAt, fxAt, rows, past, fx, hl, hedged, broker, bounds>>

-----------------------------------------------------------------------------
(* Process 2: what is placed and about to fill, hedged in parts.            *)
FxFinish(f) == [f EXCEPT !.task = "none", !.done = TRUE, !.run = FALSE, !.left = << >>]

FxPlan(exp) ==
  /\ fx.task = "spawned"
  /\ LET net == IF exp = 0 THEN 0 ELSE NetFillable(exp)
         parts == SplitQty(FxPer * Magnitude(net), FxUnit)
         planned == [fx EXCEPT !.net = net, !.left = parts, !.task = "send"]
     IN  fx' = IF parts = << >> THEN FxFinish(planned) ELSE planned
  /\ UNCHANGED <<setVars, ls, rows, past, hl, hedged, broker, bounds>>

(* A part is accepted or fails; either way the next one follows.            *)
FxSend ==
  /\ fx.task = "send"
  /\ LET f == [fx EXCEPT !.sent = Append(@, Head(fx.left)), !.left = Tail(@)]
     IN  fx' = IF f.left = << >> THEN FxFinish(f) ELSE f
  /\ UNCHANGED <<setVars, ls, rows, past, hl, hedged, broker, bounds>>

-----------------------------------------------------------------------------
(* The broker fills a lot; the notice reaches _on_fill.                     *)
Lot(k, n) == [id |-> k, lot |-> n]

BrokerFills(k) ==
  /\ ord[k].done < QtyOf[ord[k].row]
  /\ ord' = [ord EXCEPT ![k].done = @ + 1]
  /\ notices' = notices \cup {Lot(k, ord[k].done + 1)}
  /\ UNCHANGED <<setVars, ls, rows, past, fx, hl, hedged, early, answered, again, bounds>>

(* What a tallied fill starts. *)
Gathering == IF hl.run /\ ~hl.done /\ hl.task = "none"
               THEN [hl EXCEPT !.task = "gather"] ELSE hl

OnFill(m, repeat) ==
  /\ repeat => again < AuRepeats
  /\ again' = again + (IF repeat THEN 1 ELSE 0)
  /\ notices' = IF repeat THEN notices ELSE notices \ {m}
  /\ heard' = IF repeat THEN heard ELSE [heard EXCEPT ![m.id] = @ + 1]
  /\ early' = IF m.id \in answered THEN early ELSE early \cup {m.id}
  /\ IF m.id \in KnownIds
       THEN fills' = [fills EXCEPT ![m.id] = @ + 1] /\ hl' = Gathering
       ELSE UNCHANGED <<fills, hl>>
  /\ UNCHANGED <<setVars, ls, rows, past, fx, counted, ord, answered, bounds>>

(* A virtual order of n contracts of row r's side, filled as it is made.    *)
TestOrder(r) ==
  /\ hl.run /\ Len(ord) < MaxOrd
  /\ LET k == Len(ord) + 1
         n == QtyOf[r]
     IN  /\ ord' = Append(ord, [row |-> r, done |-> n])
         /\ past' = past \cup {k} /\ answered' = answered \cup {k}
         /\ fills' = [fills EXCEPT ![k] = n] /\ heard' = [heard EXCEPT ![k] = n]
  /\ hl' = Gathering
  /\ UNCHANGED <<setVars, ls, rows, fx, counted, notices, early, again, bounds>>

(* FILL_DEBOUNCE_S after the first fill: the net of what was told, once.    *)
HlFire(quoted) ==
  /\ hl.task = "gather"
  /\ LET net == NetFilled(fills)
         fire == net # 0 /\ quoted
     IN  /\ hl' = [hl EXCEPT !.done = TRUE,
                     !.task = IF fire THEN "placing" ELSE "none",
                     !.net = IF fire THEN net ELSE @,
                     !.out = IF fire THEN HlSplit(HlPer * Magnitude(net)) ELSE @]
         /\ counted' = IF fire THEN [k \in Ids |-> counted[k] + fills[k]] ELSE counted
  /\ UNCHANGED <<setVars, ls, rows, past, fx, fills, heard, broker, bounds>>

(* place_many answers for all of them, or raises and leaves the run on.     *)
HlPlaced(raised) ==
  /\ hl.task = "placing"
  /\ hl' = [hl EXCEPT !.task = "none", !.run = IF raised THEN @ ELSE FALSE]
  /\ UNCHANGED <<setVars, ls, rows, past, fx, hedged, broker, bounds>>

LsStep == \/ ListRows \/ RowPlaced \/ RowFails \/ LsEnds
          \/ \E px \in Prices, exp \in Prices \cup {0} : Turn(px, exp)
FxStep == (\E exp \in Prices \cup {0} : FxPlan(exp)) \/ FxSend
HlStep == (\E b \in BOOLEAN : HlFire(b) \/ HlPlaced(b))

AuctionCommand ==
  \/ (\E r \in Rows : RowsOn(r) \/ TestOrder(r)) \/ RowsOff
  \/ (\E t \in Moments : SetTime(t)) \/ RunFx \/ RunHl \/ RunOff
AuNext ==
  \/ AuctionCommand \/ Tick \/ Clock \/ LsStep \/ FxStep \/ HlStep \/ BrokerAccepts
  \/ (\E k \in DOMAIN ord : BrokerFills(k))
  \/ (\E m \in notices, repeat \in BOOLEAN : OnFill(m, repeat))

(* A task goes on as soon as what it awaits has answered or timed out.      *)
AuFairness == WF_auVars(LsStep) /\ WF_auVars(FxStep) /\ WF_auVars(HlStep)
AuSpec == AuInit /\ [][AuNext]_auVars /\ AuFairness

-----------------------------------------------------------------------------
(* A futures contract is never hedged on Hyperliquid twice, however often   *)
(* process 3 is switched on again and process 1 wound back (_hl_fire and    *)
(* the new round of set_run).                                               *)
NoLotHedgedTwice == \A k \in DOMAIN ord : counted[k] <= ord[k].done

(* Every fill told of an order whose number the engine had by then is in    *)
(* the tally of the round, whatever round the order was sent in (_on_fill,  *)
(* past_rows).                                                              *)
KnownFillsAreTallied ==
  \A k \in DOMAIN ord \ early : k \in answered => fills[k] = heard[k]

(* A process is started again, or its rows wound back, only after its last  *)
(* task has come to its end.                                                *)
OneTaskAtATime ==
  [][/\ (rows # rows' /\ \A r \in Rows : rows'[r] = NoRow) => ls.task = "none"
     /\ (ls'.task = "spawned" => ls.task \in {"none", "spawned"})
     /\ (fx'.task = "spawned" => fx.task \in {"none", "spawned"})]_auVars

-----------------------------------------------------------------------------
(***************************************************************************)
(* Amending and cancelling one of the Hyperliquid orders a-d of the        *)
(* auction strategy (auction_order_engine.py: amend, cancel).  An order is *)
(* amended by cancelling it, waiting until the book has closed it, and     *)
(* placing what is left anew; the row keeps the number of its last order.  *)
(*                                                                         *)
(* The screen sends its commands one by one, so one command runs at a      *)
(* time; fills and the cancel's confirmation reach the book in any order.  *)
(***************************************************************************)

CONSTANTS AmQty,       \* lots of the row's first order
          MaxAmends    \* bound: orders of the row

ASSUME AmendAssumption == AmQty \in Nat \ {0} /\ MaxAmends \in Nat \ {0}

VARIABLES
  chain,   \* the row's orders: lots, filled and told of, live at the exchange,
           \* open in the book, and the cancelled lots the book assumes
  held,    \* hl_orders: whether the row has its last order in hand
  amend,   \* where the command is, and the remaining quantity it read
  status   \* HlRow.status

amVars == <<chain, held, amend, status>>

Latest(c) == c[Len(c)]
NewOrder(n) == [qty |-> n, filled |-> 0, told |-> 0, live |-> TRUE, open |-> TRUE,
                cancelled |-> 0]
Left(o) == o.qty - o.told - o.cancelled
Idle == [at |-> "none", left |-> 0]

AmInit ==
  /\ chain = <<NewOrder(AmQty)>> /\ held = TRUE /\ amend = Idle
  /\ status = "accepted"

-----------------------------------------------------------------------------
(* The exchange fills a lot of a live order; the book hears of it later.    *)
HlFills(k) ==
  /\ chain[k].live /\ chain[k].filled < chain[k].qty
  /\ LET n == chain[k].filled + 1
     IN  chain' = [chain EXCEPT ![k].filled = n, ![k].live = n < chain[k].qty]
  /\ UNCHANGED <<held, amend, status>>

(* A lot more is told: a closed order takes it off its assumed cancel.      *)
BookHears(k) ==
  /\ chain[k].told < chain[k].filled
  /\ LET o == chain[k]
         late == ~o.open
         n == o.told + 1
     IN  chain' = [chain EXCEPT ![k].told = n,
                     ![k].open = @ /\ n + o.cancelled < o.qty,
                     ![k].cancelled = IF late THEN @ - 1 ELSE @]
  /\ UNCHANGED <<held, amend, status>>

(* The notice of a cancel closes the book's order, the rest assumed gone.   *)
BookHearsCancel(k) ==
  /\ ~chain[k].live /\ chain[k].filled < chain[k].qty /\ chain[k].open
  /\ chain' = [chain EXCEPT ![k].open = FALSE, ![k].cancelled = Left(chain[k])]
  /\ UNCHANGED <<held, amend, status>>

-----------------------------------------------------------------------------
(* The screen asks to amend the row; its cancel goes out.                   *)
AmendAsked ==
  /\ amend.at = "none" /\ held /\ Latest(chain).open /\ Len(chain) < MaxAmends
  /\ amend' = [at |-> "cancel", left |-> Left(Latest(chain))]
  /\ status' = "amending"
  /\ UNCHANGED <<chain, held>>

(* The exchange takes an order off that still is there; else it refuses.    *)
TakeOff(c) == [c EXCEPT ![Len(c)].live = FALSE]

CancelTaken ==
  /\ amend.at = "cancel" /\ Latest(chain).live
  /\ chain' = TakeOff(chain)
  /\ amend' = [amend EXCEPT !.at = "confirm"]
  /\ UNCHANGED <<held, status>>

(* Refused, or no answer: the order may be gone all the same.               *)
CancelRefused ==
  /\ amend.at = "cancel"
  /\ \/ UNCHANGED chain
     \/ Latest(chain).live /\ chain' = TakeOff(chain)
  /\ amend' = Idle /\ status' = "accepted"
  /\ UNCHANGED held

(* CANCEL_WAIT_S passed and the book still has the order open.              *)
ConfirmTimesOut ==
  /\ amend.at = "confirm" /\ Latest(chain).open
  /\ amend' = Idle /\ status' = "accepted"
  /\ UNCHANGED <<chain, held>>

(* The remaining quantity of the closed order, or, when that is 0, the one  *)
(* read before the cancel.                                                  *)
ToPlace == IF Left(Latest(chain)) # 0 THEN Left(Latest(chain)) ELSE amend.left

Confirmed ==
  /\ amend.at = "confirm" /\ ~Latest(chain).open
  /\ IF ToPlace <= 0
       THEN held' = FALSE /\ status' = "over" /\ amend' = Idle
       ELSE amend' = [at |-> "place", left |-> ToPlace] /\ UNCHANGED <<held, status>>
  /\ UNCHANGED chain

Replaced ==
  /\ amend.at = "place"
  /\ chain' = Append(chain, NewOrder(amend.left))
  /\ status' = "accepted" /\ amend' = Idle
  /\ UNCHANGED held

(* Refused, or no answer: the new order may be live all the same.           *)
NotReplaced ==
  /\ amend.at = "place"
  /\ chain' \in {chain, Append(chain, NewOrder(amend.left))}
  /\ held' = FALSE /\ status' = "failed" /\ amend' = Idle

(* The screen asks to cancel the row: on any answer of the exchange that is *)
(* no error, the row gives its order up.                                    *)
CancelAsked(taken) ==
  /\ amend.at = "none" /\ held
  /\ taken => Latest(chain).live
  /\ chain' = IF taken THEN TakeOff(chain) ELSE chain
  /\ held' = ~taken /\ status' = IF taken THEN "cancelled" ELSE status
  /\ UNCHANGED amend

AmNext ==
  \/ (\E k \in DOMAIN chain : HlFills(k) \/ BookHears(k) \/ BookHearsCancel(k))
  \/ AmendAsked \/ CancelTaken \/ CancelRefused \/ ConfirmTimesOut
  \/ Confirmed \/ Replaced \/ NotReplaced
  \/ (\E taken \in BOOLEAN : CancelAsked(taken))

AmSpec == AmInit /\ [][AmNext]_amVars

-----------------------------------------------------------------------------
(* The row never has two orders at the exchange: whatever the answers to    *)
(* the cancel are, a new one is placed only when the last is gone (amend).  *)
OneWorkingOrder ==
  \A j, k \in DOMAIN chain : chain[j].live /\ chain[k].live => j = k
=============================================================================
