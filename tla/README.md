# Formal model of kp_arb

kp_arb trades the difference between Korean stocks and stock futures, through
the broker LS, and perpetual contracts on Hyperliquid (HL).  One asyncio
process, the core, holds everything that matters: the order book of what it has
placed, the strategies that place orders, and the connections.  Screens are
separate Tk processes that show the core's state and send commands.

The money is lost in one place: when the book says something of an order that
the exchange does not, a leg of an arbitrage stays unhedged, or is hedged twice.
That is where this project starts.

## 1. The system

| part | state | operations | talks to | what is hard |
|---|---|---|---|---|
| order book, `order_book.py` | orders by (account, number); early notices by the same key; positions, balances | `track`, `on_ack`, `on_fill`, `on_cancel`, `on_reject`, `apply_place_fill`, `replay_pending`, `load_snapshot` | callbacks `on_fill_applied`, `on_change` | notices before responses, overtaking each other, repeated; snapshots against notices |
| placement, `bootstrap.py` `LiveSystem` | cloids awaited and held, REST refreshes under way | `place`, `place_many`, `amend_price`, `cancel`, `cancel_many`, `refresh_snapshot`, cloid identification | gateways (await), order book, engines' hooks | calls that fail after the order was accepted; awaits between reading and using the book |
| auto-M decisions, `auto_m.py` | per set: two legs with a status, orders, fill differences, averages | `evaluate`, `on_pre_*`, `on_*_post_*`, `set_running`, `release_halt` | pure; returns intents | partial fills, late fills, rejections, halting |
| auto-M engine, `auto_m_engine.py` | order number to leg, cancels under way, tasks | `pump`, `tick`, `_place_*`, `_cancel_pre`, hooks of the book | placement, decisions, persistence | responses after the fills they answer, vanished orders |
| broker gateway, `gateways/ls*.py`, `xing*.py` | sessions, tokens, order contexts, H01 confirmations kept | requests, notice parsing | LS REST and WebSocket, or the xing COM thread | notices without the original number, limits, timeouts |
| HL gateway, `gateways/hl*.py` | nonce clock, order contexts, processed fill ids | requests, notice parsing, reconnection | HL REST and WebSocket | the fill snapshot on reconnection, nonce collisions |
| core server, `core_server.py`, `core_client.py` | clients, sequence numbers of rows | commands, pushes | screens | lost connections, deltas |
| other strategies: `auction_order*.py`, `nxt_open*.py`, `fx_auction*.py`, `peg_order.py`, `strategy_core.py` | each its own orders and windows | timers, events | placement, session | times of day, partial failures |
| session, `session*.py` | market phase, halts | `on_market_status` | everything that trades | missed events |
| persistence, `state_store.py`, `state_backup.py` | files | save, load, rotate | engines | a crash between two saves |
| feed supervision, `ws_status.py`, `quote_probe.py`, `parent_watch.py` | times last seen | ticks | screens, alarms | stale feeds |
| pure calculations: `ticks.py`, `hl_price.py`, `hl_merge.py`, `quote_plan.py`, ... | none | functions | everything | boundaries |
| screens, reports | layout | - | core | not modelled |

How the parts meet.  An engine calls `LiveSystem.place`, which awaits a gateway
and then tracks the order.  Gateways push notices into the book at any moment
of the loop.  The book calls `on_fill_applied` and `on_change` hooks; the
engines, the screens' pushes and the persistence hang on those.  An engine's
hook updates a strategy's state, asks the pure decisions what follows, and
spawns a task for each call that follows.  Between two awaits nothing else
runs, so a handler up to its next await is one atomic step; everything that
matters happens because anything may run *at* an await.

What makes each part correct:

- *order book and placement*: every executed lot is announced to the engines
  once; an order is closed only when the exchange has ended it and all its
  lots are announced; no resynchronisation forgets a live order, or undoes
  what a notice settled.
- *auto-M*: one pre order per leg; everything it fills is hedged; what a leg
  waits for can still come; a set out of balance by one order's worth halts,
  as a whole, and stays halted until a person releases it.
- *broker notices*: each O01/C01/H01 reaches the order it belongs to, whatever
  the order in which they come and whether or not the original is known.
- *HL connection*: after a reconnection every fill is reported once; nonces
  never repeat.
- *session and timed strategies*: no order outside its window; what a window
  opened is cancelled or hedged when it closes, also if events are missed.
- *core server*: a screen that applies the deltas it got holds what a screen
  that takes a fresh snapshot holds.
- *persistence*: a restart restores the ledger and never a live order.
- *pure calculations*: agreement with a reference definition at boundaries.

The hazards (what is hard to test, at the line where it bites, and the
property that would catch it) are listed in `PROJECT.json`.

## 2. The modules

### Orders and Auto-M

| module | models | uses |
|---|---|---|
| `OrderBook` | one `TrackedOrder` and the pure part of every handler (`on_ack`, `on_fill`, `apply_place_fill`, `on_cancel`, `on_reject`, `_merge_snapshot_order`) | - |
| `OrderFlow` | placing orders and keeping the book exact: exchanges, messages in flight, the buffer of early notices and its replay, `_adopt_hl_order`, cloid identification and recheck; also the inductive invariant of the proofs | extends `OrderBook` |
| `OrderLedger` | what the book promises the engines (abstract) | - |
| `OrderResync` | `OrderFlow` with `refresh_snapshot` and `load_snapshot` | extends `OrderFlow` |
| `AutoMSet` | the decisions of one set as functions from set to set (`auto_m.py`) | - |
| `AutoM` | a broker-first set at work: judgement, tasks and their answers, notices, commands (`auto_m_engine.py`, `core_server.py`) | extends `AutoMSet` |
| `HlFirst` | a set whose pre orders are Hyperliquid's: batches, pieces of a contract left over, hedges sent once | extends `AutoMSet`, instantiates `AutoM` |

### The other components

Each is a state machine of its own; they share no state with one another.

| module | models |
|---|---|
| `AuctionOrders` | the closing auction of one underlying: process 1 sends the rows, process 2 hedges the currency, process 3 gathers fills and places the Hyperliquid orders; and the amending of a Hyperliquid row (`auction_order*.py`) |
| `NxtOpen` | the window at the opening of NXT, its tiers, automatic exits, early fills, the state of the day (`nxt_open*.py`) |
| `FxAuction` | the currency hedge in the call auctions and its window (`fx_auction*.py`) |
| `FxReport` | the loop that reports the exposure to other systems (`fx_service.py`, `fx_reporter.py`, `signallink.py`) |
| `PegOrder` | the order that follows a quote, and the Run box on its own thread (`peg_order.py`, `pegging.py`) |
| `Rehearsal` | phases and halts from JIF notices (`session*.py`); the sets of a screen judged every half second while commands change them (`strategy_core.py`, `core_engine.py`) |
| `ArbCycle` | the strategy's cycle, its risk check and the rows it stores (`runner.py`, `engine.py`, `risk.py`, `state_store.py`) |
| `Placing` | Hyperliquid's limits on a request of orders; placing, amending and cancelling domestic orders (`bootstrap.py`, `limits.py`) |
| `CreditLoans` | which loan a repay order names, and the queries that keep the loans known (`auto_m_engine.py`) |
| `JudgeLoop` | when a set is judged: quotes, timers, hours, watches (`auto_m_engine.py`) |
| `PrePrice` | the price of a pre order, gate G6 (`auto_m.py`, `ticks.py`) |
| `RateSource`, `StockPrice` | the exchange rate's sources; the stock's price from quotes, trades and pauses (`bootstrap.py`, `ls_ws.py`) |
| `Startup` | the first queries, hooks on channels, reconnections and what they start (`bootstrap.py`) |
| `LsFeed` | the broker's feed by either transport, the plan of subscriptions, the notices O01 and H01 of cancels and amends (`ls_ws.py`, `xing_ws.py`) |
| `LsRest` | requests to the broker: limits, token, retries; the context of an order's call; lists by page (`ls_rest.py`, `ls_auth.py`, `ls_http.py`, `ls_live.py`) |
| `XingCom` | the COM thread: queue, deadlines, session end (`xing_com.py`) |
| `HlLink` | the snapshot of fills after a reconnection; groups of orders, nonces, lookups by cloid (`hl_ws.py`, `hl_live.py`) |
| `HlMerge` | the unit of a book at Hyperliquid (`hl_merge.py`, `core_server.py`) |
| `Channel` | the core's state pushed to the screens over shared memory (`core_server.py`, `state_share.py`, `core_client.py`) |
| `Lifecycle` | the processes: start, watch, restart, shutdown (the screens save and close before the core is asked down), the watch on the parent (`main_window.py`, `parent_watch.py`) |
| `StateFile` | a state file with generations under crashes and failing calls (`state_backup.py`) |
| `DayLog` | the day's rows and the pages that show them |
| `Telegram` | the operator's messages by long polling (`telegram_rx.py`, `alert.py`) |
| `SetScreen` | the windows of Auto-M and their commands (`order_autom.py`, `ui_close.py`) |

### Instances for TLC

`MCOrderFlow` and `MCOneResync` give `OrderFlow` and `OrderResync` their orders;
`MCOrderFlow` lets a behaviour be about one order of three lots at either
exchange, or about one of each with a repeat between them (`only`, `placed`).
`MCTrading`, `MCProgress`, `MCPlatform` and `MCEngine` each take several of the
other components.  Their variable `part` is chosen in the initial state and says
which component a behaviour is about; the others stand still.  This is sound
because the components share no state: every behaviour of a component is a
behaviour of the composite, and an invariant of the composite is the
conjunction of the invariants of its components.  `MCProgress` also has
`watched`, the request, order or fill that a liveness property looks at.

### Proofs

| module | proves |
|---|---|
| `Order_proofs` | of `OrderFlow`: what a handler does to one order, the counting of lots, how orders end (the whole `IInv`), everything that is safety, the refinement of `OrderLedger`; of `OrderResync`: the properties of the refreshes |
| `AutoMSet_proofs` | what every decision of a set keeps |
| `AutoM_proofs` | the properties of `AutoM` that hold in every environment, and those that hold in the calm one |
| `Platform_proofs` | of `MCPlatform`: orders and tokens (`HlLink`, `LsRest`), what is stored (`StateFile`, `ArbCycle`), streams (`HlMerge`), fills and the first gap (`HlLink`), the day's rows (`DayLog`), lists in pages (`LsRest`), the plan of keys and the notices of cancels (`LsFeed`) |
| `Engine_proofs` | of `MCEngine`: sets that begin at Hyperliquid (`HlFirst`), limit and book (`Placing`), rates, times of judgement, prices, loans (`RateSource`, `JudgeLoop`, `PrePrice`, `StockPrice`, `CreditLoans`) |
| `SetScreen_proofs` | what every step of Auto-M's windows keeps: what they show, what is typed in, where an RT is |
| `Trading_proofs` | of `MCTrading`: all three properties of `trading` |
| `Progress_proofs` | of `MCProgress`: what is handed on, and that no answer a caller waits for is thrown away (`Channel`, `Startup`, `XingCom`) |

The two halves meet at `OrderLedger`.  `OrderFlow` is proved to implement it: a
lot is announced at most once and never before it is executed, and an order is
closed only once ended and fully announced.  `AutoM` takes exactly that as its
environment: `PreFill` and `PostFill` report each lot once, and `PreEnds` and
`PostEnds` come after all the fills of their order.  Composing the two state
machines into one would multiply their states and say nothing that this
contract does not.

### Orders: state and actions

A quantity is a number of lots, and a fill is the *set* of lots it executed.
The executions of one order are disjoint, so the set serves as `fill_id` and its
size as the quantity, and "counted twice" becomes something that a state can
show.  `AfterFill` compares sets only for equality, as the code compares ids.

| in the model | in the code |
|---|---|
| `book`, `tracked` | `OrderBook._orders`, by `(account, number)` |
| `pending`, `rank` | `OrderBook._pending` and the insertion order of its keys |
| `replaying`, `Replay` | the loop of `replay_pending`; it has no await, so nothing else moves while it runs |
| `told` | lots passed to `on_fill_applied`, which is what the engines hedge |
| `resp` | where our `place()` call is: `wait`, answered, `held` (`_hl_failed`), given up |
| `Place`, `RespondLs`, `RespondHl`, `PlaceFails` | `LiveSystem.place`, `_adopt_hl_order`, `_recover_by_cloid` |
| `IdentifyHl`, `RecheckFinds`, `RecheckGivesUp` | `_identify_hl_order`, `_late_hl_recheck` |
| `DeliverTracked`, `DeliverUntracked` | `on_order_event` on a known and an unknown order |
| `XAccept` ... `XReject`, `wire` | external: the exchanges and their connections |
| `snap`, `Ask`, `Read`, `ReadFails`, `Apply` | `refresh_snapshot`: the query, the moment the exchange reads, `load_snapshot` |
| `aged`, `Age` | an order older than `_SNAPSHOT_GRACE_S`; `snap.grown`: those that became so between the read and the use of an answer |

Every message in flight may be overtaken by any other; a fill may be delivered
again (`MaxRepeats`); with `OrderResync` a notice may be lost (`MaxLosses`).
Assumed of the exchanges: a cancel confirms exactly what was left; a
Hyperliquid lookup by cloid finds an order that is live or done.  Of time
nothing is assumed: an order may outgrow the grace of 15 s at any moment, also
between the read of its account and `load_snapshot`.  Refreshes are made one at
a time.

### Auto-M: state and actions

| in the model | in the code |
|---|---|
| `s` (`SetRecord`, `Leg`) | `AutoMSet` and its two `Leg`s; `held` is `rt`, `diff` is `fill_diff` |
| `s.asked` | tasks `_cancel_pre` under way |
| `pre`, `post` | `_orders`, `_pending_refs`, `_failed_refs` and the tasks `_place_pre`, `_place_post` |
| `EvalHalted` ... `EvalReplace` | `evaluate`, one action per kind of outcome; the gates decided by time and prices are open or shut as it happens |
| `PreGoes`, `PreHeld` | the task `_place_pre` of an exit order on credit (`phase` "spawned"): it picks a loan and sends, or finds none (`_hold_repay`) |
| `PreAccepted`, `PreRefused`, `PreTimesOut` | the answers to `_place_pre` |
| `PreFill`, `PreEnds`, `PreVanishes` | `_on_fill_applied`, `_on_book_change`, `_recover_vanished` for a pre order |
| `CancelFails`, `CancelReturns` | the end of `_cancel_pre` |
| `PostFails` ... `PostVanishes` | `_place_post` and what the book reports of a hedge |
| `CallFails` | `_place_post` fails after a notice has identified its order |
| `CommandOn`, `CommandOff`, `Release`, `Clear` | the commands `autom_run` and `autom_stop_all`, `autom_release`, and `clear_diff` of `autom_set` |
| `uneven` | history: released, and the difference not cleared since |

Modelled in `AutoM` is a forward set whose pre order is the broker's (`HlFirst`
has the other kind).  A reverse set is its mirror image (sides swapped, `held` = `-rt`).  Prices, averages, alarms and
texts are left out; that the gates of `evaluate` which read them may be open or
shut at any time is an over-approximation, safe for everything checked.

The environment is described by four constants, so that each property is
claimed exactly where it holds:

- `Hasty`: FALSE, a person switches a leg on only when no order of the leg is
  under way, and releases a halt only when nothing of the set is; TRUE, at any
  moment.
- `Revivals`: a hedge whose placement failed may turn out to be alive.
- `Crossing`: a placement may fail though a notice has proved its order right
  (a communication error, and the lookup by cloid fails or finds it ended).
- `Vanishing`: a hedge may vanish while the leg has others.

## 3. The runs

`tlc -workers 2 -config X.cfg M`.

| run | module, cfg | bounds | shows |
|---|---|---|---|
| `orderflow` | `MCOrderFlow` | 1 order of 3 lots at either exchange with 1 repeated fill; or one of each exchange with a buffer that keeps one notice | fills count once under every order of response, identification, notices, failure and recheck; what is closed is settled, what is settled is exact, every ended order is closed in the end; the book implements `OrderLedger`; the invariant of the proofs holds |
| `resync` | `MCOneResync` | 1 order of 3 lots at either exchange, 2 refreshes, 1 notice lost | no refresh forgets a live or waiting order, no stale row undoes what was noticed |
| `autom_calm` | `AutoM`, `AutoM_calm` | target 2, 2 per order, 2 pre and 2 post orders at work, 2 rejections to a halt; environment constants FALSE | one pre order per leg, orders fit, waits can end, pending is what the hedges have left |
| `autom_rough` | `AutoM`, `AutoM_rough` | target 1, 1 per order, 1 pre and 2 post orders, a rejection halts; all four environment constants TRUE | types, halting as one (no leg runs beside a halted one) and lastingly, the limit |
| `trading` | `MCTrading` | two rows and two moments of the closing auction; two tiers and two days of the opening; two futures; three peg orders; two windows of Auto-M | nothing is sent twice for one reason, what was told is kept, no step comes out of turn |
| `progress` | `MCProgress` | as above for the opening; two peers, two loans, two COM requests, one restart, one end of a channel | what is begun ends and what breaks is put right, under the fairness below; the answer a caller waits for is never thrown away as another's (`AnswerIsExpected`) |
| `platform` | `MCPlatform` | two keys and two losses of the feed; three connections and two fills of the HL feed; two HL orders, one nonce retry; two TRs with two retries; three generations of a file; three rows of a day and three presses for older ones | nothing counts twice or is missed, what is said of an order is true of it, tokens are good, what was stored is kept |
| `engine` | `MCEngine` | one HL-first set of 2 pieces a contract; two loans; two numbers and two clients of the domestic account; a day limit of 3, three orders of 1 to 3 lots whose fills count 1 or 3 a report | the difference of an HL-first set is owed to somebody, unknown orders halt, the domestic book is the broker's, by how much a day may pass its limit, judgement in time, current rates, fitting orders |
| `resync_twice`, `resync_failed`, `hlfirst_stuck`, `setscreen_rt` | | | violations: see 5 |

The composites' properties are conjunctions; each part is stated, with the code
it is about, in the module of its component:

- `NothingActsTwice`: `NoLotHedgedTwice` (closing auction), `OneWorkingOrder`
  (amended row), `TierFiresOnce` and `ExitOnceWhenWhole` (opening),
  `OneHedgePerStart` (currency), `OnePegOrder`, `NothingOldNothingTwice`
  (Telegram), `RtTakenOnce` (screens).
- `NothingToldIsLost`: `KnownFillsAreTallied`, `OpenAsSaid`, `PositionKept`.
  `StepsInTurn`: `OneTaskAtATime`, `EditsAreKept`.
- `HandedRight`: `NoTornRead` (shared memory), `HandedOnce` (fills to the
  engines), `OwnAnswer` (COM thread).
- `NothingCountsTwice`: `AcceptedAtMostOnce` (HL), `OrderReachesOnce` (LS),
  `NoFillTwice`, `CancelListedOnce`, `NoRowTwice`, `OneStream`.
- `NothingIsMissed`: `FirstGapIsRecovered`, `FeedServesPlan`,
  `EveryConfirmationArrives`, `ListIsWhole`, `ListedIsKnown`.
- `SaidOfTheOrder`: `ResultIsTrue`, `CallNamesItsOrder`.  `TokenIsGood`:
  `TokenHolds`, `NoSpareFetch`.  `StoredIsKept`: `LastSaveIsKept`,
  `StoredAsRead`.
- `JudgedInTime`: `NothingTimedIsMissed`, `LongCancelIsAlarmed`.
  `RatesAreCurrent`: `TheoryIsCurrent`, `BrokerStays`.  `StepsAreFit`:
  `RepaysFit`, `PlacedKeepsTheSpread`, `PauseHoldsPrice`.

Why the bounds are enough.  Three lots are the fewest with which a fill, a
second fill and a cancelled rest differ, or with which an immediate fill is
split over two notices and followed by another.  Orders meet only in the
buffer, for which two orders and a limit of one give evictions both ways; two
refreshes are the fewest where the second meets what the first left.  An
Auto-M order of two contracts is the fewest that fills in part; two pre orders
let both legs be at work, or one leg wrongly have two; two hedges let one be
given up while the other lives.  `MaxShort` bounds the contracts that
stay unhedged, above the limit at which a set halts.  In the other components
two of a kind meet (rows, tiers, clients, windows, requests, keys), each may
fail or be repeated once more than the code forgives without a trace, and
times have the few instants that the code's comparisons tell apart.  A screen
needs two windows of one name, which are alike (`ScreensAlike` is a symmetry of
`trading`), and one leg to be typed into and switched, save where a leg meets the
other: `setscreen_rt` has both.  All
counters are bounded by constants named so in the modules; there is no state
constraint.

Deadlock is not checked: an order that ended, a set with `MaxPosts`
hedges pending and no more fills, a day that is over are at rest rightly.

### Fairness

`FairSpec` of `OrderFlow` states fairness for `EndedIsClosed`: the loop
goes on with a replay it has begun (it is a `for` loop without an await), a
notice sent is delivered in the end (the properties of lost notices are in
`OrderResync`), a placement returns or fails (the gateways time it out) and the
recheck, a timer, runs.  The exchanges owe nothing: they need never fill,
cancel or accept.

`MCProgress` states weak fairness for steps that a timer or a running task of
the code takes by itself, each only while the behaviour is about its component:
the tasks of the opening (created tasks run, a placement returns), the
half-second tick of the report loop and the end of what it awaits (a timeout),
the periodic loan query and its answer, the clock of the COM requests, the
callbacks on the loop and the caller's own limit (never the COM thread's turn),
the hub, reader and writer of the screens' state, the poll of the main window
and the core's own start and end, the startup's channels and refreshes, and the
queues, state feed and timers of a screen.  A person, a quote, an exchange or a
peer is never assumed to do anything.

No fairness is assumed of Auto-M.  That a leg makes progress depends on quotes,
gates and people; `WaitIsAnswered` states instead what can be promised, that
whatever a leg waits for can still happen.

## 4. The proofs

`tlapm M.tla` for each module `*_proofs`.  Everything is for all values of the
constants that the named assumptions admit: finitely many orders, quantities
and limits that are numbers, the two exchanges' keys apart.

| theorem | says |
|---|---|
| `TypeCorrect`, `NoPhantom` (`Order_proofs`) | `Spec => []TypeOK`, `[]NoPhantomFill` |
| `Soundness`, `ClosedSettled`, `CancelCovers`, `WaitsExactly`, `QuietExact`, `OnlyGrows` (`Order_proofs`) | `Spec => []IInv` and each other safety property of `orderflow` |
| `BookIsLedger` (`Order_proofs`) | `Spec => LedgerSpec`, the refinement of `OrderLedger` |
| `ResyncSound`, `LiveSurvives`, `WaitingSurvives`, `StaleRowsHarmless` (`Order_proofs`) | the inductive invariant and the three action properties of `resync` |
| `SetTypeCorrect`, `HaltsAsOne`, `StaysWithinLimit`, `HaltIsLasting` (`AutoM_proofs`) | those of `autom_rough`, in every environment |
| `CalmSound`, `OneOrder`, `Fits`, `WaitsAnswered`, `PendingHedged` (`AutoM_proofs`) | those of `autom_calm`, in the calm environment |
| `HlFirstSafety`, `DifferenceIsOwed`, `LostOrderHalts` (`Engine_proofs`) | `LooseIsOwed` and `UnknownHalts` |
| `RequestsSound`, `SaidIsTrue`, `TokenStaysGood`, `OrdersGoOnce`, `OneStreamServed`, `SavedIsThere` (`Platform_proofs`) | `SaidOfTheOrder`, `TokenIsGood`, `StoredIsKept`, and three parts of `NothingCountsTwice` |
| `NothingCountsAgain` (`Platform_proofs`) | all of `NothingCountsTwice`, for `MaxHlFills <= MaxTids`; rows of the list of a kind whose pages did not cross |
| `PlanIsServed` (`Platform_proofs`) | `FeedServesPlan` and `ListedIsKnown` of `NothingIsMissed`, with no hypothesis |
| `NothingGoesMissing` (`Platform_proofs`) | all of `NothingIsMissed`, as long as what is kept has room (below) |
| `DayStaysWithinLimit`, `BookAgrees` (`Engine_proofs`) | `DayWithinLimit`, `BookIsReal` of `Placing` |
| `RatesStayCurrent`, `TimesAreJudged`, `StepsStayFit` (`Engine_proofs`) | `RatesAreCurrent`, `JudgedInTime`, and the action property `StepsAreFit` |
| `TradingActsOnce`, `TradingKeepsWhatIsTold` (`Trading_proofs`) | `NothingActsTwice`, `NothingToldIsLost`, for `AuRepeats = 0` (below) |
| `TradingKeepsItsTurns` (`Trading_proofs`) | the action property `StepsInTurn`, with no hypothesis |
| `ProgressHandsRight`, `ProgressExpectsAnswers` (`Progress_proofs`) | `HandedRight` and `AnswerIsExpected`, with no hypothesis |

*Orders.*  `NoPhantomFill` is not inductive: that `told` is at most `xfilled`
says nothing of what the next notice adds.  `CountInv` says what a count is made
of: an order has counted the lots of the fills it has seen and, on top, those
that a placement response told in advance and whose notices are to come
(`filled = SeenLots + prov`), and the fills in flight, in the buffer and seen
are pairwise disjoint parts of what was executed (`FillsApart`).  A new fill is
then disjoint from those seen, so seen lots plus it are at most the executed
ones, and what `prov` absorbs keeps the sum right.  `Shape` gives that a closed
order cannot take more than its quantity.

`EndInv` adds the ends of orders: the notice of an end is met once (on its way,
in the buffer, in the replay or in the order), what it says is true, and while
the buffer has evicted nothing, nothing of a tracked order is lost.  A step
moves one message and one order; `Still` and `OneKey` are the frame that keeps
every other order's part of the invariant, and one lemma per kind of step
(`Says`, `Tracks`, `Keeps`, `Meets`) does the order it is about.  The
refinement maps `executed` to what the exchange has filled and `counted` to
what the engines were told; every step of the book is a move of the ledger or a
stutter (`BookMoves`, `Turns`).

*Refreshes.*  Notices may be lost there, so `IInv` does not hold.  `RIInv` keeps
what does not depend on them: orders keep their shape and their quantity
(`Grown`); an order is tracked only once its exchange took it; the rows of an
answer that was read are of orders taken and not filled up at the read; and an
order that was older than the grace at the read and has no row in a successful
answer has ended.  Of one that outgrew the grace since (`snap.grown`) the
invariant says nothing, and `LiveSurvivesResync` leaves it out: there the code
may drop a live order (section 5).  The action properties follow row by row of
the merge.

*Auto-M.*  `TypeOK /\ HaltedAsOne /\ WithinLimit` is inductive as it stands:
`WithinLimit` needs `HaltedAsOne`, because `_finish_round` on a halted leg does
not judge the difference, so the set must be halted as a whole.  Whole means the
entry leg halted and neither leg running: the exit leg may be back at armed
after `_hold_repay`, and a leg that does not run is not evaluated.  Most
handlers are `Mild` (they change neither the ledger nor what is pending nor
who is halted); those that end a hedge are shown to *settle*: they either leave a
hedge pending or judge the difference.  The steps are then one lemma per group
of actions.

The calm properties hold for the constants' assumption `Calm` only (a person
waits, every answer is final); that they fail otherwise is in 5.  `CalmInv`
says of each leg how what it remembers fits the tables of the engine: its
number, its cancel under way, what it filled and what its hedges have left.  A
handler is a chain of small calls, so the proof follows the leg call by call
(`Quiet`, `Dulls`, `Good`, `OrderGoes`), the tables last.  The sums over the
tables are recursive functions; that a change of one entry changes the sum by
as much is proved by a least counterexample from well-foundedness
(`WFMin`, `NatLessThanWellFounded`), as no induction theorem is at hand.

*Sets that begin at Hyperliquid.*  `HIInv` is types, halting as one,
`LooseIsOwed` and `UnknownHalts`.  Every handler of a leg either halts both legs
or leaves the difference as it owes it (`Follows`); what one leg's step does to
the other is `MovedKeeps`; whole contracts and the rest of a fill are split by
`WholeAndRest`.  The handlers that `HlFirst` takes over from `AutoM` by `INSTANCE`
are shown to be the same operators (`SameHandlers`), so the lemmas of
`AutoMSet_proofs` serve both.

*Requests.*  For Hyperliquid (`HoInv`) a group of orders is at one place: not
sent, on its way, in an answer, or done with; an answer says what the exchange
did, and different groups share no order.  A nonce that was refused leaves no
order, which is what makes sending again safe, and a lost answer is asked for
and not sent again.  For the broker (`LrInv`) an order's TR is sent once, and
what is left of a token in a request covers all the tries that the request may
still make: the refresh margin of 60 s exceeds a fetch of 10 s and three tries
of 10 s, or an order of 30 s (`MarginAssumption`, from the constants of
`ls_auth.py` and `ls_rest.py`).  `AccountInv` says that a context names its own
order's code.

`HlLimitInv`: unless requests met, what may still be filled belongs to two
orders at most, and what it weighs, with the day's total, fits the limit but for
what the fills of that request have come to beyond their weight (`slip`).  An
order is weighed at its limit price or the mark, a fill counts at its own price,
so a sell filled above its limit, or a market order, takes the total past the
limit within one request; the next request is weighed with the total as it
became, so that this does not add up.  `place_many`'s loop is a recursive
function; `PassOne` and `PassTwo` unfold it for the one or two orders of a
request.

`BookInv` follows a domestic order from what the book has left of it, along the
notices on their way and those kept for it, to what the broker has (`Course`).
A course goes on when the broker takes a lot, is walked when a notice is heard,
and ends in `BookIsReal` when nothing is under way.  That notices of one number
come in order, by one connection, is what it rests on.

*Composites.*  A step of `MCPlatform`, of `MCEngine` or of `MCTrading` is a step
of each component or leaves it alone (`PartSteps`, `EngineSteps`,
`StepsOfTheRun`, `OtherStepsOfTheRun`); the parts are then proved one by one.

*The closing auction.*  Three invariants say where its tasks are (`TasksInv`: a
day that is done has no task, so the loop winds back at rest), whose order is on
its way (`PlacingInv`: the next row's, and it has been fired) and what was heard
(`TallyInv`: the tally has every lot told of an order, unless it was told before
the answer).  `HedgeInv` is the ledger of lots behind `NoLotHedgedTwice`: what was
hedged, what is gathered and not hedged, and what is on its way as notices are
together at most the lots filled, order by order.  A lot told twice would break the sum:
`_on_fill` of the closing auction adds every notice and looks at no fill id.  So both
theorems assume `AuRepeats = 0`, that the broker tells of a lot once (no source
of a repeat is known on its side); `StepsInTurn` does not need it.

*An amended row, the currency, the following order.*  `AmendInv`: only the last
order of the chain is live, and none while the amend is about to place.  `FxInv`:
what is hedged or about to be is remembered in `_seen` since the start.  `PegInv`
says of every controller, in service or abandoned, that it has one live order at
most, none while it places, and the one it knows of while its box is on; a
controller that was left still finishes the step it is in, which is why those
that are off count as well.

*The opening.*  `FiredOnce`: a tier of an order or batch of the day has fired
today, and a batch that waits shares no tier with an order (`EvaluateTakes` and
`TakesKeeps`: the evaluation takes only tiers that have not fired).  `ExitInv`:
the lots counted of an order, and those kept for it before its answer, are lots
that the exchange filled, so that an order whose lots are all counted is whole;
and while an order is armed, or its batch still runs, its exit was not tried
(`Undecided`), which the count of its last lot ends.

*Telegram.*  `TelegramInv`: once the first poll has passed over what is old, every
update that was handled, or that came while the process was down, lies below the
offset, and those in the queue are neither.

*Auto-M's windows.*  `PaintedInv`: where a set's settings have not changed since the
window saw them, its box holds them and, once loaded, its row was painted with
them; a refresh therefore repaints a row only when something moved, which is
`EditsAreKept`.  `RtInv`: every RT typed in is in one place, a row, a queue or what
the core took, and those still to be typed are larger than all.  The save that a
closing window sends carries its RT without taking it from the row; the invariant
(`RtOf`) and `RtTakenOnce` leave it out, and `setscreen_rt` shows what it does.

*What is handed on.*  `ChInv`: the two halves in the shared memory agree unless the
writer is between them, and while it writes the version is odd
(`OddWhileWriting`); what a reader has read is still what is there as long as the
version it began with stands (`ReadStands`).  A read that ends with that version,
which was even, has therefore two equal halves.  `HandedInv`: a fill that was handed
to the engines has been heard, and what was heard is never on its way again, however
its channel ends; both seats of one xing session ring one hook.  `XcInv`: every word
that waits on the loop is on the request it is told of, also the words that `_expire`
says of several lanes at once, and the drain takes no more commands than the queue
has.  `AnswerIsExpected` rests on three more parts of it: a command to abandon is
queued only for a request that is over for its caller, a request that was let
through finds its lane free when it goes out (`MadeForAFreeLane`; between the two
only the asyncio side moves), and whatever leaves a lane, by an event, by `_expire`
or by `_abandon`, leaves a word for its caller or had none waiting.  The
assumptions on the lanes (finitely many, one for each request) are of
`xing_com.py`, which has two.

*What is stored.*  `SfInv`: while a save or a restore runs, the text that was
saved last is the current file, and between the two renames, when there is no
current file, it is generation 1.  `ArbInv`: a holding that the cycle has read is
stored as read, or the loop of the cycle has yet to come to it.

*Streams.*  `MergeInv`: the messages that wait to be sent are a chain of
"subscribe u, unsubscribe u", which ends with the unit wanted, and its first
message says what the exchange serves now (`Chained`).  Once nothing waits, that
is one stream in the unit wanted.

*Fills.*  `FeedInv` follows the fill frames of the exchange: those on their way
bring fills that are not remembered, behind every snapshot that came
before them, and a fill is counted once exactly if the memory of the last
`MaxTids` (5000) fills has it.  The hypothesis `MaxHlFills <= MaxTids` says that the
memory does not overflow: past it, the oldest fills are forgotten, a snapshot
may bring them again and the code counts them twice.  The trading of a day and
the depth of a snapshot (2000 fills) are far below, but the code does not
enforce it.  That the memory holds everything read is shown by the pigeonhole
argument for sequences that do not repeat (`RoomForOne`, `RememberAll`).

*The plan of keys.*  `LfInv`: whoever registers everything and whoever changes the
plan exclude each other (`_sub_lock`), so while the connection lives the keys
streamed and those wanted differ by exactly what is still to send: while `run`
registers, streamed and to do are the keys wanted (`StreamFits`).  `TakeLockFreely`,
a registration without the lock, breaks it.

*The first gap.*  `GapInv`: a fill that was missed was made no earlier than the last
frame received, and `_mark_disconnected` puts the cut at that frame; so the snapshot of
the second connection, from the cut on, brings it.  A frame on its way was sent in
the present tick (`SentNow`), so that none older than the gap can still move the cut.
It needs the memory of fills to have room, as above.

*Lists in pages.*  `ReadInv`: an order at work all the while, of a number or a code that
the reading has passed, is in what was read; and each page passed at least
`PageSize` numbers (`CountedByNumber`, `PageIsFull`).  So with at most
`MaxPages * PageSize` orders the pages never run out.  That, and that the broker
can continue a list (`CanContinue`), are hypotheses of `NothingGoesMissing`: without
either the list ends early and the code takes it for whole (section 5).

*Confirmations.*  `LnInv` says for each cancel which of its two notices have been
heard (`Heard`).  The map names the order of every cancel that is accepted
and not confirmed (`MapIsRight`), a confirmation is kept only as long as the
acceptance has not come (`HeldAreEarly`), and what has been heard and is not kept
was passed on, once (`HeardAreTold`).  Both dicts drop their oldest entry when they
are full, so the theorem has the hypothesis `[]NoticesInTime`: fewer than
`_PENDING_H01_CAP` (200) confirmations wait, and when the map is full
(`_CANCEL_MAP_CAP`, 4000) the order it would drop has been confirmed.  It is about
how late the broker is, not about how many cancels a day has: a
comment at the constant speaks of 7000.  An early confirmation of an amend is never
released and takes a place of the 200.  The run has two such orders and room for
three, so that it holds there.

*The day's rows.*  Rows have numbers that rise, and an end of an order is in the
list only if its number is recorded (`RowsInv`); of a kind of which no page was
asked for before an earlier one was in, the page that is fetched is older than
every page shown (`ListInv`), which is why a page and the live rows can be
joined without a repetition (`_kind_rows` takes those not live already).  A kind
whose pages crossed is left out until the screen is emptied (section 5).

*Rates.*  `TheoryIsCurrent` and `BrokerStays` are inductive with the types: each
handler that changes an input of the theory computes it anew before it returns.

*Times.*  `LoopInv`: while a set runs and is not halted, no delay that it owes a
judgement ends before the last turn of the loop, the next watch was set
by that turn, and a cancel is alarmed once the watch has seen it for
`AlarmAfter` (30 s; the assumption is only that the two periods are not 0).

*Prices and loans.*  `StepsAreFit` speaks of steps.  A price fitted to the grid
goes to the side's own side and what is then placed rests off the touch
(`PlacedKeepsTheSpread`); a pause needs no invariant.  That a repay order fits
its loan needs `LoanInv`: the last snapshot of a loan, together with what was
bought under it and is not noticed yet, is at most the broker's balance and
what was repaid and is not noticed yet (`Holds`).  It is kept for the snapshot
and for each answer on its way, for the loans that no fill crossed; a fill that
meets a query, and an order that was lost, marks its loan as crossed, and
until a later answer nothing is claimed of it - as the code promises.
Sums over orders are recursive functions; `Summed` obeys the lemmas of
`AutoMSet_proofs` for the totals of a table.

Only model-checked: liveness (`EndedIsClosed`, `WhatBeginsEnds`,
`BreaksArePutRight`), which the prover does not reach.  Every other property of
the passing runs is a theorem, under the hypotheses named above.

## 5. What the runs found

Four disagreements between the code and what it says of itself, each the
counterexample of a run (`PROJECT.json`, "findings"):

- `resync_twice`: a refresh whose answer already holds a fill counts it, and the
  fill's own notice counts it again; the engines hedge it twice.
- `resync_failed`: a refresh for one account whose query of the positions fails
  drops the account's positions.
- `hlfirst_stuck`: a Hyperliquid pre order that fills whole while less than one
  contract of it is loose leaves its leg waiting for a hedge that nobody sent.
- `setscreen_rt`: an RT typed in one window and never sent replaces, when that
  window closes, the RT of a set that another window started.

Observations that are not findings, because no document or comment promises the
contrary, or because a weaker property is the one that the code means.  Each was
seen as a counterexample of TLC.

Orders:

- a refresh that lists a broker order before its placement is answered brings
  it in; a fill noticed then is lost when the response tracks the order anew
  (`order_book.py:269`, `bootstrap.py:1204`).  `StaleRowsUndoNothing` therefore
  leaves out the order just tracked.
- between the read of an account's open orders and `load_snapshot` lie the
  queries of the other account and of Hyperliquid, up to six requests of 10 s
  each (`bootstrap.py:533-572`), and an order is spared for 15 s after `track()`
  only (`order_book.py:163`): one that was placed after the read and is older
  than that when the answer is applied is dropped though it lives.  The comment
  promises no more than "an order just placed".  `LiveSurvivesResync` therefore
  leaves out the orders of `snap.grown`; without that TLC finds it violated.
- the docstring of `apply_place_fill` says that the engines are told by the fill
  notice and not by the response; `_apply_fill_core` tells them at once.  The
  model (`SetOrder`) follows the code.

Auto-M, why the calm environment is needed:

- `Hasty` TRUE breaks `OnePreOrder`: a leg switched off and on while its placement
  is under way places a second pre order (`auto_m.py:1077`).
- `Revivals` TRUE breaks `OnePreOrder`: the fill of a revived hedge ends a round
  while a placement is under way, `_finish_round` finds no number and the leg
  rests and places again.
- `Crossing` TRUE breaks `PendingIsHedged`: a placement that fails after a notice
  identified its order gives up a hedge that is registered and live.
- `Vanishing` TRUE breaks `PendingIsHedged`: one vanished hedge makes the leg give
  up those that live (`auto_m_engine.py:1728`).
- `_hold_repay` takes the exit leg of a set on credit to armed without looking
  at it (`auto_m_engine.py:1051-1053`): if the set was halted between the decision
  and the task, its exit leg is out of the halt and its entry leg in it, though
  only a person lifts a halt (`auto_m.py:11`).  Nothing trades by that: neither
  leg runs, and neither can be switched on while one is halted
  (`core_server.py:1008-1014`).  `HaltedAsOne` states this, and `HaltSticks`
  names the one step that does it.
- a cancel that is refused for a leg switched off before its order was answered
  is not tried again (`auto_m_engine.py:523`).
- a price fitted to the grid and taken back to where it rests is not fitted to
  the market's tick again, though the comment of gate G6 says that an unsuited
  price is refused (`auto_m.py:996`).

Other components, each with the claim that does not hold:

- the quantity an amended Hyperliquid row places anew is `remaining_qty or
  remaining` (`auction_order_engine.py:600`): when nothing remains, the value
  from before the wait is taken and line 601 is never reached; the row may trade
  more than its first order.
- following order: once the box is off and `stop` has ended, an order that the
  interrupted step placed afterwards may be in the market.
- opening: a side may stay on after the chance of the day is over.
- limit of a day: an order is weighed at its limit price or at the mark, or at
  nothing in a market order before the first mark with no band set
  (`bootstrap.py:917-923`), and counts at the price of its fills (`925-929`): the
  last request of a day may take the total past the limit by the difference, and
  that is all (`DayWithinLimit`).  Requests at work at once are not weighed
  together.
- order list: the button for older rows is never disabled (`order_list.py:372`)
  and each press has a thread of its own that asks for what is older than it
  sees (`191-201`); two presses before the first page is in bring the same rows,
  `_drain_older` appends both and `_kind_rows` compares with the live rows only
  (`188-189`), so that rows are shown twice until "latest" is pressed.
- orders to Hyperliquid: an answer that says ok and cannot be parsed is reported
  as a refusal, not as unknown (`hl_live.py:362-363`, `385-386`), though the
  orders may live.
- orders to the broker: an answer of 500 or above is a plain `RestError`
  (`ls_rest.py:250-268`), which `_place_pre` takes for a refusal and may place
  again (`auto_m_engine.py:757-767`).
- order list: accounts number their orders on their own and the list of
  recorded cancels goes by number, so of two orders of one number one end is
  missing.
- state file: a process that ends between the renames of a save finds no file at
  its next start, though the generations hold the text; the replacement is not
  atomic as the docstring of `state_backup.py` has it.
- HL feed: fills of a second gap that begins before the snapshot of the first
  came may be missed; feed over xing: a key whose advise failed with the session
  may stay unserved.
- stock price: at the beginning of a pause a quote of the single price may be
  weighed before the message of the pause comes.
- COM thread: `_do` looks at the future and at the deadline, then loads the res
  file, makes the query and fills its fields, and only then calls `Request`
  (`xing_com.py:435-464`).  When the thread hangs in between, the request of a
  caller who gave up meanwhile goes out late; the comment at line 436 speaks of
  the time in the queue only.  `Do` and `Requested` are therefore two steps, and
  nothing is claimed of such a request but that the lane gets over it.
- processes: a core started while the window closes may outlive it where it is
  bound to no job, until its watch on the parent ends it.
- a list of many pages whose continuation the broker refuses ends early
  (`CanContinue` FALSE breaks `ListIsWhole`).

Screens: an RT or a setting changed while its command is queued is used in its
old form by a run that follows at once; a row that is in focus and untyped is
skipped though its state is taken as painted; closing right after a click on ON
leaves the set running; cells typed under an old name may go to a new one within
0.3 s; a release that was queued lifts a second halt its user has not seen; a
dialog's echo may overwrite what was typed since; and `_autom_set_from_body`
applies the fields before the one that it rejects.

## 6. What is not modelled

- *of the order book*: average prices and balances, which follow the counted
  fills; look-ups without an account; a cancel without a quantity (the exchanges
  of the model name it; `amend_price` closes the original without one, which
  `Placing` models, and the comment at `ls_ws.py:978` awaits an empty field):
  `assumed` is therefore never set in `OrderFlow`; the comparison of a fill's
  symbol with its order's (`_fill_symbol_ok`), which refuses notices that the
  exchanges of the model do not send.
- *of placement*: `cancel_many`'s bookkeeping for the screens, texts of errors;
  whether the mark of a market order lies in the band.
- *of Auto-M*: restart and persistence, the settings and the holdings that a
  person may edit while a set is stopped (`target_qty`, `per_qty` and `rt` are
  changed by hand only then, and a person answers for them), results for
  display.  An order lost to a timeout is settled by a person (`PreSettled`).
  Several fills that are waiting when an order is acknowledged are taken as one.
  Every refusal of a placement is final: the order that lives after an answer of
  500 (section 5) is not modelled.
- *of the opening*: an automatic exit whose price cannot be computed when its
  order is placed, and is then left out (`nxt_open_engine.py:417`); the tiers
  with an exit (`AutoTiers`) always have a price.
- *of the gateways*: an answer of Hyperliquid that cannot be parsed (section 5); a
  token that the broker refuses before it expires (401); request bodies, signing, field layouts, master files,
  quote parsing, account values.
- *of the strategies*: formulas over reals (theory prices, averages, hedge
  quantities), the strategy's own judgement, which the code leaves open.
- *of the screens*: all but Auto-M's windows, the main window's watch, the
  currency hedge's window and the order list hold layout and input only.
- whole components: interfaces and mocks, configuration and domain types,
  reports and diagnostics keep no state of the system (`PROJECT.json`,
  "components").

## 7. Plan

Every safety and action property of the runs is proved.  Left open: the two
hazards that no property covers (`PROJECT.json`, "hazards", each with its reason),
and the restart of Auto-M with orders at work, which the code leaves to a
person.
