----------------------------- MODULE OrderFlow -----------------------------
(***************************************************************************)
(* Placing an order and keeping the order book exact while responses and   *)
(* notices race (bootstrap.py: place, _adopt_hl_order, the cloid           *)
(* identification; order_book.py: track, the notice handlers, the buffer   *)
(* of notices that arrive before their order is tracked, and its replay).  *)
(*                                                                         *)
(* The process is one asyncio loop, so a handler is one step.  The replay  *)
(* loop of replay_pending is the exception: it runs without an await, and  *)
(* is modelled one event per step while `replaying` keeps everything else  *)
(* from moving.                                                            *)
(*                                                                         *)
(* The exchanges are the environment.  A key is an order in the book's     *)
(* sense, (account, number); HlKeys are Hyperliquid's (account None),      *)
(* LsKeys the Korean broker's.  Every message in flight may be overtaken   *)
(* by any other, and a fill may be delivered again.                        *)
(***************************************************************************)
EXTENDS OrderBook, Sequences

CONSTANTS LsKeys, HlKeys,   \* the orders placed
          Qty,              \* [LsKeys \cup HlKeys -> Nat]: ordered lots
          PendingCap,       \* _PENDING_CAP: orders whose notices are kept
          MaxRepeats,       \* bound: fills delivered a second time
          NoKey             \* no replay is running

Keys == LsKeys \cup HlKeys

ASSUME KeysAssumption ==
  LsKeys \cap HlKeys = {} /\ NoKey \notin Keys /\ IsFiniteSet(Keys)
ASSUME QtyAssumption  == Qty \in [Keys -> Nat \ {0}]
ASSUME CapAssumption  == PendingCap \in Nat \ {0}
ASSUME RepeatsAssumption == MaxRepeats \in Nat

VARIABLES
  xs,         \* exchange: where the order is
  xfilled,    \* exchange: lots executed, 1 .. xfilled[k]
  xfirst,     \* Hyperliquid: lots executed at once, told by the response
  wire,       \* notices in flight
  repeats,    \* fills delivered again so far
  resp,       \* where our place() call is
  tracked,    \* the keys of OrderBook._orders
  book,       \* OrderBook._orders
  told,       \* lots announced to on_fill_applied (what the engines hedge)
  pending,    \* OrderBook._pending: notices kept for untracked keys
  rank,       \* insertion order of the keys of _pending; 0: not a key of it
  replaying   \* the key replay_pending is working through

exchange == <<xs, xfilled, xfirst>>
books    == <<tracked, book, told>>
buffer   == <<pending, rank>>
vars == <<xs, xfilled, xfirst, wire, repeats, resp, tracked, book, told,
          pending, rank, replaying>>

Kinds == {"ack", "fill", "cancel", "reject"}
Message == [key : Keys, kind : Kinds, lots : SUBSET Nat, qty : Nat]

Ack(k)       == [key |-> k, kind |-> "ack", lots |-> {}, qty |-> 0]
Fill(k, f)   == [key |-> k, kind |-> "fill", lots |-> f, qty |-> 0]
Cancel(k, q) == [key |-> k, kind |-> "cancel", lots |-> {}, qty |-> q]
Reject(k)    == [key |-> k, kind |-> "reject", lots |-> {}, qty |-> 0]

XLeft(k) == Qty[k] - xfilled[k]

TypeOK ==
  /\ xs \in [Keys -> {"none", "live", "done", "refused"}]
  /\ xfilled \in [Keys -> Nat] /\ xfirst \in [Keys -> Nat]
  /\ wire \subseteq Message /\ repeats \in Nat
  /\ resp \in [Keys -> {"idle", "wait", "held", "done", "gone"}]
  /\ tracked \subseteq Keys
  /\ book \in [Keys -> OrderRecord]
  /\ told \in [Keys -> Nat]
  /\ pending \in [Keys -> Seq(Message)]
  /\ rank \in [Keys -> Nat]
  /\ replaying \in Keys \cup {NoKey}

Init ==
  /\ xs = [k \in Keys |-> "none"]
  /\ xfilled = [k \in Keys |-> 0] /\ xfirst = [k \in Keys |-> 0]
  /\ wire = {} /\ repeats = 0
  /\ resp = [k \in Keys |-> "idle"]
  /\ tracked = {}
  /\ book = [k \in Keys |-> NewOrder(Qty[k])]
  /\ told = [k \in Keys |-> 0]
  /\ pending = [k \in Keys |-> <<>>]
  /\ rank = [k \in Keys |-> 0]
  /\ replaying = NoKey

-----------------------------------------------------------------------------
(* The exchanges (external).                                               *)

(* The request arrives; Hyperliquid may execute q lots at once, in one or  *)
(* two fills (the first of s lots), and says so in the response.           *)
XAccept(k, q, s) ==
  /\ xs[k] = "none" /\ resp[k] # "idle"
  /\ q <= Qty[k] /\ s <= q
  /\ k \in LsKeys => q = 0
  /\ xs' = [xs EXCEPT ![k] = IF q = Qty[k] THEN "done" ELSE "live"]
  /\ xfilled' = [xfilled EXCEPT ![k] = q]
  /\ xfirst' = [xfirst EXCEPT ![k] = q]
  /\ wire' = wire \cup {Ack(k)}
                  \cup {Fill(k, f) : f \in {1 .. s, (s + 1) .. q} \ {{}}}
  /\ UNCHANGED <<repeats, resp, books, buffer, replaying>>

(* The request is refused at the door.  Hyperliquid may also send an       *)
(* orderUpdate that carries the order number of what it refused.           *)
XRefuse(k, notify) ==
  /\ xs[k] = "none" /\ resp[k] # "idle"
  /\ notify => k \in HlKeys
  /\ xs' = [xs EXCEPT ![k] = "refused"]
  /\ wire' = IF notify THEN wire \cup {Reject(k)} ELSE wire
  /\ UNCHANGED <<xfilled, xfirst, repeats, resp, books, buffer, replaying>>

XFill(k, q) ==
  /\ xs[k] = "live" /\ q > 0 /\ q <= XLeft(k)
  /\ xfilled' = [xfilled EXCEPT ![k] = @ + q]
  /\ xs' = [xs EXCEPT ![k] = IF q = XLeft(k) THEN "done" ELSE "live"]
  /\ wire' = wire \cup {Fill(k, (xfilled[k] + 1) .. (xfilled[k] + q))}
  /\ UNCHANGED <<xfirst, repeats, resp, books, buffer, replaying>>

(* A cancel of ours, of the broker's own screen, or of the exchange: only  *)
(* what is left is cancelled, and the notice carries that quantity.        *)
XCancel(k) ==
  /\ xs[k] = "live"
  /\ xs' = [xs EXCEPT ![k] = "done"]
  /\ wire' = wire \cup {Cancel(k, XLeft(k))}
  /\ UNCHANGED <<xfilled, xfirst, repeats, resp, books, buffer, replaying>>

(* The broker numbers the order and rejects it afterwards (SC4).           *)
XReject(k) ==
  /\ k \in LsKeys /\ xs[k] = "live" /\ xfilled[k] = 0
  /\ xs' = [xs EXCEPT ![k] = "done"]
  /\ wire' = wire \cup {Reject(k)}
  /\ UNCHANGED <<xfilled, xfirst, repeats, resp, books, buffer, replaying>>

-----------------------------------------------------------------------------
(* The buffer of notices whose order is not tracked yet.                   *)

Buffered == {k \in Keys : rank[k] > 0}

(* _buffer_event on a new key at the limit: the oldest key is dropped.     *)
Evicted(k) ==
  IF rank[k] = 0 /\ Cardinality(Buffered) >= PendingCap
  THEN {j \in Buffered : \A i \in Buffered : rank[j] <= rank[i]} ELSE {}

BufferEvent(m) ==
  LET gone == Evicted(m.key)
      kept == [k \in Keys |-> IF k \in gone THEN <<>> ELSE pending[k]]
      down == [k \in Keys |-> IF gone = {} \/ rank[k] = 0 THEN rank[k]
                              ELSE rank[k] - 1]
  IN /\ pending' = [kept EXCEPT ![m.key] = Append(@, m)]
     /\ rank' = [down EXCEPT ![m.key] =
                   IF rank[m.key] > 0 THEN @
                   ELSE Cardinality(Buffered \ gone) + 1]

(* The rank of the keys left once k is taken out of _pending.              *)
RankWithout(k) ==
  [j \in Keys |-> IF j = k THEN 0
                  ELSE IF rank[k] > 0 /\ rank[j] > rank[k] THEN rank[j] - 1
                  ELSE rank[j]]

-----------------------------------------------------------------------------
(* The notice handlers of a tracked order.                                 *)

AfterEvent(o, m) ==
  CASE m.kind = "ack" /\ m.key \in LsKeys -> AfterAck(o)
    [] m.kind = "ack" /\ m.key \in HlKeys -> o
    [] m.kind = "fill"                    -> AfterFill(o, m.lots)
    [] m.kind = "cancel"                  -> AfterCancel(o, m.qty)
    [] m.kind = "reject"                  -> AfterReject(o)

(* Put order o under k and announce the lots it counts anew.               *)
SetOrder(k, o) ==
  /\ book' = [book EXCEPT ![k] = o]
  /\ told' = [told EXCEPT ![k] = @ + (o.filled - book[k].filled)]

(* Unless it is repeated, a delivered notice is off the wire.              *)
Consume(m, again) ==
  /\ m \in wire
  /\ again => m.kind = "fill" /\ repeats < MaxRepeats
  /\ repeats' = IF again THEN repeats + 1 ELSE repeats
  /\ wire' = IF again THEN wire ELSE wire \ {m}

DeliverTracked(m, again) ==
  /\ m.key \in tracked
  /\ Consume(m, again)
  /\ SetOrder(m.key, AfterEvent(book[m.key], m))
  /\ UNCHANGED <<exchange, resp, tracked, buffer, replaying>>

(* The cloid of the order is among those awaited or held after a failure.  *)
Identifiable(k) == k \in HlKeys /\ k \notin tracked /\ resp[k] \in {"wait", "held"}

(* _identify_hl_order: an orderUpdate names a cloid of ours before any     *)
(* response did.  Track the order, replay what was kept for it, then       *)
(* handle the update itself, if it ends the order.                         *)
IdentifyHl(m) ==
  LET k == m.key IN
  /\ Identifiable(k) /\ m.kind \in {"ack", "cancel"}
  /\ Consume(m, FALSE)
  /\ tracked' = tracked \cup {k}
  /\ book' = [book EXCEPT ![k] = NewOrder(Qty[k])]
  /\ resp' = [resp EXCEPT ![k] = IF @ = "held" THEN "done" ELSE @]
  /\ pending' = IF m.kind = "cancel"
                THEN [pending EXCEPT ![k] = Append(@, m)] ELSE pending
  /\ replaying' = IF pending'[k] = <<>> THEN NoKey ELSE k
  /\ UNCHANGED <<exchange, told, rank>>

(* Nobody waits for the order yet: keep the notice.  Two orderUpdates are  *)
(* special: one that leaves the order alive is dropped, and a rejection    *)
(* settles that a held placement is dead.                                  *)
DeliverUntracked(m, again) ==
  /\ m.key \notin tracked
  /\ ~(Identifiable(m.key) /\ m.kind \in {"ack", "cancel"})
  /\ Consume(m, again)
  /\ IF m.key \in HlKeys /\ m.kind = "ack" THEN UNCHANGED buffer
     ELSE BufferEvent(m)
  /\ resp' = IF m.key \in HlKeys /\ m.kind = "reject" /\ resp[m.key] = "held"
             THEN [resp EXCEPT ![m.key] = "gone"] ELSE resp
  /\ UNCHANGED <<exchange, books, replaying>>

Deliver(m, again) ==
  DeliverTracked(m, again) \/ IdentifyHl(m) \/ DeliverUntracked(m, again)

-----------------------------------------------------------------------------
(* place() and what becomes of it.                                         *)

Place(k) ==
  /\ resp[k] = "idle"
  /\ resp' = [resp EXCEPT ![k] = "wait"]
  /\ UNCHANGED <<exchange, wire, repeats, books, buffer, replaying>>

(* Mutant: what was kept for the order is not replayed.                    *)
StartReplayNever(k) == k \in Keys /\ replaying' = NoKey

StartReplay(k) == replaying' = IF pending[k] = <<>> THEN NoKey ELSE k

(* The broker answers with the order number: track, then replay.           *)
RespondLs(k) ==
  /\ k \in LsKeys /\ resp[k] = "wait" /\ xs[k] \in {"live", "done"}
  /\ resp' = [resp EXCEPT ![k] = "done"]
  /\ tracked' = tracked \cup {k}
  /\ book' = [book EXCEPT ![k] = NewOrder(Qty[k])]
  /\ StartReplay(k)
  /\ UNCHANGED <<exchange, wire, repeats, told, buffer>>

(* Mutants: track anew an order that a notice identified; count the whole  *)
(* immediate fill again.                                                   *)
AdoptedAnew(k, q) == AfterPlaceFill(NewOrder(Qty[k]), q)
AdoptedWhole(k, q) ==
  AfterPlaceFill(IF k \in tracked THEN book[k] ELSE NewOrder(Qty[k]), q)

(* _adopt_hl_order: the order may be tracked already; of the q lots that   *)
(* the response says filled at once only what no notice has counted yet is *)
(* counted, then the notices kept are replayed.                            *)
Adopted(k, q) ==
  LET o == IF k \in tracked THEN book[k] ELSE NewOrder(Qty[k])
  IN IF q > o.filled THEN AfterPlaceFill(o, q - o.filled) ELSE o

(* When the response is lost but a lookup of the cloid finds the order     *)
(* (_recover_by_cloid), nothing is known of an immediate fill: q = 0.      *)
RespondHl(k, q) ==
  /\ k \in HlKeys /\ resp[k] = "wait" /\ xs[k] \in {"live", "done"}
  /\ resp' = [resp EXCEPT ![k] = "done"]
  /\ tracked' = tracked \cup {k}
  /\ SetOrder(k, Adopted(k, q))
  /\ StartReplay(k)
  /\ UNCHANGED <<exchange, wire, repeats, buffer>>

(* The call fails: an error, or no answer to a request that may still have *)
(* arrived.  A Hyperliquid cloid is held for a grace period.               *)
PlaceFails(k) ==
  /\ resp[k] = "wait"
  /\ resp' = [resp EXCEPT ![k] = IF k \in HlKeys THEN "held" ELSE "gone"]
  /\ UNCHANGED <<exchange, wire, repeats, books, buffer, replaying>>

(* _late_hl_recheck at the end of the grace: ask for the cloid.            *)
RecheckFinds(k) ==
  /\ resp[k] = "held" /\ xs[k] \in {"live", "done"}
  /\ resp' = [resp EXCEPT ![k] = "done"]
  /\ IF k \in tracked THEN UNCHANGED <<tracked, book, replaying>>
     ELSE /\ tracked' = tracked \cup {k}
          /\ book' = [book EXCEPT ![k] = NewOrder(Qty[k])]
          /\ StartReplay(k)
  /\ UNCHANGED <<exchange, wire, repeats, told, buffer>>

(* The lookup knows nothing, or fails: the order is given up.              *)
RecheckGivesUp(k) ==
  /\ resp[k] = "held"
  /\ resp' = [resp EXCEPT ![k] = "gone"]
  /\ UNCHANGED <<exchange, wire, repeats, books, buffer, replaying>>

(* One turn of the loop of replay_pending.                                 *)
Replay ==
  LET k == replaying
      m == Head(pending[k])
  IN /\ replaying # NoKey
     /\ SetOrder(k, AfterEvent(book[k], m))
     /\ pending' = [pending EXCEPT ![k] = Tail(@)]
     /\ rank' = RankWithout(k)
     /\ replaying' = IF Tail(pending[k]) = <<>> THEN NoKey ELSE k
     /\ UNCHANGED <<exchange, wire, repeats, resp, tracked>>

-----------------------------------------------------------------------------
Exchange(k) ==
  \/ \E q \in 0 .. Qty[k] : \E s \in 0 .. q : XAccept(k, q, s)
  \/ \E notify \in BOOLEAN : XRefuse(k, notify)
  \/ \E q \in 1 .. Qty[k] : XFill(k, q)
  \/ XCancel(k)
  \/ XReject(k)

Respond(k) == RespondLs(k) \/ \E q \in {0, xfirst[k]} : RespondHl(k, q)
Recheck(k) == RecheckFinds(k) \/ RecheckGivesUp(k)

Step ==
  \/ \E k \in Keys : Exchange(k) \/ Place(k) \/ Respond(k) \/ PlaceFails(k)
                     \/ Recheck(k)
  \/ \E m \in wire : \E again \in BOOLEAN : Deliver(m, again)

Next == (replaying = NoKey /\ Step) \/ Replay

Spec == Init /\ [][Next]_vars

(* The loop keeps running, a notice sent is delivered in the end, and a    *)
(* call returns: the gateways time it out.  The exchanges owe nothing.     *)
Fairness ==
  /\ WF_vars(Replay)
  /\ WF_vars(replaying = NoKey /\ \E m \in wire : Deliver(m, FALSE))
  /\ \A k \in Keys :
       /\ WF_vars(replaying = NoKey /\ (Respond(k) \/ PlaceFails(k)))
       /\ WF_vars(replaying = NoKey /\ Recheck(k))

FairSpec == Spec /\ Fairness

-----------------------------------------------------------------------------
(* What must hold.                                                         *)

(* No lot is announced to the engines, which hedge it, that the exchange   *)
(* has not executed: place responses, notices, repeats and replays of the  *)
(* same fill count once (on_fill, apply_place_fill, _adopt_hl_order).      *)
NoPhantomFill == \A k \in Keys : told[k] <= xfilled[k]

(* An order is closed in the book only when the exchange has ended it and  *)
(* all it executed is counted: a cancel notice that overtakes fills leaves *)
(* the order open until they come (on_cancel), so no fill ever meets a     *)
(* closed order.                                                           *)
ClosedIsSettled ==
  \A k \in tracked : ~IsOpen(book[k]) =>
    xs[k] = "done" /\ book[k].filled = xfilled[k]

(* While the exchange works an order, the book has it open with at least   *)
(* as much remaining as is live, so a cancel of the book's remaining       *)
(* quantity (cancel, amend_price) leaves no part of it alive.              *)
CancelCoversLive ==
  \A k \in tracked : xs[k] = "live" =>
    IsOpen(book[k]) /\ Remaining(book[k]) >= XLeft(k)

(* An order that a partial cancel left open (on_cancel) waits for exactly  *)
(* the lots that were executed and are not counted yet.                    *)
WaitsForExecuted ==
  \A k \in tracked : IsOpen(book[k]) /\ book[k].cancelled > 0 =>
    xs[k] = "done" /\ Remaining(book[k]) = xfilled[k] - book[k].filled

(* No notice is pushed out of the buffer (_PENDING_CAP).                   *)
BufferHolds == Cardinality({k \in Keys : resp[k] # "idle"}) <= PendingCap

(* Whatever the order in which its notices and its response came, once     *)
(* none is left under way the book agrees with the exchange on what was    *)
(* executed and on whether the order is alive, and the engines were told.  *)
Quiet(k) ==
  /\ replaying = NoKey /\ resp[k] = "done"
  /\ \A m \in wire : m.key = k => m.kind = "fill" /\ m.lots \in book[k].seen

QuietIsExact ==
  \A k \in Keys : Quiet(k) /\ BufferHolds =>
    /\ k \in tracked
    /\ book[k].filled = xfilled[k] /\ told[k] = xfilled[k]
    /\ IsOpen(book[k]) <=> xs[k] = "live"

(* A closed order is never reopened, nothing counted is uncounted, and no  *)
(* tracked order is forgotten.                                             *)
BookOnlyGrows ==
  [][\A k \in tracked :
       /\ k \in tracked'
       /\ book[k].filled <= book'[k].filled
       /\ ~IsOpen(book[k]) => ~IsOpen(book'[k])]_vars

(* An order that the exchange has ended and whose placement was answered   *)
(* is closed in the end, with all that was executed announced: no notice   *)
(* kept in the buffer is left behind.                                      *)
EndedIsClosed ==
  \A k \in Keys :
    (xs[k] = "done" /\ resp[k] = "done")
      ~> (BufferHolds => k \in tracked /\ ~IsOpen(book[k]) /\ told[k] = xfilled[k])

(* The order book implements the ledger it promises.                       *)
Ledger == INSTANCE OrderLedger WITH
  Size <- Qty, executed <- xfilled,
  ended <- {k \in Keys : xs[k] = "done"}, counted <- told,
  closed <- {k \in tracked : ~IsOpen(book[k])}

LedgerSpec == Ledger!Spec

-----------------------------------------------------------------------------
(* The inductive invariant.  It ties each order of the book to the         *)
(* exchange: what it counts as filled is the lots of the fills it has seen *)
(* plus what a place response told in advance, and the fills under way,    *)
(* buffered or seen are disjoint parts of what was executed.               *)

(* The lots whose notices the order has seen.                              *)
SeenLots(o) == Cardinality(UNION o.seen)

(* The statuses agree with the quantities.                                 *)
Shape(o) ==
  /\ ~o.assumed
  /\ o.status = "filled" => o.qty <= o.filled
  /\ IsOpen(o) => o.filled + o.cancelled < o.qty

(* Order o against x executed lots.                                        *)
Sound(o, x) ==
  /\ UNION o.seen \subseteq 1 .. x
  /\ o.filled = SeenLots(o) + o.prov
  /\ o.filled <= x
  /\ Shape(o)

(* All the fills of order k: in flight, kept in the buffer, or seen.       *)
WireFills(k) == {m.lots : m \in {w \in wire : w.key = k /\ w.kind = "fill"}}
KeptFills(s) == {s[i].lots : i \in {j \in 1 .. Len(s) : s[j].kind = "fill"}}
FillsOf(k)   == WireFills(k) \cup KeptFills(pending[k]) \cup book[k].seen

(* They are disjoint parts of what was executed.                           *)
FillsApart ==
  \A k \in Keys :
    /\ \A f \in FillsOf(k) : f \subseteq 1 .. xfilled[k]
    /\ \A f, g \in FillsOf(k) : f = g \/ f \cap g = {}

ExchangeOK ==
  \A k \in Keys :
    /\ xfilled[k] <= Qty[k] /\ xfirst[k] <= xfilled[k]
    /\ xs[k] = "none" => xfilled[k] = 0

BookOK ==
  \A k \in Keys :
    /\ Sound(book[k], xfilled[k])
    /\ book[k].qty = Qty[k]
    /\ told[k] = book[k].filled
    /\ k \notin tracked => book[k] = NewOrder(Qty[k])

(* The broker's orders are tracked when the response names them.           *)
LsTracked == \A k \in LsKeys : k \in tracked => resp[k] = "done"

(* replay_pending has something left to replay while it runs.              *)
ReplayOK ==
  replaying # NoKey => replaying \in tracked /\ pending[replaying] # <<>>

(* Each order of the book is sound against the lots the exchange executed, *)
(* and no two fills of one order overlap (on_fill, apply_place_fill,       *)
(* replay_pending): the reason why a lot is never counted twice.           *)
CountInv == TypeOK /\ ReplayOK /\ ExchangeOK /\ FillsApart /\ BookOK
            /\ LsTracked

(* What is under way or kept belongs to an order that was sent, an         *)
(* answered order is tracked, and notices are kept for untracked ones and  *)
(* for the one being replayed.                                             *)
CallOK(k) ==
  /\ xs[k] # "none" => resp[k] # "idle"
  /\ rank[k] > 0 => resp[k] # "idle"
  /\ resp[k] = "done" => k \in tracked
  /\ k \in tracked => xs[k] \in {"live", "done"}
  /\ k \in tracked /\ pending[k] # <<>> => replaying = k

(* A notice of k says what is true of k at its exchange.                   *)
Truthful(k, m) ==
  /\ m.kind \in {"ack", "fill"} => xs[k] \in {"live", "done"}
  /\ m.kind = "cancel" => xs[k] = "done" /\ m.qty = XLeft(k) /\ m.qty > 0
  /\ m.kind = "reject" => xs[k] \in {"done", "refused"} /\ xfilled[k] = 0

NoticesTrue(k) ==
  /\ \A m \in wire : m.key = k => Truthful(k, m)
  /\ \A i \in 1 .. Len(pending[k]) : Truthful(k, pending[k][i])

(* An order has one notice of its end at most: on the wire, in the buffer  *)
(* or met by the book.                                                     *)
Ending == {"cancel", "reject"}
WireEnds(k) == {m \in wire : m.key = k /\ m.kind \in Ending}
KeptEnds(s) == {i \in 1 .. Len(s) : s[i].kind \in Ending}
HasEnded(o) == o.cancelled > 0 \/ o.status = "rejected"

EndsOnce(k) ==
  /\ \A m, n \in WireEnds(k) : m = n
  /\ \A i, j \in KeptEnds(pending[k]) : i = j
  /\ WireEnds(k) # {} => KeptEnds(pending[k]) = {} /\ ~HasEnded(book[k])
  /\ KeptEnds(pending[k]) # {} => ~HasEnded(book[k])

(* What ended order o, of which x lots were executed, left of it.          *)
Settled(o, x) ==
  /\ o.cancelled \in {0, o.qty - x}
  /\ o.status = "rejected" => x = 0
  /\ o.status = "cancelled" => Remaining(o) = 0

EndsTrue(k) ==
  /\ xs[k] = "live" => xfilled[k] < Qty[k]
  /\ xs[k] = "refused" => xfilled[k] = 0
  /\ Settled(book[k], xfilled[k])
  /\ HasEnded(book[k]) => xs[k] = "done"

(* Each executed lot is in a fill on the wire, kept or seen, and the end   *)
(* of an order that was not filled up is on the wire, kept or known.       *)
Lossless(k) ==
  /\ 1 .. xfilled[k] \subseteq UNION FillsOf(k)
  /\ xs[k] = "done" /\ xfilled[k] < Qty[k] =>
       \/ WireEnds(k) # {} \/ KeptEnds(pending[k]) # {}
       \/ HasEnded(book[k])

EndInv ==
  /\ \A k \in Keys : CallOK(k) /\ NoticesTrue(k) /\ EndsOnce(k) /\ EndsTrue(k)
  /\ BufferHolds => \A k \in Keys : Lossless(k)

(* All that the code keeps true of an order between its exchange, the      *)
(* notices under way, the buffer and the book (order_book.py on_fill,      *)
(* on_cancel, on_reject, _buffer_event, replay_pending; bootstrap.py       *)
(* place, _adopt_hl_order): it counts each lot once, ends once, and loses  *)
(* no notice while the buffer holds.                                       *)
IInv == CountInv /\ EndInv
=============================================================================
