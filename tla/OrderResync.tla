----------------------------- MODULE OrderResync -----------------------------
(***************************************************************************)
(* OrderFlow with the resynchronisation of the order book: a REST query of *)
(* the open orders of one market, started by a reconnection or by hand,    *)
(* whose rows are merged into the book while notices and responses go on   *)
(* (bootstrap.py: refresh_snapshot, _query_snapshot, _on_ws_reconnect;     *)
(* order_book.py: load_snapshot, _merge_snapshot_order).                   *)
(*                                                                         *)
(* A refresh takes three steps: it asks, the exchange reads its open       *)
(* orders, the answer is applied.  Everything of OrderFlow may happen      *)
(* between them.  Refreshes are made one at a time.                        *)
(***************************************************************************)
EXTENDS OrderFlow

CONSTANTS MaxRefreshes,   \* bound: refreshes started
          MaxLosses       \* bound: notices lost while a connection is down

ASSUME BoundsAssumption == MaxRefreshes \in Nat /\ MaxLosses \in Nat

VARIABLES
  snap,       \* the refresh under way, and the rows it has read
  aged,       \* tracked orders older than the grace (_SNAPSHOT_GRACE_S)
  refreshes, losses

rvars == <<vars, snap, aged, refreshes, losses>>

NoRefresh ==
  [stage |-> "idle", scope |-> {}, live |-> {}, rows |-> [k \in Keys |-> 0],
   ok |-> FALSE, dirty |-> FALSE, retry |-> FALSE, grown |-> {}]

(* refresh_snapshot notes a fill that the book counts while it waits.      *)
NotesFills(s) ==
  [s EXCEPT !.dirty = \/ @
                      \/ s.stage # "idle" /\ \E k \in s.scope : told'[k] # told[k]]

(* track() stamps an order with the time; the broker's response tracks     *)
(* whatever the book has under the number already.                         *)
JustTracked ==
  (tracked' \ tracked) \cup
  {k \in LsKeys : resp[k] = "wait" /\ resp'[k] = "done"}

Flow ==
  /\ Next
  /\ aged' = aged \ JustTracked
  /\ snap' = NotesFills(snap)
  /\ UNCHANGED <<refreshes, losses>>

(* A notice sent while the connection is down never arrives (external).    *)
Lose(m) ==
  /\ m \in wire /\ losses < MaxLosses
  /\ wire' = wire \ {m}
  /\ losses' = losses + 1
  /\ UNCHANGED <<exchange, repeats, resp, books, buffer, replaying, snap, aged,
                 refreshes>>

(* The grace of 15 s since track() runs out, at any moment: between the    *)
(* read of an account's open orders and load_snapshot lie the queries of   *)
(* the other accounts, of 10 s each.  snap.grown keeps, for the property   *)
(* below, the orders that outgrow the grace while an answer waits.         *)
Age(k) ==
  /\ k \in tracked \ aged
  /\ aged' = aged \cup {k}
  /\ snap' = [snap EXCEPT !.grown = IF snap.stage = "read" THEN @ \cup {k} ELSE @]
  /\ UNCHANGED <<vars, refreshes, losses>>

-----------------------------------------------------------------------------
Ask(scope) ==
  /\ snap.stage = "idle" /\ refreshes < MaxRefreshes /\ scope # {}
  /\ snap' = [NoRefresh EXCEPT !.stage = "asked", !.scope = scope]
  /\ refreshes' = refreshes + 1
  /\ UNCHANGED <<vars, aged, losses>>

(* The exchange reads the open orders it will answer (external).           *)
Read ==
  /\ snap.stage = "asked"
  /\ snap' = [snap EXCEPT !.stage = "read", !.rows = xfilled, !.ok = TRUE,
                          !.live = {k \in snap.scope : xs[k] = "live"}]
  /\ UNCHANGED <<vars, aged, refreshes, losses>>

(* The query fails.  For the broker the rest of the snapshot is applied    *)
(* without that account; a Hyperliquid failure ends the refresh.           *)
ReadFails ==
  /\ snap.stage = "asked"
  /\ snap' = IF snap.scope = LsKeys THEN [snap EXCEPT !.stage = "read"]
             ELSE NoRefresh
  /\ UNCHANGED <<vars, aged, refreshes, losses>>

-----------------------------------------------------------------------------
(* load_snapshot.                                                          *)

(* An order as a row of the open orders describes it.                      *)
RowOrder(k, n) ==
  [NewOrder(Qty[k]) EXCEPT !.filled = n,
                           !.status = IF n > 0 THEN "partial" ELSE "accepted"]

(* A partial cancel was confirmed and its fills are still to come.         *)
Waiting(o) == o.cancelled > 0 /\ Remaining(o) > 0

(* Mutants of Gone: without the grace; without the orders that wait.       *)
GoneAtOnce == {k \in (tracked \cap snap.scope) \ snap.live :
                 snap.ok /\ ~Waiting(book[k])}
GoneWaiting == {k \in (tracked \cap snap.scope) \ snap.live :
                  snap.ok /\ k \in aged}

(* The tracked orders taken for ghosts.                                    *)
Gone == {k \in (tracked \cap snap.scope) \ snap.live :
           snap.ok /\ k \in aged /\ ~Waiting(book[k])}

(* Mutant: the row replaces the order the book tracks.                     *)
MergedReplaces(k) == RowOrder(k, snap.rows[k])

Merged(k) == MergeSnapshot(book[k], snap.rows[k])

(* Ghosts go, unknown orders come in (old by their stamp of zero, their    *)
(* fills announced to nobody), known ones are merged and the difference is *)
(* announced.  If fills were counted meanwhile, one more refresh follows.  *)
Apply ==
  /\ snap.stage = "read" /\ replaying = NoKey
  /\ LET added == snap.live \ tracked
         known == snap.live \cap tracked
     IN /\ tracked' = (tracked \ Gone) \cup added
        /\ book' = [k \in Keys |->
                      CASE k \in Gone  -> NewOrder(Qty[k])
                        [] k \in added -> RowOrder(k, snap.rows[k])
                        [] k \in known -> Merged(k)
                        [] OTHER       -> book[k]]
        /\ told' = [k \in Keys |->
                      IF k \in known THEN told[k] + (book'[k].filled - book[k].filled)
                      ELSE told[k]]
        /\ aged' = (aged \ Gone) \cup added
  /\ snap' = IF snap.dirty /\ ~snap.retry
             THEN [NoRefresh EXCEPT !.stage = "asked", !.scope = snap.scope,
                                    !.retry = TRUE]
             ELSE NoRefresh
  /\ UNCHANGED <<exchange, wire, repeats, resp, buffer, replaying, refreshes,
                 losses>>

-----------------------------------------------------------------------------
RInit == Init /\ snap = NoRefresh /\ aged = {} /\ refreshes = 0 /\ losses = 0

Refresh ==
  /\ replaying = NoKey
  /\ \/ \E scope \in {HlKeys, LsKeys} : Ask(scope)
     \/ Read \/ ReadFails \/ Apply

RNext ==
  \/ Flow
  \/ Refresh
  \/ replaying = NoKey /\ \E m \in wire : Lose(m)
  \/ replaying = NoKey /\ \E k \in Keys : Age(k)

RSpec == RInit /\ [][RNext]_rvars

-----------------------------------------------------------------------------
(* What must hold.                                                         *)

(* No refresh forgets an order that the exchange still works, whatever it  *)
(* read before or after the order was accepted and tracked (load_snapshot, *)
(* the grace; accounts that could not be queried), but one: an order that  *)
(* outgrew the grace between the read and the use of the answer, which     *)
(* the code does not keep short.                                           *)
LiveSurvivesResync ==
  [][\A k \in tracked \ snap.grown : xs[k] = "live" => k \in tracked']_rvars

(* Nor does it forget an order of which executed lots are still to be      *)
(* announced, once a cancel notice said so, though the exchange no longer  *)
(* lists it (load_snapshot, the orders that wait after on_cancel).         *)
WaitingSurvivesResync ==
  [][\A k \in tracked :
       IsOpen(book[k]) /\ book[k].cancelled > 0 => k \in tracked']_rvars

(* A row read before a cancel or a fill was noticed does not undo it:      *)
(* while an order is tracked it stays closed and its fills stay counted    *)
(* (_merge_snapshot_order).  A response of the broker that comes after the *)
(* row is left out, since track() then puts a fresh order in its place.    *)
StaleRowsUndoNothing ==
  [][\A k \in (tracked \cap tracked') \ JustTracked :
       /\ book[k].filled <= book'[k].filled
       /\ ~IsOpen(book[k]) => ~IsOpen(book'[k])]_rvars

-----------------------------------------------------------------------------
(* The inductive invariant of the three properties.                        *)

(* The order the book has under k, tracked or not: well formed, pristine   *)
(* unless tracked, and tracked only once its exchange has taken it.        *)
Kept(k) ==
  /\ Shape(book[k]) /\ book[k].qty = Qty[k]
  /\ k \notin tracked => book[k] = NewOrder(Qty[k])
  /\ k \in tracked => xs[k] \in {"live", "done"}
  /\ xs[k] = "none" => xfilled[k] = 0
  /\ xs[k] = "live" => xfilled[k] < Qty[k]

(* A notice brings finitely many lots; only an order that was taken is     *)
(* acknowledged or cancelled.                                              *)
FiniteLots(kept) == \A i \in 1 .. Len(kept) : IsFiniteSet(kept[i].lots)

Noticed ==
  /\ \A m \in wire : /\ IsFiniteSet(m.lots)
                     /\ m.kind \in {"ack", "cancel"} => xs[m.key] \in {"live", "done"}
  /\ \A k \in Keys : FiniteLots(pending[k])

SnapType ==
  snap \in [stage : {"idle", "asked", "read"}, scope : SUBSET Keys,
            live : SUBSET Keys, rows : [Keys -> Nat],
            ok : BOOLEAN, dirty : BOOLEAN, retry : BOOLEAN, grown : SUBSET Keys]

(* A row is of an order that was taken and not filled up when it was read; *)
(* an order without a row that was older than the grace at the read has    *)
(* ended.  The second is why a refresh must not look at younger orders,    *)
(* and says what it cannot tell: whether one that grew old since has.      *)
RowsTrue ==
  /\ snap.stage # "read" => snap.live = {} /\ ~snap.ok
  /\ \A k \in snap.live : xs[k] \in {"live", "done"} /\ snap.rows[k] < Qty[k]
  /\ snap.stage = "read" /\ snap.ok =>
       \A k \in (aged \cap snap.scope) \ (snap.live \cup snap.grown) : xs[k] = "done"

FlowKept == TypeOK /\ ReplayOK /\ (\A k \in Keys : Kept(k)) /\ Noticed

RIInv == FlowKept /\ SnapType /\ aged \subseteq tracked /\ RowsTrue

=============================================================================
