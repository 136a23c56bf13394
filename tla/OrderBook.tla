----------------------------- MODULE OrderBook -----------------------------
(***************************************************************************)
(* One tracked order of the order book (order_book.py, TrackedOrder) and   *)
(* the pure part of every handler that changes it.                         *)
(*                                                                         *)
(* A quantity is a natural number of lots.  A fill is identified by the    *)
(* set of lots it executed: the executions of one order are disjoint, so   *)
(* the set plays the role of fill_id and its size that of the quantity.    *)
(* Prices, averages, cash and logging are left out: no property looks at   *)
(* them.                                                                   *)
(***************************************************************************)
EXTENDS Naturals, FiniteSets

OpenStatus == {"new", "accepted", "partial"}
ClosedStatus == {"filled", "cancelled", "rejected"}

(* TrackedOrder: `prov` is provisional_filled, `seen` seen_fill_ids,       *)
(* `assumed` cancel_assumed.                                               *)
OrderRecord ==
  [status : OpenStatus \cup ClosedStatus, qty : Nat, filled : Nat,
   cancelled : Nat, prov : Nat, seen : SUBSET (SUBSET Nat), assumed : BOOLEAN]

NewOrder(q) ==
  [status |-> "new", qty |-> q, filled |-> 0, cancelled |-> 0, prov |-> 0,
   seen |-> {}, assumed |-> FALSE]

IsOpen(o) == o.status \in OpenStatus

(* The quantity still unaccounted for: order - filled - cancelled.         *)
Remaining(o) ==
  IF o.filled + o.cancelled < o.qty THEN o.qty - (o.filled + o.cancelled) ELSE 0

StatusAfterQty(o) ==
  CASE Remaining(o) = 0 /\ o.cancelled > 0 -> "cancelled"
    [] Remaining(o) = 0 /\ o.cancelled = 0 -> "filled"
    [] Remaining(o) > 0 /\ o.filled > 0    -> "partial"
    [] OTHER                               -> o.status

(* Recount the status of an order that is open; a closed one keeps its     *)
(* own.                                                                    *)
Recount(o) == IF IsOpen(o) THEN [o EXCEPT !.status = StatusAfterQty(o)] ELSE o

(* _apply_fill_core: count q more lots as filled.                          *)
ApplyFill(o, q) == Recount([o EXCEPT !.filled = @ + q])

AfterAck(o) == IF o.status = "new" THEN [o EXCEPT !.status = "accepted"] ELSE o

-----------------------------------------------------------------------------
(* on_fill, once its fill_id is known to be new: remember it and let the   *)
(* lots that the place response already counted absorb it.                 *)

Absorbed(o, f) == IF Cardinality(f) < o.prov THEN Cardinality(f) ELSE o.prov
Rest(o, f)     == Cardinality(f) - Absorbed(o, f)

(* Mutants of Note: the fill_id is not remembered; the absorbed quantity   *)
(* is not limited to what the response counted.                            *)
NoteForgets(o, f)  == [o EXCEPT !.prov = @ - Absorbed(o, f)]
NoteOverdraw(o, f) == [o EXCEPT !.seen = @ \cup {f}, !.prov = @ - Cardinality(f)]

Note(o, f) == [o EXCEPT !.seen = @ \cup {f}, !.prov = @ - Absorbed(o, f)]

(* The fills that on_fill drops: a known fill_id, one wholly absorbed, one *)
(* for an order filled already or with nothing left.                       *)
Drops(o, f) ==
  \/ f \in o.seen
  \/ Rest(o, f) = 0
  \/ o.status = "filled"
  \/ IsOpen(o) /\ Remaining(o) = 0

(* A fill after a cancel of assumed quantity takes its lots back from it.  *)
Reclaim(o, q) ==
  IF ~IsOpen(o) /\ o.assumed /\ o.cancelled >= q
  THEN [o EXCEPT !.cancelled = @ - q] ELSE o

AfterFill(o, f) ==
  CASE f \in o.seen                       -> o
    [] f \notin o.seen /\ Drops(o, f)     -> Note(o, f)
    [] OTHER -> ApplyFill(Reclaim(Note(o, f), Rest(o, f)), Rest(o, f))

(* apply_place_fill: the response of the placement says q lots filled at   *)
(* once; count them now and absorb their notices later.                    *)
PlaceApplied(o, q) == IF q < Remaining(o) THEN q ELSE Remaining(o)

(* Mutant: the notices to come are not told what is counted already.       *)
AfterPlaceFillForgets(o, q) == ApplyFill(o, PlaceApplied(o, q))

AfterPlaceFill(o, q) ==
  IF PlaceApplied(o, q) = 0 THEN o
  ELSE [ApplyFill(o, PlaceApplied(o, q)) EXCEPT !.prov = @ + PlaceApplied(o, q)]

-----------------------------------------------------------------------------
(* Mutants of AfterCancel: close the order whatever quantity is confirmed; *)
(* leave it open without noting the quantity; note the part not confirmed. *)
AfterCancelCloses(o, q) ==
  IF ~IsOpen(o) THEN o ELSE Recount([o EXCEPT !.cancelled = @ + Remaining(o)])

AfterCancelIgnores(o, q) ==
  IF ~IsOpen(o) \/ q < Remaining(o) THEN o
  ELSE Recount([o EXCEPT !.cancelled = @ + Remaining(o)])

AfterCancelRest(o, q) ==
  IF ~IsOpen(o) THEN o
  ELSE Recount([o EXCEPT !.cancelled =
                  @ + (IF q >= Remaining(o) THEN Remaining(o) ELSE Remaining(o) - q)])

(* on_cancel with the confirmed quantity q: close the order when q covers  *)
(* what is left, otherwise wait, open, for the fills that make up the      *)
(* difference.  A cancel that names no quantity, which sets cancel_assumed *)
(* and closes the order, does not come from the exchanges of OrderFlow.    *)
AfterCancel(o, q) ==
  IF ~IsOpen(o) THEN o
  ELSE Recount([o EXCEPT !.cancelled =
                  @ + (IF q >= Remaining(o) THEN Remaining(o) ELSE q)])

AfterReject(o) == IF IsOpen(o) THEN [o EXCEPT !.status = "rejected"] ELSE o

-----------------------------------------------------------------------------
(* _merge_snapshot_order: a row of the exchange's open orders that says    *)
(* `n` lots are filled meets the order the book tracks.                    *)
MergeSnapshot(o, n) ==
  CASE ~IsOpen(o)                    -> o
    [] IsOpen(o) /\ n > o.filled     -> Recount([o EXCEPT !.filled = n])
    [] IsOpen(o) /\ n = o.filled /\ o.status = "new" ->
                                        [o EXCEPT !.status = "accepted"]
    [] OTHER                         -> o
=============================================================================
