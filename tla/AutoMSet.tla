------------------------------ MODULE AutoMSet ------------------------------
(***************************************************************************)
(* The decisions of one Auto-M set (auto_m.py, AutoMSet and Leg): a        *)
(* domestic order rests at the broker (the pre order), and what it fills   *)
(* is hedged at once on Hyperliquid (post orders).  A set has two legs,    *)
(* entry and exit.  Every handler is a function from the set to the set.   *)
(*                                                                         *)
(* Modelled is a forward set of the product whose pre order is the broker's.  *)
(* A reverse set is its mirror image: the sides are swapped and `held` is  *)
(* -rt, which the code computes before it decides anything.  Prices, the   *)
(* results accumulated for display, alarms and texts are left out; a pre   *)
(* price is known exactly when pre_qty > 0 (they are set and cleared       *)
(* together).                                                              *)
(***************************************************************************)
EXTENDS Integers

CONSTANTS Target,     \* target_qty, contracts to hold
          Per,        \* per_qty, contracts per order
          Ratio,      \* hl_ratio, Hyperliquid contracts per domestic one
          RejectLimit \* PRE_REJECT_LIMIT

ASSUME SizesAssumption == Target \in Nat \ {0} /\ Per \in Nat \ {0}
ASSUME RatioAssumption == Ratio \in Nat \ {0}
ASSUME RejectAssumption == RejectLimit \in Nat \ {0}

Block == {"entry", "exit"}
Other(b) == IF b = "entry" THEN "exit" ELSE "entry"

LegStatus == {"idle", "armed", "pre_resting", "pre_partial", "post_pending",
              "settle_delay", "halted"}

NoOrder == 0

(* Leg: id, qty and filled are pre_order_id, pre_qty and pre_filled, post  *)
(* is post_pending, replace replace_pending, sent cancel_sent, await       *)
(* await_post_then_delay and streak reject_streak.                         *)
Leg == [running : BOOLEAN, status : LegStatus, id : Nat, qty : Nat,
        filled : Nat, post : Nat, replace : BOOLEAN, sent : BOOLEAN,
        await : BOOLEAN, streak : Nat]

(* AutoMSet.  held is the contracts held (rt), and diff is fill_diff: the  *)
(* domestic ledger in Hyperliquid contracts plus the Hyperliquid ledger,   *)
(* which is all the code reads of the two.  asked are the orders with a    *)
(* cancel request under way, spawned by the engine for a cancel_pre action; *)
(* requests for the same order that are under way together count as one.   *)
SetRecord == [leg : [Block -> Leg], held : Nat, diff : Int, asked : SUBSET Nat]

NewLeg == [running |-> FALSE, status |-> "idle", id |-> NoOrder, qty |-> 0,
           filled |-> 0, post |-> 0, replace |-> FALSE, sent |-> FALSE,
           await |-> FALSE, streak |-> 0]

(* A set that holds h contracts, hedged; nothing of what was at work       *)
(* survives a restart.                                                     *)
Restored(h) == [leg |-> [b \in Block |-> NewLeg], held |-> h, diff |-> 0,
                asked |-> {}]

Halted(l)   == l.status = "halted"
PostDone(l) == l.post = 0
Full(l)     == l.qty > 0 /\ l.filled >= l.qty

(* set_post_done: neither leg waits for a hedge.                           *)
SetPostDone(s) == \A b \in Block : PostDone(s.leg[b])

(* The part of it that no hedge waited for will even.                      *)
Short(s) == s.diff - (s.leg["entry"].post - s.leg["exit"].post)

(* _over_limit: the unhedged amount is one order's worth or more.          *)
OverLimit(d) == d >= Per * Ratio \/ -d >= Per * Ratio

(* Mutant: the room left is not looked at.                                 *)
OrderQtyFull(s, b) == IF b = "entry" \/ s.held > 0 THEN Per ELSE 0

(* order_qty                                                               *)
OrderQty(s, b) ==
  LET room == IF b = "entry" THEN Target - s.held ELSE s.held
      want == IF Per < room THEN Per ELSE room
  IN IF want > 0 THEN want ELSE 0

(* Mutant: what is subtracted may be more than there is.                   *)
MinusPlain(a, b) == a - b

Minus(a, b) == IF a > b THEN a - b ELSE 0

-----------------------------------------------------------------------------
(* Mutant: the wait for the confirmation of a replacing cancel survives    *)
(* the end of the order.                                                   *)
ClearPreKeeps(l) == [l EXCEPT !.id = NoOrder, !.qty = 0, !.filled = 0,
                              !.sent = FALSE]

(* _clear_pre                                                              *)
ClearPre(l) == [l EXCEPT !.id = NoOrder, !.qty = 0, !.filled = 0,
                         !.sent = FALSE, !.replace = FALSE]

StartDelay(l) == [ClearPre(l) EXCEPT !.status = "settle_delay"]

(* _cancel_if_resting                                                      *)
CancelIfResting(s, b, force) ==
  LET l == IF force THEN [s.leg[b] EXCEPT !.replace = FALSE] ELSE s.leg[b]
      asks == /\ l.id # NoOrder /\ ~l.replace /\ ~Full(l)
              /\ force \/ ~l.sent
  IN IF asks THEN [s EXCEPT !.leg[b] = [l EXCEPT !.sent = TRUE],
                            !.asked = @ \cup {l.id}]
     ELSE [s EXCEPT !.leg[b] = l]

Stopped(l) == [l EXCEPT !.status = "halted", !.running = FALSE]

(* _halt_set                                                               *)
HaltSet(s, b) ==
  LET t == [s EXCEPT !.leg[b] = Stopped(@)]
      o == Other(b)
  IN IF Halted(s.leg[o]) THEN t
     ELSE [CancelIfResting(t, o, FALSE) EXCEPT !.leg[o] = Stopped(@)]

(* The end of _finish_round: rest, or go on with what is left of the order. *)
Continue(s, b) ==
  LET l == s.leg[b] IN
  IF l.await \/ l.id = NoOrder \/ l.filled >= l.qty
  THEN [s EXCEPT !.leg[b] = StartDelay([l EXCEPT !.await = FALSE])]
  ELSE [s EXCEPT !.leg[b].status =
          IF l.filled > 0 THEN "pre_partial" ELSE "pre_resting"]

(* Mutant: the difference is not judged.                                   *)
FinishRoundBlind(s, b) == IF Halted(s.leg[b]) THEN s ELSE Continue(s, b)

(* _finish_round: a hedge is complete.  The difference is judged only when *)
(* the other leg waits for nothing either, since the ledger is the set's.  *)
FinishRound(s, b) ==
  IF Halted(s.leg[b]) THEN s
  ELSE IF SetPostDone(s) /\ OverLimit(s.diff) THEN HaltSet(s, b)
  ELSE Continue(s, b)

FinishIfDone(s, b) == IF PostDone(s.leg[b]) THEN FinishRound(s, b) ELSE s

-----------------------------------------------------------------------------
(* The answers to a pre order.                                             *)

(* on_pre_ack: cancel at once if the leg was switched off or halted while  *)
(* the call was under way.                                                 *)
OnPreAck(s, b, k) ==
  LET t == [s EXCEPT !.leg[b].id = k]
  IN IF ~t.leg[b].running \/ t.leg[b].status \in {"idle", "halted"}
     THEN CancelIfResting(t, b, TRUE) ELSE t

OnPreCancelFailed(s, b) ==
  [s EXCEPT !.leg[b].replace = FALSE, !.leg[b].sent = FALSE]

(* on_pre_reject: the third rejection in a row halts the set.              *)
OnPreReject(s, b) ==
  LET l == ClearPre(s.leg[b])
      t == [s EXCEPT !.leg[b] = [l EXCEPT !.streak = @ + 1]]
  IN IF Halted(l) THEN [s EXCEPT !.leg[b] = l]
     ELSE IF l.streak + 1 >= RejectLimit
     THEN HaltSet([t EXCEPT !.leg = [c \in Block |->
                     [t.leg[c] EXCEPT !.streak = 0]]], b)
     ELSE [t EXCEPT !.leg[b] = StartDelay(@)]

(* _hold_repay: no loan to repay; the leg waits for one, halted or not.    *)
HoldRepay(s) ==
  [s EXCEPT !.leg["exit"] = [ClearPre(@) EXCEPT !.status = "armed"]]

(* _apply_rt and the domestic ledger                                       *)
ApplyRt(s, b, q) ==
  IF b = "entry" THEN [s EXCEPT !.held = @ + q, !.diff = @ + q * Ratio]
  ELSE [s EXCEPT !.held = Minus(@, q), !.diff = @ - q * Ratio]

(* Mutant: a halted leg goes on as if it was not.                          *)
OnPreFillRevives(s, b, q) ==
  LET l == [s.leg[b] EXCEPT !.filled = @ + q, !.streak = 0,
                            !.post = @ + q * Ratio]
      n == IF Full(l) THEN "post_pending" ELSE "pre_partial"
  IN [ApplyRt(s, b, q) EXCEPT !.leg[b] = [l EXCEPT !.status = n]]

(* on_pre_fill; the engine places a hedge of q * Ratio.                    *)
OnPreFill(s, b, q) ==
  LET l == [s.leg[b] EXCEPT !.filled = @ + q, !.streak = 0,
                            !.post = @ + q * Ratio]
      n == IF Halted(l) THEN "halted"
           ELSE IF Full(l) THEN "post_pending" ELSE "pre_partial"
  IN [ApplyRt(s, b, q) EXCEPT !.leg[b] = [l EXCEPT !.status = n]]

(* Mutant: a halted leg is taken back to idle by the confirmation of its   *)
(* cancel.                                                                 *)
OnPreCancelledFrees(s, b) ==
  LET l == [s.leg[b] EXCEPT !.streak = 0] IN
  [s EXCEPT !.leg[b] = [ClearPre(l) EXCEPT !.status =
                          IF l.running THEN "armed" ELSE "idle"]]

(* on_pre_cancelled                                                        *)
OnPreCancelled(s, b) ==
  LET l == [s.leg[b] EXCEPT !.streak = 0]
      free == IF l.running THEN "armed" ELSE "idle"
  IN [s EXCEPT !.leg[b] =
        IF Halted(l) THEN ClearPre(l)
        ELSE IF l.replace /\ ~PostDone(l) THEN [ClearPre(l) EXCEPT !.await = TRUE]
        ELSE IF l.replace THEN StartDelay(l)
        ELSE IF PostDone(l) THEN [ClearPre(l) EXCEPT !.status = free]
        ELSE ClearPre(l)]

-----------------------------------------------------------------------------
(* The answers to a post order.                                            *)

ApplyHl(s, b, q) ==
  [s EXCEPT !.diff = IF b = "entry" THEN @ - q ELSE @ + q]

(* on_post_fill                                                            *)
OnPostFill(s, b, q) ==
  FinishIfDone([ApplyHl(s, b, q) EXCEPT !.leg[b].post = Minus(@, q)], b)

(* Mutant: what will never be hedged stays pending.                        *)
OnPostRejectWaits(s, b, q) == FinishIfDone(s, b)

(* on_post_reject, on_post_partial_reject: q will never be hedged.         *)
OnPostReject(s, b, q) ==
  FinishIfDone([s EXCEPT !.leg[b].post = Minus(@, q)], b)

(* on_post_recovered: a post order that was given up is alive.             *)
OnPostRecovered(s, b, q) == [s EXCEPT !.leg[b].post = @ + q]

-----------------------------------------------------------------------------
(* The commands.                                                           *)

SwitchOn(s, b) ==
  [s EXCEPT !.leg[b].running = TRUE,
            !.leg[b].status = IF @ = "idle" THEN "armed" ELSE @]

(* set_running(False), stop_all                                            *)
SwitchOff(s, b) ==
  LET t == CancelIfResting([s EXCEPT !.leg[b].running = FALSE], b, TRUE)
      l == t.leg[b]
  IN IF l.id = NoOrder /\ PostDone(l) /\ ~Halted(l)
     THEN [t EXCEPT !.leg[b].status = "idle"] ELSE t

(* release_halt: the ledger stays as it is.                                *)
ReleaseHalt(s) ==
  [s EXCEPT !.leg = [b \in Block |->
     IF Halted(s.leg[b])
     THEN [ClearPre(s.leg[b]) EXCEPT
             !.status = "idle", !.running = FALSE, !.post = 0, !.await = FALSE]
     ELSE s.leg[b]]]

(* clear_diff of the set's settings, once a person has evened the position. *)
ClearDiff(s) == [s EXCEPT !.diff = 0]

(* The sum w[1] + ... + w[n], added up from the first one.                 *)
TotalOf(w, n) ==
  LET upto[m \in 0 .. n] == IF m = 0 THEN 0 ELSE upto[m - 1] + w[m]
  IN upto[n]
=============================================================================
