------------------------------- MODULE AutoM -------------------------------
(***************************************************************************)
(* One Auto-M set at work (auto_m_engine.py): quotes make the legs place,  *)
(* replace and cancel pre orders, fills of these make the engine place     *)
(* post orders, and every call runs as a task of its own, so its answer    *)
(* comes when anything may have happened to the set.  A handler between    *)
(* two awaits is one step.                                                 *)
(*                                                                         *)
(* The order book is the environment, as OrderLedger promises it: a fill   *)
(* is announced once, and the end of an order comes after all its fills.   *)
(***************************************************************************)
EXTENDS AutoMSet, FiniteSets

CONSTANTS MaxPres,   \* bound: pre orders at work at a time
          MaxPosts,  \* bound: post orders at work at a time
          MaxShort,  \* bound: Hyperliquid contracts that stay unhedged
          Hasty,     \* a person acts while calls and orders are under way
          Revivals,  \* a post order that failed may turn out to be alive
          Crossing,  \* a placement may fail that a notice has proved right
          Vanishing  \* one of several post orders of a leg may vanish

ASSUME BoundsAssumption ==
  MaxPres \in Nat /\ MaxPosts \in Nat /\ MaxShort \in Nat
ASSUME EnvironmentAssumption == {Hasty, Revivals, Crossing, Vanishing} \subseteq BOOLEAN

VARIABLES
  s,      \* the set
  pre,    \* its pre orders; _orders are those "open"
  post,   \* its post orders
  uneven  \* history: released, and the difference not cleared since

vars == <<s, pre, post, uneven>>

Pres  == 1 .. MaxPres
Posts == 1 .. MaxPosts

(* A "spawned" order waits for the task that is to send it, a "lost" one   *)
(* was not answered: it may live at the broker, unknown to the engine.     *)
(* `call` is the quantity of a post order that a notice has identified and *)
(* whose placement is still to fail (one that returns changes nothing any  *)
(* more).                                                                  *)
PrePhase  == {"none", "spawned", "sent", "open", "lost"}
PostPhase == {"none", "sent", "open", "failed"}
PreOrder  == [block : Block, qty : Nat, filled : Nat, phase : PrePhase]
PostOrder == [block : Block, left : Nat, call : Nat, phase : PostPhase]

NoPre  == [block |-> "entry", qty |-> 0, filled |-> 0, phase |-> "none"]
NoPost == [block |-> "entry", left |-> 0, call |-> 0, phase |-> "none"]

TypeOK ==
  /\ s \in SetRecord
  /\ pre \in [Pres -> PreOrder] /\ post \in [Posts -> PostOrder]
  /\ uneven \in BOOLEAN

(* A set as restored from the saved state (_sets_from_dict), even.          *)
Init ==
  /\ \E h \in 0 .. Target : s = Restored(h)
  /\ pre = [k \in Pres |-> NoPre] /\ post = [i \in Posts |-> NoPost]
  /\ uneven = FALSE

(* The orders of block b that are under way or live.                       *)
Working(b) == {k \in Pres : pre[k].block = b /\ pre[k].phase # "none"}
Hedging(b) == {i \in Posts : /\ post[i].block = b /\ post[i].left > 0
                              /\ post[i].phase \in {"sent", "open"}}

(* A number that the engine forgot is taken again, the smallest first.     *)
FreePre == {k \in Pres : pre[k].phase = "none"
                         /\ \A b \in Block : s.leg[b].id # k}
FreePost == {i \in Posts : post[i].phase = "none"}
Smallest(S) == CHOOSE n \in S : \A m \in S : n <= m

(* The exit order of a set on credit is looked at once more by its task.   *)
NewPre(b, q) ==
  /\ FreePre # {}
  /\ \E p \in {"sent"} \cup (IF b = "exit" THEN {"spawned"} ELSE {}) :
       pre' = [pre EXCEPT ![Smallest(FreePre)] =
                 [block |-> b, qty |-> q, filled |-> 0, phase |-> p]]

NewPost(b, q) ==
  /\ FreePost # {}
  /\ post' = [post EXCEPT ![Smallest(FreePost)] =
                [block |-> b, left |-> q, call |-> 0, phase |-> "sent"]]
-----------------------------------------------------------------------------
(* evaluate: one leg judged on a quote or a timer.  The gates that time    *)
(* and prices decide are open or shut as it happens.                       *)

(* The leg waits for an event, and no quote moves it on.                   *)
Waiting(l) == l.status = "post_pending" \/ l.replace \/ l.await

Awake(l) == IF l.status = "idle" THEN [l EXCEPT !.status = "armed"] ELSE l

(* The leg once its pre delay is over.                                     *)
Rested(l) ==
  IF l.status = "settle_delay" THEN [l EXCEPT !.status = "armed"] ELSE Awake(l)

Active(l) == l.running /\ ~Halted(l)

(* A halted leg, or one switched off: what still rests is cancelled.       *)
EvalHalted(b) ==
  /\ Halted(s.leg[b])
  /\ s' = CancelIfResting(s, b, FALSE)
  /\ UNCHANGED <<pre, post, uneven>>

EvalOff(b) ==
  /\ ~s.leg[b].running /\ s.leg[b].status \notin {"idle", "halted"}
  /\ LET t == CancelIfResting(s, b, FALSE)
         l == t.leg[b]
     IN s' = IF PostDone(l) /\ l.id = NoOrder
             THEN [t EXCEPT !.leg[b].status = "idle"] ELSE t
  /\ UNCHANGED <<pre, post, uneven>>

(* A shut gate that calls the order back: no rate, a feed down, the market *)
(* halted (before the leg's delay is looked at), or out of hours, no       *)
(* threshold, out of range (after it).                                     *)
EvalShut(b) ==
  /\ Active(s.leg[b])
  /\ \/ s' = CancelIfResting([s EXCEPT !.leg[b] = Awake(@)], b, FALSE)
     \/ /\ ~Waiting(s.leg[b])
        /\ s' = CancelIfResting([s EXCEPT !.leg[b] = Rested(@)], b, FALSE)
  /\ UNCHANGED <<pre, post, uneven>>

(* A gate that only holds new orders back, or nothing to order.            *)
EvalHold(b) ==
  /\ Active(s.leg[b])
  /\ s' = [s EXCEPT !.leg[b] = IF Waiting(@) THEN Awake(@) ELSE Rested(@)]
  /\ UNCHANGED <<pre, post, uneven>>

(* All gates open and nothing at work: place the next pre order.           *)
EvalPlace(b) ==
  LET l == Rested(s.leg[b])
      q == OrderQty(s, b)
  IN /\ Active(l) /\ ~Waiting(l)
     /\ l.id = NoOrder /\ l.status = "armed" /\ q >= 1
     /\ NewPre(b, q)
     /\ s' = [s EXCEPT !.leg[b] = [l EXCEPT !.qty = q, !.filled = 0,
                 !.sent = FALSE, !.status = "pre_resting"]]
     /\ UNCHANGED <<post, uneven>>

(* The price moved (or the exchange changed): call the order back to place *)
(* another when its cancel is confirmed.  An order without a price is      *)
(* called back and no more.                                                *)
EvalReplace(b) ==
  LET l == Rested(s.leg[b]) IN
  /\ Active(l) /\ ~Waiting(l) /\ l.id # NoOrder
  /\ s' = [s EXCEPT !.leg[b] = [l EXCEPT !.replace = (l.qty > 0)],
                    !.asked = @ \cup {l.id}]
  /\ UNCHANGED <<pre, post, uneven>>

-----------------------------------------------------------------------------
(* _place_pre of a repayment: a loan is picked among those whose balance   *)
(* is not taken; which those are is settled by other sets (CreditLoans).   *)

(* What the oldest loan has left may be less than was asked for.           *)
PreGoes(k, q) ==
  /\ pre[k].phase = "spawned" /\ q <= pre[k].qty
  /\ pre' = [pre EXCEPT ![k].phase = "sent", ![k].qty = q]
  /\ s' = [s EXCEPT !.leg["exit"].qty = IF q = pre[k].qty THEN @ ELSE q]
  /\ UNCHANGED <<post, uneven>>

(* _hold_repay: none is free, so the order is not sent and the leg waits,  *)
(* armed, whatever became of it since the order was decided on.            *)
PreHeld(k) ==
  /\ pre[k].phase = "spawned"
  /\ pre' = [pre EXCEPT ![k] = NoPre]
  /\ s' = HoldRepay(s)
  /\ UNCHANGED <<post, uneven>>

-----------------------------------------------------------------------------
(* _place_pre: the answers to a placement.                                 *)

(* A fill of q beyond what the leg has ordered cannot be this order's.     *)
Excess(t, k, q) ==
  LET l == t.leg[pre[k].block]
  IN k = l.id /\ l.qty > 0 /\ l.filled + q > l.qty

(* _apply_fill of a pre order: such a fill is refused and halts the set.   *)
TakeFill(t, k, q) ==
  LET b == pre[k].block
  IN IF Excess(t, k, q) THEN HaltSet(t, b) ELSE OnPreFill(t, b, q)

(* The hedge the engine places for it.                                     *)
Hedge(t, k, q) ==
  IF q = 0 \/ Excess(t, k, q) THEN post' = post
  ELSE NewPost(pre[k].block, q * Ratio)

(* Order k once q is filled of it and it has ended or not.                 *)
PreAfter(k, q, ends) ==
  pre' = [pre EXCEPT ![k] = IF ends THEN NoPre
                            ELSE [@ EXCEPT !.filled = q, !.phase = "open"]]

(* _on_book_change: order k ended; the leg may work at another by now.     *)
EndOfPre(t, k, how) ==
  LET b == pre[k].block IN
  IF t.leg[b].id \notin {NoOrder, k} THEN t
  ELSE IF how = "cancelled" THEN OnPreCancelled(t, b) ELSE OnPreReject(t, b)

(* No cancel request of k matters any more.                                *)
Forget(t, k) == [t EXCEPT !.asked = @ \ {k}]

(* The broker took the order; q contracts are filled already (several such *)
(* fills are taken as one), and it may have ended: on_pre_ack, _register.  *)
PreAccepted(k, q, how) ==
  LET o == pre[k]
      t == OnPreAck(s, o.block, k)
      f == IF q > 0 THEN TakeFill(t, k, q) ELSE t
      ends == how # "open" \/ q = o.qty
  IN /\ o.phase = "sent" /\ q <= o.qty
     /\ how = "rejected" => q = 0
     /\ q = o.qty => how = "open"
     /\ s' = IF how # "open" THEN Forget(EndOfPre(f, k, how), k)
             ELSE IF ends THEN Forget(f, k) ELSE f
     /\ PreAfter(k, q, ends)
     /\ Hedge(t, k, q)
     /\ UNCHANGED uneven

(* Refused, or failed on the broker's side: both are taken as final.       *)
PreRefused(k) ==
  /\ pre[k].phase = "sent"
  /\ s' = OnPreReject(s, pre[k].block)
  /\ PreAfter(k, 0, TRUE)
  /\ UNCHANGED <<post, uneven>>

(* Mutant: no answer is a refusal.                                         *)
PreTimesOutRefused(k) ==
  /\ pre[k].phase = "sent"
  /\ s' = OnPreReject(s, pre[k].block)
  /\ pre' = [pre EXCEPT ![k].phase = "lost"]
  /\ UNCHANGED <<post, uneven>>

(* No answer: the order may live at the broker, so the set is halted.      *)
PreTimesOut(k) ==
  /\ pre[k].phase = "sent"
  /\ s' = HaltSet(s, pre[k].block)
  /\ pre' = [pre EXCEPT ![k].phase = "lost"]
  /\ UNCHANGED <<post, uneven>>

(* The broker never had it, or a person has dealt with it.                 *)
PreSettled(k) ==
  /\ pre[k].phase = "lost"
  /\ PreAfter(k, 0, TRUE)
  /\ UNCHANGED <<s, post, uneven>>

-----------------------------------------------------------------------------
(* What the order book reports of a pre order.                             *)

PreFill(k, q) ==
  LET o == pre[k]
      full == o.filled + q = o.qty
      t == TakeFill(s, k, q)
  IN /\ o.phase = "open" /\ o.filled + q <= o.qty
     /\ s' = IF full THEN Forget(t, k) ELSE t
     /\ PreAfter(k, o.filled + q, full)
     /\ Hedge(s, k, q)
     /\ UNCHANGED uneven

PreEnds(k, how) ==
  /\ pre[k].phase = "open"
  /\ how = "rejected" => pre[k].filled = 0
  /\ s' = Forget(EndOfPre(s, k, how), k)
  /\ PreAfter(k, 0, TRUE)
  /\ UNCHANGED <<post, uneven>>

(* A resynchronisation found it gone (_recover_vanished).                  *)
PreVanishes(k) ==
  LET b == pre[k].block IN
  /\ pre[k].phase = "open"
  /\ s' = Forget(IF s.leg[b].id = k THEN OnPreCancelled(s, b) ELSE s, k)
  /\ PreAfter(k, 0, TRUE)
  /\ UNCHANGED <<post, uneven>>

(* _cancel_pre returns: the request was refused three times; or it was     *)
(* taken, or not answered, or the order is gone: only a notice will tell.  *)
CancelFails(k) ==
  LET b == pre[k].block IN
  /\ k \in s.asked
  /\ s' = Forget(IF s.leg[b].id = k THEN OnPreCancelFailed(s, b) ELSE s, k)
  /\ UNCHANGED <<pre, post, uneven>>

CancelReturns(k) ==
  /\ k \in s.asked
  /\ s' = Forget(s, k)
  /\ UNCHANGED <<pre, post, uneven>>

-----------------------------------------------------------------------------
(* _place_post and what the order book reports of a post order.            *)

(* It failed; it may yet be alive.                                         *)
PostFails(i) ==
  LET o == post[i] IN
  /\ o.phase = "sent"
  /\ s' = OnPostReject(s, o.block, o.left)
  /\ Short(s') \in -MaxShort .. MaxShort
  /\ post' = [post EXCEPT ![i] = IF Revivals THEN [@ EXCEPT !.phase = "failed"]
                                 ELSE NoPost]
  /\ UNCHANGED <<pre, uneven>>

(* _on_hl_identified, or the response: the order is the set's.             *)
PostOpens(i) ==
  /\ post[i].phase = "sent"
  /\ \E c \in {0} \cup (IF Crossing THEN {post[i].left} ELSE {}) :
       post' = [post EXCEPT ![i].phase = "open", ![i].call = c]
  /\ UNCHANGED <<s, pre, uneven>>

(* The placement of an order that a notice has identified fails: the whole *)
(* quantity is given up, and not given back, as the order is known.        *)
CallFails(i) ==
  LET o == post[i] IN
  /\ o.call > 0
  /\ s' = OnPostReject(s, o.block, o.call)
  /\ Short(s') \in -MaxShort .. MaxShort
  /\ post' = [post EXCEPT ![i] = IF o.left = 0 THEN NoPost
                                 ELSE [o EXCEPT !.call = 0]]
  /\ UNCHANGED <<pre, uneven>>

PostRevives(i) ==
  /\ post[i].phase = "failed"
  /\ s' = OnPostRecovered(s, post[i].block, post[i].left)
  /\ post' = [post EXCEPT ![i].phase = "open"]
  /\ UNCHANGED <<pre, uneven>>

(* _prune_failed_refs: it is too late for that.                            *)
PostForgotten(i) ==
  /\ post[i].phase = "failed"
  /\ post' = [post EXCEPT ![i] = NoPost]
  /\ UNCHANGED <<s, pre, uneven>>

(* What is left of an order that ended: a call that is still to fail.      *)
Ended(o) == IF o.call > 0 THEN [o EXCEPT !.left = 0] ELSE NoPost

PostFill(i, q) ==
  LET o == post[i] IN
  /\ o.phase = "open" /\ q <= o.left
  /\ s' = OnPostFill(s, o.block, q)
  /\ Short(s') \in -MaxShort .. MaxShort
  /\ post' = [post EXCEPT ![i] = IF q = o.left THEN Ended(o)
                                 ELSE [o EXCEPT !.left = @ - q]]
  /\ UNCHANGED <<pre, uneven>>

(* It ended unfilled: cancelled or rejected outside, or the rest dropped.  *)
PostEnds(i) ==
  LET o == post[i] IN
  /\ o.phase = "open" /\ o.left > 0
  /\ s' = OnPostReject(s, o.block, o.left)
  /\ Short(s') \in -MaxShort .. MaxShort
  /\ post' = [post EXCEPT ![i] = Ended(o)]
  /\ UNCHANGED <<pre, uneven>>

(* _recover_vanished: all that the leg waits for is given up.              *)
PostVanishes(i) ==
  LET b == post[i].block
      w == s.leg[b].post
  IN /\ post[i].phase = "open" /\ post[i].left > 0
     /\ Vanishing \/ Hedging(b) = {i}
     /\ s' = IF w > 0 THEN OnPostReject(s, b, w) ELSE s
     /\ Short(s') \in -MaxShort .. MaxShort
     /\ post' = [post EXCEPT ![i] = Ended(post[i])]
     /\ UNCHANGED <<pre, uneven>>

-----------------------------------------------------------------------------
(* The commands of a person (core_server.py).  Unless Hasty, the person    *)
(* waits until no order of the leg, or of the set, is at work.             *)

CommandOn(b) ==
  /\ \A c \in Block : ~Halted(s.leg[c])
  /\ Hasty \/ Working(b) = {}
  /\ s' = SwitchOn(s, b)
  /\ UNCHANGED <<pre, post, uneven>>

CommandOff(b) ==
  /\ s' = SwitchOff(s, b)
  /\ UNCHANGED <<pre, post, uneven>>

Release ==
  /\ \E b \in Block : Halted(s.leg[b])
  /\ Hasty \/ \A b \in Block : Working(b) = {} /\ Hedging(b) = {}
  /\ s' = ReleaseHalt(s)
  /\ uneven' = TRUE
  /\ UNCHANGED <<pre, post>>

(* "Clear": the person has evened the position after a release.            *)
Clear ==
  /\ uneven
  /\ s' = ClearDiff(s)
  /\ uneven' = FALSE
  /\ UNCHANGED <<pre, post>>

-----------------------------------------------------------------------------
Eval(b) == EvalHalted(b) \/ EvalOff(b) \/ EvalShut(b) \/ EvalHold(b)
           \/ EvalPlace(b) \/ EvalReplace(b)

TaskRuns(k) == PreHeld(k) \/ \E q \in 1 .. Per : PreGoes(k, q)

Answer(k) ==
  \/ \E q \in 0 .. Per : \E how \in {"open", "cancelled", "rejected"} :
       PreAccepted(k, q, how)
  \/ PreRefused(k) \/ PreTimesOut(k) \/ PreSettled(k)

PreReport(k) ==
  \/ \E q \in 1 .. Per : PreFill(k, q)
  \/ \E how \in {"cancelled", "rejected"} : PreEnds(k, how)
  \/ PreVanishes(k)

PostReport(i) ==
  \/ PostFails(i) \/ PostOpens(i) \/ CallFails(i)
  \/ PostRevives(i) \/ PostForgotten(i)
  \/ \E q \in 1 .. Per * Ratio : PostFill(i, q)
  \/ PostEnds(i) \/ PostVanishes(i)

Command == Release \/ Clear \/ \E b \in Block : CommandOn(b) \/ CommandOff(b)

Next ==
  \/ \E b \in Block : Eval(b)
  \/ \E k \in Pres : TaskRuns(k) \/ Answer(k) \/ PreReport(k)
                     \/ CancelFails(k) \/ CancelReturns(k)
  \/ \E i \in Posts : PostReport(i)
  \/ Command

Spec == Init /\ [][Next]_vars

-----------------------------------------------------------------------------
(* What must hold.                                                         *)

(* A set is halted as a whole: where a leg is halted its entry leg is, and *)
(* neither leg runs, also not an exit leg that a repayment that was not    *)
(* sent has taken back to armed (_halt_set, on_pre_cancelled, _finish_round *)
(* on a halted leg, _hold_repay).                                          *)
HaltedAsOne ==
  /\ Halted(s.leg["exit"]) => Halted(s.leg["entry"])
  /\ Halted(s.leg["entry"]) => \A b \in Block : ~s.leg[b].running

(* What halts the entry leg halts both.  Nobody but a person lifts the     *)
(* halt of a set; nothing but a repayment that was not sent takes a leg    *)
(* out of it, and that the exit leg only (_halt_set, _hold_repay).         *)
HaltSticks ==
  [][LET was(b) == Halted(s.leg[b])
         is(b)  == Halted(s'.leg[b])
     IN /\ ~was("entry") /\ is("entry") => is("exit")
        /\ was("entry") => Release \/ is("entry")
        /\ was("exit") => Release \/ is("exit") \/ \E k \in Pres : PreHeld(k)]_vars

(* A set that waits for no hedge and is not halted is within its limit.    *)
WithinLimit ==
  SetPostDone(s) /\ ~uneven /\ ~Halted(s.leg["entry"])
    => ~OverLimit(s.diff)

OnePreOrder == \A b \in Block : Cardinality(Working(b)) <= 1

(* What is at work fits: entry orders in the room below the target, exit   *)
(* orders in what is held (order_qty, looked at when the order is placed,  *)
(* while fills of both legs change what is held).                          *)
OrdersFit ==
  \A k \in Pres :
    LET rest == pre[k].qty - pre[k].filled IN
    pre[k].phase \in {"spawned", "sent", "open"} =>
      rest <= IF pre[k].block = "entry" THEN Target - s.held ELSE s.held

(* A leg waits for nothing that cannot come: for the confirmation of the   *)
(* end of an order only while it lives or its last hedge is pending, for   *)
(* the end of a round only while a hedge is pending (replace_pending,      *)
(* await_post_then_delay, the states of LegStatus that no quote leaves).   *)
WaitIsAnswered ==
  \A b \in Block :
    LET l == s.leg[b] IN
    ~Halted(l) =>
      /\ l.replace => l.id \in Working(b) \/ l.post > 0
      /\ l.await \/ l.status = "post_pending" => l.post > 0
      /\ l.status \in {"pre_resting", "pre_partial"} =>
           Working(b) # {} \/ l.post > 0

(* What a post order still has to fill for block b, and what a table has.  *)
Due(o, b) ==
  IF o.block = b /\ o.left > 0 /\ o.phase \in {"sent", "open"}
  THEN o.left ELSE 0
AllDue(Q, b) == TotalOf([i \in Posts |-> Due(Q[i], b)], MaxPosts)

(* What a leg waits for is exactly what its hedges have left to fill: no   *)
(* fill is hedged twice or not at all, and no hedge that ended is waited   *)
(* for (post_pending, through _place_post, _apply_fill, on_post_reject).   *)
PendingIsHedged ==
  \A b \in Block : s.leg[b].post = AllDue(post, b)

-----------------------------------------------------------------------------
(* The inductive invariant behind the last four, where a person waits for  *)
(* the orders at work and every answer is final.  It is stated of a leg    *)
(* and an order table, so that a handler can be followed call by call.     *)

Calm == ~Hasty /\ ~Revivals /\ ~Crossing /\ ~Vanishing

AtWork(P, b) == {k \in Pres : P[k].block = b /\ P[k].phase # "none"}

(* The leg waits for nothing: it may place an order, or be told to.        *)
Rests == {"idle", "armed", "settle_delay"}

(* Leg l while no order of it is at work: a number that it still keeps is  *)
(* that of an order filled whole, and it rests once no hedge is pending.   *)
FitsNone(l) ==
  /\ l.id # NoOrder => Full(l) /\ (Halted(l) \/ l.post > 0)
  /\ l.replace => l.id # NoOrder
  /\ ~Halted(l) => IF l.status \in Rests THEN l.post = 0 /\ ~l.await
                   ELSE l.post > 0

(* Leg l while order k, which is o, is at work: what the leg counts of the *)
(* order is so, and one that was not answered keeps it from another.       *)
FitsOne(l, k, o) ==
  /\ o.phase = "spawned" => o.block = "exit"
  /\ o.filled < o.qty /\ l.qty = o.qty /\ l.filled = o.filled
  /\ o.filled = 0 => l.post = 0
  /\ IF o.phase = "open" THEN l.id = k
     ELSE /\ l.id = NoOrder /\ o.filled = 0
          /\ \/ Halted(l)
             \/ /\ o.phase \in {"spawned", "sent"}
                /\ ~l.running \/ l.status = "pre_resting"
  /\ ~l.await /\ (l.replace => l.id # NoOrder)
  /\ l.status \in Rests => l.post = 0
  /\ l.status = "post_pending" => l.post > 0

LegFits(l, P, b) ==
  \/ AtWork(P, b) = {} /\ FitsNone(l)
  \/ \E k \in Pres : AtWork(P, b) = {k} /\ FitsOne(l, k, P[k])

(* What the orders at work leave to fill fits what is held.                *)
InRoom(P, h) ==
  \A k \in Pres : P[k].phase \in {"spawned", "sent", "open"} =>
    P[k].qty - P[k].filled <= IF P[k].block = "entry" THEN Target - h ELSE h

(* No post order is both given up and known.                               *)
Final(Q) ==
  \A i \in Posts :
    /\ Q[i].call = 0
    /\ Q[i].phase # "none" => Q[i].phase # "failed" /\ Q[i].left > 0

CalmInv ==
  /\ \A b \in Block : /\ LegFits(s.leg[b], pre, b)
                      /\ s.leg[b].post = AllDue(post, b)
  /\ InRoom(pre, s.held) /\ Final(post)
=============================================================================
