------------------------------ MODULE HlFirst -------------------------------
(***************************************************************************)
(* An Auto-M set of the product whose pre order rests on Hyperliquid and   *)
(* whose hedge is a domestic order (auto_m.py, auto_m_engine.py, hl_first). *)
(* The pre order counts Hyperliquid contracts, which fill in pieces: every *)
(* Ratio of them is hedged by one domestic contract, and the pieces left   *)
(* over wait for the next fill.  The hedge is sent once: if it fails, the  *)
(* set halts.  The pre orders of one judgement go out in one request, and  *)
(* a notice may identify an order before the request is answered.          *)
(*                                                                         *)
(* The set, its legs and its gates are those of AutoMSet and AutoM; here a *)
(* leg's qty and filled are Hyperliquid contracts, its post domestic ones. *)
(* The smallest piece is one contract.  A fill that came before its order  *)
(* was identified or answered is reported after that.                      *)
(***************************************************************************)
EXTENDS AutoMSet, FiniteSets, FiniteSetsExt

CONSTANTS MaxHlPres,  \* bound: pre orders of a leg at a time
          MaxLsPosts, \* bound: hedges at a time
          MaxLoose    \* bound: contracts unhedged

ASSUME HlFirstAssumption == {MaxHlPres, MaxLsPosts, MaxLoose} \subseteq Nat

VARIABLES
  hs,    \* the set
  pres,  \* its pre orders; "known": a notice identified it and its request is
         \* not answered yet, "over": and it is filled whole, "lost": no answer
  posts, \* its hedges
  mate,  \* mate[k]: the order that shares the request of k, 0 for none
  solo,  \* _solo: legs whose next pre order is sent alone
  frag,  \* hl_unhedged of each leg
  loose  \* history: released, and not evened with nothing left over since

rest == <<mate, solo, frag, loose>>
hlFirstVars == <<hs, pres, posts, rest>>

A == INSTANCE AutoM WITH s <- hs, pre <- pres, post <- posts, uneven <- rest,
       MaxPres <- 2 * MaxHlPres, MaxPosts <- MaxLsPosts, MaxShort <- MaxLoose,
       Hasty <- FALSE, Revivals <- FALSE, Crossing <- FALSE, Vanishing <- FALSE

Mine(b) == IF b = "entry" THEN 1 .. MaxHlPres ELSE MaxHlPres + 1 .. 2 * MaxHlPres
AllPres == 1 .. 2 * MaxHlPres

HlFirstInit ==
  /\ hs = Restored(0)
  /\ pres = [k \in AllPres |-> A!NoPre] /\ posts = [i \in 1 .. MaxLsPosts |-> A!NoPost]
  /\ mate = [k \in AllPres |-> 0] /\ solo = {}
  /\ frag = [b \in Block |-> 0] /\ loose = FALSE

-----------------------------------------------------------------------------
(* A judgement whose gates are open for the legs of B.                     *)

Ready(b) ==
  LET l == A!Rested(hs.leg[b])
  IN /\ A!Active(l) /\ ~A!Waiting(l) /\ l.id = NoOrder /\ l.status = "armed"
     /\ OrderQty(hs, b) >= 1
     /\ A!FreePre \cap Mine(b) # {}

(* _evaluate_hl_first, tick: place the pre orders, in one request but for  *)
(* those that are to go alone.                                             *)
PlaceBatch(B) ==
  LET k == [b \in B |-> Min(A!FreePre \cap Mine(b))]
      q == [b \in B |-> OrderQty(hs, b) * Ratio]
      both == B = Block /\ solo = {}
      Placed(b) == [A!Rested(hs.leg[b]) EXCEPT !.qty = q[b], !.filled = 0,
                      !.sent = FALSE, !.status = "pre_resting"]
      Owner(n) == {b \in B : k[b] = n}
  IN /\ \A b \in B : Ready(b)
     /\ hs' = [hs EXCEPT !.leg = [b \in Block |->
                 IF b \in B THEN Placed(b) ELSE hs.leg[b]]]
     /\ pres' = [n \in AllPres |->
          IF Owner(n) = {} THEN pres[n]
          ELSE LET b == CHOOSE c \in Owner(n) : TRUE
               IN [block |-> b, qty |-> q[b], filled |-> 0, phase |-> "sent"]]
     /\ mate' = [n \in AllPres |->
          IF Owner(n) = {} THEN mate[n]
          ELSE IF both THEN k[CHOOSE c \in B : k[c] # n] ELSE 0]
     /\ solo' = solo \ B
     /\ UNCHANGED <<posts, frag, loose>>

(* on_hl_pre_reject of a refusal that does not count: the price would have *)
(* crossed, or a whole request was refused, and by whose fault is unknown. *)
OnQuietReject(t, b) ==
  LET l == ClearPre(t.leg[b])
  IN [t EXCEPT !.leg[b] = IF Halted(l) THEN l ELSE StartDelay(l)]

(* Mutant: no answer is a refusal of the whole request.                    *)
ResultRetries(t, k, kind) ==
  LET b == pres[k].block IN
  CASE kind = "taken"   -> IF pres[k].phase = "over" THEN t ELSE OnPreAck(t, b, k)
    [] kind = "refused" -> OnPreReject(t, b)
    [] OTHER            -> OnQuietReject(t, b)

(* _place_hl_pre, _place_hl_pre_batch: what became of one order.  No       *)
(* answer is not a refusal: the set halts.                                 *)
Result(t, k, kind) ==
  LET b == pres[k].block IN
  CASE kind = "taken"   -> IF pres[k].phase = "over" THEN t ELSE OnPreAck(t, b, k)
    [] kind = "refused" -> OnPreReject(t, b)
    [] kind = "unknown" -> HaltSet(t, b)
    [] OTHER            -> OnQuietReject(t, b)

ResultPhase(k, kind) ==
  LET p == pres[k].phase IN
  IF kind \notin {"taken", "unknown"} \/ p = "over" THEN "none"
  ELSE IF kind = "unknown" /\ p = "sent" THEN "lost" ELSE "open"

(* What the answer to the request of K can say of each order: a live one   *)
(* is not refused, and a whole request is unanswered or refused at once.   *)
Answers(K) ==
  LET Single(k) == IF pres[k].phase = "sent" THEN {"taken", "cross", "refused"}
                   ELSE {"taken"}
      fresh == \A k \in K : pres[k].phase = "sent"
  IN {f \in [K -> {"taken", "cross", "refused"}] : \A k \in K : f[k] \in Single(k)}
     \cup {[k \in K |-> "unknown"]}
     \cup (IF fresh /\ Cardinality(K) = 2 THEN {[k \in K |-> "whole"]} ELSE {})

BatchAnswered(k) ==
  LET K == {k, mate[k]} \ {0} IN
  /\ pres[k].phase \in {"sent", "known", "over"} /\ k = Min(K)
  /\ \E f \in Answers(K) :
       /\ hs' = LET t == Result(hs, k, f[k])
                IN IF mate[k] = 0 THEN t ELSE Result(t, mate[k], f[mate[k]])
       /\ pres' = [n \in AllPres |->
            IF n \notin K THEN pres[n]
            ELSE IF ResultPhase(n, f[n]) = "none" THEN A!NoPre
            ELSE [pres[n] EXCEPT !.phase = ResultPhase(n, f[n])]]
       /\ mate' = [n \in AllPres |-> IF n \in K THEN 0 ELSE mate[n]]
       /\ solo' = IF f[k] = "whole" THEN solo \cup {pres[n].block : n \in K} ELSE solo
  /\ UNCHANGED <<posts, frag, loose>>

(* _on_hl_identified: a notice names an order that is not answered yet, or *)
(* one that was given up; its leg learns no number from that.              *)
Identified(k) ==
  /\ pres[k].phase \in {"sent", "lost"}
  /\ pres' = [pres EXCEPT ![k].phase = IF @ = "sent" THEN "known" ELSE "open"]
  /\ UNCHANGED <<hs, posts, rest>>

(* It never reached the exchange.                                          *)
NeverArrived(k) ==
  /\ pres[k].phase = "lost"
  /\ pres' = [pres EXCEPT ![k] = A!NoPre]
  /\ UNCHANGED <<hs, posts, rest>>

-----------------------------------------------------------------------------
(* What the order book reports of the pre orders.                          *)

(* on_hl_pre_fill: c contracts of hedge are due for a fill of q.           *)
OnHlPreFill(t, b, q, c) ==
  LET l == [t.leg[b] EXCEPT !.filled = @ + q, !.streak = 0, !.post = @ + c]
      n == IF Halted(l) THEN "halted" ELSE IF Full(l) THEN "post_pending" ELSE "pre_partial"
  IN [ApplyHl(t, b, q) EXCEPT !.leg[b] = [l EXCEPT !.status = n]]

(* Mutant: only the fill itself is looked at, not what was left over.      *)
DueOfFill(b, q) == q \div Ratio

(* The hedge due with what was left over.                                  *)
Due(b, q) == (frag[b] + q) \div Ratio

HlPreFills(k, q) ==
  LET o == pres[k]
      b == o.block
      full == o.filled + q = o.qty
      over == A!Excess(hs, k, q)
      t == IF over THEN HaltSet(hs, b) ELSE OnHlPreFill(hs, b, q, Due(b, q))
  IN /\ o.phase \in {"known", "open"} /\ o.filled + q <= o.qty
     /\ hs' = IF full THEN A!Forget(t, k) ELSE t
     /\ hs'.diff \in -MaxLoose .. MaxLoose
     /\ pres' = [pres EXCEPT ![k] =
                   IF full /\ o.phase = "open" THEN A!NoPre
                   ELSE [o EXCEPT !.filled = @ + q,
                           !.phase = IF full THEN "over" ELSE @]]
     /\ frag' = IF over THEN frag ELSE [frag EXCEPT ![b] = (@ + q) % Ratio]
     /\ IF over \/ Due(b, q) = 0 THEN posts' = posts ELSE A!NewPost(b, Due(b, q))
     /\ UNCHANGED <<mate, solo, loose>>

HlPreEnds(k, how) ==
  /\ pres[k].phase = "open"
  /\ how = "rejected" => pres[k].filled = 0
  /\ hs' = A!Forget(A!EndOfPre(hs, k, how), k)
  /\ pres' = [pres EXCEPT ![k] = A!NoPre]
  /\ UNCHANGED <<posts, rest>>

-----------------------------------------------------------------------------
(* The hedge.                                                              *)

(* A pre order of the leg still rests, as far as the leg knows.            *)
PreOpen(l) == l.id # NoOrder /\ l.qty > 0 /\ l.filled < l.qty /\ ~Halted(l)

(* on_ls_post_fill: the round ends with the last hedge, unless the pre     *)
(* order still rests.                                                      *)
OnLsPostFill(t, b, q) ==
  LET u == ApplyRt([t EXCEPT !.leg[b].post = Minus(@, q)], b, q)
      l == u.leg[b]
  IN IF ~PostDone(l) THEN u
     ELSE IF PreOpen(l) THEN [u EXCEPT !.leg[b].status = "pre_partial"]
     ELSE FinishRound(u, b)

(* on_ls_post_reject: it is not sent again, and the set halts.             *)
OnLsPostReject(t, b) == HaltSet([t EXCEPT !.leg[b].post = 0], b)

(* _place_ls_post: no quote, refused, or not answered.                     *)
LsPostFails(i) ==
  /\ posts[i].phase = "sent"
  /\ hs' = OnLsPostReject(hs, posts[i].block)
  /\ posts' = [posts EXCEPT ![i] = A!NoPost]
  /\ UNCHANGED <<pres, rest>>

LsPostTaken(i) ==
  /\ posts[i].phase = "sent"
  /\ posts' = [posts EXCEPT ![i].phase = "open"]
  /\ UNCHANGED <<hs, pres, rest>>

LsPostFills(i, q) ==
  LET o == posts[i] IN
  /\ o.phase = "open" /\ q <= o.left
  /\ hs' = OnLsPostFill(hs, o.block, q)
  /\ hs'.diff \in -MaxLoose .. MaxLoose
  /\ posts' = [posts EXCEPT ![i] = IF q = o.left THEN A!NoPost
                                   ELSE [o EXCEPT !.left = @ - q]]
  /\ UNCHANGED <<pres, rest>>

(* It was cancelled or rejected outside, or vanished from the order book.  *)
LsPostEnds(i) ==
  /\ posts[i].phase = "open"
  /\ hs' = OnLsPostReject(hs, posts[i].block)
  /\ posts' = [posts EXCEPT ![i] = A!NoPost]
  /\ UNCHANGED <<pres, rest>>

-----------------------------------------------------------------------------
(* release_halt, once nothing of the set is at work; "clear": a person has *)
(* evened the position.  The pieces left over stay as they are.            *)
HlRelease ==
  /\ \E b \in Block : Halted(hs.leg[b])
  /\ \A b \in Block : A!Working(b) = {} /\ A!Hedging(b) = {}
  /\ hs' = ReleaseHalt(hs)
  /\ loose' = TRUE
  /\ UNCHANGED <<pres, posts, mate, solo, frag>>

HlClear ==
  /\ loose /\ \A b \in Block : A!Working(b) = {} /\ A!Hedging(b) = {}
  /\ hs' = ClearDiff(hs)
  /\ loose' = \E b \in Block : frag[b] # 0
  /\ UNCHANGED <<pres, posts, mate, solo, frag>>

HlFirstNext ==
  \/ \E b \in Block : \/ A!EvalHalted(b) \/ A!EvalOff(b) \/ A!EvalShut(b)
                      \/ A!EvalHold(b) \/ A!EvalReplace(b)
                      \/ A!CommandOn(b) \/ A!CommandOff(b)
  \/ \E B \in SUBSET Block \ {{}} : PlaceBatch(B)
  \/ \E k \in AllPres :
       \/ BatchAnswered(k) \/ Identified(k) \/ NeverArrived(k)
       \/ \E q \in 1 .. Per * Ratio : HlPreFills(k, q)
       \/ \E how \in {"cancelled", "rejected"} : HlPreEnds(k, how)
       \/ A!PreVanishes(k) \/ A!CancelFails(k) \/ A!CancelReturns(k)
  \/ \E i \in 1 .. MaxLsPosts :
       \/ LsPostFails(i) \/ LsPostTaken(i) \/ LsPostEnds(i)
       \/ \E q \in 1 .. Per : LsPostFills(i, q)
  \/ HlRelease \/ HlClear

HlFirstSpec == HlFirstInit /\ [][HlFirstNext]_hlFirstVars

-----------------------------------------------------------------------------
(* Hyperliquid contracts of leg b that are filled and not hedged: pieces   *)
(* left over, and what the hedges at work have left.                       *)
Unfilled(b) ==
  [i \in 1 .. MaxLsPosts |-> IF i \in A!Hedging(b) THEN posts[i].left ELSE 0]
Owed(b) == frag[b] + Ratio * TotalOf(Unfilled(b), MaxLsPosts)

(* Unless the set halted, the difference of its ledger is exactly what is  *)
(* left over or being hedged: no fill is hedged twice, or forgotten when   *)
(* its pre order is replaced (on_hl_pre_fill, _place_ls_post).             *)
LooseIsOwed ==
  ~loose /\ ~Halted(hs.leg["entry"]) => hs.diff = Owed("exit") - Owed("entry")

(* While nobody knows what became of a pre order its set is halted, so     *)
(* that no second one is sent (_halt_hl_pre_unknown).                      *)
UnknownHalts ==
  \A k \in AllPres : pres[k].phase = "lost" => Halted(hs.leg[pres[k].block])

(* A leg that waits for its hedge has a hedge to wait for: a round is      *)
(* closed when the pre order ends (the comment in on_ls_post_fill).        *)
HlWaitIsAnswered ==
  \A b \in Block :
    hs.leg[b].status = "post_pending" => hs.leg[b].post > 0
=============================================================================
