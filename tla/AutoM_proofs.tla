---------------------------- MODULE AutoM_proofs ----------------------------
(***************************************************************************)
(* The set's safety for every size, ratio, limit and number of orders, and *)
(* whatever the environment does (Hasty, Revivals, Crossing and Vanishing  *)
(* either way).  The invariant is inductive as it stands: WithinLimit      *)
(* needs HaltedAsOne, since a leg that ends its round in a halted set does *)
(* not judge the difference.                                               *)
(***************************************************************************)
EXTENDS AutoM, AutoMSet_proofs, FiniteSetTheorems

IInv == TypeOK /\ HaltedAsOne /\ WithinLimit

(* Order tables keep their type.                                           *)
PreOK  == pre \in [Pres -> PreOrder]
PostOK == post \in [Posts -> PostOrder]

LEMMA IInvParts ==
  IInv <=> /\ s \in SetRecord /\ PreOK /\ PostOK /\ uneven \in BOOLEAN
           /\ AsOne(s) /\ (~uneven => InLimit(s))
BY DEF IInv, TypeOK, HaltedAsOne, WithinLimit, AsOne, InLimit, PreOK, PostOK

(* A step of the set alone, by a handler that keeps what matters.          *)
LEMMA KeepsIInv ==
  ASSUME IInv, Keeps(s, s'), PreOK', PostOK', UNCHANGED uneven
  PROVE  IInv' /\ Sticks(s, s')
<1>1. /\ s' \in SetRecord /\ AsOne(s') /\ Sticks(s, s')
      /\ (~uneven' => InLimit(s')) /\ uneven' \in BOOLEAN
  BY IInvParts DEF Keeps
<1> QED BY <1>1 DEF IInv, TypeOK, HaltedAsOne, WithinLimit, AsOne, InLimit,
                    PreOK, PostOK

LEMMA KeepsKeeps ==
  ASSUME NEW x, NEW y, NEW z, Keeps(x, y), Keeps(y, z)
  PROVE  Keeps(x, z)
<1>1. Sticks(x, y) /\ Sticks(y, z)
  BY DEF Keeps
<1>2. Sticks(x, z)
  BY <1>1 DEF Sticks, Block
<1> QED BY <1>2 DEF Keeps

-----------------------------------------------------------------------------
(* The order tables.                                                       *)

LEMMA NewPreOK ==
  ASSUME PreOK, NEW b \in Block, NEW q \in Nat, NewPre(b, q) PROVE PreOK'
<1>1. PICK p \in {"sent", "spawned"} :
        pre' = [pre EXCEPT ![Smallest(FreePre)] =
                  [block |-> b, qty |-> q, filled |-> 0, phase |-> p]]
  BY DEF NewPre
<1> QED BY <1>1 DEF PreOK, PreOrder, PrePhase

LEMMA NewPostOK ==
  ASSUME PostOK, NEW b \in Block, NEW q \in Nat, NewPost(b, q) PROVE PostOK'
BY DEF PostOK, NewPost, PostOrder, PostPhase

LEMMA PreAfterOK ==
  ASSUME PreOK, NEW k \in Pres, NEW q \in Nat, NEW ends \in BOOLEAN,
         PreAfter(k, q, ends)
  PROVE  PreOK'
<1>1. NoPre \in PreOrder
  BY DEF NoPre, PreOrder, PrePhase, Block
<1>2. [pre[k] EXCEPT !.filled = q, !.phase = "open"] \in PreOrder
  BY DEF PreOK, PreOrder, PrePhase
<1> QED BY <1>1, <1>2 DEF PreOK, PreAfter

LEMMA HedgeOK ==
  ASSUME PreOK, PostOK, NEW t, NEW k \in Pres, NEW q \in Nat, Hedge(t, k, q)
  PROVE  PostOK'
<1>1. pre[k].block \in Block
  BY DEF PreOK, PreOrder
<1>2. q * Ratio \in Nat
  BY ProductNat
<1> QED BY <1>1, <1>2, NewPostOK DEF Hedge, PostOK

-----------------------------------------------------------------------------
(* The evaluation of a leg.                                                *)

LEMMA AwakeLeg ==
  ASSUME NEW l \in Leg
  PROVE  /\ Awake(l) \in Leg /\ Awake(l).post = l.post
         /\ Halted(Awake(l)) <=> Halted(l)
         /\ Awake(l).running = l.running
BY DEF Awake, Leg, LegStatus, Halted

LEMMA RestedLeg ==
  ASSUME NEW l \in Leg
  PROVE  /\ Rested(l) \in Leg /\ Rested(l).post = l.post
         /\ Halted(Rested(l)) <=> Halted(l)
         /\ Rested(l).running = l.running
BY AwakeLeg DEF Rested, Leg, LegStatus, Halted

LEMMA LegOfSet == ASSUME NEW t \in SetRecord, NEW b \in Block PROVE t.leg[b] \in Leg
BY DEF SetRecord

(* Leg b woken or rested, then cancelled.                                  *)
LEMMA LegThenCancel ==
  ASSUME NEW t \in SetRecord, NEW b \in Block, NEW l \in Leg,
         l.post = t.leg[b].post, Halted(l) <=> Halted(t.leg[b]),
         l.running = t.leg[b].running
  PROVE  Mild(t, CancelIfResting([t EXCEPT !.leg[b] = l], b, FALSE))
<1> DEFINE u == [t EXCEPT !.leg[b] = l]
<1>1. Mild(t, u)
  BY MildLeg
<1> HIDE DEF u
<1>2. Mild(u, CancelIfResting(u, b, FALSE))
  BY <1>1, CancelMild DEF Mild
<1>3. Mild(t, CancelIfResting(u, b, FALSE))
  BY <1>1, <1>2, MildMild
<1> QED BY <1>3 DEF u

LEMMA EvalMild ==
  ASSUME s \in SetRecord, NEW b \in Block,
         EvalHalted(b) \/ EvalOff(b) \/ EvalShut(b) \/ EvalHold(b)
  PROVE  Mild(s, s') /\ UNCHANGED <<pre, post, uneven>>
<1>1. CASE EvalHalted(b)
  BY <1>1, CancelMild DEF EvalHalted
<1>2. CASE EvalOff(b)
  <2> DEFINE t == CancelIfResting(s, b, FALSE)
  <2>1. \/ s' = t
        \/ s' = [t EXCEPT !.leg[b].status = "idle"]
    BY <1>2 DEF EvalOff
  <2>2. Mild(s, t)
    BY CancelMild
  <2>3. ~Halted(t.leg[b])
    BY <1>2, <2>2 DEF EvalOff, Halted, Mild, SameHalt
  <2> HIDE DEF t
  <2>4. Mild(t, [t EXCEPT !.leg[b].status = "idle"])
    BY <2>2, <2>3, IdleMild DEF Mild
  <2>5. Mild(s, s')
    BY <2>1, <2>2, <2>4, MildMild
  <2> QED BY <1>2, <2>5 DEF EvalOff
<1>3. CASE EvalShut(b)
  <2>1. \/ s' = CancelIfResting([s EXCEPT !.leg[b] = Awake(s.leg[b])], b, FALSE)
        \/ s' = CancelIfResting([s EXCEPT !.leg[b] = Rested(s.leg[b])], b, FALSE)
    BY <1>3 DEF EvalShut
  <2>2. Mild(s, s')
    BY <2>1, LegOfSet, AwakeLeg, RestedLeg, LegThenCancel
  <2> QED BY <1>3, <2>2 DEF EvalShut
<1>4. CASE EvalHold(b)
  <2>1. \/ s' = [s EXCEPT !.leg[b] = Awake(s.leg[b])]
        \/ s' = [s EXCEPT !.leg[b] = Rested(s.leg[b])]
    BY <1>4 DEF EvalHold
  <2>2. Mild(s, s')
    BY <2>1, LegOfSet, AwakeLeg, RestedLeg, MildLeg
  <2> QED BY <1>4, <2>2 DEF EvalHold
<1> QED BY <1>1, <1>2, <1>3, <1>4

LEMMA EvalPlaceMild ==
  ASSUME s \in SetRecord, PreOK, NEW b \in Block, EvalPlace(b)
  PROVE  Mild(s, s') /\ PreOK' /\ UNCHANGED <<post, uneven>>
<1> DEFINE l == Rested(s.leg[b])
           q == OrderQty(s, b)
           m == [l EXCEPT !.qty = q, !.filled = 0, !.sent = FALSE,
                          !.status = "pre_resting"]
<1>1. q \in Nat
  BY QtyNat
<1>2. /\ l \in Leg /\ l.post = s.leg[b].post /\ ~Halted(s.leg[b])
      /\ l.running = s.leg[b].running
  BY LegOfSet, RestedLeg DEF EvalPlace, Active
<1>3. /\ s' = [s EXCEPT !.leg[b] = m] /\ NewPre(b, q)
      /\ UNCHANGED <<post, uneven>>
  BY DEF EvalPlace
<1> HIDE DEF l, q
<1>4. /\ m \in Leg /\ m.post = s.leg[b].post /\ ~Halted(m)
      /\ m.running = s.leg[b].running
  BY <1>1, <1>2 DEF Leg, LegStatus, Halted
<1> HIDE DEF m
<1> QED BY <1>1, <1>2, <1>3, <1>4, MildLeg, NewPreOK

LEMMA EvalReplaceMild ==
  ASSUME s \in SetRecord, NEW b \in Block, EvalReplace(b)
  PROVE  Mild(s, s') /\ UNCHANGED <<pre, post, uneven>>
<1> DEFINE l == Rested(s.leg[b])
           r == l.qty > 0
           m == [l EXCEPT !.replace = r]
           u == [s EXCEPT !.leg[b] = m]
<1>1. /\ l \in Leg /\ l.post = s.leg[b].post /\ l.running = s.leg[b].running
      /\ Halted(l) <=> Halted(s.leg[b])
  BY LegOfSet, RestedLeg
<1>2. /\ s' = [s EXCEPT !.leg[b] = m, !.asked = @ \cup {l.id}]
      /\ UNCHANGED <<pre, post, uneven>>
  BY DEF EvalReplace
<1>r. r \in BOOLEAN
  OBVIOUS
<1> HIDE DEF l, r
<1>3. /\ m \in Leg /\ m.post = s.leg[b].post /\ m.running = s.leg[b].running
      /\ Halted(m) <=> Halted(s.leg[b])
  BY <1>1, <1>r DEF Leg, Halted
<1>4. l.id \in Nat
  BY <1>1 DEF Leg
<1> HIDE DEF m
<1>5. Mild(s, u)
  BY <1>3, MildLeg
<1>6. s'.leg = u.leg /\ s'.diff = u.diff
  BY <1>2 DEF SetRecord
<1>7. s' \in SetRecord
  BY <1>2, <1>3, <1>4 DEF SetRecord
<1> HIDE DEF u
<1> QED BY <1>2, <1>5, <1>6, <1>7 DEF Mild, SameLedger, SameHalt

-----------------------------------------------------------------------------
(* What the engine does when it hears of a pre order.                      *)

LEMMA ForgetMild ==
  ASSUME NEW t \in SetRecord, NEW k PROVE Mild(t, Forget(t, k))
BY DEF Forget, Mild, SameLedger, SameHalt, SetRecord

LEMMA ForgetKeeps ==
  ASSUME NEW t, NEW u, NEW k, Keeps(t, u) PROVE Keeps(t, Forget(u, k))
<1>1. u \in SetRecord /\ AsOne(u)
  BY DEF Keeps
<1>2. Keeps(u, Forget(u, k))
  BY <1>1, ForgetMild, MildKeeps
<1> QED BY <1>2, KeepsKeeps

LEMMA PreBlock ==
  ASSUME PreOK, NEW k \in Pres
  PROVE  /\ pre[k].block \in Block /\ pre[k].qty \in Nat
         /\ pre[k].filled \in Nat /\ k \in Nat
BY DEF PreOK, PreOrder, Pres

LEMMA TakeFillKeeps ==
  ASSUME PreOK, NEW k \in Pres, NEW t \in SetRecord, AsOne(t),
         NEW q \in Nat, q > 0
  PROVE  Keeps(t, TakeFill(t, k, q))
<1>1. CASE Excess(t, k, q)
  BY <1>1, PreBlock, HaltKeeps DEF TakeFill
<1>2. CASE ~Excess(t, k, q)
  BY <1>2, PreBlock, OnPreFillSettles, SettlesKeeps DEF TakeFill
<1> QED BY <1>1, <1>2

LEMMA EndOfPreKeeps ==
  ASSUME PreOK, NEW k \in Pres, NEW t \in SetRecord, AsOne(t), NEW how
  PROVE  Keeps(t, EndOfPre(t, k, how))
<1>1. Keeps(t, t)
  BY DEF Keeps, Sticks
<1>2. Keeps(t, OnPreCancelled(t, pre[k].block))
  BY PreBlock, OnPreCancelledMild, MildKeeps
<1>3. Keeps(t, OnPreReject(t, pre[k].block))
  BY PreBlock, OnPreRejectKeeps
<1> QED BY <1>1, <1>2, <1>3 DEF EndOfPre

LEMMA PreAcceptedKeeps ==
  ASSUME s \in SetRecord, AsOne(s), PreOK, PostOK, NEW k \in Pres,
         NEW q \in Nat, NEW how, PreAccepted(k, q, how)
  PROVE  Keeps(s, s') /\ PreOK' /\ PostOK' /\ UNCHANGED uneven
<1> DEFINE t == OnPreAck(s, pre[k].block, k)
           f == IF q > 0 THEN TakeFill(t, k, q) ELSE t
           ends == how # "open" \/ q = pre[k].qty
<1>1. /\ s' \in {Forget(EndOfPre(f, k, how), k), Forget(f, k), f}
      /\ PreAfter(k, q, ends) /\ Hedge(t, k, q) /\ UNCHANGED uneven
  BY DEF PreAccepted
<1>2. Keeps(s, t)
  BY PreBlock, OnPreAckMild, MildKeeps
<1> HIDE DEF t
<1>3. Keeps(s, f)
  <2>1. CASE q > 0
    <3>1. Keeps(t, TakeFill(t, k, q))
      BY <1>2, <2>1, TakeFillKeeps DEF Keeps
    <3> QED BY <1>2, <2>1, <3>1, KeepsKeeps
  <2>2. CASE ~(q > 0)
    BY <1>2, <2>2
  <2> QED BY <2>1, <2>2
<1> HIDE DEF f
<1>4. Keeps(s, EndOfPre(f, k, how))
  <2>1. Keeps(f, EndOfPre(f, k, how))
    BY <1>3, EndOfPreKeeps DEF Keeps
  <2> QED BY <1>3, <2>1, KeepsKeeps
<1>5. Keeps(s, s')
  BY <1>1, <1>3, <1>4, ForgetKeeps
<1>6. PreOK'
  BY <1>1, PreAfterOK
<1>7. PostOK'
  BY <1>1, HedgeOK
<1> QED BY <1>1, <1>5, <1>6, <1>7

(* The other steps about a pre order.                                      *)
LEMMA PreStepKeeps ==
  ASSUME s \in SetRecord, AsOne(s), PreOK, PostOK, NEW k \in Pres,
         Answer(k) \/ PreReport(k) \/ CancelFails(k) \/ CancelReturns(k)
  PROVE  Keeps(s, s') /\ PreOK' /\ PostOK' /\ UNCHANGED uneven
<1> USE PreBlock
<1>1. Keeps(s, s)
  BY DEF Keeps, Sticks
<1>2. Keeps(s, Forget(s, k))
  BY <1>1, ForgetKeeps
<1>3. CASE \E q \in 0 .. Per : \E how \in {"open", "cancelled", "rejected"} :
             PreAccepted(k, q, how)
  BY <1>3, PreAcceptedKeeps, SizesAssumption
<1>4. CASE PreRefused(k)
  <2>1. s' = OnPreReject(s, pre[k].block) /\ PreAfter(k, 0, TRUE)
    BY <1>4 DEF PreRefused
  <2> QED BY <1>4, <2>1, OnPreRejectKeeps, PreAfterOK DEF PreRefused, PostOK
<1>5. CASE PreTimesOut(k)
  <2>1. PreOK'
    BY <1>5 DEF PreTimesOut, PreOK, PreOrder, PrePhase
  <2> QED BY <1>5, <2>1, HaltKeeps DEF PreTimesOut, PostOK
<1>6. CASE PreSettled(k)
  BY <1>1, <1>6, PreAfterOK DEF PreSettled, PostOK
<1>7. ASSUME NEW q \in 1 .. Per, PreFill(k, q)
      PROVE  Keeps(s, s') /\ PreOK' /\ PostOK' /\ UNCHANGED uneven
  <2> DEFINE t == TakeFill(s, k, q)
             full == pre[k].filled + q = pre[k].qty
  <2>1. q \in Nat /\ q > 0 /\ pre[k].filled + q \in Nat /\ full \in BOOLEAN
    BY SizesAssumption
  <2>2. Keeps(s, t) /\ Keeps(s, Forget(t, k))
    BY <2>1, TakeFillKeeps, ForgetKeeps
  <2>3. /\ s' = Forget(t, k) \/ s' = t
        /\ PreAfter(k, pre[k].filled + q, full) /\ Hedge(s, k, q)
        /\ UNCHANGED uneven
    BY <1>7 DEF PreFill
  <2> QED BY <2>1, <2>2, <2>3, PreAfterOK, HedgeOK
<1>8. ASSUME NEW how, PreEnds(k, how)
      PROVE  Keeps(s, s') /\ PreOK' /\ PostOK' /\ UNCHANGED uneven
  <2>1. s' = Forget(EndOfPre(s, k, how), k) /\ PreAfter(k, 0, TRUE)
    BY <1>8 DEF PreEnds
  <2>2. Keeps(s, s')
    BY <2>1, EndOfPreKeeps, ForgetKeeps
  <2> QED BY <1>8, <2>1, <2>2, PreAfterOK DEF PreEnds, PostOK
<1>9. CASE PreVanishes(k)
  <2>1. /\ \/ s' = Forget(OnPreCancelled(s, pre[k].block), k)
           \/ s' = Forget(s, k)
        /\ PreAfter(k, 0, TRUE)
    BY <1>9 DEF PreVanishes
  <2>2. Keeps(s, OnPreCancelled(s, pre[k].block))
    BY OnPreCancelledMild, MildKeeps
  <2>3. Keeps(s, s')
    BY <1>2, <2>1, <2>2, ForgetKeeps
  <2> QED BY <1>9, <2>1, <2>3, PreAfterOK DEF PreVanishes, PostOK
<1>10. CASE CancelFails(k)
  <2>1. \/ s' = Forget(OnPreCancelFailed(s, pre[k].block), k)
        \/ s' = Forget(s, k)
    BY <1>10 DEF CancelFails
  <2>2. Keeps(s, OnPreCancelFailed(s, pre[k].block))
    BY OnPreCancelFailedMild, MildKeeps
  <2>3. Keeps(s, s')
    BY <1>2, <2>1, <2>2, ForgetKeeps
  <2> QED BY <1>10, <2>3 DEF CancelFails, PreOK, PostOK
<1>11. CASE CancelReturns(k)
  BY <1>2, <1>11 DEF CancelReturns, PreOK, PostOK
<1> QED BY <1>3, <1>4, <1>5, <1>6, <1>7, <1>8, <1>9, <1>10, <1>11
        DEF Answer, PreReport

-----------------------------------------------------------------------------
(* Post orders and commands.                                               *)

LEMMA PostStepKeeps ==
  ASSUME s \in SetRecord, AsOne(s), PreOK, PostOK, NEW i \in Posts,
         PostReport(i)
  PROVE  Keeps(s, s') /\ PreOK' /\ PostOK' /\ UNCHANGED uneven
<1> DEFINE o == post[i]
<1>1. /\ o \in PostOrder /\ o.block \in Block
      /\ o.left \in Nat /\ o.call \in Nat
  BY DEF PostOK, PostOrder
<1>2. Keeps(s, s) /\ NoPost \in PostOrder
  BY DEF Keeps, Sticks, NoPost, PostOrder, PostPhase, Block
<1>3. \A ph \in PostPhase : [o EXCEPT !.phase = ph] \in PostOrder
  BY <1>1 DEF PostOrder
<1>4. /\ Keeps(s, OnPostReject(s, o.block, o.left))
      /\ \A q \in Nat : /\ Keeps(s, OnPostReject(s, o.block, q))
                       /\ Keeps(s, OnPostFill(s, o.block, q))
      /\ Keeps(s, OnPostRecovered(s, o.block, o.left))
  BY <1>1, OnPostRejectSettles, OnPostFillSettles, OnPostRecoveredKeeps,
     SettlesKeeps
<1>5. \A r \in PostOrder : [post EXCEPT ![i] = r] \in [Posts -> PostOrder]
  BY DEF PostOK
<1>6. Ended(o) \in PostOrder
  BY <1>1, <1>2 DEF Ended, PostOrder
<1>7. CASE PostFails(i)
  <2>1. post' = [post EXCEPT ![i] = [o EXCEPT !.phase = "failed"]]
        \/ post' = [post EXCEPT ![i] = NoPost]
    BY <1>7 DEF PostFails
  <2>2. PostOK'
    BY <1>2, <1>3, <1>5, <2>1 DEF PostOK, PostPhase
  <2> QED BY <1>4, <1>7, <2>2 DEF PostFails, PreOK
<1>8. CASE PostOpens(i)
  <2>1. PICK c \in {0} \cup (IF Crossing THEN {o.left} ELSE {}) :
          post' = [post EXCEPT ![i].phase = "open", ![i].call = c]
    BY <1>8 DEF PostOpens
  <2>2. c \in Nat
    BY <1>1, <2>1
  <2>3. post' = [post EXCEPT ![i] = [o EXCEPT !.phase = "open", !.call = c]]
    BY <2>1 DEF PostOK
  <2>4. [o EXCEPT !.phase = "open", !.call = c] \in PostOrder
    BY <1>1, <2>2 DEF PostOrder, PostPhase
  <2>5. PostOK'
    BY <1>5, <2>3, <2>4 DEF PostOK
  <2> QED BY <1>2, <1>8, <2>5 DEF PostOpens, PreOK
<1>9. CASE PostRevives(i)
  <2>1. post' = [post EXCEPT ![i] = [o EXCEPT !.phase = "open"]]
    BY <1>9 DEF PostRevives, PostOK
  <2>2. PostOK'
    BY <1>3, <1>5, <2>1 DEF PostOK, PostPhase
  <2> QED BY <1>4, <1>9, <2>2 DEF PostRevives, PreOK
<1>10. CASE CallFails(i)
  <2>1. [o EXCEPT !.call = 0] \in PostOrder
    BY <1>1 DEF PostOrder
  <2>2. PostOK'
    BY <1>2, <1>5, <1>10, <2>1 DEF CallFails, PostOK
  <2> QED BY <1>1, <1>4, <1>10, <2>2 DEF CallFails, PreOK
<1>11. CASE PostForgotten(i)
  BY <1>2, <1>5, <1>11 DEF PostForgotten, PreOK, PostOK
<1>12. ASSUME NEW q \in 1 .. Per * Ratio, PostFill(i, q)
      PROVE  Keeps(s, s') /\ PreOK' /\ PostOK' /\ UNCHANGED uneven
  <2>1. q \in Nat
    <3> DEFINE n == Per * Ratio
    <3>1. n \in Nat
      BY ProductNat, SizesAssumption
    <3>2. q \in 1 .. n
      OBVIOUS
    <3> HIDE DEF n
    <3> QED BY <3>1, <3>2
  <2>2. \/ post' = [post EXCEPT ![i] = Ended(o)]
        \/ /\ q <= o.left
           /\ post' = [post EXCEPT ![i] = [o EXCEPT !.left = o.left - q]]
    BY <1>12 DEF PostFill
  <2>3. q <= o.left => [o EXCEPT !.left = o.left - q] \in PostOrder
    BY <1>1, <2>1 DEF PostOrder
  <2>4. PostOK'
    BY <1>6, <1>5, <2>2, <2>3 DEF PostOK
  <2> QED BY <1>4, <1>12, <2>1, <2>4 DEF PostFill, PreOK
<1>13. CASE PostEnds(i)
  BY <1>6, <1>4, <1>5, <1>13 DEF PostEnds, PreOK, PostOK
<1>14. CASE PostVanishes(i)
  <2>1. s.leg[o.block].post \in Nat
    BY <1>1, LegOfSet DEF Leg
  <2>2. PostOK'
    <3>1. post' = [post EXCEPT ![i] = Ended(o)]
      BY <1>14 DEF PostVanishes
    <3> QED BY <1>5, <1>6, <3>1 DEF PostOK
  <2>3. PreOK' /\ UNCHANGED uneven
    BY <1>14 DEF PostVanishes, PreOK
  <2>4. \/ s' = OnPostReject(s, o.block, s.leg[o.block].post)
        \/ s' = s
    BY <1>14 DEF PostVanishes
  <2> QED BY <1>2, <1>4, <2>1, <2>2, <2>3, <2>4
<1> QED BY <1>7, <1>8, <1>9, <1>10, <1>11, <1>12, <1>13, <1>14 DEF PostReport

-----------------------------------------------------------------------------
(* The invariant.                                                          *)

LEMMA InitIInv == Init => IInv
<1> SUFFICES ASSUME Init PROVE IInv
  OBVIOUS
<1>1. PICK h \in 0 .. Target : s = Restored(h)
  BY DEF Init
<1>2. h \in Nat /\ NewLeg \in Leg /\ ~Halted(NewLeg)
  BY SizesAssumption DEF NewLeg, Leg, LegStatus, NoOrder, Halted
<1>r. NewLeg.running = FALSE
  BY DEF NewLeg
<1>3. s \in SetRecord
  BY <1>1, <1>2 DEF Restored, SetRecord
<1>4. /\ s.leg["entry"] = NewLeg /\ s.leg["exit"] = NewLeg /\ s.diff = 0
  BY <1>1 DEF Restored, Block
<1>5. AsOne(s) /\ InLimit(s)
  <2>1. \A b \in Block : ~s.leg[b].running /\ ~Halted(s.leg[b])
    BY <1>2, <1>4, <1>r DEF Block
  <2> QED BY <1>4, <2>1, TwoBlocks, ZeroWithin DEF AsOne, InLimit
<1>6. PreOK /\ PostOK /\ uneven \in BOOLEAN
  BY DEF Init, PreOK, PostOK, NoPre, NoPost, PreOrder, PostOrder, PrePhase,
         PostPhase, Block
<1> QED BY <1>3, <1>5, <1>6, IInvParts

(* The task of a repayment keeps the halt of the entry leg.                *)
LEMMA TaskKeeps ==
  ASSUME IInv, NEW k \in Pres, TaskRuns(k)
  PROVE  /\ IInv' /\ (Halted(s'.leg["entry"]) <=> Halted(s.leg["entry"]))
         /\ PreHeld(k) \/ Sticks(s, s')
<1>1. /\ s \in SetRecord /\ PreOK /\ PostOK /\ uneven \in BOOLEAN
      /\ AsOne(s) /\ (~uneven => InLimit(s))
  BY IInvParts
<1>2. CASE PreHeld(k)
  <2>1. s' = HoldRepay(s) /\ UNCHANGED <<post, uneven>>
    BY <1>2 DEF PreHeld
  <2>2. /\ s' \in SetRecord /\ AsOne(s') /\ SameLedger(s, s')
        /\ s'.leg["entry"] = s.leg["entry"]
    BY <1>1, <2>1, HoldRepayLifts
  <2>3. PreOK'
    BY <1>1, <1>2 DEF PreHeld, PreOK, NoPre, PreOrder, PrePhase, Block
  <2>4. ~uneven' => InLimit(s')
    BY <1>1, <2>1, <2>2 DEF InLimit, SameLedger, SetPostDone, PostDone
  <2>5. IInv'
    BY <1>1, <2>1, <2>2, <2>3, <2>4
       DEF IInv, TypeOK, HaltedAsOne, WithinLimit, AsOne, InLimit, PreOK, PostOK
  <2> QED BY <1>2, <2>2, <2>5
<1>3. ASSUME NEW q \in 1 .. Per, PreGoes(k, q)
      PROVE  IInv' /\ Mild(s, s')
  <2> DEFINE n == IF q = pre[k].qty THEN s.leg["exit"].qty ELSE q
             l == [s.leg["exit"] EXCEPT !.qty = n]
  <2>1. q \in Nat /\ "exit" \in Block
    BY SizesAssumption DEF Block
  <2>2. s' = [s EXCEPT !.leg["exit"] = l] /\ UNCHANGED <<post, uneven>>
    BY <1>1, <1>3, <2>1 DEF PreGoes, SetRecord
  <2>3. s.leg["exit"] \in Leg
    BY <1>1, <2>1, LegOfSet
  <2>4. n \in Nat
    BY <2>1, <2>3 DEF Leg
  <2> HIDE DEF n
  <2>5. /\ l \in Leg /\ l.post = s.leg["exit"].post
        /\ l.running = s.leg["exit"].running
        /\ Halted(l) <=> Halted(s.leg["exit"])
    BY <2>3, <2>4 DEF Leg, Halted
  <2> HIDE DEF l
  <2>6. Mild(s, s')
    BY <1>1, <2>1, <2>2, <2>5, MildLeg
  <2>7. PreOK'
    BY <1>1, <1>3, <2>1 DEF PreGoes, PreOK, PreOrder, PrePhase
  <2>8. Keeps(s, s') /\ PostOK' /\ UNCHANGED uneven
    BY <1>1, <2>2, <2>6, MildKeeps DEF PostOK
  <2> QED BY <2>6, <2>7, <2>8, KeepsIInv
<1>4. ASSUME Mild(s, s')
      PROVE  /\ Halted(s'.leg["entry"]) <=> Halted(s.leg["entry"])
             /\ Sticks(s, s')
  BY <1>1, <1>4, MildKeeps DEF Mild, SameHalt, Keeps, Block
<1> QED BY <1>2, <1>3, <1>4 DEF TaskRuns

(* One step: the invariant is kept, only Release lifts the halt of a set,  *)
(* and only a repayment that is not sent takes a leg out of it.            *)
LEMMA NextIInv ==
  ASSUME IInv, [Next]_vars
  PROVE  /\ IInv'
         /\ \/ Release \/ Sticks(s, s')
            \/ /\ \E k \in Pres : PreHeld(k)
               /\ Halted(s'.leg["entry"]) <=> Halted(s.leg["entry"])
<1>1. /\ s \in SetRecord /\ PreOK /\ PostOK /\ uneven \in BOOLEAN
      /\ AsOne(s) /\ (~uneven => InLimit(s))
  BY IInvParts
<1>2. ASSUME NEW b \in Block, Eval(b) PROVE IInv' /\ Sticks(s, s')
  <2>1. Mild(s, s') /\ PreOK' /\ PostOK' /\ UNCHANGED uneven
    <3>1. CASE EvalHalted(b) \/ EvalOff(b) \/ EvalShut(b) \/ EvalHold(b)
      BY <1>1, <3>1, EvalMild DEF PreOK, PostOK
    <3>2. CASE EvalPlace(b)
      BY <1>1, <3>2, EvalPlaceMild DEF PostOK
    <3>3. CASE EvalReplace(b)
      BY <1>1, <3>3, EvalReplaceMild DEF PreOK, PostOK
    <3> QED BY <1>2, <3>1, <3>2, <3>3 DEF Eval
  <2> QED BY <1>1, <2>1, MildKeeps, KeepsIInv
<1>3. ASSUME NEW k \in Pres,
             Answer(k) \/ PreReport(k) \/ CancelFails(k) \/ CancelReturns(k)
      PROVE  IInv' /\ Sticks(s, s')
  BY <1>1, <1>3, PreStepKeeps, KeepsIInv
<1>4. ASSUME NEW i \in Posts, PostReport(i) PROVE IInv' /\ Sticks(s, s')
  BY <1>1, <1>4, PostStepKeeps, KeepsIInv
<1>5. ASSUME NEW b \in Block, CommandOn(b) \/ CommandOff(b)
      PROVE  IInv' /\ Sticks(s, s')
  <2>1. Mild(s, s')
    BY <1>1, <1>5, TwoBlocks, SwitchOnMild, SwitchOffMild
       DEF CommandOn, CommandOff
  <2> QED BY <1>1, <1>5, <2>1, MildKeeps, KeepsIInv
          DEF CommandOn, CommandOff, PreOK, PostOK
<1>6. CASE Release
  <2>1. s' \in SetRecord /\ AsOne(s') /\ uneven' = TRUE
    BY <1>1, <1>6, ReleaseAsOne DEF Release
  <2> QED BY <1>1, <1>6, <2>1
          DEF Release, IInv, TypeOK, HaltedAsOne, WithinLimit, AsOne, PreOK, PostOK
<1>7. ASSUME Clear PROVE IInv' /\ Sticks(s, s')
  <2>1. Settles(s, s') /\ uneven' = FALSE /\ UNCHANGED <<pre, post>>
    BY <1>1, <1>7, ClearJudged DEF Clear
  <2> QED BY <1>1, <2>1
          DEF Settles, IInv, TypeOK, HaltedAsOne, WithinLimit, AsOne, InLimit,
              PreOK, PostOK
<1>8. CASE UNCHANGED vars
  BY <1>8 DEF vars, IInv, TypeOK, HaltedAsOne, WithinLimit, Sticks
<1>9. ASSUME NEW k \in Pres, TaskRuns(k)
      PROVE  /\ IInv' /\ (Halted(s'.leg["entry"]) <=> Halted(s.leg["entry"]))
             /\ PreHeld(k) \/ Sticks(s, s')
  BY <1>9, TaskKeeps
<1>10. CASE Release \/ Clear
  BY <1>6, <1>7, <1>10 DEF Settles
<1> QED BY <1>2, <1>3, <1>4, <1>5, <1>8, <1>9, <1>10 DEF Next, Command

(* The inductive invariant holds of every behaviour of the set.            *)
THEOREM Safety == Spec => []IInv
<1> QED BY InitIInv, NextIInv, PTL DEF Spec

(* The state has its type (AutoMSet, Leg).                                 *)
THEOREM SetTypeCorrect == Spec => []TypeOK
<1>1. IInv => TypeOK
  BY DEF IInv
<1> QED BY <1>1, Safety, PTL

(* A set is halted as a whole, whatever interleaving of notices, answers,  *)
(* tasks and commands: a repayment that is not sent takes its leg to       *)
(* armed, and still neither leg runs (_halt_set, on_pre_cancelled,         *)
(* _finish_round, _hold_repay).                                            *)
THEOREM HaltsAsOne == Spec => []HaltedAsOne
<1>1. IInv => HaltedAsOne
  BY DEF IInv
<1> QED BY <1>1, Safety, PTL

(* A set that waits for no hedge and is not halted is within its limit     *)
(* (_finish_round, _over_limit).                                           *)
THEOREM StaysWithinLimit == Spec => []WithinLimit
<1>1. IInv => WithinLimit
  BY DEF IInv
<1> QED BY <1>1, Safety, PTL

(* What halts the entry leg halts both; nobody but a person lifts the halt *)
(* of a set, and of a leg nothing else but a repayment that is not sent    *)
(* (_halt_set, release_halt, _hold_repay).                                 *)
THEOREM HaltIsLasting == Spec => HaltSticks
<1> DEFINE was(b) == Halted(s.leg[b])
           is(b)  == Halted(s'.leg[b])
           held   == \E k \in Pres : PreHeld(k)
<1>1. ASSUME IInv, [Next]_vars
      PROVE  [/\ ~was("entry") /\ is("entry") => is("exit")
              /\ was("entry") => Release \/ is("entry")
              /\ was("exit") => Release \/ is("exit") \/ held]_vars
  <2>1. CASE Sticks(s, s')
    BY <2>1 DEF Sticks, Block
  <2>2. CASE Release
    <3>1. ~Halted(s'.leg["entry"])
      BY <1>1, <2>2, IInvParts, ReleaseAsOne DEF Release
    <3> QED BY <2>2, <3>1
  <2>3. CASE held /\ (is("entry") <=> was("entry"))
    BY <2>3
  <2> HIDE DEF was, is, held
  <2> QED BY <1>1, <2>1, <2>2, <2>3, NextIInv DEF was, is, held
<1> QED BY <1>1, Safety, PTL DEF Spec, HaltSticks

-----------------------------------------------------------------------------
(***************************************************************************)
(* One Auto-M set where a person waits for the orders at work and every    *)
(* answer is final (Calm), for every size, ratio, limit and number of      *)
(* orders: one pre order at a time, hedges that are waited for exactly,    *)
(* waits that are answered, and orders that fit.                           *)
(***************************************************************************)
-----------------------------------------------------------------------------
(* The order tables.                                                       *)

LEMMA SmallestIsIn ==
  ASSUME NEW S \in SUBSET Nat, S # {} PROVE Smallest(S) \in S
BY LeastOne DEF Smallest

PresOK(P)  == P \in [Pres -> PreOrder]
PostsOK(Q) == Q \in [Posts -> PostOrder]

LEMMA DueNat ==
  ASSUME NEW o \in PostOrder, NEW b \in Block
  PROVE  Due(o, b) \in Nat
BY DEF Due, PostOrder

(* What is due when one post order is replaced.                            *)
LEMMA DueOfOne ==
  ASSUME NEW Q, PostsOK(Q), NEW i \in Posts, NEW r \in PostOrder,
         NEW b \in Block
  PROVE  /\ AllDue(Q, b) \in Nat /\ Due(Q[i], b) <= AllDue(Q, b)
         /\ AllDue([Q EXCEPT ![i] = r], b)
              = AllDue(Q, b) - Due(Q[i], b) + Due(r, b)
         /\ Due(Q[i], b) \in Nat /\ Due(r, b) \in Nat
<1> DEFINE w == [j \in Posts |-> Due(Q[j], b)]
           P == [Q EXCEPT ![i] = r]
           v == [j \in Posts |-> Due(P[j], b)]
<1>1. \A j \in Posts : Q[j] \in PostOrder
  BY DEF PostsOK
<1>2. w \in [Posts -> Nat] /\ w[i] = Due(Q[i], b)
  BY <1>1, DueNat
<1>3. \A j \in Posts : P[j] = IF j = i THEN r ELSE Q[j]
  BY DEF PostsOK
<1> HIDE DEF P
<1>4. v = [w EXCEPT ![i] = Due(r, b)]
  BY <1>3
<1>5. Due(r, b) \in Nat
  BY DueNat
<1> HIDE DEF w, v
<1>6. /\ TotalOf(w, MaxPosts) \in Nat /\ w[i] <= TotalOf(w, MaxPosts)
      /\ TotalOf([w EXCEPT ![i] = Due(r, b)], MaxPosts)
           = TotalOf(w, MaxPosts) - w[i] + Due(r, b)
  BY <1>2, <1>5, TotalOfOne, BoundsAssumption DEF Posts
<1>7. AllDue(Q, b) = TotalOf(w, MaxPosts) /\ AllDue(P, b) = TotalOf(v, MaxPosts)
  BY DEF AllDue, w, v
<1> QED BY <1>1, <1>2, <1>4, <1>5, <1>6, <1>7, DueNat DEF P

LEMMA DueOfNone ==
  ASSUME NEW Q, PostsOK(Q), NEW b \in Block,
         \A i \in Posts : Due(Q[i], b) = 0
  PROVE  AllDue(Q, b) = 0
<1> DEFINE w == [j \in Posts |-> Due(Q[j], b)]
<1>1. w \in [Posts -> Nat] /\ \A i \in Posts : w[i] = 0
  OBVIOUS
<1> HIDE DEF w
<1>2. TotalOf(w, MaxPosts) = 0
  BY <1>1, TotalOfNone, BoundsAssumption DEF Posts
<1> QED BY <1>2 DEF AllDue, w

(* It does not matter to the leg of the other block.                       *)
LEMMA OtherFits ==
  ASSUME NEW P, PresOK(P), NEW k \in Pres, NEW r, NEW c,
         NEW M, M = [P EXCEPT ![k] = r],
         k \notin AtWork(P, c), ~(r.block = c /\ r.phase # "none"),
         NEW l, LegFits(l, P, c)
  PROVE  LegFits(l, M, c)
<1>1. \A j \in Pres : j # k => M[j] = P[j]
  BY DEF PresOK
<1>2. AtWork(M, c) = AtWork(P, c)
  BY <1>1 DEF AtWork, PresOK
<1>3. CASE AtWork(P, c) = {} /\ FitsNone(l)
  BY <1>2, <1>3 DEF LegFits
<1>4. ASSUME NEW j \in Pres, AtWork(P, c) = {j}, FitsOne(l, j, P[j])
      PROVE  LegFits(l, M, c)
  <2>1. j # k
    BY <1>4
  <2>2. M[j] = P[j]
    BY <1>1, <2>1
  <2> QED BY <1>2, <1>4, <2>2 DEF LegFits
<1> QED BY <1>3, <1>4 DEF LegFits

-----------------------------------------------------------------------------
(* Handlers that neither begin nor end an order.                           *)

(* Leg m is leg l, stopped, woken, rested or made to cancel.               *)
Dulls(l, m) ==
  /\ m.id = l.id /\ m.qty = l.qty /\ m.filled = l.filled
  /\ m.post = l.post /\ m.await = l.await
  /\ m.replace => l.replace \/ m.id # NoOrder
  /\ m.running => l.running
  /\ Halted(l) => Halted(m)
  /\ \/ Halted(m) \/ m.status = l.status
     \/ m.status \in Rests /\ l.status \in Rests
     \/ m.status = "idle" /\ m.post = 0 /\ ~m.running

LEMMA DullFits ==
  ASSUME NEW l \in Leg, NEW m \in Leg, Dulls(l, m), NEW P, NEW b,
         LegFits(l, P, b)
  PROVE  LegFits(m, P, b)
<1>1. CASE AtWork(P, b) = {} /\ FitsNone(l)
  <2>1. FitsNone(m)
    BY <1>1 DEF FitsNone, Dulls, Halted, Rests, Full, Leg, LegStatus
  <2> QED BY <1>1, <2>1 DEF LegFits
<1>2. ASSUME NEW k \in Pres, AtWork(P, b) = {k}, FitsOne(l, k, P[k])
      PROVE  LegFits(m, P, b)
  <2>1. FitsOne(m, k, P[k])
    BY <1>2 DEF FitsOne, Dulls, Halted, Rests, Leg, LegStatus
  <2> QED BY <1>2, <2>1 DEF LegFits
<1> QED BY <1>1, <1>2 DEF LegFits

(* The set t is the set x, with its legs so.                               *)
Quiet(x, t) ==
  /\ t \in SetRecord /\ AsOne(t) /\ t.held = x.held
  /\ \A b \in Block : Dulls(x.leg[b], t.leg[b])

(* A set and its orders as they should be.                                 *)
Good(x, P, Q) ==
  /\ x \in SetRecord /\ AsOne(x) /\ PresOK(P) /\ PostsOK(Q)
  /\ \A b \in Block : LegFits(x.leg[b], P, b) /\ x.leg[b].post = AllDue(Q, b)
  /\ InRoom(P, x.held) /\ Final(Q)

LEMMA QuietGood ==
  ASSUME NEW x, NEW t, NEW P, NEW Q, Good(x, P, Q), Quiet(x, t)
  PROVE  Good(t, P, Q)
<1>1. ASSUME NEW b \in Block
      PROVE  LegFits(t.leg[b], P, b) /\ t.leg[b].post = AllDue(Q, b)
  <2>1. x.leg[b] \in Leg /\ t.leg[b] \in Leg /\ Dulls(x.leg[b], t.leg[b])
    BY DEF Good, Quiet, SetRecord
  <2>2. LegFits(x.leg[b], P, b) /\ x.leg[b].post = AllDue(Q, b)
    BY DEF Good
  <2> QED BY <2>1, <2>2, DullFits DEF Dulls
<1> QED BY <1>1 DEF Good, Quiet

LEMMA DullsSelf == ASSUME NEW l PROVE Dulls(l, l)
BY DEF Dulls

(* The set with leg b replaced by a duller one.                            *)
LEMMA QuietLeg ==
  ASSUME NEW x \in SetRecord, AsOne(x), NEW b \in Block, NEW m \in Leg,
         Dulls(x.leg[b], m), Halted(m) <=> Halted(x.leg[b])
  PROVE  Quiet(x, [x EXCEPT !.leg[b] = m])
<1> DEFINE t == [x EXCEPT !.leg[b] = m]
<1>1. /\ t \in SetRecord /\ t.leg[b] = m /\ t.leg[Other(b)] = x.leg[Other(b)]
      /\ t.held = x.held
  BY SetLeg
<1> HIDE DEF t
<1>2. \A c \in Block : Dulls(x.leg[c], t.leg[c])
  BY <1>1, TwoBlocks, DullsSelf
<1>3. \A c \in Block : Halted(t.leg[c]) <=> Halted(x.leg[c])
  BY <1>1, TwoBlocks
<1>4. AsOne(t)
  BY <1>2, <1>3, TwoBlocks DEF AsOne, Dulls
<1> QED BY <1>1, <1>2, <1>4 DEF Quiet, t

(* Leg m is leg l, but for what is known of a cancel.                      *)
Asked(l, m) ==
  /\ m \in Leg /\ m.id = l.id /\ m.qty = l.qty /\ m.filled = l.filled
  /\ m.post = l.post /\ m.await = l.await
  /\ m.status = l.status /\ m.running = l.running
  /\ m.replace => l.replace

(* What a request to cancel changes of its leg.                            *)
LEMMA CancelLeg ==
  ASSUME NEW x \in SetRecord, NEW b \in Block, NEW force \in BOOLEAN
  PROVE  LET t == CancelIfResting(x, b, force)
         IN /\ t \in SetRecord /\ t.held = x.held
            /\ t.leg[Other(b)] = x.leg[Other(b)]
            /\ Asked(x.leg[b], t.leg[b])
<1> DEFINE t == CancelIfResting(x, b, force)
           l == IF force THEN [x.leg[b] EXCEPT !.replace = FALSE] ELSE x.leg[b]
           m == [l EXCEPT !.sent = TRUE]
<1>1. x.leg[b] \in Leg /\ t \in SetRecord
  BY CancelMild DEF SetRecord, Mild
<1>2. l \in Leg /\ Asked(x.leg[b], l)
  <2>1. CASE force
    BY <1>1, <2>1 DEF Leg, Asked
  <2>2. CASE ~force
    BY <1>1, <2>2 DEF Asked
  <2> QED BY <2>1, <2>2
<1>3. Asked(x.leg[b], m)
  <2> HIDE DEF l
  <2> QED BY <1>2 DEF Leg, Asked
<1>4. \/ t = [x EXCEPT !.leg[b] = l]
      \/ t = [x EXCEPT !.leg[b] = m, !.asked = @ \cup {l.id}]
  BY DEF CancelIfResting
<1> HIDE DEF l, m
<1>5. /\ t.held = x.held /\ t.leg[b] \in {l, m}
      /\ t.leg[Other(b)] = x.leg[Other(b)]
  <2> HIDE DEF t
  <2>1. Other(b) \in Block /\ Other(b) # b /\ x.leg \in [Block -> Leg]
    BY TwoBlocks DEF SetRecord
  <2>2. CASE t = [x EXCEPT !.leg[b] = l]
    BY <2>1, <2>2 DEF SetRecord
  <2>3. CASE t = [x EXCEPT !.leg[b] = m, !.asked = @ \cup {l.id}]
    BY <2>1, <2>3 DEF SetRecord
  <2> QED BY <1>4, <2>2, <2>3
<1> HIDE DEF t
<1> QED BY <1>1, <1>2, <1>3, <1>5 DEF t

LEMMA CancelQuiet ==
  ASSUME NEW x \in SetRecord, AsOne(x), NEW b \in Block, NEW force \in BOOLEAN
  PROVE  Quiet(x, CancelIfResting(x, b, force))
<1> DEFINE t == CancelIfResting(x, b, force)
<1>1. AsOne(t) /\ t \in SetRecord
  BY CancelMild, MildAsOne
<1>2. t.held = x.held /\ t.leg[Other(b)] = x.leg[Other(b)]
  BY CancelLeg
<1>3. Dulls(x.leg[b], t.leg[b])
  <2>1. Asked(x.leg[b], t.leg[b])
    BY CancelLeg
  <2> HIDE DEF t
  <2> QED BY <2>1 DEF Asked, Dulls, Halted
<1> HIDE DEF t
<1>4. \A c \in Block : Dulls(x.leg[c], t.leg[c])
  BY <1>2, <1>3, TwoBlocks, DullsSelf
<1> QED BY <1>1, <1>2, <1>4 DEF Quiet, t

LEMMA HaltLegs ==
  ASSUME NEW x \in SetRecord, AsOne(x), NEW b \in Block
  PROVE  /\ Quiet(x, HaltSet(x, b))
         /\ HaltSet(x, b).leg[b] = Stopped(x.leg[b])
<1> DEFINE o == Other(b)
           u == [x EXCEPT !.leg[b] = Stopped(x.leg[b])]
           w == CancelIfResting(u, o, FALSE)
           v == [w EXCEPT !.leg[o] = Stopped(w.leg[o])]
           t == HaltSet(x, b)
<1>1. t = IF Halted(x.leg[o]) THEN u ELSE v
  <2>1. x.leg[o] = u.leg[o]
    BY TwoBlocks DEF SetRecord
  <2> QED BY <2>1 DEF HaltSet
<1>2. t \in SetRecord /\ AsOne(t) /\ (\A c \in Block : Halted(t.leg[c]))
  BY HaltSetHalts, HaltKeeps DEF Keeps
<1>3. o \in Block /\ Other(o) = b /\ \A c \in Block : c = b \/ c = o
  BY DEF Other, Block
<1>4. \A l \in Leg : Stopped(l) \in Leg /\ Dulls(l, Stopped(l))
  BY DEF Stopped, Dulls, Leg, LegStatus, Halted
<1>5. x.leg[b] \in Leg /\ x.leg[o] \in Leg
  BY <1>3 DEF SetRecord
<1>6. /\ u \in SetRecord /\ u.leg[b] = Stopped(x.leg[b])
      /\ u.leg[o] = x.leg[o] /\ u.held = x.held
  BY <1>4, <1>5, SetLeg
<1> HIDE DEF u, o
<1>7. /\ w \in SetRecord /\ w.held = x.held /\ w.leg[b] = u.leg[b]
      /\ Asked(u.leg[o], w.leg[o])
  BY <1>3, <1>6, CancelLeg
<1>8. Dulls(x.leg[o], Stopped(w.leg[o])) /\ Stopped(w.leg[o]) \in Leg
  BY <1>5, <1>6, <1>7 DEF Asked, Stopped, Dulls, Leg, LegStatus, Halted
<1> HIDE DEF w
<1>9. /\ v \in SetRecord /\ v.leg[o] = Stopped(w.leg[o])
      /\ v.leg[b] = w.leg[b] /\ v.held = w.held
  BY <1>3, <1>7, <1>8, SetLeg
<1> HIDE DEF v, t
<1>10. t.held = x.held /\ \A c \in Block : Dulls(x.leg[c], t.leg[c])
  BY <1>1, <1>3, <1>4, <1>5, <1>6, <1>7, <1>8, <1>9, DullsSelf
<1>11. t.leg[b] = Stopped(x.leg[b])
  BY <1>1, <1>6, <1>7, <1>9
<1> QED BY <1>2, <1>10, <1>11 DEF Quiet, t

(* A leg that fits once it is stopped, and the other leg: they fit halted. *)
LEMMA HaltGood ==
  ASSUME NEW x \in SetRecord, AsOne(x), NEW P, PresOK(P), NEW Q, PostsOK(Q),
         NEW b \in Block, LegFits(Stopped(x.leg[b]), P, b),
         LegFits(x.leg[Other(b)], P, Other(b)),
         \A c \in Block : x.leg[c].post = AllDue(Q, c),
         InRoom(P, x.held), Final(Q)
  PROVE  Good(HaltSet(x, b), P, Q)
<1> DEFINE t == HaltSet(x, b)
           o == Other(b)
<1>1. Quiet(x, t) /\ t.leg[b] = Stopped(x.leg[b])
  BY HaltLegs
<1> HIDE DEF t
<1>2. o \in Block /\ \A c \in Block : c = b \/ c = o
  BY TwoBlocks
<1>3. LegFits(t.leg[o], P, o)
  <2>1. x.leg[o] \in Leg /\ t.leg[o] \in Leg /\ Dulls(x.leg[o], t.leg[o])
    BY <1>1, <1>2 DEF Quiet, SetRecord
  <2> QED BY <2>1, DullFits
<1>4. \A c \in Block : LegFits(t.leg[c], P, c)
  BY <1>1, <1>2, <1>3
<1>5. \A c \in Block : t.leg[c].post = AllDue(Q, c)
  BY <1>1 DEF Quiet, Dulls
<1> QED BY <1>1, <1>4, <1>5 DEF Good, Quiet, t

LEMMA ForgetQuiet ==
  ASSUME NEW x \in SetRecord, AsOne(x), NEW k PROVE Quiet(x, Forget(x, k))
BY DullsSelf DEF Forget, Quiet, SetRecord, AsOne

LEMMA ForgetGood ==
  ASSUME NEW x, NEW P, NEW Q, Good(x, P, Q), NEW k
  PROVE  Good(Forget(x, k), P, Q)
BY ForgetQuiet, QuietGood DEF Good

-----------------------------------------------------------------------------
(* The steps that are quiet.                                               *)

LEMMA LegIs == ASSUME NEW x \in SetRecord, NEW b \in Block PROVE x.leg[b] \in Leg
BY DEF SetRecord

(* Leg b is replaced, then made to cancel.                                 *)
LEMMA LegCancelGood ==
  ASSUME NEW x, NEW P, NEW Q, Good(x, P, Q), NEW b \in Block, NEW m \in Leg,
         Dulls(x.leg[b], m), Halted(m) <=> Halted(x.leg[b])
  PROVE  /\ Good([x EXCEPT !.leg[b] = m], P, Q)
         /\ \A force \in BOOLEAN :
              Good(CancelIfResting([x EXCEPT !.leg[b] = m], b, force), P, Q)
<1> DEFINE u == [x EXCEPT !.leg[b] = m]
<1>1. Quiet(x, u)
  BY QuietLeg DEF Good
<1> HIDE DEF u
<1>2. Good(u, P, Q)
  BY <1>1, QuietGood
<1>3. \A force \in BOOLEAN : Good(CancelIfResting(u, b, force), P, Q)
  BY <1>2, CancelQuiet, QuietGood DEF Good
<1> QED BY <1>2, <1>3 DEF u

LEMMA RestedDulls ==
  ASSUME NEW l \in Leg
  PROVE  /\ Awake(l) \in Leg /\ Dulls(l, Awake(l))
         /\ Halted(Awake(l)) <=> Halted(l)
         /\ Rested(l) \in Leg /\ Dulls(l, Rested(l))
         /\ Halted(Rested(l)) <=> Halted(l)
<1>1. /\ Awake(l) \in Leg /\ Dulls(l, Awake(l))
      /\ Halted(Awake(l)) <=> Halted(l)
  BY DEF Awake, Dulls, Rests, Halted, Leg, LegStatus
<1>2. CASE l.status = "settle_delay"
  <2> DEFINE m == [l EXCEPT !.status = "armed"]
  <2>1. m \in Leg /\ Dulls(l, m) /\ (Halted(m) <=> Halted(l))
    BY <1>2 DEF Dulls, Rests, Halted, Leg, LegStatus
  <2>2. Rested(l) = m
    BY <1>2 DEF Rested
  <2> HIDE DEF m
  <2> QED BY <1>1, <2>1, <2>2
<1>3. CASE l.status # "settle_delay"
  BY <1>1, <1>3 DEF Rested
<1> QED BY <1>2, <1>3

(* Leg b is switched off and told to rest.                                 *)
LEMMA IdleGood ==
  ASSUME NEW x, NEW P, NEW Q, Good(x, P, Q), NEW b \in Block,
         ~x.leg[b].running, PostDone(x.leg[b]), ~Halted(x.leg[b])
  PROVE  Good([x EXCEPT !.leg[b].status = "idle"], P, Q)
<1> DEFINE m == [x.leg[b] EXCEPT !.status = "idle"]
<1>1. x \in SetRecord /\ x.leg[b] \in Leg
  BY LegIs DEF Good
<1>2. m \in Leg /\ Dulls(x.leg[b], m) /\ ~Halted(m)
  BY <1>1 DEF Leg, LegStatus, Dulls, Halted, PostDone
<1>3. [x EXCEPT !.leg[b].status = "idle"] = [x EXCEPT !.leg[b] = m]
  OBVIOUS
<1> HIDE DEF m
<1> QED BY <1>2, <1>3, LegCancelGood

LEMMA SwitchOffGood ==
  ASSUME NEW x, NEW P, NEW Q, Good(x, P, Q), NEW b \in Block
  PROVE  Good(SwitchOff(x, b), P, Q)
<1> DEFINE m == [x.leg[b] EXCEPT !.running = FALSE]
           u == [x EXCEPT !.leg[b] = m]
           t == CancelIfResting(u, b, TRUE)
<1>1. x \in SetRecord /\ x.leg[b] \in Leg
  BY LegIs DEF Good
<1>2. /\ m \in Leg /\ Dulls(x.leg[b], m) /\ (Halted(m) <=> Halted(x.leg[b]))
      /\ m.running = FALSE
  BY <1>1 DEF Leg, LegStatus, Dulls, Halted
<1>3. [x EXCEPT !.leg[b].running = FALSE] = u
  OBVIOUS
<1>4. \/ SwitchOff(x, b) = t
      \/ /\ SwitchOff(x, b) = [t EXCEPT !.leg[b].status = "idle"]
         /\ PostDone(t.leg[b]) /\ ~Halted(t.leg[b])
  BY <1>3 DEF SwitchOff
<1> HIDE DEF m
<1>5. u \in SetRecord /\ u.leg[b] = m
  BY <1>1, <1>2, SetLeg
<1>6. Good(u, P, Q) /\ Good(t, P, Q)
  BY <1>2, LegCancelGood
<1>7. t.leg[b].running = FALSE
  <2> HIDE DEF u
  <2>1. Asked(u.leg[b], t.leg[b])
    BY <1>5, CancelLeg
  <2> HIDE DEF t
  <2> QED BY <1>2, <1>5, <2>1 DEF Asked
<1> HIDE DEF t
<1> QED BY <1>4, <1>6, <1>7, IdleGood

(* A set whose legs are the same ones.                                     *)
LEMMA SameLegsGood ==
  ASSUME NEW x, NEW P, NEW Q, Good(x, P, Q), NEW t \in SetRecord,
         t.leg = x.leg, t.held = x.held
  PROVE  Good(t, P, Q)
BY DEF Good, AsOne

LEMMA EvalGood ==
  ASSUME Good(s, pre, post), NEW b \in Block,
         EvalHalted(b) \/ EvalOff(b) \/ EvalShut(b) \/ EvalHold(b)
         \/ EvalReplace(b)
  PROVE  Good(s', pre, post)
<1>1. s \in SetRecord /\ AsOne(s) /\ s.leg[b] \in Leg
  BY LegIs DEF Good
<1>2. CASE EvalHalted(b)
  BY <1>1, <1>2, CancelQuiet, QuietGood DEF EvalHalted
<1>3. CASE EvalOff(b)
  <2> DEFINE t == CancelIfResting(s, b, FALSE)
  <2>1. \/ s' = t
        \/ s' = [t EXCEPT !.leg[b].status = "idle"] /\ PostDone(t.leg[b])
    BY <1>3 DEF EvalOff
  <2>2. Good(t, pre, post)
    BY <1>1, CancelQuiet, QuietGood
  <2>3. Asked(s.leg[b], t.leg[b])
    BY <1>1, CancelLeg
  <2> HIDE DEF t
  <2>4. ~t.leg[b].running /\ ~Halted(t.leg[b])
    BY <1>3, <2>3 DEF EvalOff, Asked, Halted
  <2> QED BY <2>1, <2>2, <2>4, IdleGood
<1>4. CASE EvalShut(b)
  <2>1. PICK m \in {Awake(s.leg[b]), Rested(s.leg[b])} :
          s' = CancelIfResting([s EXCEPT !.leg[b] = m], b, FALSE)
    BY <1>4 DEF EvalShut
  <2>2. m \in Leg /\ Dulls(s.leg[b], m) /\ (Halted(m) <=> Halted(s.leg[b]))
    BY <1>1, <2>1, RestedDulls
  <2> QED BY <2>1, <2>2, LegCancelGood
<1>5. CASE EvalHold(b)
  <2>1. PICK m \in {Awake(s.leg[b]), Rested(s.leg[b])} :
          s' = [s EXCEPT !.leg[b] = m]
    BY <1>5 DEF EvalHold
  <2>2. m \in Leg /\ Dulls(s.leg[b], m) /\ (Halted(m) <=> Halted(s.leg[b]))
    BY <1>1, <2>1, RestedDulls
  <2> QED BY <2>1, <2>2, LegCancelGood
<1>6. CASE EvalReplace(b)
  <2> DEFINE l == Rested(s.leg[b])
             r == l.qty > 0
             m == [l EXCEPT !.replace = r]
             u == [s EXCEPT !.leg[b] = m]
  <2>1. l \in Leg /\ Dulls(s.leg[b], l) /\ (Halted(l) <=> Halted(s.leg[b]))
    BY <1>1, RestedDulls
  <2>2. /\ s' = [s EXCEPT !.leg[b] = m, !.asked = @ \cup {l.id}]
        /\ l.id # NoOrder /\ r \in BOOLEAN
    BY <1>6 DEF EvalReplace
  <2> HIDE DEF l, r
  <2>3. /\ m \in Leg /\ Dulls(s.leg[b], m) /\ (Halted(m) <=> Halted(s.leg[b]))
        /\ l.id \in Nat
    BY <2>1, <2>2 DEF Leg, Dulls, Halted
  <2> HIDE DEF m
  <2>4. Good(u, pre, post)
    BY <2>3, LegCancelGood
  <2>5. s' \in SetRecord /\ s'.leg = u.leg /\ s'.held = u.held
    BY <1>1, <2>2, <2>3 DEF SetRecord
  <2> HIDE DEF u
  <2> QED BY <2>4, <2>5, SameLegsGood
<1> QED BY <1>2, <1>3, <1>4, <1>5, <1>6

LEMMA CancelFailedGood ==
  ASSUME NEW x, NEW P, NEW Q, Good(x, P, Q), NEW b \in Block
  PROVE  Good(OnPreCancelFailed(x, b), P, Q)
<1> DEFINE m == [x.leg[b] EXCEPT !.replace = FALSE, !.sent = FALSE]
<1>1. x \in SetRecord /\ x.leg[b] \in Leg
  BY LegIs DEF Good
<1>2. /\ m \in Leg /\ Dulls(x.leg[b], m) /\ (Halted(m) <=> Halted(x.leg[b]))
  BY <1>1 DEF Leg, Dulls, Halted
<1>3. OnPreCancelFailed(x, b) = [x EXCEPT !.leg[b] = m]
  BY <1>1 DEF OnPreCancelFailed, SetRecord
<1> HIDE DEF m
<1> QED BY <1>2, <1>3, LegCancelGood

-----------------------------------------------------------------------------
(* A placement, and the commands that let a set place again.               *)

(* Leg b goes on with its own order table, and the other leg stays.        *)
LEMMA LegGood ==
  ASSUME NEW x, NEW P, NEW Q, Good(x, P, Q), NEW b \in Block,
         NEW t \in SetRecord, AsOne(t), t.leg[Other(b)] = x.leg[Other(b)],
         NEW P2, PresOK(P2), LegFits(x.leg[Other(b)], P2, Other(b)),
         NEW Q2, PostsOK(Q2), AllDue(Q2, Other(b)) = AllDue(Q, Other(b)),
         LegFits(t.leg[b], P2, b), t.leg[b].post = AllDue(Q2, b),
         InRoom(P2, t.held), Final(Q2)
  PROVE  Good(t, P2, Q2)
<1>1. x.leg[Other(b)].post = AllDue(Q, Other(b))
  BY TwoBlocks DEF Good
<1>2. \A c \in Block : LegFits(t.leg[c], P2, c) /\ t.leg[c].post = AllDue(Q2, c)
  BY <1>1, TwoBlocks
<1> QED BY <1>2 DEF Good

LEMMA RoomOfOne ==
  ASSUME NEW P, PresOK(P), NEW h, InRoom(P, h), NEW k \in Pres, NEW r,
         NEW P2, P2 = [P EXCEPT ![k] = r],
         r.phase \in {"spawned", "sent", "open"} =>
           r.qty - r.filled <= IF r.block = "entry" THEN Target - h ELSE h
  PROVE  InRoom(P2, h)
<1>1. \A j \in Pres : P2[j] = IF j = k THEN r ELSE P[j]
  BY DEF PresOK
<1> QED BY <1>1 DEF InRoom

(* A leg that rests and waits for nothing has no order at work.            *)
LEMMA RestsAlone ==
  ASSUME NEW l \in Leg, NEW P, NEW b, LegFits(l, P, b),
         l.running, ~Halted(l), l.status \in Rests, l.id = NoOrder
  PROVE  AtWork(P, b) = {} /\ FitsNone(l)
<1>1. ASSUME NEW k \in Pres, AtWork(P, b) = {k}, FitsOne(l, k, P[k]) PROVE FALSE
  <2>1. k # NoOrder
    BY BoundsAssumption DEF Pres, NoOrder
  <2> QED BY <1>1, <2>1 DEF FitsOne, Rests
<1> QED BY <1>1 DEF LegFits

LEMMA PlaceGood ==
  ASSUME Good(s, pre, post), NEW b \in Block, EvalPlace(b)
  PROVE  Good(s', pre', post')
<1>p. PICK p \in {"sent"} \cup (IF b = "exit" THEN {"spawned"} ELSE {}) :
        pre' = [pre EXCEPT ![Smallest(FreePre)] =
                  [block |-> b, qty |-> OrderQty(s, b), filled |-> 0,
                   phase |-> p]]
  BY DEF EvalPlace, NewPre
<1> DEFINE l == Rested(s.leg[b])
           q == OrderQty(s, b)
           m == [l EXCEPT !.qty = q, !.filled = 0, !.sent = FALSE,
                          !.status = "pre_resting"]
           k == Smallest(FreePre)
           o == [block |-> b, qty |-> q, filled |-> 0, phase |-> p]
           c == Other(b)
<1>1. /\ s \in SetRecord /\ AsOne(s) /\ s.leg[b] \in Leg /\ PresOK(pre)
      /\ LegFits(s.leg[b], pre, b) /\ s.leg[b].post = AllDue(post, b)
      /\ InRoom(pre, s.held)
  BY LegIs DEF Good
<1>2. /\ Active(l) /\ ~Waiting(l) /\ l.id = NoOrder /\ l.status = "armed"
      /\ q >= 1 /\ FreePre # {}
      /\ pre' = [pre EXCEPT ![k] = o] /\ s' = [s EXCEPT !.leg[b] = m]
      /\ post' = post
  BY <1>p DEF EvalPlace, NewPre
<1>3. l \in Leg /\ Dulls(s.leg[b], l) /\ (Halted(l) <=> Halted(s.leg[b]))
  BY <1>1, RestedDulls
<1>4. s.leg[b].status \in Rests
  BY <1>2 DEF Rested, Awake, Rests
<1>5. AtWork(pre, b) = {} /\ FitsNone(s.leg[b])
  BY <1>1, <1>2, <1>3, <1>4, RestsAlone DEF Active, Dulls
<1>6. s.leg[b].post = 0 /\ ~s.leg[b].await
  BY <1>2, <1>3, <1>4, <1>5 DEF FitsNone, Active
<1>7. q \in Nat /\ q <= IF b = "entry" THEN Target - s.held ELSE s.held
  <2>1. s.held \in Nat
    BY <1>1 DEF SetRecord
  <2> QED BY <1>1, <1>2, <2>1, QtyNat, SizesAssumption DEF OrderQty
<1>8. k \in Pres /\ pre[k].phase = "none"
  BY <1>2, SmallestIsIn, BoundsAssumption DEF FreePre, Pres
<1>9. c \in Block /\ c # b
  BY TwoBlocks
<1> HIDE DEF l, q, k, c
<1>10. m \in Leg /\ ~Halted(m) /\ m.post = s.leg[b].post
  BY <1>2, <1>3, <1>7 DEF Leg, LegStatus, Halted, Dulls
<1>m. m.running = l.running
  BY <1>3 DEF Leg
<1>11. FitsOne(m, k, o)
  <2>1. m.status = "pre_resting" /\ m.qty = q /\ m.filled = 0 /\ m.id = l.id
        /\ m.post = l.post /\ m.await = l.await /\ m.replace = l.replace
    BY <1>3 DEF Leg
  <2>2. o.phase = "spawned" => o.block = "exit"
    BY <1>p DEF NewPre
  <2>3. /\ o.phase \in {"sent", "spawned"} /\ o.qty = q /\ o.filled = 0
    BY <1>p
  <2> HIDE DEF m, o
  <2> QED BY <1>2, <1>3, <1>6, <1>7, <2>1, <2>2, <2>3
          DEF FitsOne, Dulls, Waiting, Rests
<1> HIDE DEF m
<1>12. /\ s' \in SetRecord /\ s'.leg[b] = m /\ s'.leg[Other(b)] = s.leg[Other(b)]
       /\ s'.held = s.held
  BY <1>1, <1>2, <1>10, SetLeg
<1>13. AsOne(s')
  <2>1. Mild(s, s')
    <3>1. m.running => s.leg[b].running
      BY <1>3, <1>10, <1>m DEF Dulls
    <3> QED BY <1>1, <1>2, <1>3, <1>10, <3>1, MildLeg DEF Active
  <2> QED BY <1>1, <2>1, MildAsOne
<1>14. /\ o \in PreOrder /\ o.block = b /\ o.phase \in {"sent", "spawned"}
       /\ o.qty - o.filled = q
  BY <1>p, <1>7 DEF PreOrder, PrePhase
<1> HIDE DEF o
<1>15. PresOK(pre')
  BY <1>1, <1>2, <1>14 DEF PresOK
<1>16. k \notin AtWork(pre, c) /\ ~(o.block = c /\ o.phase # "none")
  BY <1>8, <1>9, <1>14 DEF AtWork
<1>17. LegFits(s.leg[c], pre', c)
  <2>1. LegFits(s.leg[c], pre, c)
    BY <1>9 DEF Good
  <2> QED BY <1>1, <1>2, <1>8, <1>16, <2>1, OtherFits
<1>18. LegFits(s'.leg[b], pre', b)
  <2>1. AtWork(pre', b) = {k}
    <3>1. AtWork(pre', b) = AtWork(pre, b) \cup {k}
      <4>1. o.phase # "none" /\ o.block = b
        BY <1>14
      <4>2. \A j \in Pres : pre'[j] = IF j = k THEN o ELSE pre[j]
        BY <1>1, <1>2, <1>8 DEF PresOK
      <4> QED BY <1>8, <4>1, <4>2 DEF AtWork
    <3> QED BY <1>5, <3>1
  <2>2. pre'[k] = o
    BY <1>1, <1>2, <1>8 DEF PresOK
  <2> QED BY <1>8, <1>11, <1>12, <2>1, <2>2 DEF LegFits
<1>19. InRoom(pre', s'.held)
  BY <1>1, <1>2, <1>7, <1>8, <1>12, <1>14, RoomOfOne
<1>20. Good(s', pre', post)
  <2>1. PostsOK(post) /\ Final(post) /\ s'.leg[b].post = AllDue(post, b)
    BY <1>1, <1>10, <1>12 DEF Good
  <2>2. LegFits(s.leg[Other(b)], pre', Other(b))
    BY <1>17 DEF c
  <2> QED BY <1>12, <1>13, <1>15, <1>18, <1>19, <2>1, <2>2, LegGood
<1> QED BY <1>2, <1>20

LEMMA SwitchOnGood ==
  ASSUME NEW x, NEW P, NEW Q, Good(x, P, Q), NEW b \in Block,
         AtWork(P, b) = {}, ~Halted(x.leg["entry"])
  PROVE  Good(SwitchOn(x, b), P, Q)
<1> DEFINE st == IF x.leg[b].status = "idle" THEN "armed" ELSE x.leg[b].status
           m == [x.leg[b] EXCEPT !.running = TRUE, !.status = st]
           t == SwitchOn(x, b)
<1>1. /\ x \in SetRecord /\ AsOne(x) /\ x.leg[b] \in Leg
      /\ LegFits(x.leg[b], P, b)
  BY LegIs DEF Good
<1>2. t = [x EXCEPT !.leg[b] = m]
  BY DEF SwitchOn
<1>3. FitsNone(x.leg[b])
  BY <1>1 DEF LegFits
<1>4. m \in Leg /\ FitsNone(m) /\ m.post = x.leg[b].post
  BY <1>1, <1>3 DEF Leg, LegStatus, FitsNone, Halted, Full, Rests
<1>5. AsOne(t)
  BY <1>1, SwitchOnMild, MildAsOne
<1> HIDE DEF m, t
<1>6. t \in SetRecord /\ t.leg[b] = m /\ t.leg[Other(b)] = x.leg[Other(b)]
      /\ t.held = x.held
  BY <1>1, <1>2, <1>4, SetLeg
<1>7. LegFits(t.leg[b], P, b)
  BY <1>4, <1>6 DEF LegFits
<1> DEFINE o == Other(b)
<1>8. /\ PresOK(P) /\ PostsOK(Q) /\ LegFits(x.leg[o], P, o)
      /\ t.leg[b].post = AllDue(Q, b) /\ InRoom(P, t.held) /\ Final(Q)
  BY <1>4, <1>6, TwoBlocks DEF Good
<1> QED BY <1>5, <1>6, <1>7, <1>8, LegGood DEF t

LEMMA ReleaseGood ==
  ASSUME NEW x, NEW P, NEW Q, Good(x, P, Q),
         \A b \in Block : AtWork(P, b) = {} /\ AllDue(Q, b) = 0
  PROVE  Good(ReleaseHalt(x), P, Q)
<1> DEFINE t == ReleaseHalt(x)
<1>1. x \in SetRecord /\ t \in SetRecord /\ AsOne(t)
  BY ReleaseAsOne DEF Good
<1>2. t.held = x.held
  BY DEF ReleaseHalt
<1>3. ASSUME NEW b \in Block
      PROVE  LegFits(t.leg[b], P, b) /\ t.leg[b].post = AllDue(Q, b)
  <2> DEFINE l == x.leg[b]
             m == [ClearPre(l) EXCEPT !.status = "idle", !.running = FALSE,
                                      !.post = 0, !.await = FALSE]
  <2>1. l \in Leg /\ LegFits(l, P, b) /\ l.post = AllDue(Q, b)
    BY LegIs DEF Good
  <2>2. t.leg[b] = IF Halted(l) THEN m ELSE l
    BY <1>1 DEF ReleaseHalt, SetRecord
  <2>3. FitsNone(m) /\ m.post = 0
    BY <2>1 DEF ClearPre, FitsNone, Leg, Halted, Rests, NoOrder
  <2> HIDE DEF m
  <2> QED BY <2>1, <2>2, <2>3 DEF LegFits
<1> HIDE DEF t
<1> QED BY <1>1, <1>2, <1>3 DEF Good, t

-----------------------------------------------------------------------------
(* The answers to a pre order and what is reported of it.                  *)

LEMMA OneAtWork ==
  ASSUME NEW x, NEW P, NEW Q, Good(x, P, Q), NEW b \in Block,
         NEW k \in AtWork(P, b)
  PROVE  /\ AtWork(P, b) = {k} /\ FitsOne(x.leg[b], k, P[k])
         /\ k \in Pres /\ P[k].block = b /\ P[k] \in PreOrder
         /\ P[k].phase # "none" /\ k \notin AtWork(P, Other(b))
         /\ x.leg[b] \in Leg /\ x \in SetRecord /\ AsOne(x) /\ PresOK(P)
<1>1. LegFits(x.leg[b], P, b) /\ x \in SetRecord /\ AsOne(x) /\ PresOK(P)
  BY DEF Good
<1>2. k \in Pres /\ P[k].block = b /\ P[k].phase # "none"
  BY DEF AtWork
<1>3. k \notin AtWork(P, Other(b))
  BY <1>2, TwoBlocks DEF AtWork
<1>4. P[k] \in PreOrder
  BY <1>1, <1>2 DEF PresOK
<1> QED BY <1>1, <1>2, <1>3, <1>4, LegIs DEF LegFits

(* The order that leg b works at becomes r, or ends, and the leg becomes m. *)
OrderGoes(P, b, k, r, m) ==
  \/ r.phase = "none" /\ FitsNone(m)
  \/ /\ r.block = b /\ r.phase # "none" /\ FitsOne(m, k, r)
     /\ r.phase # "lost" =>
          /\ P[k].phase \in {"spawned", "sent", "open"}
          /\ r.qty - r.filled <= P[k].qty - P[k].filled

LEMMA LegFitsOf ==
  ASSUME NEW P, PresOK(P), NEW b, NEW k \in Pres, AtWork(P, b) = {k},
         NEW r, NEW m, OrderGoes(P, b, k, r, m),
         NEW P2, P2 = [P EXCEPT ![k] = r]
  PROVE  LegFits(m, P2, b)
<1>1. \A j \in Pres : P2[j] = IF j = k THEN r ELSE P[j]
  BY DEF PresOK
<1>2. CASE r.phase = "none" /\ FitsNone(m)
  <2>1. AtWork(P2, b) = {}
    BY <1>1, <1>2 DEF AtWork
  <2> QED BY <1>2, <2>1 DEF LegFits
<1>3. CASE r.block = b /\ r.phase # "none" /\ FitsOne(m, k, r)
  <2>1. AtWork(P2, b) = {k}
    BY <1>1, <1>3 DEF AtWork
  <2>2. P2[k] = r
    BY <1>1
  <2> QED BY <1>3, <2>1, <2>2 DEF LegFits
<1> QED BY <1>2, <1>3 DEF OrderGoes

(* The order changes or ends, and its leg with it.                         *)
LEMMA OrderLegGood ==
  ASSUME NEW x, NEW P, NEW Q, Good(x, P, Q), NEW b \in Block,
         NEW k \in AtWork(P, b), NEW r \in PreOrder, NEW m \in Leg,
         OrderGoes(P, b, k, r, m), m.post = x.leg[b].post,
         AsOne([x EXCEPT !.leg[b] = m])
  PROVE  Good([x EXCEPT !.leg[b] = m], [P EXCEPT ![k] = r], Q)
<1> DEFINE t == [x EXCEPT !.leg[b] = m]
           P2 == [P EXCEPT ![k] = r]
           c == Other(b)
<1>1. /\ AtWork(P, b) = {k} /\ k \in Pres /\ P[k].block = b
      /\ k \notin AtWork(P, c) /\ x \in SetRecord /\ AsOne(x) /\ PresOK(P)
  BY OneAtWork
<1>2. /\ t \in SetRecord /\ t.leg[b] = m /\ t.leg[Other(b)] = x.leg[Other(b)]
      /\ t.held = x.held
  BY <1>1, SetLeg
<1>3. AsOne(t)
  OBVIOUS
<1>4. PresOK(P2)
  BY <1>1 DEF PresOK
<1>5. P2 = [P EXCEPT ![k] = r]
  OBVIOUS
<1> HIDE DEF t, P2
<1>6. LegFits(t.leg[b], P2, b)
  BY <1>1, <1>2, <1>5, LegFitsOf
<1>7. LegFits(x.leg[c], P2, c)
  <2>1. LegFits(x.leg[c], P, c) /\ c # b
    BY TwoBlocks DEF Good
  <2>2. ~(r.block = c /\ r.phase # "none")
    BY <2>1 DEF OrderGoes
  <2> HIDE DEF c
  <2> QED BY <1>1, <1>5, <2>1, <2>2, OtherFits
<1>8. InRoom(P2, t.held)
  <2>1. InRoom(P, x.held) /\ x.held \in Nat /\ P[k] \in PreOrder
    BY <1>1 DEF Good, SetRecord, PresOK
  <2>2. r.phase \in {"spawned", "sent", "open"} =>
          r.qty - r.filled <= IF r.block = "entry" THEN Target - x.held
                              ELSE x.held
    <3>1. SUFFICES ASSUME r.phase \in {"spawned", "sent", "open"}
          PROVE r.qty - r.filled <= IF r.block = "entry" THEN Target - x.held
                              ELSE x.held
      OBVIOUS
    <3>2. /\ r.block = b /\ P[k].phase \in {"spawned", "sent", "open"}
          /\ r.qty - r.filled <= P[k].qty - P[k].filled
      BY <3>1 DEF OrderGoes
    <3>3. P[k].qty - P[k].filled <= IF b = "entry" THEN Target - x.held
                                    ELSE x.held
      BY <1>1, <2>1, <3>2 DEF InRoom
    <3>4. /\ r.qty - r.filled \in Int /\ P[k].qty - P[k].filled \in Int
          /\ Target - x.held \in Int
      BY <2>1, SizesAssumption DEF PreOrder
    <3> QED BY <2>1, <3>2, <3>3, <3>4
  <2> QED BY <1>1, <1>2, <1>5, <2>1, <2>2, RoomOfOne
<1>9. /\ PostsOK(Q) /\ Final(Q) /\ t.leg[b].post = AllDue(Q, b)
  BY <1>2 DEF Good
<1>10. Good(t, P2, Q)
  <2>1. LegFits(x.leg[Other(b)], P2, Other(b))
    BY <1>7 DEF c
  <2> QED BY <1>2, <1>3, <1>4, <1>6, <1>8, <1>9, <2>1, LegGood
<1> QED BY <1>10 DEF t, P2

(* The leg is halted as it was, and does not begin to run.                 *)
LEMMA OrderGood ==
  ASSUME NEW x, NEW P, NEW Q, Good(x, P, Q), NEW b \in Block,
         NEW k \in AtWork(P, b), NEW r \in PreOrder, NEW m \in Leg,
         OrderGoes(P, b, k, r, m), m.post = x.leg[b].post,
         Halted(m) <=> Halted(x.leg[b]), m.running => x.leg[b].running
  PROVE  Good([x EXCEPT !.leg[b] = m], [P EXCEPT ![k] = r], Q)
<1>1. x \in SetRecord /\ AsOne(x)
  BY DEF Good
<1>2. Mild(x, [x EXCEPT !.leg[b] = m])
  BY <1>1, MildLeg
<1> QED BY <1>1, <1>2, MildAsOne, OrderLegGood

LEMMA AckGood ==
  ASSUME NEW x, NEW P, NEW Q, Good(x, P, Q), NEW b \in Block,
         NEW k \in AtWork(P, b), P[k].phase = "sent"
  PROVE  Good(OnPreAck(x, b, k), [P EXCEPT ![k].phase = "open"], Q)
<1> DEFINE m == [x.leg[b] EXCEPT !.id = k]
           r == [P[k] EXCEPT !.phase = "open"]
           u == [x EXCEPT !.leg[b] = m]
           P2 == [P EXCEPT ![k] = r]
<1>1. /\ FitsOne(x.leg[b], k, P[k]) /\ P[k] \in PreOrder /\ k \in Pres
      /\ x.leg[b] \in Leg /\ P[k].block = b
  BY OneAtWork
<1>2. k \in Nat /\ k # NoOrder
  BY <1>1, BoundsAssumption DEF Pres, NoOrder
<1>3. r \in PreOrder /\ m \in Leg /\ m.post = x.leg[b].post
      /\ (Halted(m) <=> Halted(x.leg[b])) /\ m.running = x.leg[b].running
  BY <1>1, <1>2 DEF PreOrder, PrePhase, Leg, Halted
<1>4. OrderGoes(P, b, k, r, m)
  <2>1. FitsOne(m, k, r)
    BY <1>1, <1>2 DEF FitsOne, Leg, PreOrder, Rests
  <2>2. /\ r.block = b /\ r.phase = "open"
        /\ r.qty = P[k].qty /\ r.filled = P[k].filled
    BY <1>1 DEF PreOrder
  <2> HIDE DEF r, m
  <2> QED BY <1>1, <2>1, <2>2 DEF OrderGoes, PreOrder
<1>5. OnPreAck(x, b, k) = u \/ OnPreAck(x, b, k) = CancelIfResting(u, b, TRUE)
  BY DEF OnPreAck
<1>6. [P EXCEPT ![k].phase = "open"] = P2
  OBVIOUS
<1> HIDE DEF m, r
<1>7. Good(u, P2, Q)
  BY <1>3, <1>4, OrderGood
<1> HIDE DEF u, P2
<1>8. Good(CancelIfResting(u, b, TRUE), P2, Q)
  <2>1. u \in SetRecord /\ AsOne(u)
    BY <1>7 DEF Good
  <2>2. Quiet(u, CancelIfResting(u, b, TRUE))
    BY <2>1, CancelQuiet
  <2> QED BY <1>7, <2>2, QuietGood
<1> QED BY <1>5, <1>6, <1>7, <1>8

LEMMA CancelledGood ==
  ASSUME NEW x, NEW P, NEW Q, Good(x, P, Q), NEW b \in Block,
         NEW k \in AtWork(P, b), P[k].phase = "open"
  PROVE  Good(OnPreCancelled(x, b), [P EXCEPT ![k] = NoPre], Q)
<1> DEFINE l == [x.leg[b] EXCEPT !.streak = 0]
           c == ClearPre(l)
           free == IF l.running THEN "armed" ELSE "idle"
<1>1. /\ FitsOne(x.leg[b], k, P[k]) /\ x.leg[b] \in Leg /\ PresOK(P)
      /\ x \in SetRecord
  BY OneAtWork
<1>2. NoPre \in PreOrder /\ NoPre.phase = "none"
  BY DEF NoPre, PreOrder, PrePhase, Block
<1>3. PICK m : /\ OnPreCancelled(x, b) = [x EXCEPT !.leg[b] = m]
               /\ \/ Halted(l) /\ m = c
                  \/ ~Halted(l) /\ l.replace /\ ~PostDone(l)
                       /\ m = [c EXCEPT !.await = TRUE]
                  \/ ~Halted(l) /\ l.replace /\ PostDone(l) /\ m = StartDelay(l)
                  \/ ~Halted(l) /\ PostDone(l) /\ m = [c EXCEPT !.status = free]
                  \/ ~Halted(l) /\ ~PostDone(l) /\ m = c
  BY DEF OnPreCancelled
<1>4. /\ l \in Leg /\ l.post = x.leg[b].post /\ ~l.await
      /\ (Halted(l) <=> Halted(x.leg[b])) /\ l.status = x.leg[b].status
      /\ l.status \in Rests => l.post = 0
      /\ free \in {"armed", "idle"} /\ l.running = x.leg[b].running
  BY <1>1 DEF Leg, Halted, FitsOne
<1> HIDE DEF l, free
<1>5. /\ c \in Leg /\ c.post = l.post /\ ~c.await /\ ~c.replace
      /\ c.status = l.status /\ c.id = NoOrder /\ c.running = l.running
  BY <1>4 DEF Leg, ClearPre, NoOrder
<1>6. StartDelay(l) = [c EXCEPT !.status = "settle_delay"]
  BY DEF StartDelay
<1> HIDE DEF c
<1>7. /\ m \in Leg /\ m.post = l.post /\ (Halted(m) <=> Halted(l)) /\ FitsNone(m)
      /\ m.running = l.running
  <2>1. l.post \in Nat
    BY <1>4 DEF Leg
  <2>2. CASE m = c /\ (Halted(l) \/ ~PostDone(l))
    BY <1>4, <1>5, <2>1, <2>2 DEF FitsNone, Halted, PostDone
  <2>3. CASE ~Halted(l) /\ ~PostDone(l) /\ m = [c EXCEPT !.await = TRUE]
    <3>1. /\ m \in Leg /\ m.id = c.id /\ m.replace = c.replace
          /\ m.status = c.status /\ m.post = c.post
          /\ m.running = c.running
      BY <1>5, <2>3 DEF Leg
    <3> QED BY <1>4, <1>5, <2>1, <2>3, <3>1 DEF FitsNone, Halted, PostDone
  <2>4. CASE ~Halted(l) /\ PostDone(l) /\ m = [c EXCEPT !.status = "settle_delay"]
    BY <1>4, <1>5, <2>1, <2>4 DEF FitsNone, Halted, PostDone, Leg, LegStatus, Rests
  <2>5. CASE ~Halted(l) /\ PostDone(l) /\ m = [c EXCEPT !.status = free]
    BY <1>4, <1>5, <2>1, <2>5 DEF FitsNone, Halted, PostDone, Leg, LegStatus, Rests
  <2> QED BY <1>3, <1>6, <2>2, <2>3, <2>4, <2>5
<1>8. OrderGoes(P, b, k, NoPre, m)
  BY <1>2, <1>7 DEF OrderGoes
<1>9. /\ m.post = x.leg[b].post /\ (Halted(m) <=> Halted(x.leg[b]))
      /\ m.running = x.leg[b].running
  BY <1>4, <1>7
<1> QED BY <1>2, <1>3, <1>7, <1>8, <1>9, OrderGood

LEMMA RejectedGood ==
  ASSUME NEW x, NEW P, NEW Q, Good(x, P, Q), NEW b \in Block,
         NEW k \in AtWork(P, b), P[k].filled = 0
  PROVE  Good(OnPreReject(x, b), [P EXCEPT ![k] = NoPre], Q)
<1> DEFINE l == x.leg[b]
           c == ClearPre(l)
           m == [c EXCEPT !.streak = c.streak + 1]
           d == [m EXCEPT !.status = "settle_delay"]
           t == [x EXCEPT !.leg[b] = m]
           u == [t EXCEPT !.leg = [e \in Block |-> [t.leg[e] EXCEPT !.streak = 0]]]
           P2 == [P EXCEPT ![k] = NoPre]
           o == Other(b)
<1>1. /\ FitsOne(l, k, P[k]) /\ l \in Leg /\ PresOK(P)
      /\ x \in SetRecord /\ AtWork(P, b) = {k} /\ k \in Pres
      /\ k \notin AtWork(P, o)
  BY OneAtWork
<1>2. NoPre \in PreOrder /\ NoPre.phase = "none"
  BY DEF NoPre, PreOrder, PrePhase, Block
<1>3. l.post = 0 /\ ~l.await
  BY <1>1 DEF FitsOne
<1>4. /\ c \in Leg /\ c.post = 0 /\ ~c.await /\ ~c.replace
      /\ c.status = l.status /\ c.id = NoOrder /\ c.running = l.running
  BY <1>1, <1>3 DEF Leg, ClearPre, NoOrder
<1>5. OnPreReject(x, b) = IF Halted(c) THEN [x EXCEPT !.leg[b] = c]
                          ELSE IF c.streak + 1 >= RejectLimit THEN HaltSet(u, b)
                          ELSE [t EXCEPT !.leg[b] = StartDelay(t.leg[b])]
  BY DEF OnPreReject
<1>6. t \in SetRecord /\ t.leg[b] = m /\ t.leg[o] = x.leg[o] /\ t.held = x.held
      /\ m \in Leg /\ m.running = l.running /\ m.status = c.status
  <2>1. m \in Leg /\ m.running = l.running /\ m.status = c.status
    BY <1>4 DEF Leg
  <2> HIDE DEF m
  <2> QED BY <1>1, <2>1, SetLeg
<1>10. AsOne(t)
  <2>1. Mild(x, t)
    <3>1. Halted(m) <=> Halted(x.leg[b])
      BY <1>4, <1>6 DEF Halted
    <3>2. m.post = x.leg[b].post
      BY <1>3, <1>4 DEF Leg
    <3>3. m \in Leg /\ (m.running => x.leg[b].running)
      BY <1>6
    <3> HIDE DEF m, c, l
    <3> QED BY <1>1, <3>1, <3>2, <3>3, MildLeg
  <2>2. AsOne(x)
    BY DEF Good
  <2> QED BY <2>1, <2>2, MildAsOne
<1> HIDE DEF l, c
<1>7. CASE Halted(c)
  <2>1. FitsNone(c) /\ OrderGoes(P, b, k, NoPre, c)
    BY <1>2, <1>4, <1>7 DEF FitsNone, OrderGoes
  <2>2. /\ c.post = x.leg[b].post /\ (Halted(c) <=> Halted(x.leg[b]))
        /\ c.running = x.leg[b].running
    BY <1>3, <1>4 DEF Halted, l
  <2> QED BY <1>2, <1>4, <1>5, <1>7, <2>1, <2>2, OrderGood
<1>8. CASE ~Halted(c) /\ ~(c.streak + 1 >= RejectLimit)
  <2>1. [t EXCEPT !.leg[b] = StartDelay(t.leg[b])]
          = [x EXCEPT !.leg[b] = StartDelay(m)]
    <3>1. t.leg[b] = m
      BY <1>6
    <3>2. \A n : [t EXCEPT !.leg[b] = n] = [x EXCEPT !.leg[b] = n]
      BY <1>1 DEF t, SetRecord
    <3> HIDE DEF t, m
    <3> QED BY <3>1, <3>2
  <2>2. /\ StartDelay(m) \in Leg /\ StartDelay(m).post = 0
        /\ StartDelay(m).await = c.await /\ ~StartDelay(m).replace
        /\ StartDelay(m).status = "settle_delay" /\ StartDelay(m).id = NoOrder
        /\ StartDelay(m).running = l.running
    BY <1>4, <1>6 DEF StartDelay, ClearPre, Leg, LegStatus, NoOrder
  <2> DEFINE n == StartDelay(m)
  <2> HIDE DEF n, m
  <2>3. FitsNone(n) /\ OrderGoes(P, b, k, NoPre, n)
    BY <1>2, <1>4, <2>2 DEF FitsNone, OrderGoes, Rests, Halted, n
  <2>4. /\ n.post = x.leg[b].post /\ (Halted(n) <=> Halted(x.leg[b])) /\ n \in Leg
        /\ n.running = x.leg[b].running
    BY <1>3, <1>4, <1>8, <2>2 DEF Halted, l, n
  <2> QED BY <1>2, <1>5, <1>8, <2>1, <2>3, <2>4, OrderGood DEF n
<1>9. CASE ~Halted(c) /\ c.streak + 1 >= RejectLimit
  <2> DEFINE w(e) == [t.leg[e] EXCEPT !.streak = 0]
  <2> HIDE DEF t
  <2>1. \A e \in Block : /\ w(e) \in Leg /\ w(e).post = t.leg[e].post
                         /\ Dulls(t.leg[e], w(e))
                         /\ w(e).status = t.leg[e].status
                         /\ w(e).running = t.leg[e].running
    BY <1>6 DEF SetRecord, Leg, Dulls, Halted
  <2>2. u.leg = [e \in Block |-> w(e)] /\ u.held = t.held /\ u \in SetRecord
    BY <1>6, <2>1 DEF SetRecord
  <2> HIDE DEF u
  <2>3. \A e \in Block : u.leg[e] = w(e)
    BY <2>2
  <2>4. P2 = [P EXCEPT ![k] = NoPre]
    OBVIOUS
  <2>5. PresOK(P2) /\ PostsOK(Q) /\ Final(Q)
    BY <1>1, <1>2 DEF PresOK, Good
  <2> HIDE DEF P2
  <2>6. LegFits(Stopped(u.leg[b]), P2, b)
    <3> DEFINE n == Stopped(u.leg[b])
    <3>1. u.leg[b] = [m EXCEPT !.streak = 0]
      BY <1>6, <2>3
    <3>2. /\ u.leg[b].id = NoOrder /\ ~u.leg[b].replace /\ u.leg[b] \in Leg
      BY <1>4, <1>6, <2>1, <2>3, <3>1 DEF Leg
    <3>3. n.id = NoOrder /\ ~n.replace /\ Halted(n)
      BY <3>2 DEF Stopped, Leg, Halted
    <3> HIDE DEF n
    <3>4. OrderGoes(P, b, k, NoPre, n)
      BY <1>2, <3>3 DEF FitsNone, OrderGoes
    <3>5. LegFits(n, P2, b)
      BY <1>1, <2>4, <3>4, LegFitsOf
    <3> QED BY <3>5 DEF n
  <2>7. LegFits(u.leg[o], P2, o)
    <3>1. o \in Block
      BY TwoBlocks
    <3>2. LegFits(x.leg[o], P, o) /\ x.leg[o] \in Leg
      BY <1>1, <3>1, LegIs DEF Good
    <3>3. LegFits(x.leg[o], P2, o)
      BY <1>1, <1>2, <2>4, <3>2, OtherFits
    <3>4. Dulls(x.leg[o], u.leg[o]) /\ u.leg[o] \in Leg
      BY <1>6, <2>1, <2>3, <3>1
    <3> QED BY <3>2, <3>3, <3>4, DullFits
  <2>8. \A e \in Block : u.leg[e].post = AllDue(Q, e)
    <3>1. \A e \in Block : x.leg[e].post = AllDue(Q, e)
      BY DEF Good
    <3>2. m.post = l.post
      BY <1>3, <1>4 DEF Leg
    <3>3. u.leg[b].post = x.leg[b].post /\ u.leg[o].post = x.leg[o].post
      BY <1>6, <2>1, <2>3, <3>2, TwoBlocks DEF l
    <3> QED BY <3>1, <3>3, TwoBlocks
  <2>9. InRoom(P2, u.held)
    <3>1. InRoom(P, u.held)
      BY <1>6, <2>2 DEF Good
    <3> QED BY <1>1, <1>2, <2>4, <3>1, RoomOfOne
  <2>11. AsOne(u)
    BY <1>10, <2>1, <2>3, TwoBlocks DEF AsOne, Halted
  <2>10. Good(HaltSet(u, b), P2, Q)
    BY <2>11, <2>2, <2>5, <2>6, <2>7, <2>8, <2>9, HaltGood DEF o
  <2> QED BY <1>5, <1>9, <2>10 DEF P2
<1> QED BY <1>7, <1>8, <1>9

(* The order k once q is filled of it in all, if it has not ended by that.  *)
After(P, k, q) ==
  IF q = P[k].qty THEN NoPre ELSE [P[k] EXCEPT !.filled = q, !.phase = "open"]

(* A new post order.                                                       *)
Ordered(b, n) == [block |-> b, left |-> n, call |-> 0, phase |-> "sent"]

LEMMA FillLeg ==
  ASSUME NEW x, NEW P, NEW Q, Good(x, P, Q), NEW b \in Block,
         NEW k \in AtWork(P, b), P[k].phase = "open",
         NEW q \in Nat, q > 0, P[k].filled + q <= P[k].qty
  PROVE  LET t == OnPreFill(x, b, q)
             r == After(P, k, P[k].filled + q)
         IN /\ t \in SetRecord /\ AsOne(t) /\ t.leg[Other(b)] = x.leg[Other(b)]
            /\ t.leg[b].post = x.leg[b].post + q * Ratio
            /\ r \in PreOrder /\ OrderGoes(P, b, k, r, t.leg[b])
            /\ t.held = IF b = "entry" THEN x.held + q ELSE Minus(x.held, q)
<1> DEFINE l == x.leg[b]
           h == q * Ratio
           f == [l EXCEPT !.filled = l.filled + q, !.streak = 0,
                          !.post = l.post + h]
           n == IF Halted(f) THEN "halted"
                ELSE IF Full(f) THEN "post_pending" ELSE "pre_partial"
           m == [f EXCEPT !.status = n]
           y == ApplyRt(x, b, q)
           t == OnPreFill(x, b, q)
           r == After(P, k, P[k].filled + q)
           o == P[k]
<1>1. /\ FitsOne(l, k, o) /\ o \in PreOrder /\ k \in Pres /\ o.block = b
      /\ l \in Leg /\ x \in SetRecord /\ AsOne(x)
  BY OneAtWork
<1>2. h \in Nat /\ h > 0
  BY ProductPositive
<1>3. t \in SetRecord /\ AsOne(t)
  BY <1>1, OnPreFillSettles DEF Settles
<1>4. t = [y EXCEPT !.leg[b] = m]
  BY DEF OnPreFill
<1>5. /\ y.leg = x.leg
      /\ y.held = IF b = "entry" THEN x.held + q ELSE Minus(x.held, q)
      /\ y = [leg |-> y.leg, held |-> y.held, diff |-> y.diff, asked |-> y.asked]
  BY <1>1 DEF ApplyRt, SetRecord
<1>6. k # NoOrder
  BY <1>1, BoundsAssumption DEF Pres, NoOrder
<1> HIDE DEF h, l
<1>0. l.filled + q \in Nat /\ l.post + h \in Nat
  BY <1>1, <1>2 DEF Leg
<1>7. /\ f.id = l.id /\ f.qty = l.qty /\ f.filled = l.filled + q
      /\ f.post = l.post + h /\ f.status = l.status /\ f.await = l.await
      /\ f.replace = l.replace /\ f.running = l.running /\ f \in Leg
  BY <1>1, <1>0 DEF Leg
<1> HIDE DEF f
<1>8. /\ n = IF l.status = "halted" THEN "halted"
             ELSE IF l.filled + q >= l.qty /\ l.qty > 0 THEN "post_pending"
             ELSE "pre_partial"
      /\ n \in LegStatus
  BY <1>7 DEF Halted, Full, LegStatus
<1> HIDE DEF n
<1>9. /\ m.id = l.id /\ m.qty = l.qty /\ m.filled = l.filled + q
      /\ m.post = l.post + h /\ m.status = n /\ m.await = l.await
      /\ m.replace = l.replace /\ m.running = l.running
  BY <1>7, <1>8 DEF Leg
<1> HIDE DEF m, y
<1>10. /\ t.leg[b] = m /\ t.leg[Other(b)] = x.leg[Other(b)]
       /\ t.held = y.held
  BY <1>1, <1>4, <1>5, TwoBlocks DEF SetRecord
<1> HIDE DEF t
<1>11. CASE o.filled + q = o.qty
  <2>1. r = NoPre /\ NoPre \in PreOrder /\ NoPre.phase = "none"
    BY <1>11 DEF After, NoPre, PreOrder, PrePhase, Block
  <2>2. FitsNone(m)
    BY <1>1, <1>2, <1>6, <1>8, <1>9, <1>11
       DEF FitsNone, FitsOne, Full, Halted, Leg, PreOrder, Rests
  <2> HIDE DEF r, o
  <2> QED BY <1>2, <1>3, <1>5, <1>9, <1>10, <2>1, <2>2 DEF OrderGoes, t, r, l, h, o
<1>12. CASE o.filled + q # o.qty
  <2>1. r = [o EXCEPT !.filled = o.filled + q, !.phase = "open"]
    BY <1>12 DEF After
  <2> HIDE DEF r, o
  <2>0. o.filled + q \in Nat
    BY <1>1 DEF PreOrder
  <2>2. r \in PreOrder /\ r.block = b /\ r.phase = "open" /\ r.qty = o.qty
        /\ r.filled = o.filled + q
    BY <1>1, <2>1, <2>0 DEF PreOrder, PrePhase
  <2>3. FitsOne(m, k, r)
    <3>1. /\ r.filled < r.qty /\ m.qty = r.qty /\ m.filled = r.filled
          /\ r.filled # 0
      BY <1>1, <1>9, <1>12, <2>2 DEF FitsOne, PreOrder, o
    <3>2. m.id = k /\ ~m.await
      BY <1>1, <1>9 DEF FitsOne, o
    <3>3. m.status \notin Rests /\ m.status # "post_pending"
      BY <1>1, <1>8, <1>9, <1>12 DEF FitsOne, PreOrder, Rests, o
    <3> QED BY <1>6, <2>2, <3>1, <3>2, <3>3 DEF FitsOne
  <2>4. r.qty - r.filled <= o.qty - o.filled
    BY <1>1, <2>2 DEF PreOrder
  <2>5. OrderGoes(P, b, k, r, m)
    BY <2>2, <2>3, <2>4 DEF OrderGoes, o
  <2> QED BY <1>3, <1>5, <1>9, <1>10, <2>2, <2>5 DEF t, r, l, h, o
<1> QED BY <1>11, <1>12

LEMMA FillGood ==
  ASSUME NEW x, NEW P, NEW Q, Good(x, P, Q), NEW b \in Block,
         NEW k \in AtWork(P, b), P[k].phase = "open",
         NEW q \in Nat, q > 0, P[k].filled + q <= P[k].qty,
         NEW i \in Posts, Q[i].phase = "none"
  PROVE  Good(OnPreFill(x, b, q),
              [P EXCEPT ![k] = After(P, k, P[k].filled + q)],
              [Q EXCEPT ![i] = Ordered(b, q * Ratio)])
<1> DEFINE t == OnPreFill(x, b, q)
           r == After(P, k, P[k].filled + q)
           h == q * Ratio
           w == Ordered(b, h)
           P2 == [P EXCEPT ![k] = r]
           Q2 == [Q EXCEPT ![i] = w]
           c == Other(b)
<1>1. /\ AtWork(P, b) = {k} /\ k \in Pres /\ P[k].block = b /\ P[k] \in PreOrder
      /\ k \notin AtWork(P, c) /\ x \in SetRecord /\ PresOK(P)
  BY OneAtWork
<1>2. /\ t \in SetRecord /\ AsOne(t) /\ t.leg[c] = x.leg[c]
      /\ t.leg[b].post = x.leg[b].post + h
      /\ r \in PreOrder /\ OrderGoes(P, b, k, r, t.leg[b])
      /\ t.held = IF b = "entry" THEN x.held + q ELSE Minus(x.held, q)
  BY FillLeg
<1>3. h \in Nat /\ h > 0
  BY ProductPositive
<1>4. r.phase # "none" =>
        r.phase = "open" /\ r.block = b /\ r.qty = P[k].qty
        /\ r.filled = P[k].filled + q
  BY <1>1 DEF After, NoPre, PreOrder
<1> HIDE DEF t, r, h
<1>5. w \in PostOrder /\ w.block = b /\ w.left = h /\ w.phase = "sent" /\ w.call = 0
  BY <1>3 DEF Ordered, PostOrder, PostPhase
<1> HIDE DEF w
<1>6. /\ PresOK(P2) /\ PostsOK(Q2)
      /\ \A j \in Pres : P2[j] = IF j = k THEN r ELSE P[j]
      /\ \A j \in Posts : Q2[j] = IF j = i THEN w ELSE Q[j]
  BY <1>1, <1>2, <1>5 DEF Good, PresOK, PostsOK
<1>7. AllDue(Q2, b) = AllDue(Q, b) + h /\ AllDue(Q2, c) = AllDue(Q, c)
  <2>1. c \in Block /\ c # b /\ PostsOK(Q)
    BY TwoBlocks DEF Good
  <2>2. /\ Due(Q[i], b) = 0 /\ Due(Q[i], c) = 0
        /\ Due(w, b) = h /\ Due(w, c) = 0
    BY <1>3, <1>5, <2>1 DEF Due
  <2> HIDE DEF c
  <2>3. /\ AllDue(Q2, b) = AllDue(Q, b) - Due(Q[i], b) + Due(w, b)
        /\ AllDue(Q2, c) = AllDue(Q, c) - Due(Q[i], c) + Due(w, c)
        /\ AllDue(Q, b) \in Nat /\ AllDue(Q, c) \in Nat
    BY <1>5, <2>1, DueOfOne
  <2> QED BY <1>3, <2>2, <2>3
<1>8. Final(Q2)
  BY <1>3, <1>5, <1>6 DEF Good, Final
<1>9. P2 = [P EXCEPT ![k] = r]
  OBVIOUS
<1> HIDE DEF P2, Q2
<1>10. LegFits(t.leg[b], P2, b)
  BY <1>1, <1>2, <1>9, LegFitsOf
<1>11. LegFits(x.leg[c], P2, c)
  <2>1. LegFits(x.leg[c], P, c) /\ c # b
    BY TwoBlocks DEF Good
  <2>2. ~(r.block = c /\ r.phase # "none")
    BY <1>4, <2>1
  <2> HIDE DEF c
  <2> QED BY <1>1, <1>9, <2>1, <2>2, OtherFits
<1>12. InRoom(P2, t.held)
  <2> SUFFICES ASSUME NEW j \in Pres, P2[j].phase \in {"spawned", "sent", "open"}
               PROVE  P2[j].qty - P2[j].filled
                        <= IF P2[j].block = "entry" THEN Target - t.held
                           ELSE t.held
    BY DEF InRoom
  <2>1. InRoom(P, x.held) /\ x.held \in Nat /\ Target \in Nat /\ P[j] \in PreOrder
    BY <1>1, SizesAssumption DEF Good, SetRecord, PresOK
  <2>2. P[k].qty - P[k].filled <= IF b = "entry" THEN Target - x.held ELSE x.held
    BY <1>1, <2>1 DEF InRoom
  <2>3. P[k].qty \in Nat /\ P[k].filled \in Nat /\ q <= P[k].qty - P[k].filled
    BY <1>1 DEF PreOrder
  <2>4. CASE j = k
    <3>1. P2[j] = r /\ r.phase # "none"
      BY <1>6, <2>4
    <3>2. r.qty - r.filled = P[k].qty - P[k].filled - q /\ r.block = b
      BY <1>4, <2>3, <3>1
    <3>3. CASE b = "entry"
      BY <1>2, <2>1, <2>2, <2>3, <3>1, <3>2, <3>3
    <3>4. CASE b # "entry"
      <4>1. t.held = x.held - q
        BY <1>2, <2>1, <2>2, <2>3, <3>4 DEF Minus
      <4> QED BY <2>1, <2>2, <2>3, <3>1, <3>2, <3>4, <4>1
    <3> QED BY <3>3, <3>4
  <2>5. CASE j # k
    <3>1. P2[j] = P[j] /\ P[j].block # b
      BY <1>1, <1>6, <2>5 DEF AtWork
    <3>2. P[j].qty - P[j].filled <= IF P[j].block = "entry" THEN Target - x.held
                                    ELSE x.held
      BY <2>1, <3>1 DEF InRoom
    <3>3. P[j].qty - P[j].filled \in Int
      BY <2>1 DEF PreOrder
    <3>4. CASE b = "entry"
      BY <1>2, <2>1, <3>1, <3>2, <3>3, <3>4
    <3>5. CASE b # "entry"
      <4>1. t.held = x.held - q /\ P[j].block = "entry"
        BY <1>2, <2>1, <2>2, <2>3, <3>1, <3>5 DEF Minus, PreOrder, Block
      <4> QED BY <2>1, <3>1, <3>2, <3>3, <4>1
    <3> QED BY <3>4, <3>5
  <2> QED BY <2>4, <2>5
<1>13. t.leg[b].post = AllDue(Q2, b)
  BY <1>2, <1>7 DEF Good
<1>14. Good(t, P2, Q2)
  <2>1. /\ t.leg[Other(b)] = x.leg[Other(b)]
        /\ LegFits(x.leg[Other(b)], P2, Other(b))
        /\ AllDue(Q2, Other(b)) = AllDue(Q, Other(b))
    BY <1>2, <1>7, <1>11 DEF c
  <2> QED BY <1>2, <1>6, <1>8, <1>10, <1>12, <1>13, <2>1, LegGood
<1> QED BY <1>14 DEF t, P2, Q2, r, w, h

-----------------------------------------------------------------------------
(* What is reported of a post order.                                       *)

(* A leg that has waited for hedges, with p of them left.                  *)
LEMMA LegDown ==
  ASSUME NEW l \in Leg, NEW P, PresOK(P), NEW b, LegFits(l, P, b), l.post > 0,
         NEW p \in Nat, NEW m, m = [l EXCEPT !.post = p]
  PROVE  /\ m \in Leg /\ LegFits(Stopped(m), P, b)
         /\ p > 0 \/ Halted(l) => LegFits(m, P, b)
<1>1. /\ m \in Leg /\ m.id = l.id /\ m.qty = l.qty /\ m.filled = l.filled
      /\ m.replace = l.replace /\ m.await = l.await /\ m.status = l.status
      /\ m.running = l.running /\ m.post = p
  BY DEF Leg
<1> DEFINE n == Stopped(m)
<1>2. /\ n.id = l.id /\ n.qty = l.qty /\ n.filled = l.filled
      /\ n.replace = l.replace /\ n.await = l.await /\ n.post = p
      /\ n.status = "halted"
  BY <1>1 DEF Stopped, Leg
<1> HIDE DEF n
<1>3. CASE AtWork(P, b) = {} /\ FitsNone(l)
  <2>1. FitsNone(n)
    BY <1>2, <1>3 DEF FitsNone, Full, Halted
  <2>2. p > 0 \/ Halted(l) => FitsNone(m)
    BY <1>1, <1>3 DEF FitsNone, Full, Halted, Leg
  <2> QED BY <1>1, <1>3, <2>1, <2>2 DEF LegFits, n
<1>4. ASSUME NEW k \in Pres, AtWork(P, b) = {k}, FitsOne(l, k, P[k])
      PROVE  /\ LegFits(Stopped(m), P, b)
             /\ p > 0 \/ Halted(l) => LegFits(m, P, b)
  <2>1. P[k].filled # 0 /\ P[k].phase = "open" /\ ~(l.status \in Rests)
    BY <1>4 DEF FitsOne, Leg
  <2>2. FitsOne(n, k, P[k])
    BY <1>2, <1>4, <2>1 DEF FitsOne, Rests
  <2>3. p > 0 \/ Halted(l) => FitsOne(m, k, P[k])
    BY <1>1, <1>4, <2>1 DEF FitsOne, Halted
  <2> QED BY <1>4, <2>2, <2>3 DEF LegFits, n
<1> QED BY <1>1, <1>3, <1>4 DEF LegFits

(* And when it waits for none and is not halted, it goes on.               *)
LEMMA ContinueFits ==
  ASSUME NEW y \in SetRecord, NEW b \in Block, NEW l \in Leg,
         NEW P, PresOK(P), LegFits(l, P, b), l.post > 0, ~Halted(l),
         y.leg[b] = [l EXCEPT !.post = 0]
  PROVE  LegFits(Continue(y, b).leg[b], P, b)
<1> DEFINE m == y.leg[b]
           d == [m EXCEPT !.await = FALSE]
           st == IF m.filled > 0 THEN "pre_partial" ELSE "pre_resting"
           n == [m EXCEPT !.status = st]
           t == Continue(y, b)
<1>1. /\ m \in Leg /\ m.id = l.id /\ m.qty = l.qty /\ m.filled = l.filled
      /\ m.replace = l.replace /\ m.await = l.await /\ m.post = 0
      /\ m.running = l.running
  BY DEF Leg
<1>2. t.leg[b] = IF m.await \/ m.id = NoOrder \/ m.filled >= m.qty
                 THEN StartDelay(d) ELSE n
  <2>1. y.leg \in [Block -> Leg]
    BY DEF SetRecord
  <2> QED BY <2>1 DEF Continue
<1> HIDE DEF m, t
<1>3. CASE AtWork(P, b) = {} /\ FitsNone(l)
  <2>1. m.await \/ m.id = NoOrder \/ m.filled >= m.qty
    BY <1>1, <1>3 DEF FitsNone, Full
  <2>2. /\ StartDelay(d).id = NoOrder /\ ~StartDelay(d).replace
        /\ StartDelay(d).status = "settle_delay" /\ StartDelay(d).post = 0
        /\ ~StartDelay(d).await
    BY <1>1 DEF StartDelay, ClearPre, Leg, NoOrder
  <2>3. FitsNone(StartDelay(d))
    BY <2>2 DEF FitsNone, Rests
  <2> QED BY <1>2, <1>3, <2>1, <2>3 DEF LegFits, t
<1>4. ASSUME NEW k \in Pres, AtWork(P, b) = {k}, FitsOne(l, k, P[k])
      PROVE  LegFits(t.leg[b], P, b)
  <2>1. P[k].filled # 0 /\ P[k].phase = "open" /\ P[k] \in PreOrder
    BY <1>4 DEF FitsOne, Leg, PresOK
  <2>2. k # NoOrder
    BY BoundsAssumption DEF Pres, NoOrder
  <2>3. ~(m.await \/ m.id = NoOrder \/ m.filled >= m.qty) /\ m.filled > 0
    BY <1>1, <1>4, <2>1, <2>2 DEF FitsOne, PreOrder
  <2>4. /\ n.id = l.id /\ n.qty = l.qty /\ n.filled = l.filled
        /\ n.replace = l.replace /\ n.await = l.await /\ n.post = 0
        /\ n.status = "pre_partial"
    BY <1>1, <2>3 DEF Leg
  <2> HIDE DEF n
  <2>5. FitsOne(n, k, P[k])
    BY <1>4, <2>1, <2>4 DEF FitsOne, Rests
  <2> QED BY <1>2, <1>4, <2>3, <2>5 DEF LegFits
<1> QED BY <1>3, <1>4 DEF LegFits, t

(* q less is due of post order i, and leg b waits for q less.              *)
LEMMA DownGood ==
  ASSUME NEW x, NEW P, NEW Q, Good(x, P, Q), NEW i \in Posts,
         Q[i].phase \in {"sent", "open"},
         NEW q \in Nat, q > 0, q <= Q[i].left,
         NEW r \in PostOrder,
         r = IF q = Q[i].left THEN NoPost ELSE [Q[i] EXCEPT !.left = Q[i].left - q],
         NEW b, b = Q[i].block,
         NEW y \in SetRecord, y.held = x.held,
         y.leg = [x.leg EXCEPT ![b].post = Minus(x.leg[b].post, q)]
  PROVE  Good(FinishIfDone(y, b), P, [Q EXCEPT ![i] = r])
<1> DEFINE l == x.leg[b]
           o == Other(b)
           Q2 == [Q EXCEPT ![i] = r]
           t == FinishIfDone(y, b)
<1>1. /\ x \in SetRecord /\ AsOne(x) /\ PresOK(P) /\ PostsOK(Q) /\ Final(Q)
      /\ InRoom(P, x.held)
      /\ \A c \in Block : LegFits(x.leg[c], P, c) /\ x.leg[c].post = AllDue(Q, c)
  BY DEF Good
<1>2. /\ Q[i] \in PostOrder /\ b \in Block /\ Q[i].left \in Nat /\ Q[i].call = 0
      /\ Q[i].left > 0
  BY <1>1 DEF PostsOK, PostOrder, Final
<1>3. /\ o \in Block /\ o # b /\ \A c \in Block : c = b \/ c = o
  BY <1>2, TwoBlocks
<1>4. /\ r.phase # "none" => r.phase # "failed" /\ r.left > 0
      /\ r.call = 0
      /\ Due(r, b) = Q[i].left - q /\ Due(r, o) = 0
      /\ Due(Q[i], b) = Q[i].left /\ Due(Q[i], o) = 0
  BY <1>2, <1>3 DEF NoPost, PostOrder, Due
<1>5. PostsOK(Q2) /\ \A j \in Posts : Q2[j] = IF j = i THEN r ELSE Q[j]
  BY <1>1 DEF PostsOK
<1>6. Final(Q2)
  BY <1>1, <1>4, <1>5 DEF Final
<1>7. /\ AllDue(Q, b) \in Nat /\ Q[i].left <= AllDue(Q, b)
      /\ AllDue(Q2, b) = AllDue(Q, b) - q /\ AllDue(Q2, o) = AllDue(Q, o)
  <2> HIDE DEF o
  <2>1. /\ AllDue(Q, b) \in Nat /\ Due(Q[i], b) <= AllDue(Q, b)
        /\ AllDue(Q2, b) = AllDue(Q, b) - Due(Q[i], b) + Due(r, b)
    BY <1>1, <1>2, DueOfOne
  <2>2. /\ AllDue(Q2, o) = AllDue(Q, o) - Due(Q[i], o) + Due(r, o)
        /\ AllDue(Q, o) \in Nat
    BY <1>1, <1>3, DueOfOne
  <2> QED BY <1>2, <1>4, <2>1, <2>2
<1> HIDE DEF Q2, o
<1>8. /\ l \in Leg /\ l.post > 0 /\ LegFits(l, P, b) /\ l.post \in Nat
      /\ Minus(l.post, q) = l.post - q /\ l.post - q \in Nat
  <2>1. l \in Leg /\ LegFits(l, P, b) /\ l.post = AllDue(Q, b)
    BY <1>1, <1>2, LegIs
  <2> HIDE DEF l
  <2>2. l.post >= q /\ l.post \in Nat
    BY <1>2, <1>7, <2>1
  <2> QED BY <2>1, <2>2 DEF Minus
<1>9. /\ y.leg[b] = [l EXCEPT !.post = l.post - q]
      /\ y.leg[o] = x.leg[o] /\ x.leg \in [Block -> Leg]
  BY <1>1, <1>2, <1>3, <1>8 DEF SetRecord
<1> HIDE DEF l
<1>10. /\ y.leg[b] \in Leg /\ LegFits(Stopped(y.leg[b]), P, b)
       /\ l.post - q > 0 \/ Halted(l) => LegFits(y.leg[b], P, b)
  BY <1>1, <1>8, <1>9, LegDown
<1>11. /\ y.leg[b].post = l.post - q /\ y.leg[b].status = l.status
  BY <1>8, <1>9 DEF Leg
<1>12. \A c \in Block : y.leg[c].post = AllDue(Q2, c)
  <2>1. l.post = AllDue(Q, b) /\ x.leg[o].post = AllDue(Q, o)
    BY <1>1, <1>2, <1>3 DEF l
  <2> QED BY <1>3, <1>7, <1>9, <1>11, <2>1
<1>13. LegFits(y.leg[o], P, o)
  BY <1>1, <1>3, <1>9
<1>14. AsOne(y)
  <2>1. \A c \in Block : /\ Halted(y.leg[c]) <=> Halted(x.leg[c])
                         /\ y.leg[c].running = x.leg[c].running
    <3>1. y.leg[b].running = l.running
      BY <1>8, <1>9 DEF Leg
    <3> QED BY <1>3, <1>9, <1>11, <3>1 DEF Halted, l
  <2> QED BY <1>1, <2>1, TwoBlocks, <1>2 DEF AsOne
<1>15. CASE l.post - q > 0 \/ Halted(l)
  <2>1. t = y
    BY <1>8, <1>11, <1>15 DEF FinishIfDone, FinishRound, PostDone, Halted
  <2>2. \A c \in Block : LegFits(y.leg[c], P, c)
    BY <1>3, <1>10, <1>13, <1>15
  <2> QED BY <1>1, <1>5, <1>6, <1>12, <1>14, <2>1, <2>2 DEF Good, Q2
<1>16. CASE ~(l.post - q > 0) /\ ~Halted(l) /\ SetPostDone(y) /\ OverLimit(y.diff)
  <2>1. t = HaltSet(y, b)
    BY <1>8, <1>11, <1>16 DEF FinishIfDone, FinishRound, PostDone, Halted
  <2>2. LegFits(y.leg[Other(b)], P, Other(b))
    BY <1>13 DEF o
  <2>3. Good(HaltSet(y, b), P, Q2)
    BY <1>1, <1>2, <1>5, <1>6, <1>10, <1>12, <1>14, <2>2, HaltGood
  <2> QED BY <2>1, <2>3 DEF Q2
<1>17. CASE ~(l.post - q > 0) /\ ~Halted(l) /\ ~(SetPostDone(y) /\ OverLimit(y.diff))
  <2>1. l.post - q = 0 /\ ~Halted(y.leg[b])
    BY <1>8, <1>11, <1>17 DEF Halted
  <2>2. t = Continue(y, b)
    BY <1>11, <1>17, <2>1 DEF FinishIfDone, FinishRound, PostDone
  <2>3. Mild(y, t)
    <3> HIDE DEF t
    <3>1. Mild(y, Continue(y, b))
      BY <1>2, <2>1, ContinueMild
    <3> QED BY <2>2, <3>1
  <2>4. t \in SetRecord /\ AsOne(t) /\ \A c \in Block : t.leg[c].post = y.leg[c].post
    BY <1>14, <2>3, MildAsOne DEF Mild, SameLedger
  <2>5. y.leg[b] = [l EXCEPT !.post = 0]
    BY <1>9, <2>1
  <2>6. LegFits(t.leg[b], P, b)
    BY <1>1, <1>2, <1>8, <1>17, <2>2, <2>5, ContinueFits
  <2>7. t.held = y.held /\ t.leg[o] = y.leg[o]
    <3>1. \E n : Continue(y, b) = [y EXCEPT !.leg[b] = n]
      BY DEF Continue
    <3> QED BY <1>3, <2>2, <3>1 DEF SetRecord
  <2> HIDE DEF t
  <2>8. \A c \in Block : LegFits(t.leg[c], P, c) /\ t.leg[c].post = AllDue(Q2, c)
    BY <1>3, <1>12, <1>13, <2>4, <2>6, <2>7
  <2> QED BY <1>1, <1>5, <1>6, <2>4, <2>7, <2>8 DEF Good, Q2, t
<1> QED BY <1>15, <1>16, <1>17

-----------------------------------------------------------------------------
(* One step.                                                               *)

LEMMA CalmIsGood ==
  ASSUME IInv PROVE CalmInv <=> Good(s, pre, post)
BY DEF IInv, TypeOK, HaltedAsOne, AsOne, CalmInv, Good, PresOK, PostsOK

(* What the handlers of a set are told of an order is so of its leg.       *)
LEMMA NoExcess ==
  ASSUME NEW x, NEW P, NEW Q, Good(x, P, Q), NEW b \in Block,
         NEW k \in AtWork(P, b), P[k].phase = "open", NEW q \in Nat,
         P[k].filled + q <= P[k].qty, pre[k].block = b
  PROVE  ~Excess(x, k, q)
<1>1. FitsOne(x.leg[b], k, P[k]) /\ P[k] \in PreOrder
  BY OneAtWork
<1>2. x.leg[b].filled + q <= x.leg[b].qty
  BY <1>1 DEF FitsOne
<1>3. x.leg[b].filled + q \in Int /\ x.leg[b].qty \in Int
  BY <1>1 DEF FitsOne, PreOrder
<1> QED BY <1>2, <1>3 DEF Excess

(* A fill that is taken and hedged.                                        *)
LEMMA TakeGood ==
  ASSUME NEW x, NEW P, NEW Q, Good(x, P, Q), post = Q,
         NEW b \in Block, NEW k \in AtWork(P, b), P[k].phase = "open",
         pre[k].block = b, NEW q \in Nat, q > 0, P[k].filled + q <= P[k].qty,
         NEW y, ~Excess(y, k, q), Hedge(y, k, q)
  PROVE  Good(TakeFill(x, k, q),
              [P EXCEPT ![k] = After(P, k, P[k].filled + q)], post')
<1> DEFINE i == Smallest(FreePost)
<1>1. TakeFill(x, k, q) = OnPreFill(x, b, q)
  BY NoExcess DEF TakeFill
<1>2. NewPost(b, q * Ratio)
  BY DEF Hedge
<1>3. FreePost # {} /\ post' = [post EXCEPT ![i] = Ordered(b, q * Ratio)]
  BY <1>2 DEF NewPost, Ordered
<1>4. i \in FreePost
  <2>1. FreePost \in SUBSET Nat
    BY BoundsAssumption DEF FreePost, Posts
  <2> QED BY <1>3, <2>1, SmallestIsIn
<1>5. i \in Posts /\ Q[i].phase = "none"
  BY <1>4 DEF FreePost
<1> HIDE DEF i
<1>6. Good(OnPreFill(x, b, q),
           [P EXCEPT ![k] = After(P, k, P[k].filled + q)],
           [Q EXCEPT ![i] = Ordered(b, q * Ratio)])
  BY <1>5, FillGood
<1> QED BY <1>1, <1>3, <1>6

LEMMA EndOfPreGood ==
  ASSUME NEW x, NEW P, NEW Q, Good(x, P, Q), NEW b \in Block,
         NEW k \in AtWork(P, b), P[k].phase = "open", pre[k].block = b,
         NEW how, how = "cancelled" \/ P[k].filled = 0
  PROVE  Good(EndOfPre(x, k, how), [P EXCEPT ![k] = NoPre], Q)
<1>1. x.leg[b].id = k
  <2>1. FitsOne(x.leg[b], k, P[k])
    BY OneAtWork
  <2> QED BY <2>1 DEF FitsOne
<1>2. CASE how = "cancelled"
  <2>1. EndOfPre(x, k, how) = OnPreCancelled(x, b)
    BY <1>1, <1>2 DEF EndOfPre
  <2> QED BY <2>1, CancelledGood
<1>3. CASE how # "cancelled"
  <2>1. EndOfPre(x, k, how) = OnPreReject(x, b)
    BY <1>1, <1>3 DEF EndOfPre
  <2>2. P[k].filled = 0
    BY <1>3
  <2> QED BY <2>1, <2>2, RejectedGood
<1> QED BY <1>2, <1>3

LEMMA AcceptedGood ==
  ASSUME Good(s, pre, post), NEW k \in Pres, NEW q \in Nat, NEW how,
         how \in {"open", "cancelled", "rejected"}, PreAccepted(k, q, how)
  PROVE  Good(s', pre', post')
<1> DEFINE o == pre[k]
           b == o.block
           t == OnPreAck(s, b, k)
           P1 == [pre EXCEPT ![k].phase = "open"]
           f == IF q > 0 THEN TakeFill(t, k, q) ELSE t
           ends == how # "open" \/ q = o.qty
           P2 == [P1 EXCEPT ![k] = After(P1, k, P1[k].filled + q)]
<1>1. /\ o.phase = "sent" /\ q <= o.qty /\ (how = "rejected" => q = 0)
      /\ (q = o.qty => how = "open")
      /\ s' = IF how # "open" THEN Forget(EndOfPre(f, k, how), k)
              ELSE IF ends THEN Forget(f, k) ELSE f
      /\ PreAfter(k, q, ends) /\ Hedge(t, k, q)
  BY DEF PreAccepted
<1>2. /\ PresOK(pre) /\ o \in PreOrder /\ b \in Block /\ k \in AtWork(pre, b)
  BY <1>1 DEF Good, PresOK, PreOrder, AtWork
<1>3. o.filled = 0 /\ o.qty \in Nat /\ o.qty > 0
  BY <1>1, <1>2, OneAtWork DEF FitsOne, PreOrder
<1>4. Good(t, P1, post)
  BY <1>1, <1>2, AckGood
<1>5. /\ P1[k] = [o EXCEPT !.phase = "open"] /\ P1[k].phase = "open"
      /\ P1[k].block = b /\ P1[k].filled = 0 /\ P1[k].qty = o.qty
      /\ k \in AtWork(P1, b)
  BY <1>2, <1>3 DEF PresOK, PreOrder, AtWork
<1>6. \A r : [P1 EXCEPT ![k] = r] = [pre EXCEPT ![k] = r]
  BY <1>2 DEF PresOK
<1> DEFINE g == IF q = o.qty THEN NoPre
                ELSE [o EXCEPT !.filled = q, !.phase = "open"]
<1>7. After(P1, k, P1[k].filled + q) = g
  <2>1. P1[k].filled + q = q
    BY <1>5
  <2>2. \A n : [[o EXCEPT !.phase = "open"] EXCEPT !.filled = n, !.phase = "open"]
                = [o EXCEPT !.filled = n, !.phase = "open"]
    BY <1>2 DEF PreOrder
  <2>3. After(P1, k, q) = IF q = o.qty THEN NoPre
                          ELSE [P1[k] EXCEPT !.filled = q, !.phase = "open"]
    BY <1>5 DEF After
  <2> HIDE DEF P1
  <2> QED BY <1>5, <2>1, <2>2, <2>3
<1>8. g.phase # "none" => g.phase = "open" /\ g.block = b /\ g.filled = q
  BY <1>2 DEF NoPre, PreOrder
<1> HIDE DEF t, P1, g
<1>9. P1[k].filled + q <= P1[k].qty
  BY <1>1, <1>3, <1>5
<1>10. ~Excess(t, k, q)
  BY <1>2, <1>4, <1>5, <1>9, NoExcess
<1>11. P2 = [pre EXCEPT ![k] = g] /\ P2[k] = g
      /\ \A r : [P2 EXCEPT ![k] = r] = [pre EXCEPT ![k] = r]
  BY <1>2, <1>6, <1>7 DEF PresOK
<1>12. Good(f, P2, post')
  <2>1. CASE q > 0
    <3>1. Good(TakeFill(t, k, q), P2, post')
      BY <1>1, <1>2, <1>4, <1>5, <1>10, <1>9, <2>1, TakeGood
    <3> QED BY <2>1, <3>1
  <2>2. CASE q = 0
    <3>1. f = t /\ post' = post
      BY <1>1, <2>2 DEF Hedge
    <3>2. g = [o EXCEPT !.phase = "open"]
      <4>1. g = [o EXCEPT !.filled = 0, !.phase = "open"]
        BY <1>3, <2>2 DEF g
      <4>2. [o EXCEPT !.filled = 0, !.phase = "open"] = [o EXCEPT !.phase = "open"]
        BY <1>2, <1>3 DEF PreOrder
      <4> QED BY <4>1, <4>2
    <3>3. P2 = P1
      <4>1. P1 = [pre EXCEPT ![k] = [o EXCEPT !.phase = "open"]]
        BY DEF P1
      <4> QED BY <1>11, <3>2, <4>1
    <3> QED BY <1>4, <3>1, <3>3
  <2> QED BY <2>1, <2>2
<1> HIDE DEF f, P2
<1>13. CASE how = "open"
  <2>1. pre' = P2
    <3>1. PreAfter(k, q, q = o.qty)
      BY <1>1, <1>13
    <3> QED BY <1>11, <3>1 DEF PreAfter, g
  <2> QED BY <1>1, <1>12, <1>13, <2>1, ForgetGood
<1>14. CASE how # "open"
  <2>1. q # o.qty /\ (how = "cancelled" \/ q = 0) /\ ends
    BY <1>1, <1>14
  <2>2. /\ P2[k].phase = "open" /\ P2[k].block = b /\ P2[k].filled = q
        /\ k \in AtWork(P2, b)
    BY <1>2, <1>11, <1>8, <2>1 DEF g, PreOrder, AtWork
  <2>3. pre' = [P2 EXCEPT ![k] = NoPre]
    BY <1>1, <1>11, <2>1 DEF PreAfter
  <2>4. Good(EndOfPre(f, k, how), pre', post')
    BY <1>2, <1>12, <2>1, <2>2, <2>3, EndOfPreGood
  <2> QED BY <1>1, <1>14, <2>4, ForgetGood
<1> QED BY <1>13, <1>14

(* The task of a repayment sends less than was asked for, or nothing.      *)
LEMMA TaskGood ==
  ASSUME Good(s, pre, post), NEW k \in Pres, TaskRuns(k)
  PROVE  Good(s', pre', post')
<1> DEFINE o == pre[k]
           l == s.leg["exit"]
<1>1. /\ PresOK(pre) /\ o \in PreOrder /\ s \in SetRecord /\ AsOne(s)
      /\ "exit" \in Block /\ l \in Leg /\ o.phase = "spawned" /\ post' = post
  BY LegIs DEF Good, PresOK, Block, TaskRuns, PreGoes, PreHeld
<1>2. o.block \in Block /\ k \in AtWork(pre, o.block)
  BY <1>1 DEF AtWork, PreOrder
<1>3. o.block = "exit"
  BY <1>1, <1>2, OneAtWork DEF FitsOne
<1>4. FitsOne(l, k, o) /\ k \in AtWork(pre, "exit")
  BY <1>2, <1>3, OneAtWork
<1>5. CASE PreHeld(k)
  <2> DEFINE m == [ClearPre(l) EXCEPT !.status = "armed"]
  <2>1. pre' = [pre EXCEPT ![k] = NoPre] /\ s' = [s EXCEPT !.leg["exit"] = m]
    BY <1>5 DEF PreHeld, HoldRepay
  <2>2. AsOne(s')
    BY <1>1, <1>5, HoldRepayLifts DEF PreHeld
  <2>3. l.post = 0 /\ ~l.await
    BY <1>1, <1>4 DEF FitsOne
  <2>4. m \in Leg /\ m.post = l.post /\ FitsNone(m)
    <3> DEFINE c == ClearPre(l)
    <3>1. c \in Leg /\ c.post = 0 /\ ~c.await /\ ~c.replace /\ c.id = NoOrder
      BY <1>1, <2>3 DEF Leg, ClearPre, NoOrder
    <3>3. m = [c EXCEPT !.status = "armed"]
      OBVIOUS
    <3> HIDE DEF c, m
    <3>2. m \in Leg /\ m.post = 0 /\ m.await = c.await /\ m.replace = c.replace
          /\ m.id = NoOrder /\ m.status = "armed"
      BY <3>1, <3>3 DEF Leg, LegStatus
    <3> QED BY <2>3, <3>1, <3>2 DEF FitsNone, Rests, Halted, NoOrder
  <2>5. NoPre \in PreOrder /\ OrderGoes(pre, "exit", k, NoPre, m)
    BY <2>4 DEF OrderGoes, NoPre, PreOrder, PrePhase, Block
  <2> HIDE DEF m
  <2> QED BY <1>1, <1>4, <2>1, <2>2, <2>4, <2>5, OrderLegGood
<1>6. ASSUME NEW q \in 1 .. Per, PreGoes(k, q) PROVE Good(s', pre', post')
  <2> DEFINE r == [o EXCEPT !.phase = "sent", !.qty = q]
             m == [l EXCEPT !.qty = q]
  <2>1. q \in Nat /\ q > 0 /\ q <= o.qty /\ o.qty \in Nat
    BY <1>1, <1>6, SizesAssumption DEF PreGoes, PreOrder
  <2>2. pre' = [pre EXCEPT ![k] = r]
    BY <1>1, <1>6 DEF PreGoes, PresOK
  <2>3. s' = [s EXCEPT !.leg["exit"] = m]
    <3>1. s' = [s EXCEPT !.leg["exit"].qty = IF q = o.qty THEN l.qty ELSE q]
      BY <1>1, <1>6 DEF PreGoes, SetRecord
    <3>2. l.qty = o.qty
      BY <1>4 DEF FitsOne
    <3>3. (IF q = o.qty THEN l.qty ELSE q) = q
      BY <3>2
    <3> QED BY <1>1, <3>1, <3>3 DEF SetRecord
  <2>4. /\ m \in Leg /\ m.post = l.post /\ m.running = l.running
        /\ Halted(m) <=> Halted(l)
    BY <1>1, <2>1 DEF Leg, Halted
  <2>5. /\ r \in PreOrder /\ r.block = "exit" /\ r.phase = "sent" /\ r.qty = q
        /\ r.filled = o.filled
    BY <1>1, <1>3, <2>1 DEF PreOrder, PrePhase
  <2>6. FitsOne(m, k, r)
    <3>1. o.filled = 0
      BY <1>1, <1>4 DEF FitsOne
    <3>2. /\ m.qty = q /\ m.filled = l.filled /\ m.id = l.id /\ m.status = l.status
          /\ m.await = l.await /\ m.replace = l.replace
      BY <1>1, <2>1 DEF Leg
    <3> HIDE DEF m, r
    <3> QED BY <1>1, <1>4, <2>1, <2>4, <2>5, <3>1, <3>2 DEF FitsOne
  <2>7. OrderGoes(pre, "exit", k, r, m)
    <3>1. o.filled = 0
      BY <1>1, <1>4 DEF FitsOne
    <3> HIDE DEF m, r
    <3> QED BY <1>1, <2>1, <2>5, <2>6, <3>1 DEF OrderGoes
  <2> HIDE DEF m, r
  <2> QED BY <1>1, <1>4, <2>2, <2>3, <2>4, <2>5, <2>7, OrderGood
<1> QED BY <1>5, <1>6 DEF TaskRuns

LEMMA PreStepGood ==
  ASSUME Good(s, pre, post), NEW k \in Pres,
         Answer(k) \/ PreReport(k) \/ CancelFails(k) \/ CancelReturns(k)
  PROVE  Good(s', pre', post')
<1> DEFINE o == pre[k]
           b == o.block
           l == s.leg[b]
<1>1. /\ PresOK(pre) /\ o \in PreOrder /\ b \in Block /\ s \in SetRecord
      /\ AsOne(s) /\ o.filled \in Nat /\ o.qty \in Nat /\ l \in Leg
  BY LegIs DEF Good, PresOK, PreOrder
<1>2. o.phase # "none" => k \in AtWork(pre, b) /\ FitsOne(l, k, o)
  <2>1. o.phase # "none" => k \in AtWork(pre, b)
    BY DEF AtWork
  <2> QED BY <1>1, <2>1, OneAtWork
<1>3. NoPre \in PreOrder /\ NoPre.phase = "none"
  BY DEF NoPre, PreOrder, PrePhase, Block
<1>4. [s EXCEPT !.leg[b] = l] = s
  BY <1>1 DEF SetRecord
<1>5. ASSUME NEW q \in 0 .. Per, NEW how \in {"open", "cancelled", "rejected"},
             PreAccepted(k, q, how)
      PROVE  Good(s', pre', post')
  <2>1. q \in Nat
    BY SizesAssumption
  <2> QED BY <1>5, <2>1, AcceptedGood
<1>6. CASE PreRefused(k)
  <2>1. /\ s' = OnPreReject(s, b) /\ pre' = [pre EXCEPT ![k] = NoPre]
        /\ post' = post /\ o.phase = "sent"
    BY <1>6 DEF PreRefused, PreAfter
  <2>2. o.filled = 0 /\ k \in AtWork(pre, b)
    BY <1>2, <2>1 DEF FitsOne
  <2> QED BY <1>1, <2>1, <2>2, RejectedGood
<1>7. CASE PreTimesOut(k)
  <2> DEFINE x == HaltSet(s, b)
             r == [o EXCEPT !.phase = "lost"]
             m == x.leg[b]
  <2>1. /\ s' = x /\ pre' = [pre EXCEPT ![k] = r]
        /\ post' = post /\ o.phase = "sent"
    BY <1>7 DEF PreTimesOut
  <2>2. Good(x, pre, post) /\ Halted(m)
    BY <1>1, HaltLegs, HaltSetHalts, QuietGood
  <2> HIDE DEF x
  <2>3. /\ k \in AtWork(pre, b) /\ FitsOne(m, k, o) /\ m \in Leg
        /\ x \in SetRecord
    BY <1>1, <1>2, <2>1, <2>2, OneAtWork
  <2>4. /\ r \in PreOrder /\ r.block = b /\ r.phase = "lost"
        /\ r.qty = o.qty /\ r.filled = o.filled
    BY <1>1 DEF PreOrder, PrePhase
  <2>5. [x EXCEPT !.leg[b] = m] = x
    BY <2>3 DEF SetRecord
  <2> HIDE DEF m, r
  <2>6. OrderGoes(pre, b, k, r, m)
    BY <2>1, <2>2, <2>3, <2>4 DEF OrderGoes, FitsOne
  <2>7. Good([x EXCEPT !.leg[b] = m], [pre EXCEPT ![k] = r], post)
    <3>1. AsOne(x)
      BY <2>2 DEF Good
    <3> QED BY <1>1, <2>2, <2>3, <2>4, <2>5, <2>6, <3>1, OrderLegGood DEF m
  <2> QED BY <2>1, <2>5, <2>7
<1>8. CASE PreSettled(k)
  <2>1. /\ s' = s /\ pre' = [pre EXCEPT ![k] = NoPre]
        /\ post' = post /\ o.phase = "lost"
    BY <1>8 DEF PreSettled, PreAfter
  <2>2. k \in AtWork(pre, b) /\ FitsOne(l, k, o)
    BY <1>2, <2>1
  <2>3. FitsNone(l)
    BY <2>1, <2>2 DEF FitsOne, FitsNone
  <2>4. OrderGoes(pre, b, k, NoPre, l)
    BY <1>3, <2>3 DEF OrderGoes
  <2>5. Good([s EXCEPT !.leg[b] = l], [pre EXCEPT ![k] = NoPre], post)
    BY <1>1, <1>3, <2>2, <2>4, OrderGood
  <2> QED BY <1>4, <2>1, <2>5
<1>9. ASSUME NEW q \in 1 .. Per, PreFill(k, q) PROVE Good(s', pre', post')
  <2> DEFINE g == o.filled + q
  <2>1. /\ o.phase = "open" /\ g <= o.qty /\ Hedge(s, k, q)
        /\ PreAfter(k, g, g = o.qty)
        /\ s' \in {Forget(TakeFill(s, k, q), k), TakeFill(s, k, q)}
    BY <1>9 DEF PreFill
  <2>2. q \in Nat /\ q > 0
    BY SizesAssumption
  <2>3. k \in AtWork(pre, b) /\ ~Excess(s, k, q)
    BY <1>1, <1>2, <2>1, <2>2, NoExcess
  <2>4. pre' = [pre EXCEPT ![k] = After(pre, k, g)]
    BY <2>1 DEF PreAfter, After
  <2>5. Good(TakeFill(s, k, q), pre', post')
    BY <1>1, <2>1, <2>2, <2>3, <2>4, TakeGood
  <2> QED BY <2>1, <2>5, ForgetGood
<1>10. ASSUME NEW how \in {"cancelled", "rejected"}, PreEnds(k, how)
       PROVE  Good(s', pre', post')
  <2>1. /\ o.phase = "open" /\ (how = "rejected" => o.filled = 0)
        /\ s' = Forget(EndOfPre(s, k, how), k)
        /\ pre' = [pre EXCEPT ![k] = NoPre] /\ post' = post
    BY <1>10 DEF PreEnds, PreAfter
  <2>2. k \in AtWork(pre, b) /\ (how = "cancelled" \/ o.filled = 0)
    BY <1>2, <1>10, <2>1
  <2>3. Good(EndOfPre(s, k, how), [pre EXCEPT ![k] = NoPre], post)
    BY <1>1, <2>1, <2>2, EndOfPreGood
  <2> QED BY <2>1, <2>3, ForgetGood
<1>11. CASE PreVanishes(k)
  <2>1. /\ o.phase = "open" /\ pre' = [pre EXCEPT ![k] = NoPre] /\ post' = post
        /\ s' = Forget(IF l.id = k THEN OnPreCancelled(s, b) ELSE s, k)
    BY <1>11 DEF PreVanishes, PreAfter
  <2>2. k \in AtWork(pre, b) /\ l.id = k
    BY <1>2, <2>1 DEF FitsOne
  <2>3. Good(OnPreCancelled(s, b), pre', post')
    BY <1>1, <2>1, <2>2, CancelledGood
  <2> QED BY <2>1, <2>2, <2>3, ForgetGood
<1>12. CASE CancelFails(k)
  <2>1. /\ pre' = pre /\ post' = post
        /\ s' \in {Forget(OnPreCancelFailed(s, b), k), Forget(s, k)}
    BY <1>12 DEF CancelFails
  <2> QED BY <1>1, <2>1, CancelFailedGood, ForgetGood
<1>13. CASE CancelReturns(k)
  BY <1>13, ForgetGood DEF CancelReturns
<1> QED BY <1>5, <1>6, <1>7, <1>8, <1>9, <1>10, <1>11, <1>12, <1>13
        DEF Answer, PreReport

LEMMA PostStepGood ==
  ASSUME Calm, Good(s, pre, post), NEW i \in Posts, PostReport(i)
  PROVE  Good(s', pre', post')
<1> DEFINE o == post[i]
           b == o.block
           w == s.leg[b].post
           y(q) == [s EXCEPT !.leg[b].post = Minus(w, q)]
           z(q) == [ApplyHl(s, b, q) EXCEPT !.leg[b].post = Minus(w, q)]
           r(q) == IF q = o.left THEN NoPost ELSE [o EXCEPT !.left = o.left - q]
<1>1. /\ PostsOK(post) /\ o \in PostOrder /\ b \in Block /\ s \in SetRecord
      /\ o.left \in Nat /\ o.call = 0 /\ w = AllDue(post, b)
      /\ o.phase # "none" => o.phase # "failed" /\ o.left > 0
  BY DEF Good, PostsOK, PostOrder, Final
<1>2. NoPost \in PostOrder /\ Ended(o) = NoPost
  BY <1>1 DEF NoPost, PostOrder, PostPhase, Block, Ended
<1>3. \A q \in Nat : /\ OnPostReject(s, b, q) = FinishIfDone(y(q), b)
                     /\ OnPostFill(s, b, q) = FinishIfDone(z(q), b)
  BY DEF OnPostReject, OnPostFill, ApplyHl
<1>4. \A q \in Nat : Minus(w, q) \in Nat
  <2>1. w \in Nat
    BY <1>1, LegIs DEF Leg
  <2> HIDE DEF w
  <2> QED BY <2>1, MinusNat
<1>5. \A q \in Nat :
        /\ y(q) \in SetRecord /\ y(q).held = s.held
        /\ y(q).leg = [s.leg EXCEPT ![b].post = Minus(s.leg[b].post, q)]
        /\ z(q) \in SetRecord /\ z(q).held = s.held
        /\ z(q).leg = [s.leg EXCEPT ![b].post = Minus(s.leg[b].post, q)]
  <2> SUFFICES ASSUME NEW q \in Nat
               PROVE /\ y(q) \in SetRecord /\ y(q).held = s.held
        /\ y(q).leg = [s.leg EXCEPT ![b].post = Minus(s.leg[b].post, q)]
        /\ z(q) \in SetRecord /\ z(q).held = s.held
        /\ z(q).leg = [s.leg EXCEPT ![b].post = Minus(s.leg[b].post, q)]
    OBVIOUS
  <2> DEFINE v == Minus(s.leg[b].post, q)
             m == [s.leg[b] EXCEPT !.post = v]
             n == [s.leg EXCEPT ![b] = m]
             d == IF b = "entry" THEN s.diff - q ELSE s.diff + q
  <2>1. v \in Nat
    BY <1>4
  <2> HIDE DEF v
  <2>2. m \in Leg
    BY <1>1, <2>1, LegIs DEF Leg
  <2>3. n \in [Block -> Leg]
    BY <1>1, <2>2 DEF SetRecord
  <2>4. d \in Int
    BY <1>1 DEF SetRecord
  <2>5. y(q) = [s EXCEPT !.leg = n] /\ z(q) = [s EXCEPT !.leg = n, !.diff = d]
    BY <1>1 DEF v, ApplyHl, SetRecord
  <2>6. n = [s.leg EXCEPT ![b].post = v]
    OBVIOUS
  <2> HIDE DEF n, d, y, z
  <2>7. /\ y(q) \in SetRecord /\ y(q).held = s.held /\ y(q).leg = n
        /\ z(q) \in SetRecord /\ z(q).held = s.held /\ z(q).leg = n
    BY <1>1, <2>3, <2>4, <2>5 DEF SetRecord
  <2> QED BY <2>6, <2>7 DEF v
<1> HIDE DEF y, z
<1>6. ASSUME NEW q \in Nat, q > 0, q <= o.left, o.phase \in {"sent", "open"}
      PROVE  /\ Good(OnPostReject(s, b, q), pre, [post EXCEPT ![i] = r(q)])
             /\ Good(OnPostFill(s, b, q), pre, [post EXCEPT ![i] = r(q)])
  <2>1. r(q) \in PostOrder
    BY <1>1, <1>2, <1>6 DEF PostOrder
  <2>2. /\ Good(FinishIfDone(y(q), b), pre, [post EXCEPT ![i] = r(q)])
        /\ Good(FinishIfDone(z(q), b), pre, [post EXCEPT ![i] = r(q)])
    <3> DEFINE R == r(q)
    <3>1. R = IF q = post[i].left THEN NoPost
              ELSE [post[i] EXCEPT !.left = post[i].left - q]
      OBVIOUS
    <3> HIDE DEF R
    <3>2. R \in PostOrder
      BY <2>1 DEF R
    <3>3. /\ Good(FinishIfDone(y(q), b), pre, [post EXCEPT ![i] = R])
          /\ Good(FinishIfDone(z(q), b), pre, [post EXCEPT ![i] = R])
      BY <1>5, <1>6, <3>1, <3>2, DownGood
    <3> QED BY <3>3 DEF R
  <2> QED BY <1>3, <2>2
<1>7. o.phase \in {"sent", "open"}
          => Good(OnPostReject(s, b, o.left), pre, [post EXCEPT ![i] = NoPost])
  <2> SUFFICES ASSUME o.phase \in {"sent", "open"}
               PROVE  Good(OnPostReject(s, b, o.left), pre,
                           [post EXCEPT ![i] = NoPost])
    OBVIOUS
  <2>1. o.left > 0 /\ o.left <= o.left
    BY <1>1
  <2>2. Good(OnPostReject(s, b, o.left), pre, [post EXCEPT ![i] = r(o.left)])
    BY <1>1, <1>6, <2>1
  <2>3. r(o.left) = NoPost
    OBVIOUS
  <2> QED BY <2>2, <2>3
<1>8. CASE PostFails(i)
  <2>1. /\ o.phase = "sent" /\ s' = OnPostReject(s, b, o.left) /\ pre' = pre
        /\ post' = [post EXCEPT ![i] = NoPost]
    BY <1>8 DEF PostFails, Calm
  <2> QED BY <1>7, <2>1
<1>9. CASE PostOpens(i)
  <2> DEFINE R == [o EXCEPT !.phase = "open", !.call = 0]
  <2>1. /\ o.phase = "sent" /\ s' = s /\ pre' = pre
        /\ post' = [post EXCEPT ![i] = R]
    BY <1>1, <1>9 DEF PostOpens, Calm, PostsOK
  <2>2. R \in PostOrder /\ R.call = 0 /\ R.phase = "open" /\ R.left = o.left
        /\ R.block = b
    BY <1>1 DEF PostOrder, PostPhase
  <2> HIDE DEF R
  <2>3. ASSUME NEW c \in Block PROVE AllDue(post', c) = AllDue(post, c)
    <3>1. Due(R, c) = Due(o, c)
      BY <1>1, <2>1, <2>2 DEF Due
    <3>2. /\ AllDue(post, c) \in Nat /\ Due(post[i], c) \in Nat
          /\ AllDue([post EXCEPT ![i] = R], c)
               = AllDue(post, c) - Due(post[i], c) + Due(R, c)
      BY <1>1, <2>2, DueOfOne
    <3> QED BY <2>1, <3>1, <3>2
  <2>4. \A j \in Posts : post'[j] = IF j = i THEN R ELSE post[j]
    BY <1>1, <2>1 DEF PostsOK
  <2>5. PostsOK(post')
    BY <1>1, <2>1, <2>2 DEF PostsOK
  <2>6. Final(post')
    BY <1>1, <2>1, <2>2, <2>4 DEF Good, Final
  <2> QED BY <2>1, <2>3, <2>5, <2>6 DEF Good
<1>10. CASE CallFails(i) \/ PostRevives(i) \/ PostForgotten(i)
  BY <1>1, <1>10 DEF CallFails, PostRevives, PostForgotten
<1>11. ASSUME NEW q \in 1 .. Per * Ratio, PostFill(i, q)
       PROVE  Good(s', pre', post')
  <2>1. q \in Nat /\ q > 0
    <3> DEFINE n == Per * Ratio
    <3>1. n \in Nat
      BY ProductNat, SizesAssumption
    <3>2. q \in 1 .. n
      OBVIOUS
    <3> HIDE DEF n
    <3> QED BY <3>1, <3>2
  <2>2. /\ o.phase = "open" /\ q <= o.left /\ pre' = pre
        /\ s' = OnPostFill(s, b, q) /\ post' = [post EXCEPT ![i] = r(q)]
    BY <1>2, <1>11 DEF PostFill
  <2> QED BY <1>6, <2>1, <2>2
<1>12. CASE PostEnds(i)
  <2>1. /\ o.phase = "open" /\ s' = OnPostReject(s, b, o.left) /\ pre' = pre
        /\ post' = [post EXCEPT ![i] = NoPost]
    BY <1>2, <1>12 DEF PostEnds
  <2> QED BY <1>7, <2>1
<1>13. CASE PostVanishes(i)
  <2>1. /\ o.phase = "open" /\ o.left > 0 /\ Hedging(b) = {i}
        /\ s' = IF w > 0 THEN OnPostReject(s, b, w) ELSE s
        /\ pre' = pre /\ post' = [post EXCEPT ![i] = NoPost]
    BY <1>2, <1>13 DEF PostVanishes, Calm
  <2> DEFINE Q2 == [post EXCEPT ![i] = NoPost]
  <2>2. /\ PostsOK(Q2) /\ \A j \in Posts : Q2[j] = IF j = i THEN NoPost ELSE post[j]
    BY <1>1, <1>2 DEF PostsOK
  <2>3. \A j \in Posts : Due(Q2[j], b) = 0
    BY <2>1, <2>2 DEF Due, NoPost, Hedging
  <2>4. AllDue(Q2, b) = 0
    <3> HIDE DEF Q2
    <3> QED BY <1>1, <2>2, <2>3, DueOfNone
  <2>5. Due(o, b) = o.left /\ Due(NoPost, b) = 0
    BY <2>1 DEF Due, NoPost
  <2>6. /\ AllDue(post, b) \in Nat
        /\ AllDue(Q2, b) = AllDue(post, b) - Due(o, b) + Due(NoPost, b)
    BY <1>1, <1>2, DueOfOne
  <2>7. w = o.left
    BY <1>1, <2>4, <2>5, <2>6
  <2> HIDE DEF w
  <2> QED BY <1>7, <2>1, <2>7
<1> QED BY <1>8, <1>9, <1>10, <1>11, <1>12, <1>13 DEF PostReport

LEMMA CommandGood ==
  ASSUME Calm, Good(s, pre, post), Command
  PROVE  Good(s', pre', post')
<1>1. ASSUME NEW b \in Block, CommandOn(b) PROVE Good(s', pre', post')
  <2>1. /\ s' = SwitchOn(s, b) /\ pre' = pre /\ post' = post
        /\ AtWork(pre, b) = {} /\ ~Halted(s.leg["entry"])
    BY <1>1, TwoBlocks DEF CommandOn, Calm, Working, AtWork
  <2> QED BY <2>1, SwitchOnGood
<1>2. ASSUME NEW b \in Block, CommandOff(b) PROVE Good(s', pre', post')
  BY <1>2, SwitchOffGood DEF CommandOff
<1>3. CASE Release
  <2>1. /\ s' = ReleaseHalt(s) /\ pre' = pre /\ post' = post
        /\ \A b \in Block : Working(b) = {} /\ Hedging(b) = {}
    BY <1>3 DEF Release, Calm
  <2>2. ASSUME NEW b \in Block
        PROVE  AtWork(pre, b) = {} /\ AllDue(post, b) = 0
    <3>1. AtWork(pre, b) = {}
      BY <2>1 DEF Working, AtWork
    <3>2. \A i \in Posts : Due(post[i], b) = 0
      BY <2>1 DEF Hedging, Due
    <3> QED BY <3>1, <3>2, DueOfNone DEF Good
  <2> QED BY <2>1, <2>2, ReleaseGood
<1>4. CASE Clear
  <2>1. s \in SetRecord
    BY DEF Good
  <2>2. s' \in SetRecord /\ s'.leg = s.leg /\ s'.held = s.held
    BY <1>4, <2>1 DEF Clear, ClearDiff, SetRecord
  <2>3. pre' = pre /\ post' = post
    BY <1>4 DEF Clear
  <2> QED BY <2>2, <2>3, SameLegsGood
<1> QED BY <1>1, <1>2, <1>3, <1>4 DEF Command

LEMMA StepGood ==
  ASSUME Calm, Good(s, pre, post), [Next]_vars
  PROVE  Good(s', pre', post')
<1>1. ASSUME NEW b \in Block, Eval(b) PROVE Good(s', pre', post')
  <2>1. CASE EvalPlace(b)
    BY <2>1, PlaceGood
  <2>2. CASE EvalHalted(b) \/ EvalOff(b) \/ EvalShut(b) \/ EvalHold(b)
             \/ EvalReplace(b)
    <3>1. Good(s', pre, post)
      BY <2>2, EvalGood
    <3>2. pre' = pre /\ post' = post
      BY <2>2 DEF EvalHalted, EvalOff, EvalShut, EvalHold, EvalReplace
    <3> QED BY <3>1, <3>2
  <2> QED BY <1>1, <2>1, <2>2 DEF Eval
<1>2. CASE UNCHANGED vars
  BY <1>2 DEF vars
<1> QED BY <1>1, <1>2, TaskGood, PreStepGood, PostStepGood, CommandGood DEF Next

LEMMA InitGood == Init => Good(s, pre, post)
<1> SUFFICES ASSUME Init PROVE Good(s, pre, post)
  OBVIOUS
<1>1. IInv
  BY InitIInv
<1>2. /\ s \in SetRecord /\ AsOne(s) /\ PresOK(pre) /\ PostsOK(post)
  BY <1>1 DEF IInv, TypeOK, HaltedAsOne, AsOne, PresOK, PostsOK
<1>3. \A k \in Pres : pre[k].phase = "none"
  BY DEF Init, NoPre
<1>4. \A i \in Posts : post[i].phase = "none" /\ post[i].call = 0
  BY DEF Init, NoPost
<1>5. InRoom(pre, s.held) /\ Final(post)
  BY <1>3, <1>4 DEF InRoom, Final
<1>6. ASSUME NEW b \in Block
      PROVE  LegFits(s.leg[b], pre, b) /\ s.leg[b].post = AllDue(post, b)
  <2>1. AtWork(pre, b) = {}
    BY <1>3 DEF AtWork
  <2>2. s.leg[b] = NewLeg
    BY DEF Init, Restored
  <2>3. FitsNone(NewLeg) /\ NewLeg.post = 0
    BY DEF FitsNone, NewLeg, NoOrder, Rests
  <2>4. \A i \in Posts : Due(post[i], b) = 0
    BY <1>4 DEF Due
  <2>5. AllDue(post, b) = 0
    BY <1>2, <2>4, DueOfNone
  <2> QED BY <2>1, <2>2, <2>3, <2>5 DEF LegFits
<1> QED BY <1>2, <1>5, <1>6 DEF Good

-----------------------------------------------------------------------------
(* The theorems.                                                           *)

LEMMA GoodIsCalm == CalmInv /\ IInv <=> Good(s, pre, post) /\ IInv
BY DEF CalmInv, Good, IInv, TypeOK, HaltedAsOne, AsOne, PresOK, PostsOK

(* Where a person waits and every answer is final, the legs always fit     *)
(* the orders at work, and what they wait for is what is due of the        *)
(* hedges (on_pre_ack, on_pre_reject, on_pre_fill, on_pre_cancelled,       *)
(* on_post_fill, on_post_reject).                                          *)
THEOREM CalmSound == ASSUME Calm PROVE Spec => []CalmInv
<1>1. Init => CalmInv
  BY InitGood DEF Good, CalmInv
<1>2. CalmInv /\ IInv /\ [Next]_vars => CalmInv'
  <2> SUFFICES ASSUME CalmInv, IInv, [Next]_vars PROVE CalmInv'
    OBVIOUS
  <2>1. Good(s', pre', post')
    BY GoodIsCalm, StepGood
  <2> QED BY <2>1 DEF Good, CalmInv
<1> QED BY <1>1, <1>2, Safety, PTL DEF Spec

(* There a leg never has two orders at work (evaluate places only while    *)
(* no order is known and no call under way; replace_pending).              *)
THEOREM OneOrder == ASSUME Calm PROVE Spec => []OnePreOrder
<1>1. CalmInv => OnePreOrder
  <2> SUFFICES ASSUME CalmInv, NEW b \in Block
               PROVE  Cardinality(Working(b)) <= 1
    BY DEF OnePreOrder
  <2>1. Working(b) = AtWork(pre, b)
    BY DEF Working, AtWork
  <2>2. AtWork(pre, b) = {} \/ \E k \in Pres : AtWork(pre, b) = {k}
    BY DEF CalmInv, LegFits
  <2>3. CASE AtWork(pre, b) = {}
    BY <2>1, <2>3, FS_EmptySet
  <2>4. CASE \E k \in Pres : AtWork(pre, b) = {k}
    <3>1. PICK k \in Pres : Working(b) = {k}
      BY <2>1, <2>4
    <3>2. Cardinality({k}) = 1
      BY FS_Singleton
    <3> QED BY <3>1, <3>2
  <2> QED BY <2>2, <2>3, <2>4
<1> QED BY <1>1, CalmSound, PTL

(* What is at work never exceeds the room below the target, nor what is    *)
(* held, whatever is filled meanwhile (order_qty, _apply_rt).              *)
THEOREM Fits == ASSUME Calm PROVE Spec => []OrdersFit
<1>1. CalmInv => OrdersFit
  BY DEF CalmInv, InRoom, OrdersFit
<1> QED BY <1>1, CalmSound, PTL

(* A leg waits only for what can still come: the end of an order at work,  *)
(* or a hedge that is pending (replace_pending, await_post_then_delay).    *)
THEOREM WaitsAnswered == ASSUME Calm PROVE Spec => []WaitIsAnswered
<1>1. ASSUME IInv, CalmInv PROVE WaitIsAnswered
  <2> SUFFICES ASSUME NEW b \in Block, ~Halted(s.leg[b])
               PROVE
         /\ s.leg[b].replace => s.leg[b].id \in Working(b) \/ s.leg[b].post > 0
         /\ s.leg[b].await \/ s.leg[b].status = "post_pending" => s.leg[b].post > 0
         /\ s.leg[b].status \in {"pre_resting", "pre_partial"}
              => Working(b) # {} \/ s.leg[b].post > 0
    BY DEF WaitIsAnswered
  <2>1. Working(b) = AtWork(pre, b)
    BY DEF Working, AtWork
  <2>2. CASE AtWork(pre, b) = {} /\ FitsNone(s.leg[b])
    BY <2>2 DEF FitsNone, Rests, Halted
  <2>3. CASE \E k \in Pres : AtWork(pre, b) = {k} /\ FitsOne(s.leg[b], k, pre[k])
    <3>1. PICK k \in Pres : AtWork(pre, b) = {k} /\ FitsOne(s.leg[b], k, pre[k])
      BY <2>3
    <3> QED BY <2>1, <3>1 DEF FitsOne
  <2> QED BY <1>1, <2>2, <2>3 DEF CalmInv, LegFits
<1> QED BY <1>1, CalmSound, Safety, PTL

(* What a leg waits for is exactly what its hedges have left to fill: no   *)
(* fill is hedged twice or never, and no ended hedge is waited for         *)
(* (post_pending, through _place_post, on_post_fill, on_post_reject).      *)
THEOREM PendingHedged == ASSUME Calm PROVE Spec => []PendingIsHedged
<1>1. CalmInv => PendingIsHedged
  BY DEF CalmInv, PendingIsHedged
<1> QED BY <1>1, CalmSound, PTL

=============================================================================
