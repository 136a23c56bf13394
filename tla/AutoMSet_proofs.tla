-------------------------- MODULE AutoMSet_proofs --------------------------
(***************************************************************************)
(* What every handler of a set keeps, for every size, ratio and limit.     *)
(***************************************************************************)
EXTENDS AutoMSet, WellFoundedInduction, TLAPS

(* The parts of the invariants that speak of the set alone.                *)
AsOne(s) ==
  /\ Halted(s.leg["exit"]) => Halted(s.leg["entry"])
  /\ Halted(s.leg["entry"]) => \A b \in Block : ~s.leg[b].running
InLimit(s) == SetPostDone(s) /\ ~Halted(s.leg["entry"]) => ~OverLimit(s.diff)
Sticks(s, t) ==
  /\ \A b \in Block : Halted(s.leg[b]) => Halted(t.leg[b])
  /\ Halted(t.leg["entry"]) => Halted(s.leg["entry"]) \/ Halted(t.leg["exit"])

(* t has the ledger of s, and waits for the same hedges.                   *)
SameLedger(s, t) ==
  t.diff = s.diff /\ \A b \in Block : t.leg[b].post = s.leg[b].post

(* t halts what s halts, and nothing else; it switches on no leg of a      *)
(* halted set.                                                             *)
SameHalt(s, t) ==
  /\ \A b \in Block : Halted(t.leg[b]) <=> Halted(s.leg[b])
  /\ Halted(s.leg["entry"]) =>
       \A b \in Block : t.leg[b].running => s.leg[b].running

(* A handler that leaves the ledger, the hedges and the halts alone.       *)
Mild(s, t) == t \in SetRecord /\ SameLedger(s, t) /\ SameHalt(s, t)

(* What a handler that takes s to t keeps.                                 *)
Keeps(s, t) ==
  /\ t \in SetRecord /\ AsOne(t) /\ Sticks(s, t)
  /\ InLimit(s) => InLimit(t)

-----------------------------------------------------------------------------
(* Arithmetic.                                                             *)

LEMMA ProductPositive ==
  ASSUME NEW q \in Nat, q > 0 PROVE q * Ratio \in Nat /\ q * Ratio > 0
BY RatioAssumption

LEMMA ProductNat == ASSUME NEW q \in Nat PROVE q * Ratio \in Nat
<1>1. CASE q = 0
  BY <1>1, RatioAssumption
<1>2. CASE q > 0
  BY <1>2, ProductPositive
<1> QED BY <1>1, <1>2

LEMMA MinusNat == ASSUME NEW a \in Nat, NEW c \in Nat PROVE Minus(a, c) \in Nat
BY DEF Minus

LEMMA QtyNat ==
  ASSUME NEW s \in SetRecord, NEW b \in Block PROVE OrderQty(s, b) \in Nat
BY SizesAssumption DEF OrderQty, SetRecord

LEMMA ZeroWithin == ~OverLimit(0)
<1>1. Per * Ratio \in Nat /\ Per * Ratio > 0
  BY ProductPositive, SizesAssumption
<1> QED BY <1>1 DEF OverLimit

-----------------------------------------------------------------------------
(* One leg.                                                                *)

LEMMA ClearPreLeg ==
  ASSUME NEW l \in Leg
  PROVE  /\ ClearPre(l) \in Leg /\ ClearPre(l).status = l.status
         /\ ClearPre(l).post = l.post /\ ClearPre(l).running = l.running
BY DEF ClearPre, Leg, NoOrder

LEMMA StartDelayLeg ==
  ASSUME NEW l \in Leg
  PROVE  /\ StartDelay(l) \in Leg /\ StartDelay(l).status = "settle_delay"
         /\ StartDelay(l).post = l.post /\ StartDelay(l).running = l.running
BY ClearPreLeg DEF StartDelay, Leg, LegStatus

LEMMA StoppedLeg ==
  ASSUME NEW l \in Leg
  PROVE  /\ Stopped(l) \in Leg /\ Halted(Stopped(l)) /\ Stopped(l).post = l.post
         /\ ~Stopped(l).running
BY DEF Stopped, Leg, LegStatus, Halted

(* A set with leg b replaced by l.                                         *)
LEMMA SetLeg ==
  ASSUME NEW s \in SetRecord, NEW b \in Block, NEW l \in Leg
  PROVE  LET t == [s EXCEPT !.leg[b] = l]
         IN /\ t \in SetRecord /\ t.leg[b] = l /\ t.leg[Other(b)] = s.leg[Other(b)]
            /\ t.diff = s.diff /\ t.held = s.held /\ t.asked = s.asked
BY DEF SetRecord, Block, Other

LEMMA TwoBlocks ==
  ASSUME NEW b \in Block
  PROVE  /\ Other(b) \in Block /\ Other(b) # b
         /\ \A c \in Block : c = b \/ c = Other(b)
         /\ "entry" \in Block /\ "exit" \in Block
BY DEF Block, Other

LEMMA MildKeeps ==
  ASSUME NEW s, NEW t, AsOne(s), Mild(s, t)
  PROVE  Keeps(s, t)
BY DEF Mild, Keeps, AsOne, InLimit, Sticks, SameLedger, SameHalt, SetPostDone,
       PostDone, Block

LEMMA MildMild ==
  ASSUME NEW s, NEW t, NEW u, Mild(s, t), Mild(t, u)
  PROVE  Mild(s, u)
<1>1. SameLedger(s, u)
  BY DEF Mild, SameLedger
<1>2. SameHalt(s, u)
  BY TwoBlocks DEF Mild, SameHalt
<1> QED BY <1>1, <1>2 DEF Mild

LEMMA MildAsOne ==
  ASSUME NEW s, NEW t, AsOne(s), Mild(s, t)
  PROVE  t \in SetRecord /\ AsOne(t)
BY DEF Mild, AsOne, SameHalt, Block

(* Leg b is replaced by one that waits for as many hedges and is halted    *)
(* as it was, and switched on only in a set that is not halted.            *)
LEMMA MildLeg ==
  ASSUME NEW s \in SetRecord, NEW b \in Block, NEW l \in Leg,
         l.post = s.leg[b].post, Halted(l) <=> Halted(s.leg[b]),
         Halted(s.leg["entry"]) => (l.running => s.leg[b].running)
  PROVE  Mild(s, [s EXCEPT !.leg[b] = l])
BY SetLeg, TwoBlocks DEF Mild, SameLedger, SameHalt

-----------------------------------------------------------------------------
(* Cancelling and halting.                                                 *)

LEMMA CancelMild ==
  ASSUME NEW s \in SetRecord, NEW b \in Block, NEW force \in BOOLEAN
  PROVE  Mild(s, CancelIfResting(s, b, force))
<1> DEFINE t == CancelIfResting(s, b, force)
           l == IF force THEN [s.leg[b] EXCEPT !.replace = FALSE] ELSE s.leg[b]
           m == [l EXCEPT !.sent = TRUE]
<1>1. s.leg[b] \in Leg
  BY DEF SetRecord
<1>2. /\ l \in Leg /\ l.post = s.leg[b].post /\ l.running = s.leg[b].running
      /\ Halted(l) <=> Halted(s.leg[b])
  <2>1. CASE force
    BY <1>1, <2>1 DEF Leg, Halted
  <2>2. CASE ~force
    BY <1>1, <2>2
  <2> QED BY <2>1, <2>2
<1>3. /\ m \in Leg /\ m.post = s.leg[b].post /\ m.running = s.leg[b].running
      /\ Halted(m) <=> Halted(s.leg[b])
  BY <1>2 DEF Leg, Halted
<1>4. \/ t = [s EXCEPT !.leg[b] = l]
      \/ t = [s EXCEPT !.leg[b] = m, !.asked = @ \cup {l.id}]
  BY DEF CancelIfResting
<1> HIDE DEF l, m, t
<1>5. ASSUME t = [s EXCEPT !.leg[b] = l] PROVE Mild(s, t)
  BY <1>2, <1>5, MildLeg
<1>6. ASSUME t = [s EXCEPT !.leg[b] = m, !.asked = @ \cup {l.id}]
      PROVE  Mild(s, t)
  <2> DEFINE u == [s EXCEPT !.leg[b] = m]
  <2>1. Mild(s, u)
    BY <1>3, MildLeg
  <2>2. l.id \in Nat
    BY <1>2 DEF Leg
  <2>3. t.leg = u.leg /\ t.diff = u.diff
    BY <1>6 DEF SetRecord
  <2>4. t \in SetRecord
    BY <1>3, <1>6, <2>2 DEF SetRecord
  <2> HIDE DEF u
  <2> QED BY <2>1, <2>3, <2>4 DEF Mild, SameLedger, SameHalt
<1> QED BY <1>4, <1>5, <1>6 DEF t

(* A cancel request leaves the other leg alone.                            *)
LEMMA CancelOther ==
  ASSUME NEW s \in SetRecord, NEW b \in Block, NEW force \in BOOLEAN
  PROVE  CancelIfResting(s, b, force).leg[Other(b)] = s.leg[Other(b)]
<1> DEFINE l == IF force THEN [s.leg[b] EXCEPT !.replace = FALSE] ELSE s.leg[b]
           m == [l EXCEPT !.sent = TRUE]
           t == CancelIfResting(s, b, force)
<1>1. \/ t = [s EXCEPT !.leg[b] = l]
      \/ t = [s EXCEPT !.leg[b] = m, !.asked = @ \cup {l.id}]
  BY DEF CancelIfResting
<1>2. [s EXCEPT !.leg[b] = l].leg[Other(b)] = s.leg[Other(b)]
  BY TwoBlocks DEF SetRecord
<1>3. [s EXCEPT !.leg[b] = m, !.asked = @ \cup {l.id}].leg[Other(b)]
        = s.leg[Other(b)]
  BY TwoBlocks DEF SetRecord
<1> HIDE DEF l, m, t
<1>4. t.leg[Other(b)] = s.leg[Other(b)]
  BY <1>1, <1>2, <1>3
<1> QED BY <1>4 DEF t

LEMMA HaltSetHalts ==
  ASSUME NEW s \in SetRecord, NEW b \in Block
  PROVE  /\ HaltSet(s, b) \in SetRecord
         /\ \A c \in Block : Halted(HaltSet(s, b).leg[c])
         /\ AsOne(s) => \A c \in Block : ~HaltSet(s, b).leg[c].running
<1> DEFINE u == [s EXCEPT !.leg[b] = Stopped(s.leg[b])]
           o == Other(b)
           w == CancelIfResting(u, o, FALSE)
           v == [w EXCEPT !.leg[o] = Stopped(w.leg[o])]
<1>1. o \in Block /\ Other(o) = b /\ \A c \in Block : c = b \/ c = o
  BY DEF Other, Block
<1>2. /\ Stopped(s.leg[b]) \in Leg /\ Halted(Stopped(s.leg[b]))
      /\ ~Stopped(s.leg[b]).running
  BY StoppedLeg DEF SetRecord
<1>3. /\ u \in SetRecord /\ Halted(u.leg[b]) /\ u.leg[o] = s.leg[o]
      /\ ~u.leg[b].running
  BY <1>2, SetLeg
<1>4. HaltSet(s, b) = IF Halted(s.leg[o]) THEN u ELSE v
  BY DEF HaltSet
<1>8. AsOne(s) /\ Halted(s.leg[o]) => ~s.leg[o].running
  BY <1>1, TwoBlocks DEF AsOne, Block
<1> HIDE DEF u
<1>5. w \in SetRecord /\ Halted(w.leg[b]) /\ w.leg[b].running = u.leg[b].running
  <2>1. Mild(u, w)
    BY <1>1, <1>3, CancelMild
  <2>2. w.leg[b] = u.leg[b]
    <3>1. w.leg[Other(o)] = u.leg[Other(o)]
      BY <1>1, <1>3, CancelOther
    <3> QED BY <1>1, <3>1
  <2> QED BY <1>3, <2>1, <2>2 DEF Mild
<1> HIDE DEF w, o
<1>6. /\ Stopped(w.leg[o]) \in Leg /\ Halted(Stopped(w.leg[o]))
      /\ ~Stopped(w.leg[o]).running
  BY <1>1, <1>5, StoppedLeg DEF SetRecord
<1>7. /\ v \in SetRecord /\ Halted(v.leg[o]) /\ v.leg[b] = w.leg[b]
      /\ ~v.leg[o].running
  BY <1>1, <1>5, <1>6, SetLeg
<1> HIDE DEF v
<1> QED BY <1>1, <1>3, <1>4, <1>5, <1>7, <1>8

LEMMA HaltKeeps ==
  ASSUME NEW s \in SetRecord, NEW b \in Block, AsOne(s)
  PROVE  /\ Keeps(s, HaltSet(s, b))
         /\ InLimit(HaltSet(s, b))
BY HaltSetHalts, TwoBlocks DEF Keeps, AsOne, Sticks, InLimit

-----------------------------------------------------------------------------
(* The end of a round.                                                     *)

(* t follows s and is judged, whatever s was.                              *)
Settles(s, t) == t \in SetRecord /\ AsOne(t) /\ Sticks(s, t) /\ InLimit(t)

LEMMA SettlesKeeps ==
  ASSUME NEW s, NEW t, Settles(s, t) PROVE Keeps(s, t)
BY DEF Settles, Keeps

LEMMA ContinueMild ==
  ASSUME NEW s \in SetRecord, NEW b \in Block, ~Halted(s.leg[b])
  PROVE  Mild(s, Continue(s, b))
<1> DEFINE l == s.leg[b]
           m == [l EXCEPT !.await = FALSE]
           st == IF l.filled > 0 THEN "pre_partial" ELSE "pre_resting"
           n == [l EXCEPT !.status = st]
<1>1. l \in Leg
  BY DEF SetRecord
<1>2. m \in Leg /\ m.post = l.post /\ m.running = l.running
  BY <1>1 DEF Leg
<1>3. /\ StartDelay(m) \in Leg /\ StartDelay(m).post = l.post
      /\ ~Halted(StartDelay(m)) /\ StartDelay(m).running = l.running
  BY <1>2, StartDelayLeg DEF Halted
<1>4. n \in Leg /\ n.post = l.post /\ ~Halted(n) /\ n.running = l.running
  BY <1>1 DEF Leg, LegStatus, Halted
<1>5. \/ Continue(s, b) = [s EXCEPT !.leg[b] = StartDelay(m)]
      \/ Continue(s, b) = [s EXCEPT !.leg[b] = n]
  BY DEF Continue
<1> HIDE DEF m, n
<1> QED BY <1>3, <1>4, <1>5, MildLeg

LEMMA FinishSettles ==
  ASSUME NEW s \in SetRecord, NEW b \in Block, AsOne(s)
  PROVE  Settles(s, FinishIfDone(s, b))
<1> DEFINE t == FinishIfDone(s, b)
<1>1. CASE ~PostDone(s.leg[b])
  BY <1>1 DEF FinishIfDone, Settles, Sticks, InLimit, SetPostDone
<1>2. CASE Halted(s.leg[b]) /\ PostDone(s.leg[b])
  <2>1. t = s
    BY <1>2 DEF FinishIfDone, FinishRound
  <2>2. Halted(s.leg["entry"])
    BY <1>2, TwoBlocks DEF AsOne, Block
  <2> QED BY <2>1, <2>2 DEF Settles, Sticks, InLimit
<1>3. CASE PostDone(s.leg[b]) /\ ~Halted(s.leg[b])
  <2>1. CASE SetPostDone(s) /\ OverLimit(s.diff)
    <3>1. t = HaltSet(s, b)
      BY <1>3, <2>1 DEF FinishIfDone, FinishRound
    <3> QED BY <3>1, HaltKeeps DEF Settles, Keeps
  <2>2. CASE ~(SetPostDone(s) /\ OverLimit(s.diff))
    <3>1. t = Continue(s, b)
      BY <1>3, <2>2 DEF FinishIfDone, FinishRound
    <3>2. Mild(s, t)
      BY <1>3, <3>1, ContinueMild
    <3>3. Keeps(s, t)
      BY <3>2, MildKeeps
    <3>4. InLimit(s)
      BY <2>2 DEF InLimit
    <3> QED BY <3>3, <3>4 DEF Settles, Keeps
  <2> QED BY <2>1, <2>2
<1> QED BY <1>1, <1>2, <1>3

-----------------------------------------------------------------------------
(* The answers to a pre order.                                             *)

LEMMA OnPreAckMild ==
  ASSUME NEW s \in SetRecord, NEW b \in Block, NEW k \in Nat
  PROVE  Mild(s, OnPreAck(s, b, k))
<1> DEFINE l == [s.leg[b] EXCEPT !.id = k]
           t == [s EXCEPT !.leg[b] = l]
<1>1. s.leg[b] \in Leg
  BY DEF SetRecord
<1>2. /\ l \in Leg /\ l.post = s.leg[b].post /\ (Halted(l) <=> Halted(s.leg[b]))
      /\ l.running = s.leg[b].running
  BY <1>1 DEF Leg, Halted
<1>3. Mild(s, t)
  BY <1>2, MildLeg
<1>4. OnPreAck(s, b, k) = t \/ OnPreAck(s, b, k) = CancelIfResting(t, b, TRUE)
  BY DEF OnPreAck
<1> HIDE DEF t
<1>5. Mild(t, CancelIfResting(t, b, TRUE))
  BY <1>3, CancelMild DEF Mild
<1>6. Mild(s, CancelIfResting(t, b, TRUE))
  BY <1>3, <1>5, MildMild
<1> QED BY <1>3, <1>4, <1>6

LEMMA OnPreCancelFailedMild ==
  ASSUME NEW s \in SetRecord, NEW b \in Block
  PROVE  Mild(s, OnPreCancelFailed(s, b))
<1> DEFINE l == [s.leg[b] EXCEPT !.replace = FALSE, !.sent = FALSE]
<1>1. s.leg[b] \in Leg
  BY DEF SetRecord
<1>2. /\ l \in Leg /\ l.post = s.leg[b].post /\ (Halted(l) <=> Halted(s.leg[b]))
      /\ l.running = s.leg[b].running
  BY <1>1 DEF Leg, Halted
<1>3. OnPreCancelFailed(s, b) = [s EXCEPT !.leg[b] = l]
  BY DEF OnPreCancelFailed, SetRecord
<1> HIDE DEF l
<1> QED BY <1>2, <1>3, MildLeg

(* A rejection halts the set, or changes no ledger and no halt.            *)
LEMMA OnPreRejectEither ==
  ASSUME NEW s \in SetRecord, NEW b \in Block
  PROVE  \/ Mild(s, OnPreReject(s, b))
         \/ /\ OnPreReject(s, b) \in SetRecord
            /\ \A c \in Block : Halted(OnPreReject(s, b).leg[c])
            /\ AsOne(s) => \A c \in Block : ~OnPreReject(s, b).leg[c].running
<1> DEFINE l == ClearPre(s.leg[b])
           m == [l EXCEPT !.streak = l.streak + 1]
           t == [s EXCEPT !.leg[b] = m]
           u == [t EXCEPT !.leg = [c \in Block |->
                   [t.leg[c] EXCEPT !.streak = 0]]]
<1>1. /\ l \in Leg /\ l.post = s.leg[b].post /\ l.running = s.leg[b].running
      /\ Halted(l) <=> Halted(s.leg[b])
  BY ClearPreLeg DEF SetRecord, Halted
<1>2. /\ m \in Leg /\ m.post = s.leg[b].post /\ m.running = s.leg[b].running
      /\ Halted(m) <=> Halted(s.leg[b])
  BY <1>1 DEF Leg, Halted
<1>6. t \in SetRecord /\ Mild(s, t) /\ t.leg[b] = m
  <2> HIDE DEF m
  <2> QED BY <1>2, SetLeg, MildLeg
<1>3. CASE Halted(l)
  <2>1. OnPreReject(s, b) = [s EXCEPT !.leg[b] = l]
    BY <1>3 DEF OnPreReject
  <2> QED BY <1>1, <2>1, MildLeg
<1>4. CASE ~Halted(l) /\ l.streak + 1 >= RejectLimit
  <2>1. OnPreReject(s, b) = HaltSet(u, b)
    BY <1>4 DEF OnPreReject
  <2>2. t \in SetRecord /\ Mild(s, t)
    BY <1>6
  <2> HIDE DEF t
  <2>3. /\ u \in SetRecord
        /\ \A c \in Block : /\ u.leg[c].running = t.leg[c].running
                            /\ Halted(u.leg[c]) <=> Halted(t.leg[c])
    <3> DEFINE f == [c \in Block |-> [t.leg[c] EXCEPT !.streak = 0]]
    <3>1. ASSUME NEW c \in Block
          PROVE  /\ f[c] \in Leg /\ f[c].running = t.leg[c].running
                 /\ Halted(f[c]) <=> Halted(t.leg[c])
      <4>1. t.leg[c] \in Leg
        BY <2>2 DEF SetRecord
      <4> QED BY <4>1 DEF Leg, Halted
    <3>2. f \in [Block -> Leg]
      BY <3>1
    <3> HIDE DEF f
    <3>3. u \in SetRecord /\ u.leg = f
      BY <2>2, <3>2 DEF SetRecord, f
    <3> QED BY <3>1, <3>3
  <2> HIDE DEF u
  <2>4. AsOne(s) => AsOne(u)
    BY <2>2, <2>3, MildAsOne, TwoBlocks DEF AsOne
  <2> QED BY <2>1, <2>3, <2>4, HaltSetHalts
<1>5. CASE ~Halted(l) /\ ~(l.streak + 1 >= RejectLimit)
  <2>1. OnPreReject(s, b) = [t EXCEPT !.leg[b] = StartDelay(t.leg[b])]
    BY <1>5 DEF OnPreReject
  <2>2. Mild(s, t) /\ t.leg[b] = m
    BY <1>6
  <2>3. /\ StartDelay(m) \in Leg /\ StartDelay(m).post = m.post
        /\ ~Halted(StartDelay(m)) /\ StartDelay(m).running = m.running
    BY <1>2, StartDelayLeg DEF Halted
  <2>4. ~Halted(m)
    BY <1>1, <1>2, <1>5
  <2> HIDE DEF m, t
  <2>5. Mild(t, OnPreReject(s, b))
    BY <2>1, <2>2, <2>3, <2>4, MildLeg DEF Mild
  <2> QED BY <2>2, <2>5, MildMild
<1> QED BY <1>3, <1>4, <1>5

LEMMA OnPreRejectKeeps ==
  ASSUME NEW s \in SetRecord, NEW b \in Block, AsOne(s)
  PROVE  Keeps(s, OnPreReject(s, b))
<1>1. CASE Mild(s, OnPreReject(s, b))
  BY <1>1, MildKeeps
<1>2. CASE /\ OnPreReject(s, b) \in SetRecord
           /\ \A c \in Block : Halted(OnPreReject(s, b).leg[c])
           /\ AsOne(s) => \A c \in Block : ~OnPreReject(s, b).leg[c].running
  BY <1>2, TwoBlocks DEF Keeps, AsOne, Sticks, InLimit
<1> QED BY <1>1, <1>2, OnPreRejectEither

LEMMA ApplyRtSet ==
  ASSUME NEW s \in SetRecord, NEW b \in Block, NEW q \in Nat
  PROVE  /\ ApplyRt(s, b, q) \in SetRecord /\ ApplyRt(s, b, q).leg = s.leg
         /\ ApplyRt(s, b, q).diff = IF b = "entry" THEN s.diff + q * Ratio
                                    ELSE s.diff - q * Ratio
<1> DEFINE h == q * Ratio
           u == ApplyRt(s, b, q)
<1>1. h \in Nat
  BY ProductNat
<1>2. u = IF b = "entry" THEN [s EXCEPT !.held = @ + q, !.diff = @ + h]
          ELSE [s EXCEPT !.held = Minus(@, q), !.diff = @ - h]
  BY DEF ApplyRt
<1> HIDE DEF h, u
<1>3. s.held + q \in Nat /\ Minus(s.held, q) \in Nat
  <2>1. s.held \in Nat
    BY DEF SetRecord
  <2>2. Minus(s.held, q) \in Nat
    BY <2>1, MinusNat
  <2> QED BY <2>1, <2>2
<1>4. s.diff + h \in Int /\ s.diff - h \in Int
  BY <1>1 DEF SetRecord
<1>5. u \in SetRecord /\ u.leg = s.leg
  BY <1>2, <1>3, <1>4 DEF SetRecord
<1>6. u.diff = IF b = "entry" THEN s.diff + h ELSE s.diff - h
  BY <1>2 DEF SetRecord
<1> QED BY <1>5, <1>6 DEF h, u

LEMMA OnPreFillSettles ==
  ASSUME NEW s \in SetRecord, NEW b \in Block, NEW q \in Nat, q > 0, AsOne(s)
  PROVE  Settles(s, OnPreFill(s, b, q))
<1> DEFINE h == q * Ratio
           l == [s.leg[b] EXCEPT !.filled = @ + q, !.streak = 0,
                                 !.post = @ + h]
           n == IF Halted(l) THEN "halted"
                ELSE IF Full(l) THEN "post_pending" ELSE "pre_partial"
           m == [l EXCEPT !.status = n]
           u == ApplyRt(s, b, q)
           t == [u EXCEPT !.leg[b] = m]
<1>1. h \in Nat /\ h > 0
  BY ProductPositive
<1>2. OnPreFill(s, b, q) = t
  BY DEF OnPreFill
<1>3. u \in SetRecord /\ u.leg = s.leg
  BY ApplyRtSet
<1> HIDE DEF h, u
<1>4. s.leg[b] \in Leg
  BY DEF SetRecord
<1>5. /\ l \in Leg /\ l.post > 0 /\ l.status = s.leg[b].status
      /\ l.running = s.leg[b].running
  <2>1. /\ s.leg[b].filled + q \in Nat /\ s.leg[b].post + h \in Nat
        /\ s.leg[b].post + h > 0
    BY <1>1, <1>4 DEF Leg
  <2> QED BY <1>4, <2>1 DEF Leg
<1> HIDE DEF l
<1>6. /\ m \in Leg /\ m.post > 0 /\ m.running = s.leg[b].running
      /\ Halted(m) <=> Halted(s.leg[b])
  BY <1>5 DEF Leg, LegStatus, Halted
<1> HIDE DEF m
<1>7. t \in SetRecord /\ t.leg[b] = m /\ t.leg[Other(b)] = s.leg[Other(b)]
  BY <1>3, <1>6, SetLeg
<1> HIDE DEF t
<1>8. ~SetPostDone(t)
  BY <1>6, <1>7 DEF SetPostDone, PostDone
<1>9. SameHalt(s, t)
  BY <1>6, <1>7, TwoBlocks DEF SameHalt
<1> QED BY <1>2, <1>7, <1>8, <1>9, TwoBlocks
        DEF Settles, AsOne, Sticks, InLimit, SameHalt

LEMMA OnPreCancelledMild ==
  ASSUME NEW s \in SetRecord, NEW b \in Block
  PROVE  Mild(s, OnPreCancelled(s, b))
<1> DEFINE l == [s.leg[b] EXCEPT !.streak = 0]
           c == ClearPre(l)
           free == IF l.running THEN "armed" ELSE "idle"
           w == [c EXCEPT !.await = TRUE]
           f == [c EXCEPT !.status = free]
<1>1. /\ l \in Leg /\ l.post = s.leg[b].post /\ (Halted(l) <=> Halted(s.leg[b]))
      /\ l.running = s.leg[b].running
  <2>1. s.leg[b] \in Leg
    BY DEF SetRecord
  <2> QED BY <2>1 DEF Leg, Halted
<1>2. \/ OnPreCancelled(s, b) = [s EXCEPT !.leg[b] = c]
      \/ /\ ~Halted(l)
         /\ \/ OnPreCancelled(s, b) = [s EXCEPT !.leg[b] = w]
            \/ OnPreCancelled(s, b) = [s EXCEPT !.leg[b] = StartDelay(l)]
            \/ OnPreCancelled(s, b) = [s EXCEPT !.leg[b] = f]
  BY DEF OnPreCancelled
<1> HIDE DEF l
<1>3. /\ c \in Leg /\ c.post = l.post /\ (Halted(c) <=> Halted(l))
      /\ c.running = l.running
  BY <1>1, ClearPreLeg DEF Halted
<1>4. /\ StartDelay(l) \in Leg /\ StartDelay(l).post = l.post
      /\ ~Halted(StartDelay(l)) /\ StartDelay(l).running = l.running
  BY <1>1, StartDelayLeg DEF Halted
<1> HIDE DEF c
<1>5. /\ w \in Leg /\ w.post = l.post /\ (Halted(w) <=> Halted(l))
      /\ w.running = l.running
  BY <1>3 DEF Leg, Halted
<1>6. f \in Leg /\ f.post = l.post /\ ~Halted(f) /\ f.running = l.running
  BY <1>3 DEF Leg, Halted, LegStatus
<1> HIDE DEF w, f
<1> QED BY <1>1, <1>2, <1>3, <1>4, <1>5, <1>6, MildLeg

-----------------------------------------------------------------------------
(* The answers to a post order.                                            *)

(* The hedges leg b waits for set to p, and the ledger to d.               *)
WithPost(s, b, p, d) == [s EXCEPT !.diff = d, !.leg[b].post = p]

LEMMA PostRecord ==
  ASSUME NEW s \in SetRecord, NEW b \in Block, NEW p \in Nat, NEW d \in Int,
         AsOne(s)
  PROVE  LET t == WithPost(s, b, p, d)
         IN /\ t \in SetRecord /\ AsOne(t) /\ SameHalt(s, t)
            /\ t.leg[b].post = p /\ t.leg[Other(b)] = s.leg[Other(b)]
            /\ t.diff = d
<1> DEFINE l == [s.leg[b] EXCEPT !.post = p]
           u == [s EXCEPT !.diff = d]
           t == [u EXCEPT !.leg[b] = l]
<1>1. s.leg[b] \in Leg
  BY DEF SetRecord
<1>2. /\ l \in Leg /\ l.post = p /\ (Halted(l) <=> Halted(s.leg[b]))
      /\ l.running = s.leg[b].running
  BY <1>1 DEF Leg, Halted
<1>3. u \in SetRecord /\ u.leg = s.leg /\ u.diff = d
  BY DEF SetRecord
<1>4. WithPost(s, b, p, d) = t
  BY <1>3 DEF SetRecord, WithPost
<1> HIDE DEF l, u
<1>5. /\ t \in SetRecord /\ t.leg[b] = l /\ t.diff = d
      /\ t.leg[Other(b)] = s.leg[Other(b)]
  BY <1>2, <1>3, SetLeg
<1> HIDE DEF t
<1>6. SameHalt(s, t)
  BY <1>2, <1>5, TwoBlocks DEF SameHalt
<1>7. AsOne(t)
  BY <1>6, TwoBlocks DEF AsOne, SameHalt
<1> QED BY <1>2, <1>4, <1>5, <1>6, <1>7

LEMMA OnPostFillSettles ==
  ASSUME NEW s \in SetRecord, NEW b \in Block, NEW q \in Nat, AsOne(s)
  PROVE  Settles(s, OnPostFill(s, b, q))
<1> DEFINE p == Minus(s.leg[b].post, q)
           d == IF b = "entry" THEN s.diff - q ELSE s.diff + q
           t == WithPost(s, b, p, d)
<1>1. p \in Nat
  <2>1. s.leg[b].post \in Nat
    BY DEF SetRecord, Leg
  <2> QED BY <2>1, MinusNat
<1>2. d \in Int
  BY DEF SetRecord
<1>3. OnPostFill(s, b, q) = FinishIfDone(t, b)
  <2>1. [ApplyHl(s, b, q) EXCEPT !.leg[b].post = Minus(@, q)] = t
    BY DEF ApplyHl, SetRecord, WithPost
  <2> QED BY <2>1 DEF OnPostFill
<1> HIDE DEF p, d
<1>4. t \in SetRecord /\ AsOne(t) /\ SameHalt(s, t)
  BY <1>1, <1>2, PostRecord
<1> HIDE DEF t
<1>5. Settles(t, FinishIfDone(t, b))
  BY <1>4, FinishSettles
<1> QED BY <1>3, <1>4, <1>5, TwoBlocks DEF Settles, Sticks, SameHalt

LEMMA OnPostRejectSettles ==
  ASSUME NEW s \in SetRecord, NEW b \in Block, NEW q \in Nat, AsOne(s)
  PROVE  Settles(s, OnPostReject(s, b, q))
<1> DEFINE p == Minus(s.leg[b].post, q)
           d == s.diff
           t == WithPost(s, b, p, d)
<1>1. p \in Nat
  <2>1. s.leg[b].post \in Nat
    BY DEF SetRecord, Leg
  <2> QED BY <2>1, MinusNat
<1>2. d \in Int
  BY DEF SetRecord
<1>3. OnPostReject(s, b, q) = FinishIfDone(t, b)
  <2>1. [s EXCEPT !.leg[b].post = Minus(@, q)] = t
    BY DEF SetRecord, WithPost
  <2> QED BY <2>1 DEF OnPostReject
<1> HIDE DEF p, d
<1>4. t \in SetRecord /\ AsOne(t) /\ SameHalt(s, t)
  BY <1>1, <1>2, PostRecord
<1> HIDE DEF t
<1>5. Settles(t, FinishIfDone(t, b))
  BY <1>4, FinishSettles
<1> QED BY <1>3, <1>4, <1>5, TwoBlocks DEF Settles, Sticks, SameHalt

LEMMA OnPostRecoveredKeeps ==
  ASSUME NEW s \in SetRecord, NEW b \in Block, NEW q \in Nat, AsOne(s)
  PROVE  Keeps(s, OnPostRecovered(s, b, q))
<1> DEFINE p == s.leg[b].post + q
           d == s.diff
           t == WithPost(s, b, p, d)
<1>1. p \in Nat /\ (p = 0 => s.leg[b].post = 0)
  BY DEF SetRecord, Leg
<1>2. d \in Int
  BY DEF SetRecord
<1>3. OnPostRecovered(s, b, q) = t
  BY DEF OnPostRecovered, SetRecord, WithPost
<1>4. d = s.diff
  OBVIOUS
<1> HIDE DEF p, d
<1>5. /\ t \in SetRecord /\ AsOne(t) /\ SameHalt(s, t)
      /\ t.leg[b].post = p /\ t.leg[Other(b)] = s.leg[Other(b)]
      /\ t.diff = d
  BY <1>1, <1>2, PostRecord
<1> HIDE DEF t
<1>6. SetPostDone(t) => SetPostDone(s)
  BY <1>1, <1>5, TwoBlocks DEF SetPostDone, PostDone
<1> QED BY <1>3, <1>4, <1>5, <1>6, TwoBlocks
        DEF Keeps, Sticks, SameHalt, InLimit

-----------------------------------------------------------------------------
(* The commands, and what the evaluation of a leg does to it.              *)

LEMMA SwitchOnMild ==
  ASSUME NEW s \in SetRecord, NEW b \in Block, ~Halted(s.leg["entry"])
  PROVE  Mild(s, SwitchOn(s, b))
<1> DEFINE st == IF s.leg[b].status = "idle" THEN "armed" ELSE s.leg[b].status
           l == [s.leg[b] EXCEPT !.running = TRUE, !.status = st]
<1>1. s.leg[b] \in Leg
  BY DEF SetRecord
<1>2. l \in Leg /\ l.post = s.leg[b].post /\ (Halted(l) <=> Halted(s.leg[b]))
  BY <1>1 DEF Leg, Halted, LegStatus
<1>3. SwitchOn(s, b) = [s EXCEPT !.leg[b] = l]
  BY DEF SwitchOn, SetRecord
<1> HIDE DEF l
<1> QED BY <1>2, <1>3, MildLeg

(* A leg taken to idle is not halted, and was not.                         *)
LEMMA IdleMild ==
  ASSUME NEW s \in SetRecord, NEW b \in Block, ~Halted(s.leg[b])
  PROVE  Mild(s, [s EXCEPT !.leg[b].status = "idle"])
<1> DEFINE l == [s.leg[b] EXCEPT !.status = "idle"]
<1>1. s.leg[b] \in Leg
  BY DEF SetRecord
<1>2. /\ l \in Leg /\ l.post = s.leg[b].post /\ ~Halted(l)
      /\ l.running = s.leg[b].running
  BY <1>1 DEF Leg, Halted, LegStatus
<1>3. [s EXCEPT !.leg[b].status = "idle"] = [s EXCEPT !.leg[b] = l]
  BY DEF SetRecord
<1> HIDE DEF l
<1> QED BY <1>2, <1>3, MildLeg

LEMMA SwitchOffMild ==
  ASSUME NEW s \in SetRecord, NEW b \in Block
  PROVE  Mild(s, SwitchOff(s, b))
<1> DEFINE l == [s.leg[b] EXCEPT !.running = FALSE]
           u == [s EXCEPT !.leg[b] = l]
           t == CancelIfResting(u, b, TRUE)
<1>1. s.leg[b] \in Leg
  BY DEF SetRecord
<1>2. /\ l \in Leg /\ l.post = s.leg[b].post /\ (Halted(l) <=> Halted(s.leg[b]))
      /\ ~l.running
  BY <1>1 DEF Leg, Halted
<1>3. \/ SwitchOff(s, b) = t
      \/ /\ ~Halted(t.leg[b])
         /\ SwitchOff(s, b) = [t EXCEPT !.leg[b].status = "idle"]
  <2>1. u = [s EXCEPT !.leg[b].running = FALSE]
    BY DEF SetRecord
  <2> HIDE DEF u
  <2> QED BY <2>1 DEF SwitchOff
<1> HIDE DEF l
<1>4. Mild(s, u)
  BY <1>2, MildLeg
<1> HIDE DEF u
<1>5. Mild(u, t)
  BY <1>4, CancelMild DEF Mild
<1>6. Mild(s, t)
  BY <1>4, <1>5, MildMild
<1> HIDE DEF t
<1>7. ~Halted(t.leg[b]) => Mild(t, [t EXCEPT !.leg[b].status = "idle"])
  BY <1>6, IdleMild DEF Mild
<1> QED BY <1>3, <1>6, <1>7, MildMild

LEMMA ReleaseAsOne ==
  ASSUME NEW s \in SetRecord
  PROVE  /\ ReleaseHalt(s) \in SetRecord /\ AsOne(ReleaseHalt(s))
         /\ ~Halted(ReleaseHalt(s).leg["entry"])
<1> DEFINE f == [b \in Block |->
                   IF Halted(s.leg[b])
                   THEN [ClearPre(s.leg[b]) EXCEPT
                           !.status = "idle", !.running = FALSE, !.post = 0,
                           !.await = FALSE]
                   ELSE s.leg[b]]
<1>1. ASSUME NEW b \in Block PROVE f[b] \in Leg /\ ~Halted(f[b])
  <2>1. s.leg[b] \in Leg /\ ClearPre(s.leg[b]) \in Leg
    BY ClearPreLeg DEF SetRecord
  <2> QED BY <2>1 DEF Leg, LegStatus, Halted
<1>2. ReleaseHalt(s) = [s EXCEPT !.leg = f]
  BY DEF ReleaseHalt
<1>3. f \in [Block -> Leg]
  BY <1>1
<1> HIDE DEF f
<1>4. ReleaseHalt(s) \in SetRecord /\ ReleaseHalt(s).leg = f
  BY <1>2, <1>3 DEF SetRecord
<1>5. ~Halted(f["entry"]) /\ ~Halted(f["exit"])
  BY <1>1 DEF Block
<1> QED BY <1>4, <1>5 DEF AsOne

LEMMA ClearJudged ==
  ASSUME NEW s \in SetRecord, AsOne(s)
  PROVE  Settles(s, ClearDiff(s))
<1> DEFINE t == ClearDiff(s)
<1>1. t \in SetRecord /\ t.leg = s.leg /\ t.diff = 0
  BY DEF ClearDiff, SetRecord
<1> HIDE DEF t
<1>2. AsOne(t) /\ Sticks(s, t)
  BY <1>1 DEF AsOne, Sticks
<1>3. InLimit(t)
  BY <1>1, ZeroWithin DEF InLimit
<1>4. Settles(s, t)
  BY <1>1, <1>2, <1>3 DEF Settles
<1> QED BY <1>4 DEF t

-----------------------------------------------------------------------------
(* _hold_repay.                                                            *)

(* A repayment that is not sent lifts a halt of the exit leg, and that is  *)
(* all that matters of it.                                                 *)
LEMMA HoldRepayLifts ==
  ASSUME NEW s \in SetRecord, AsOne(s)
  PROVE  LET t == HoldRepay(s)
         IN /\ t \in SetRecord /\ AsOne(t) /\ SameLedger(s, t)
            /\ t.leg["entry"] = s.leg["entry"] /\ t.held = s.held
            /\ t.asked = s.asked
            /\ t.leg["exit"] = [ClearPre(s.leg["exit"]) EXCEPT !.status = "armed"]
            /\ ~Halted(t.leg["exit"])
<1> DEFINE c == ClearPre(s.leg["exit"])
           l == [c EXCEPT !.status = "armed"]
           t == [s EXCEPT !.leg["exit"] = l]
<1>1. s.leg["exit"] \in Leg
  BY DEF SetRecord, Block
<1>2. c \in Leg /\ c.post = s.leg["exit"].post /\ c.running = s.leg["exit"].running
  BY <1>1, ClearPreLeg
<1> HIDE DEF c
<1>3. /\ l \in Leg /\ l.post = s.leg["exit"].post /\ ~Halted(l)
      /\ l.running = s.leg["exit"].running
  BY <1>2 DEF Leg, LegStatus, Halted
<1>4. HoldRepay(s) = t
  BY DEF HoldRepay, c
<1>5. "exit" \in Block /\ Other("exit") = "entry"
  BY DEF Block, Other
<1> HIDE DEF l
<1>6. /\ t \in SetRecord /\ t.leg["exit"] = l /\ t.leg["entry"] = s.leg["entry"]
      /\ t.diff = s.diff /\ t.held = s.held /\ t.asked = s.asked
  BY <1>3, <1>5, SetLeg
<1> HIDE DEF t
<1>7. AsOne(t) /\ SameLedger(s, t)
  BY <1>3, <1>6 DEF AsOne, SameLedger, Block
<1> QED BY <1>3, <1>4, <1>6, <1>7 DEF l, c

-----------------------------------------------------------------------------
(* Running totals.                                                         *)

(* Some numbers have a least one.                                          *)
LEMMA LeastOne ==
  ASSUME NEW S \in SUBSET Nat, S # {} PROVE \E n \in S : \A m \in S : n <= m
<1> DEFINE R == OpToRel(<, Nat)
<1> HIDE DEF R
<1>1. PICK x \in S : \A y \in S : ~ (<<y, x>> \in R)
  BY WFMin, NatLessThanWellFounded DEF R
<1>2. \A y \in S : ~ (y < x)
  BY <1>1 DEF R, OpToRel
<1> QED BY <1>2

(* A set of numbers up to N with the first one, and with each the next     *)
(* one, has all of them: the least one missing would follow another.       *)
LEMMA AllUpTo ==
  ASSUME NEW N \in Nat, NEW S, 0 \in S,
         \A n \in 0 .. N : n \in S /\ n < N => n + 1 \in S
  PROVE  \A n \in 0 .. N : n \in S
<1> SUFFICES ASSUME NEW m \in 0 .. N, m \notin S PROVE FALSE
  OBVIOUS
<1> DEFINE Out == {n \in 0 .. N : n \notin S}
           R == OpToRel(<, Nat)
<1>1. Out \subseteq Nat /\ Out # {}
  OBVIOUS
<1> HIDE DEF Out, R
<1>2. PICK x \in Out : \A y \in Out : ~ (<<y, x>> \in R)
  BY <1>1, WFMin, NatLessThanWellFounded DEF R
<1>3. \A y \in Out : ~ (y < x)
  BY <1>1, <1>2 DEF R, OpToRel
<1>4. x \in 0 .. N /\ x \notin S /\ x # 0
  BY DEF Out
<1>5. x - 1 \in 0 .. N /\ x - 1 < N /\ x - 1 < x
  BY <1>4
<1>6. x - 1 \in S
  BY <1>3, <1>5 DEF Out
<1>7. (x - 1) + 1 \in S
  BY <1>5, <1>6
<1> QED BY <1>4, <1>7

(* t is the running total of w up to n.                                    *)
Runs(t, w, n) ==
  /\ t \in [0 .. n -> Nat]
  /\ \A m \in 0 .. n : t[m] = IF m = 0 THEN 0 ELSE t[m - 1] + w[m]

LEMMA RunExists ==
  ASSUME NEW N \in Nat, NEW w \in [1 .. N -> Nat]
  PROVE  \E t : Runs(t, w, N)
<1> DEFINE S == {n \in 0 .. N : \E t : Runs(t, w, n)}
<1>1. 0 \in S
  <2>1. Runs([m \in 0 .. 0 |-> 0], w, 0)
    BY DEF Runs
  <2> QED BY <2>1
<1>2. ASSUME NEW n \in 0 .. N, n \in S, n < N
      PROVE  n + 1 \in S
  <2>1. PICK t : Runs(t, w, n)
    BY <1>2
  <2> DEFINE v == [m \in 0 .. n + 1 |-> IF m = n + 1 THEN t[n] + w[n + 1]
                                        ELSE t[m]]
  <2>2. w[n + 1] \in Nat /\ n \in Nat /\ n + 1 \in 0 .. N
    BY <1>2
  <2>3. \A m \in 0 .. n : t[m] \in Nat
    BY <2>1 DEF Runs
  <2>4. v \in [0 .. n + 1 -> Nat]
    BY <2>2, <2>3
  <2>5. ASSUME NEW m \in 0 .. n + 1
        PROVE  v[m] = IF m = 0 THEN 0 ELSE v[m - 1] + w[m]
    <3>1. CASE m = n + 1
      <4>1. m # 0 /\ m - 1 = n /\ n \in 0 .. n + 1 /\ n # n + 1
        BY <2>2, <3>1
      <4>2. v[m] = t[n] + w[m] /\ v[n] = t[n]
        BY <3>1, <4>1
      <4> QED BY <4>1, <4>2
    <3>2. CASE m # n + 1
      <4>1. m \in 0 .. n /\ v[m] = t[m]
        BY <2>2, <3>2
      <4>2. t[m] = IF m = 0 THEN 0 ELSE t[m - 1] + w[m]
        BY <2>1, <4>1 DEF Runs
      <4>3. m # 0 => v[m - 1] = t[m - 1]
        BY <2>2, <4>1
      <4> QED BY <4>1, <4>2, <4>3
    <3> QED BY <3>1, <3>2
  <2> HIDE DEF v
  <2>6. Runs(v, w, n + 1)
    BY <2>4, <2>5 DEF Runs
  <2> QED BY <2>2, <2>6
<1> HIDE DEF S
<1>3. N \in S
  <2>1. \A n \in 0 .. N : n \in S
    BY <1>1, <1>2, AllUpTo
  <2> QED BY <2>1
<1> QED BY <1>3 DEF S

(* Two functions that add the same numbers up are the same up to N.        *)
LEMMA TotalRuns ==
  ASSUME NEW N \in Nat, NEW w \in [1 .. N -> Nat]
  PROVE  \E t : Runs(t, w, N) /\ TotalOf(w, N) = t[N]
<1> DEFINE F(u) == [n \in 0 .. N |-> IF n = 0 THEN 0 ELSE u[n - 1] + w[n]]
           u == CHOOSE v : v = F(v)
<1>1. PICK t : Runs(t, w, N)
  BY RunExists
<1>2. t = F(t)
  BY <1>1 DEF Runs
<1>3. u = F(u)
  BY <1>2
<1>4. TotalOf(w, N) = u[N]
  BY DEF TotalOf
<1>5. u = [n \in 0 .. N |-> IF n = 0 THEN 0 ELSE u[n - 1] + w[n]]
  BY <1>3
<1> HIDE DEF u, F
<1> DEFINE S == {n \in 0 .. N : u[n] = t[n]}
<1>6. 0 \in S
  BY <1>1, <1>5 DEF Runs
<1>7. ASSUME NEW n \in 0 .. N, n \in S, n < N
      PROVE  n + 1 \in S
  <2>1. n + 1 \in 0 .. N /\ n + 1 # 0 /\ (n + 1) - 1 = n
    BY <1>7
  <2>2. u[n + 1] = u[n] + w[n + 1] /\ t[n + 1] = t[n] + w[n + 1]
    BY <1>1, <1>5, <2>1 DEF Runs
  <2> QED BY <1>7, <2>1, <2>2
<1> HIDE DEF S
<1>8. N \in S
  <2>1. \A n \in 0 .. N : n \in S
    BY <1>6, <1>7, AllUpTo
  <2> QED BY <2>1
<1> QED BY <1>1, <1>4, <1>8 DEF S

(* Two numbers that differ by x - e still do when both grow by d.          *)
LEMMA BothGrow ==
  ASSUME NEW a \in Nat, NEW c \in Nat, NEW d \in Nat, NEW e \in Nat, NEW x \in Nat,
         a = c - e + x, e <= c
  PROVE  a + d = (c + d) - e + x /\ e <= c + d
OBVIOUS

LEMMA TotalOfOne ==
  ASSUME NEW N \in Nat, NEW w \in [1 .. N -> Nat], NEW i \in 1 .. N, NEW x \in Nat
  PROVE  /\ TotalOf(w, N) \in Nat /\ w[i] <= TotalOf(w, N)
         /\ TotalOf([w EXCEPT ![i] = x], N) = TotalOf(w, N) - w[i] + x
<1> DEFINE v == [w EXCEPT ![i] = x]
<1>1. v \in [1 .. N -> Nat] /\ v[i] = x /\ \A m \in 1 .. N : m # i => v[m] = w[m]
  OBVIOUS
<1> HIDE DEF v
<1>2. PICK t : Runs(t, w, N) /\ TotalOf(w, N) = t[N]
  BY TotalRuns
<1>3. PICK r : Runs(r, v, N) /\ TotalOf(v, N) = r[N]
  BY <1>1, TotalRuns
<1> DEFINE S == {n \in 0 .. N :
                   IF n < i THEN r[n] = t[n]
                   ELSE r[n] = t[n] - w[i] + x /\ w[i] <= t[n]}
<1>4. i \in Nat /\ 0 < i /\ i <= N /\ N \in Nat
  OBVIOUS
<1>5. 0 \in S
  BY <1>2, <1>3, <1>4 DEF Runs
<1>6. ASSUME NEW n \in 0 .. N, n \in S, n < N
      PROVE  n + 1 \in S
  <2>1. n + 1 \in 0 .. N /\ n + 1 # 0 /\ (n + 1) - 1 = n /\ n + 1 \in 1 .. N
    BY <1>4, <1>6
  <2>2. /\ r[n + 1] = r[n] + v[n + 1] /\ t[n + 1] = t[n] + w[n + 1]
        /\ r[n] \in Nat /\ t[n] \in Nat /\ r[n + 1] \in Nat /\ t[n + 1] \in Nat
    BY <1>2, <1>3, <2>1 DEF Runs
  <2>3. w[n + 1] \in Nat /\ w[i] \in Nat /\ v[n + 1] \in Nat
    BY <1>1, <2>1
  <2>4. CASE n + 1 = i
    <3>1. r[n] = t[n] /\ v[n + 1] = x /\ w[n + 1] = w[i]
      BY <1>1, <1>4, <1>6, <2>1, <2>4
    <3>2. r[n + 1] = t[n + 1] - w[i] + x /\ w[i] <= t[n + 1]
      BY <2>2, <2>3, <3>1
    <3> QED BY <1>4, <2>1, <2>4, <3>2
  <2>5. CASE n + 1 < i
    <3>1. v[n + 1] = w[n + 1] /\ n < i
      BY <1>1, <1>4, <2>1, <2>5
    <3>2. r[n] = t[n]
      BY <1>6, <3>1
    <3> QED BY <2>1, <2>2, <2>5, <3>1, <3>2
  <2>6. CASE n + 1 > i
    <3>1. v[n + 1] = w[n + 1] /\ ~(n < i) /\ ~(n + 1 < i)
      BY <1>1, <1>4, <2>1, <2>6
    <3>2. r[n] = t[n] - w[i] + x /\ w[i] <= t[n]
      BY <1>6, <3>1
    <3>3. PICK a \in Nat, c \in Nat, d \in Nat, e \in Nat :
                 a = r[n] /\ c = t[n] /\ d = w[n + 1] /\ e = w[i]
      BY <2>2, <2>3
    <3>4. a = c - e + x /\ e <= c
      BY <3>2, <3>3
    <3>5. a + d = (c + d) - e + x /\ e <= c + d
      BY <3>4, BothGrow
    <3>6. r[n + 1] = t[n + 1] - w[i] + x /\ w[i] <= t[n + 1]
      BY <2>2, <3>1, <3>3, <3>5
    <3> QED BY <2>1, <3>1, <3>6
  <2> QED BY <1>4, <2>4, <2>5, <2>6
<1>7. N \in S
  <2> HIDE DEF S
  <2>1. \A n \in 0 .. N : n \in S
    BY <1>5, <1>6, AllUpTo
  <2> QED BY <2>1
<1>8. t[N] \in Nat
  BY <1>2, <1>4 DEF Runs
<1> QED BY <1>2, <1>3, <1>4, <1>7, <1>8 DEF v

LEMMA TotalOfNone ==
  ASSUME NEW N \in Nat, NEW w \in [1 .. N -> Nat], \A i \in 1 .. N : w[i] = 0
  PROVE  TotalOf(w, N) = 0
<1>1. PICK t : Runs(t, w, N) /\ TotalOf(w, N) = t[N]
  BY TotalRuns
<1> DEFINE S == {n \in 0 .. N : t[n] = 0}
<1>2. 0 \in S
  BY <1>1 DEF Runs
<1>3. ASSUME NEW n \in 0 .. N, n \in S, n < N
      PROVE  n + 1 \in S
  <2>1. n + 1 \in 0 .. N /\ n + 1 # 0 /\ (n + 1) - 1 = n /\ n + 1 \in 1 .. N
    BY <1>3
  <2>2. t[n + 1] = t[n] + w[n + 1]
    BY <1>1, <2>1 DEF Runs
  <2> QED BY <1>3, <2>1, <2>2
<1> HIDE DEF S
<1>4. N \in S
  <2>1. \A n \in 0 .. N : n \in S
    BY <1>2, <1>3, AllUpTo
  <2> QED BY <2>1
<1> QED BY <1>1, <1>4 DEF S
=============================================================================
