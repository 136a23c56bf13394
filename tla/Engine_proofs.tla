--------------------------- MODULE Engine_proofs ----------------------------
(***************************************************************************)
(* What surrounds the decisions of Auto-M (MCEngine), for every value of   *)
(* the constants: the limit of a day and the domestic orders (Placing),    *)
(* the exchange rates (RateSource), the times of judgement (JudgeLoop),    *)
(* the price of an order (PrePrice) and of the stock (StockPrice), the     *)
(* loans that orders repay (CreditLoans); and for a set whose pre order    *)
(* rests on Hyperliquid (HlFirst).                                         *)
(***************************************************************************)
EXTENDS MCEngine, AutoMSet_proofs

-----------------------------------------------------------------------------
(***************************************************************************)
(* The limit of a day.  What may still be filled belongs to the last       *)
(* request, of one or two orders, unless two requests were at work; and    *)
(* that request was weighed as a whole: what is left of its weight, and    *)
(* the total but for the prices worse than weighed, fit the limit.         *)
(***************************************************************************)
Lots(i) == work[i] + untold[i]
Left(i) == IF i \in SentToday /\ i \notin unpriced THEN Lots(i) ELSE 0

LastRequestFits ==
  \E i, j \in Nat :
    /\ i < j /\ \A k \in SentToday : k # i /\ k # j => Left(k) = 0
    /\ total + Left(i) + Left(j) <= DayLimit + slip

HlLimitInv ==
  /\ total \in Nat /\ nsent \in Nat /\ slip \in Nat /\ shared \in BOOLEAN
  /\ work \in [SentToday -> Nat] /\ untold \in [SentToday -> Nat]
  /\ \A k \in SentToday : k > nsent => Lots(k) = 0
  /\ DayLimit > 0 /\ ~shared => LastRequestFits

(* The orders of a request that go out, of one and of two.                 *)
Empty == [out |-> <<>>, queued |-> 0]

LEMMA PassOne ==
  ASSUME NEW a
  PROVE  PassMany(<<a>>) = Queue(Empty, a).out
<1> DEFINE F(u) == [i \in 0 .. Len(<<a>>) |->
                      IF i = 0 THEN [out |-> <<>>, queued |-> 0] ELSE Queue(u[i - 1], <<a>>[i])]
           t == [i \in 0 .. 1 |-> IF i = 0 THEN Empty ELSE Queue(Empty, a)]
           u == CHOOSE v : v = F(v)
<1>1. Len(<<a>>) = 1 /\ <<a>>[1] = a
  OBVIOUS
<1>2. t = F(t)
  <2>1. ASSUME NEW i \in 0 .. 1 PROVE t[i] = F(t)[i]
    <3>1. i = 0 \/ i = 1
      OBVIOUS
    <3>2. t[0] = Empty /\ t[1] = Queue(Empty, a)
      OBVIOUS
    <3> QED BY <3>1, <3>2, <1>1 DEF Empty
  <2>2. F(t) = [i \in 0 .. 1 |-> F(t)[i]]
    BY <1>1
  <2> HIDE DEF F
  <2> QED BY <2>1, <2>2
<1>3. u = F(u)
  BY <1>2
<1>4. PassMany(<<a>>) = u[Len(<<a>>)].out
  BY DEF PassMany
<1>5. u = [i \in 0 .. Len(<<a>>) |->
             IF i = 0 THEN [out |-> <<>>, queued |-> 0] ELSE Queue(u[i - 1], <<a>>[i])]
  BY <1>3
<1> HIDE DEF u, F
<1>6. u[0] = Empty
  BY <1>1, <1>5 DEF Empty
<1>7. u[1] = Queue(u[0], a)
  BY <1>1, <1>5
<1> QED BY <1>1, <1>4, <1>6, <1>7

LEMMA PassTwo ==
  ASSUME NEW a, NEW b
  PROVE  PassMany(<<a, b>>) = Queue(Queue(Empty, a), b).out
<1> DEFINE F(u) == [i \in 0 .. Len(<<a, b>>) |->
                      IF i = 0 THEN [out |-> <<>>, queued |-> 0] ELSE Queue(u[i - 1], <<a, b>>[i])]
           one == Queue(Empty, a)
           two == Queue(one, b)
           t == [i \in 0 .. 2 |-> IF i = 0 THEN Empty ELSE IF i = 1 THEN one ELSE two]
           u == CHOOSE v : v = F(v)
<1>1. Len(<<a, b>>) = 2 /\ <<a, b>>[1] = a /\ <<a, b>>[2] = b
  OBVIOUS
<1>2. t = F(t)
  <2>1. ASSUME NEW i \in 0 .. 2 PROVE t[i] = F(t)[i]
    <3>1. i = 0 \/ i = 1 \/ i = 2
      OBVIOUS
    <3>2. t[0] = Empty /\ t[1] = one /\ t[2] = two
      OBVIOUS
    <3> QED BY <3>1, <3>2, <1>1 DEF Empty
  <2>2. F(t) = [i \in 0 .. 2 |-> F(t)[i]]
    BY <1>1
  <2> HIDE DEF F
  <2> QED BY <2>1, <2>2
<1>3. u = F(u)
  BY <1>2
<1>4. PassMany(<<a, b>>) = u[Len(<<a, b>>)].out
  BY DEF PassMany
<1>5. u = [i \in 0 .. Len(<<a, b>>) |->
             IF i = 0 THEN [out |-> <<>>, queued |-> 0] ELSE Queue(u[i - 1], <<a, b>>[i])]
  BY <1>3
<1> HIDE DEF u, F
<1>6. u[0] = Empty
  BY <1>1, <1>5 DEF Empty
<1>7. u[1] = Queue(u[0], a)
  BY <1>1, <1>5
<1>8. u[2] = Queue(u[1], b)
  BY <1>1, <1>5
<1> QED BY <1>1, <1>4, <1>6, <1>7, <1>8

(* What goes out is within the limit together with what was filled.        *)
Goes(out) ==
  \/ out = <<>>
  \/ Len(out) = 1 /\ out[1].qty \in Nat
       /\ (DayLimit > 0 => total + Weighs(out[1]) <= DayLimit)
  \/ Len(out) = 2 /\ out[1].qty \in Nat /\ out[2].qty \in Nat
       /\ (DayLimit > 0 => total + Weighs(out[1]) + Weighs(out[2]) <= DayLimit)

LEMMA WeighsNat ==
  ASSUME NEW a, a.qty \in Nat
  PROVE  Weighs(a) \in Nat
BY DEF Weighs

LEMMA QueueOne ==
  ASSUME NEW a, a.qty \in Nat, total \in Nat
  PROVE  \/ Queue(Empty, a) = Empty
         \/ /\ Queue(Empty, a).out = <<a>> /\ Queue(Empty, a).queued = Weighs(a)
            /\ DayLimit > 0 => total + Weighs(a) <= DayLimit
<1>1. Empty.queued = 0 /\ Empty.out = <<>> /\ Weighs(a) \in Nat
  BY WeighsNat DEF Empty
<1>2. Append(<<>>, a) = <<a>> /\ 0 + Weighs(a) = Weighs(a) /\ total + 0 = total
  BY <1>1
<1>3. CASE Queue(Empty, a) = Empty
  BY <1>3
<1>4. CASE Queue(Empty, a) # Empty
  <2>1. ~WouldExceed(total, Weighs(a)) /\ Queue(Empty, a) = [out |-> <<a>>, queued |-> Weighs(a)]
    BY <1>1, <1>2, <1>4 DEF Queue
  <2>2. Queue(Empty, a).out = <<a>> /\ Queue(Empty, a).queued = Weighs(a)
    BY <2>1
  <2> QED BY <1>1, <2>1, <2>2, HlLimitAssumption DEF WouldExceed
<1> QED BY <1>3, <1>4

LEMMA AppendToOne ==
  ASSUME NEW x, NEW y
  PROVE  LET s == Append(<<x>>, y) IN Len(s) = 2 /\ s[1] = x /\ s[2] = y
<1>1. <<x>> \in Seq({x, y}) /\ Len(<<x>>) = 1 /\ <<x>>[1] = x
  OBVIOUS
<1> DEFINE t == <<x>>
<1> HIDE DEF t
<1>2. Len(Append(t, y)) = 2 /\ Append(t, y)[1] = x /\ Append(t, y)[2] = y
  BY <1>1 DEF t
<1> QED BY <1>2 DEF t

LEMMA QueueTwo ==
  ASSUME NEW a, NEW b, a.qty \in Nat, b.qty \in Nat, total \in Nat
  PROVE  Goes(Queue(Queue(Empty, a), b).out)
<1>0. Weighs(a) \in Nat /\ Weighs(b) \in Nat
  BY WeighsNat
<1>1. CASE Queue(Empty, a) = Empty
  <2>1. CASE Queue(Empty, b) = Empty
    BY <1>1, <2>1 DEF Goes, Empty
  <2>2. CASE Queue(Empty, b).out = <<b>> /\ (DayLimit > 0 => total + Weighs(b) <= DayLimit)
    <3>1. Len(<<b>>) = 1 /\ <<b>>[1] = b
      OBVIOUS
    <3> QED BY <1>1, <2>2, <3>1 DEF Goes
  <2> QED BY <2>1, <2>2, QueueOne
<1>2. ASSUME NEW had, had.out = <<a>>, had.queued = Weighs(a), DayLimit > 0 => total + Weighs(a) <= DayLimit
      PROVE  Goes(Queue(had, b).out)
  <2>1. Len(<<a>>) = 1 /\ <<a>>[1] = a
    OBVIOUS
  <2>2. CASE Queue(had, b) = had
    BY <1>2, <2>1, <2>2 DEF Goes
  <2>3. CASE Queue(had, b) # had
    <3>1. ~WouldExceed(total + Weighs(a), Weighs(b)) /\ Queue(had, b).out = Append(<<a>>, b)
      BY <1>2, <2>3 DEF Queue
    <3>2. DayLimit > 0 => total + Weighs(a) + Weighs(b) <= DayLimit
      BY <1>0, <3>1, HlLimitAssumption DEF WouldExceed
    <3> DEFINE t == Append(<<a>>, b)
    <3>3. Len(t) = 2 /\ t[1] = a /\ t[2] = b
      BY AppendToOne
    <3> HIDE DEF t
    <3>4. Goes(t)
      BY <3>2, <3>3 DEF Goes
    <3> QED BY <3>1, <3>4 DEF t
  <2> QED BY <2>2, <2>3
<1> QED BY <1>1, <1>2, QueueOne

(* Once nothing else can be filled, what a request sends is weighed whole. *)
LEMMA PlaceKeeps ==
  ASSUME HlLimitInv, NEW orders, PlaceRequest(orders), Goes(PassMany(orders))
  PROVE  HlLimitInv'
<1> DEFINE out == PassMany(orders)
<1>0. /\ UNCHANGED <<total, untold, oracle>> /\ slip' = 0
      /\ nsent' = nsent + Len(out) /\ nsent + Len(out) <= MaxHlSent
      /\ work' = [i \in SentToday |->
           IF i \in nsent + 1 .. nsent + Len(out) THEN out[i - nsent].qty ELSE work[i]]
      /\ unpriced' = {i \in SentToday : IF i \in nsent + 1 .. nsent + Len(out)
                                          THEN Blind(out[i - nsent]) ELSE i \in unpriced}
      /\ shared' = (shared \/ Working) /\ Goes(out) /\ out # <<>>
  BY DEF PlaceRequest
<1> HIDE DEF out
<1>1. Len(out) \in {1, 2} /\ \A i \in 1 .. Len(out) : out[i].qty \in Nat
  BY <1>0 DEF Goes
<1>2. nsent \in Nat /\ total \in Nat /\ shared \in BOOLEAN /\ Working \in BOOLEAN
  BY DEF HlLimitInv, Working
<1>3. \A i \in SentToday : i > nsent => untold[i] = 0 /\ work[i] = 0
  BY DEF HlLimitInv, Lots
<1>n. PICK n \in Nat : n = nsent
  BY <1>2
<1>4. work' \in [SentToday -> Nat]
  <2>1. ASSUME NEW i \in SentToday, i \in nsent + 1 .. nsent + Len(out) PROVE out[i - nsent].qty \in Nat
    <3>1. i - nsent \in 1 .. Len(out)
      BY <1>1, <1>2, <2>1
    <3> QED BY <1>1, <3>1
  <2> QED BY <1>0, <2>1 DEF HlLimitInv
<1>5. \A i \in SentToday : i > nsent + Len(out) => Lots(i)' = 0
  BY <1>0, <1>1, <1>2, <1>3 DEF Lots, SentToday
<1>6. ASSUME DayLimit > 0, ~shared' PROVE LastRequestFits'
  <2>1. ~shared /\ \A k \in SentToday : ~(work[k] + untold[k] > 0)
    BY <1>0, <1>6, <1>2 DEF Working
  <2>2. \A k \in SentToday : work[k] = 0 /\ untold[k] = 0
    <3>1. \A k \in SentToday : work[k] \in Nat /\ untold[k] \in Nat
      BY DEF HlLimitInv
    <3> QED BY <2>1, <3>1
  <2>3. \A k \in SentToday : k # n + 1 /\ k # n + 2 => Left(k)' = 0
    BY <1>0, <1>1, <1>n, <2>2 DEF Left, Lots, SentToday
  <2>w. ASSUME NEW m \in 1 .. Len(out), n + m \in SentToday
        PROVE  Left(n + m)' = Weighs(out[m])
    <3>1. n + m \in nsent + 1 .. nsent + Len(out) /\ (n + m) - nsent = m
      BY <1>1, <1>n
    <3>2. work'[n + m] = out[m].qty /\ untold'[n + m] = 0 /\ out[m].qty \in Nat
      BY <1>0, <1>1, <2>2, <2>w, <3>1
    <3>3. (n + m \in unpriced') <=> Blind(out[m])
      BY <1>0, <2>w, <3>1
    <3>4. (Left(n + m))' = IF n + m \notin unpriced' THEN work'[n + m] + untold'[n + m] ELSE 0
      BY <2>w DEF Left, Lots
    <3> QED BY <3>2, <3>3, <3>4 DEF Weighs
  <2>4. total + Left(n + 1)' + Left(n + 2)' <= DayLimit
    <3>1. CASE Len(out) = 1
      <4>1. n + 1 \in SentToday /\ 1 \in 1 .. Len(out)
            /\ n + 2 \notin nsent + 1 .. nsent + Len(out)
        BY <1>0, <1>n, <3>1, HlLimitAssumption DEF SentToday
      <4>2. Left(n + 1)' = Weighs(out[1]) /\ out[1].qty \in Nat
        BY <1>1, <2>w, <4>1
      <4>3. Left(n + 2)' = 0
        BY <1>0, <2>2, <4>1 DEF Left, Lots
      <4>4. total + Weighs(out[1]) <= DayLimit /\ Weighs(out[1]) \in Nat
        BY <1>0, <1>6, <3>1, <4>2, WeighsNat DEF Goes
      <4> QED BY <1>2, <4>2, <4>3, <4>4
    <3>2. CASE Len(out) = 2
      <4>1. /\ n + 1 \in SentToday /\ 1 \in 1 .. Len(out)
            /\ n + 2 \in SentToday /\ 2 \in 1 .. Len(out)
        BY <1>0, <1>n, <3>2, HlLimitAssumption DEF SentToday
      <4>2. Left(n + 1)' = Weighs(out[1]) /\ Left(n + 2)' = Weighs(out[2])
        BY <2>w, <4>1
      <4> QED BY <1>0, <1>6, <3>2, <4>2 DEF Goes
    <3> QED BY <1>1, <3>1, <3>2
  <2>5. /\ n + 1 \in Nat /\ n + 2 \in Nat /\ n + 1 < n + 2 /\ total' = total
        /\ DayLimit \in Nat /\ DayLimit + slip' = DayLimit
    BY <1>0, <1>n, HlLimitAssumption
  <2> QED BY <2>3, <2>4, <2>5 DEF LastRequestFits
<1> QED BY <1>0, <1>1, <1>2, <1>4, <1>5, <1>6 DEF HlLimitInv

(* A step that leaves no order more to fill and takes the total no further *)
(* than what it takes off the orders, but for what it slips.               *)
LEMMA FitsStill ==
  ASSUME HlLimitInv, work' \in [SentToday -> Nat], untold' \in [SentToday -> Nat],
         total' \in Nat, slip' \in Nat,
         NEW i \in SentToday, \A k \in SentToday : k # i => Lots(k)' = Lots(k),
         total' + Left(i)' + slip <= total + Left(i) + slip', Left(i)' <= Left(i),
         Lots(i)' <= Lots(i), UNCHANGED <<nsent, unpriced, shared>>
  PROVE  HlLimitInv'
<1>0. /\ i \in Nat /\ DayLimit \in Nat
      /\ total \in Nat /\ total' \in Nat /\ slip \in Nat /\ slip' \in Nat
  BY HlLimitAssumption DEF HlLimitInv, SentToday
<1>1. /\ \A k \in SentToday : Lots(k) \in Nat /\ Lots(k)' \in Nat
      /\ \A k \in Nat : Left(k) \in Nat /\ Left(k)' \in Nat
  BY DEF Left, Lots, HlLimitInv
<1>2. \A k \in SentToday : (Lots(k) = 0 => Lots(k)' = 0) /\ (Left(k) = 0 => Left(k)' = 0)
  <2>1. ASSUME NEW k \in SentToday, k # i PROVE Left(k)' = Left(k)
    BY <2>1 DEF Left
  <2>2. i \in SentToday /\ (Lots(i) = 0 => Lots(i)' = 0) /\ (Left(i) = 0 => Left(i)' = 0)
    BY <1>0, <1>1
  <2> QED BY <2>1, <2>2
<1>3. \A k \in Nat : k # i => Left(k)' = Left(k)
  BY DEF Left
<1>4. ASSUME LastRequestFits PROVE LastRequestFits'
  <2>1. PICK a \in Nat, b \in Nat :
          /\ a < b /\ \A k \in SentToday : k # a /\ k # b => Left(k) = 0
          /\ total + Left(a) + Left(b) <= DayLimit + slip
    BY <1>4 DEF LastRequestFits
  <2>2. total' + Left(a)' + Left(b)' <= DayLimit + slip'
    <3>0. Left(i) \in Nat /\ Left(i)' \in Nat /\ Left(a) \in Nat /\ Left(b) \in Nat
      BY <1>0, <1>1
    <3>1. CASE a = i
      <4>1. Left(b)' = Left(b)
        BY <1>3, <2>1, <3>1
      <4> QED BY <1>0, <2>1, <3>0, <3>1, <4>1
    <3>2. CASE b = i
      <4>1. Left(a)' = Left(a)
        BY <1>3, <2>1, <3>2
      <4> QED BY <1>0, <2>1, <3>0, <3>2, <4>1
    <3>3. CASE a # i /\ b # i
      <4>1. Left(i) = 0 /\ Left(i)' = 0
        BY <3>3, <2>1, <1>2
      <4>2. total' + slip <= total + slip'
        <5> DEFINE x == total'
                   y == slip'
        <5>1. x + 0 + slip <= total + 0 + y
          BY <4>1
        <5>2. x \in Nat /\ y \in Nat /\ total \in Nat /\ slip \in Nat
          BY <1>0
        <5> HIDE DEF x, y
        <5>3. x + slip <= total + y
          BY <5>1, <5>2
        <5> QED BY <5>3 DEF x, y
      <4>3. Left(a)' = Left(a) /\ Left(b)' = Left(b)
        BY <3>3, <1>3
      <4> QED BY <1>0, <3>0, <2>1, <4>2, <4>3
    <3> QED BY <3>1, <3>2, <3>3
  <2>3. \A k \in SentToday : k # a /\ k # b => Left(k)' = 0
    BY <1>2, <2>1
  <2> QED BY <2>1, <2>2, <2>3 DEF LastRequestFits
<1>5. \A k \in SentToday : k > nsent' => Lots(k)' = 0
  BY <1>2 DEF HlLimitInv
<1> QED BY <1>0, <1>4, <1>5 DEF HlLimitInv

LEMMA HlLimitStep ==
  ASSUME HlLimitInv, [HlLimitNext]_hlLimitVars
  PROVE  HlLimitInv'
<1>0. /\ total \in Nat /\ work \in [SentToday -> Nat] /\ untold \in [SentToday -> Nat]
      /\ slip \in Nat
  BY DEF HlLimitInv
<1>1. ASSUME NEW q \in Sizes, NEW p, PlaceRequest(<<[qty |-> q, price |-> p]>>)
      PROVE  HlLimitInv'
  <2> DEFINE a == [qty |-> q, price |-> p]
  <2>1. a.qty \in Nat
    BY HlLimitAssumption
  <2> HIDE DEF a
  <2>2. \/ Queue(Empty, a).out = <<>>
        \/ Queue(Empty, a).out = <<a>> /\ (DayLimit > 0 => total + Weighs(a) <= DayLimit)
    BY <1>0, <2>1, QueueOne DEF Empty
  <2>3. Len(<<a>>) = 1 /\ <<a>>[1] = a
    OBVIOUS
  <2>4. Goes(PassMany(<<a>>))
    BY <2>1, <2>2, <2>3, PassOne DEF Goes
  <2> QED BY <1>1, <2>4, PlaceKeeps DEF a
<1>2. ASSUME NEW q \in Sizes, NEW r \in Sizes, NEW p, NEW o,
             PlaceRequest(<<[qty |-> q, price |-> p], [qty |-> r, price |-> o]>>)
      PROVE  HlLimitInv'
  <2> DEFINE a == [qty |-> q, price |-> p]
             b == [qty |-> r, price |-> o]
  <2>1. a.qty \in Nat /\ b.qty \in Nat
    BY HlLimitAssumption
  <2> HIDE DEF a, b
  <2>2. Goes(PassMany(<<a, b>>))
    BY <1>0, <2>1, PassTwo, QueueTwo
  <2> QED BY <1>2, <2>2, PlaceKeeps DEF a, b
<1>3. ASSUME NEW i \in SentToday, HlFillsLot(i) \/ HlOrderEnds(i)
      PROVE  HlLimitInv'
  <2>1. /\ work' \in [SentToday -> Nat] /\ untold' \in [SentToday -> Nat]
        /\ \A k \in SentToday : k # i => work'[k] = work[k] /\ untold'[k] = untold[k]
        /\ UNCHANGED <<total, slip, nsent, unpriced, shared>>
    BY <1>0, <1>3 DEF HlFillsLot, HlOrderEnds
  <2>2. work'[i] + untold'[i] <= work[i] + untold[i]
    BY <1>0, <1>3 DEF HlFillsLot, HlOrderEnds
  <2>3. Lots(i)' <= Lots(i) /\ \A k \in SentToday : k # i => Lots(k)' = Lots(k)
    BY <2>1, <2>2 DEF Lots
  <2>4. Lots(i) \in Nat /\ Lots(i)' \in Nat
    BY <1>0, <2>1 DEF Lots
  <2>5. Left(i)' <= Left(i) /\ Left(i) \in Nat /\ Left(i)' \in Nat
    BY <2>1, <2>3, <2>4 DEF Left
  <2>6. total' + Left(i)' + slip <= total + Left(i) + slip'
    BY <1>0, <2>1, <2>5
  <2>7. total' \in Nat /\ slip' \in Nat /\ UNCHANGED <<nsent, unpriced, shared>>
    BY <1>0, <2>1
  <2> QED BY <2>1, <2>3, <2>5, <2>6, <2>7, FitsStill
<1>6. ASSUME NEW i \in SentToday, NEW amount \in FillAmounts, AccumulateHlFill(i, amount)
      PROVE  HlLimitInv'
  <2> DEFINE weighed == IF i \in unpriced THEN 0 ELSE untold[i]
  <2>0. amount \in Nat /\ weighed \in Nat /\ work[i] \in Nat /\ untold[i] \in Nat
    BY <1>0, HlLimitAssumption
  <2>1. /\ work' = work /\ untold' = [untold EXCEPT ![i] = 0] /\ total' = total + amount
        /\ slip' = IF amount > weighed THEN slip + (amount - weighed) ELSE slip
        /\ UNCHANGED <<nsent, unpriced, shared>>
    BY <1>6 DEF AccumulateHlFill
  <2>2. /\ untold' \in [SentToday -> Nat] /\ untold'[i] = 0
        /\ \A k \in SentToday : k # i => Lots(k)' = Lots(k)
    BY <1>0, <2>1 DEF Lots
  <2>3. Lots(i) = work[i] + untold[i] /\ Lots(i)' = work[i]
    BY <2>0, <2>1, <2>2 DEF Lots
  <2>4. /\ Left(i)' + weighed = Left(i) /\ Left(i) \in Nat /\ Left(i)' \in Nat
        /\ Lots(i)' <= Lots(i)
    BY <2>0, <2>1, <2>3 DEF Left
  <2> HIDE DEF weighed
  <2>5. total' \in Nat /\ slip' \in Nat
    BY <1>0, <2>0, <2>1
  <2>6. total' + Left(i)' + slip <= total + Left(i) + slip'
    BY <1>0, <2>0, <2>1, <2>4
  <2>7. Left(i)' <= Left(i)
    BY <2>0, <2>4
  <2> QED BY <1>0, <2>1, <2>2, <2>4, <2>5, <2>6, <2>7, FitsStill
<1>4. CASE MidnightReset
  <2>1. total' = 0 /\ slip' = 0 /\ shared' = Working /\ UNCHANGED <<work, untold, nsent, unpriced>>
    BY <1>4 DEF MidnightReset
  <2>2. \A k \in Nat : Left(k)' = Left(k) /\ Lots(k)' = Lots(k)
    BY <2>1 DEF Left, Lots
  <2>3. ASSUME DayLimit > 0, ~shared' PROVE LastRequestFits'
    <3>1. \A k \in SentToday : ~(work[k] + untold[k] > 0)
      BY <2>1, <2>3 DEF Working
    <3>2. \A k \in Nat : Left(k)' = 0
      BY <1>0, <2>2, <3>1 DEF Left, Lots
    <3>3. 1 \in Nat /\ 2 \in Nat /\ 1 < 2 /\ total' + Left(1)' + Left(2)' <= DayLimit + slip'
      BY <2>1, <2>3, <3>2, HlLimitAssumption
    <3> QED BY <3>2, <3>3 DEF LastRequestFits, SentToday
  <2> QED BY <2>1, <2>2, <2>3 DEF HlLimitInv, Working, SentToday
<1>5. CASE OracleCtx \/ SetRiskLimits \/ UNCHANGED hlLimitVars
  <2>1. UNCHANGED <<total, work, untold, nsent, unpriced, slip, shared>>
    BY <1>5 DEF OracleCtx, SetRiskLimits, hlLimitVars
  <2> QED BY <2>1 DEF HlLimitInv, LastRequestFits, Left, Lots, SentToday
<1> QED BY <1>1, <1>2, <1>3, <1>4, <1>5, <1>6 DEF HlLimitNext

LEMMA HlLimitInitInv == HlLimitInit => HlLimitInv
<1> SUFFICES ASSUME HlLimitInit PROVE HlLimitInv
  OBVIOUS
<1>1. \A k \in Nat : Left(k) = 0
  BY DEF HlLimitInit, Left, Lots
<1>2. total = 0 /\ slip = 0 /\ 1 \in Nat /\ 2 \in Nat /\ 1 < 2 /\ DayLimit \in Nat
  BY HlLimitAssumption DEF HlLimitInit
<1>3. total + Left(1) + Left(2) <= DayLimit + slip
  BY <1>1, <1>2
<1>4. LastRequestFits
  BY <1>1, <1>2, <1>3 DEF LastRequestFits, SentToday
<1>5. /\ total \in Nat /\ nsent \in Nat /\ slip \in Nat /\ shared \in BOOLEAN
      /\ work \in [SentToday -> Nat] /\ untold \in [SentToday -> Nat]
  BY DEF HlLimitInit
<1>6. \A k \in SentToday : Lots(k) = 0
  BY DEF HlLimitInit, Lots
<1> QED BY <1>4, <1>5, <1>6 DEF HlLimitInv

(* The fills of a day pass the limit by no more than what those of the     *)
(* last request came to beyond their weight, unless two requests were at   *)
(* work at once (place_many, would_exceed_daily_limit).                    *)
THEOREM DayStaysWithinLimit == HlLimitSpec => []DayWithinLimit
<1>1. HlLimitInv => DayWithinLimit
  <2> SUFFICES ASSUME HlLimitInv, DayLimit > 0, ~shared PROVE total <= DayLimit + slip
    BY DEF DayWithinLimit
  <2>1. PICK i \in Nat, j \in Nat : total + Left(i) + Left(j) <= DayLimit + slip
    BY DEF HlLimitInv, LastRequestFits
  <2>2. /\ Left(i) \in Nat /\ Left(j) \in Nat
        /\ total \in Nat /\ slip \in Nat /\ DayLimit \in Nat
    BY HlLimitAssumption DEF HlLimitInv, Left, Lots
  <2> QED BY <2>1, <2>2
<1>2. HlLimitInv /\ [HlLimitNext]_hlLimitVars => HlLimitInv'
  BY HlLimitStep
<1> QED BY <1>1, <1>2, HlLimitInitInv, PTL DEF HlLimitSpec

-----------------------------------------------------------------------------
(***************************************************************************)
(* The domestic orders.  What the book has left of an order goes, notice   *)
(* by notice, to what the broker has left of it: its course along the      *)
(* notices on their way.                                                   *)
(***************************************************************************)
Notice == [of : Numbers, qty : Nat]
Off(e, n) == IF e.of = n THEN e.qty ELSE 0

(* b: what is left of n, from x on, after the first notices of s; r in the *)
(* end.                                                                    *)
CourseBy(b, s, n, x, r) ==
  /\ b \in [0 .. Len(s) -> Nat] /\ b[0] = x /\ b[Len(s)] = r
  /\ \A i \in 1 .. Len(s) : b[i - 1] = b[i] + Off(s[i], n)
  /\ \A i, j \in 0 .. Len(s) : i <= j => b[j] <= b[i]
Course(s, n, x, r) == \E b : CourseBy(b, s, n, x, r)

LEMMA CourseEnds ==
  ASSUME NEW s \in Seq(Notice), NEW n, NEW x, NEW r, Course(s, n, x, r)
  PROVE  x \in Nat /\ r \in Nat /\ r <= x /\ (s = <<>> => x = r)
<1>1. PICK b : CourseBy(b, s, n, x, r)
  BY DEF Course
<1>2. Len(s) \in Nat /\ 0 \in 0 .. Len(s) /\ Len(s) \in 0 .. Len(s) /\ (s = <<>> => Len(s) = 0)
  OBVIOUS
<1> QED BY <1>1, <1>2 DEF CourseBy

LEMMA CourseBegins ==
  ASSUME NEW s \in Seq(Notice), NEW n, NEW r \in Nat, \A i \in 1 .. Len(s) : s[i].of # n
  PROVE  Course(s, n, r, r)
<1> DEFINE b == [i \in 0 .. Len(s) |-> r]
<1>1. CourseBy(b, s, n, r, r)
  BY DEF CourseBy, Off
<1> QED BY <1>1 DEF Course

(* A notice is sent of what the broker takes off.                          *)
LEMMA CourseAppends ==
  ASSUME NEW s \in Seq(Notice), NEW e \in Notice, NEW n, NEW x, NEW r, NEW r2 \in Nat,
         Course(s, n, x, r), r = r2 + Off(e, n)
  PROVE  Course(Append(s, e), n, x, r2)
<1>1. PICK b : CourseBy(b, s, n, x, r)
  BY DEF Course
<1> DEFINE t == Append(s, e)
           L == Len(s)
           c == [i \in 0 .. L + 1 |-> IF i = L + 1 THEN r2 ELSE b[i]]
<1>2. /\ L \in Nat /\ Len(t) = L + 1 /\ t[L + 1] = e /\ \A i \in 1 .. L : t[i] = s[i]
      /\ Off(e, n) \in Nat
  BY DEF Notice, Off
<1>3. /\ b \in [0 .. L -> Nat] /\ b[0] = x /\ b[L] = r
      /\ \A i \in 1 .. L : b[i - 1] = b[i] + Off(s[i], n)
      /\ \A i, j \in 0 .. L : i <= j => b[j] <= b[i]
  BY <1>1 DEF CourseBy
<1> HIDE DEF t, L
<1>4. c \in [0 .. L + 1 -> Nat] /\ c[0] = x /\ c[L + 1] = r2 /\ \A i \in 0 .. L : c[i] = b[i]
  BY <1>2, <1>3
<1> HIDE DEF c
<1>5. ASSUME NEW i \in 1 .. L + 1 PROVE c[i - 1] = c[i] + Off(t[i], n)
  <2>1. CASE i = L + 1
    BY <2>1, <1>2, <1>3, <1>4
  <2>2. CASE i # L + 1
    <3>1. i \in 1 .. L /\ i - 1 \in 0 .. L /\ i \in 0 .. L
      BY <2>2, <1>2
    <3> QED BY <3>1, <1>2, <1>3, <1>4
  <2> QED BY <2>1, <2>2
<1>6. ASSUME NEW i \in 0 .. L + 1, NEW j \in 0 .. L + 1, i <= j PROVE c[j] <= c[i]
  <2>0. r2 <= r
    BY <1>2, <1>3
  <2>1. CASE j # L + 1
    <3>1. i \in 0 .. L /\ j \in 0 .. L
      BY <2>1, <1>2, <1>6
    <3>2. b[j] <= b[i]
      BY <3>1, <1>3, <1>6
    <3> QED BY <3>1, <3>2, <1>4
  <2>2. CASE j = L + 1 /\ i = L + 1
    BY <2>2, <1>4
  <2>3. CASE j = L + 1 /\ i # L + 1
    <3>1. i \in 0 .. L /\ L \in 0 .. L /\ i <= L
      BY <2>3, <1>2
    <3>2. b[L] <= b[i] /\ b[i] \in Nat
      BY <3>1, <1>3
    <3> QED BY <2>0, <2>3, <3>1, <3>2, <1>3, <1>4
  <2> QED BY <2>1, <2>2, <2>3
<1>7. CourseBy(c, t, n, x, r2)
  BY <1>2, <1>4, <1>5, <1>6 DEF CourseBy
<1> QED BY <1>7 DEF Course, t

(* A notice is heard.                                                      *)
LEMMA CourseGoesOn ==
  ASSUME NEW s \in Seq(Notice), s # <<>>, NEW n, NEW x, NEW r, Course(s, n, x, r)
  PROVE  Off(Head(s), n) <= x /\ Course(Tail(s), n, x - Off(Head(s), n), r)
<1>1. PICK b : CourseBy(b, s, n, x, r)
  BY DEF Course
<1> DEFINE t == Tail(s)
           L == Len(t)
           c == [i \in 0 .. L |-> b[i + 1]]
<1>2. /\ L \in Nat /\ Len(s) = L + 1 /\ Head(s) = s[1] /\ s[1] \in Notice
      /\ \A i \in 1 .. L : t[i] = s[i + 1]
  OBVIOUS
<1>3. /\ b \in [0 .. L + 1 -> Nat] /\ b[0] = x /\ b[L + 1] = r
      /\ \A i \in 1 .. L + 1 : b[i - 1] = b[i] + Off(s[i], n)
      /\ \A i, j \in 0 .. L + 1 : i <= j => b[j] <= b[i]
  BY <1>1, <1>2 DEF CourseBy
<1>4. Off(Head(s), n) \in Nat
  BY <1>2 DEF Off, Notice
<1> HIDE DEF t, L
<1>5. x = b[1] + Off(Head(s), n) /\ b[1] \in Nat
  BY <1>2, <1>3
<1>6. c \in [0 .. L -> Nat] /\ c[0] = b[1] /\ c[L] = r /\ \A i \in 0 .. L : c[i] = b[i + 1]
  BY <1>2, <1>3
<1> HIDE DEF c
<1>7. ASSUME NEW i \in 1 .. L PROVE c[i - 1] = c[i] + Off(t[i], n)
  <2>1. i - 1 \in 0 .. L /\ i \in 0 .. L /\ i + 1 \in 1 .. L + 1 /\ (i - 1) + 1 = (i + 1) - 1
    BY <1>2
  <2> QED BY <2>1, <1>2, <1>3, <1>6
<1>8. ASSUME NEW i \in 0 .. L, NEW j \in 0 .. L, i <= j PROVE c[j] <= c[i]
  <2>1. i + 1 \in 0 .. L + 1 /\ j + 1 \in 0 .. L + 1 /\ i + 1 <= j + 1
    BY <1>2, <1>8
  <2> QED BY <2>1, <1>3, <1>6
<1>9. CourseBy(c, t, n, b[1], r)
  BY <1>6, <1>7, <1>8 DEF CourseBy, L
<1>10. b[1] = x - Off(Head(s), n) /\ Off(Head(s), n) <= x
  BY <1>4, <1>5
<1> QED BY <1>9, <1>10 DEF Course, t

Told == {"tell place", "tell amend"}
ToTake == {"place", "amend", "cancel"}

BookTypeOK ==
  /\ real \in [Numbers -> Nat] /\ book \in [Numbers -> Nat] /\ heardEarly \in [Numbers -> Nat]
  /\ given \in 0 .. MaxNumbers /\ seen \subseteq 1 .. given
  /\ news \in Seq(Notice) /\ mute \in BOOLEAN
  /\ req \in [Clients -> [op : ToTake \cup Told \cup {"none", "done"}, of : 0 .. MaxNumbers,
                          qty : Nat, new : 0 .. MaxNumbers]]

(* Nothing is known of a number that was not given out.                    *)
UnbornInv ==
  /\ \A n \in Numbers : n > given => real[n] = 0 /\ heardEarly[n] = 0
  /\ \A n \in Numbers : n \notin seen => book[n] = 0
  /\ \A i \in 1 .. Len(news) : news[i].of <= given

(* An order replaced is gone in the book before its notice has come.       *)
SeenInv ==
  \A n \in seen : Course(news, n, book[n], real[n]) \/ (real[n] = 0 /\ book[n] = 0)

(* A request names no less than the order has left; an order replaced has  *)
(* nothing left; one not registered yet is on its course once what was     *)
(* kept of it is taken off.                                                *)
RequestFits(r) ==
  /\ r.op \in {"place", "tell place"} => r.of = 0
  /\ r.op \in {"amend", "cancel"} => r.of \in seen /\ real[r.of] <= r.qty
  /\ r.op = "tell amend" => r.of \in seen /\ real[r.of] = 0
  /\ r.op \in Told =>
       /\ r.new \in 1 .. given /\ r.new \notin seen /\ heardEarly[r.new] <= r.qty
       /\ Course(news, r.new, r.qty - heardEarly[r.new], real[r.new])

Tells(c, n) == req[c].op \in Told /\ req[c].new = n

ToldApart ==
  \A c, d \in Clients, n \in 1 .. given : Tells(c, n) /\ Tells(d, n) => c = d

(* Of a number that the book has not registered an answer is on its way.   *)
NoneMissing ==
  mute \/ \A n \in 1 .. given : n \notin seen => \E c \in Clients : Tells(c, n)

BookInv ==
  /\ BookTypeOK /\ UnbornInv /\ SeenInv /\ ToldApart /\ NoneMissing
  /\ \A c \in Clients : RequestFits(req[c])

LEMMA BookInitInv == DoInit => BookInv
<1> SUFFICES ASSUME DoInit PROVE BookInv
  OBVIOUS
<1>1. MaxNumbers \in Nat /\ Len(<<>>) = 0 /\ <<>> \in Seq(Notice) /\ 1 .. 0 = {}
  BY DomesticAssumption
<1>0. /\ real = [n \in Numbers |-> 0] /\ book = [n \in Numbers |-> 0]
      /\ heardEarly = [n \in Numbers |-> 0] /\ given = 0 /\ seen = {} /\ news = <<>> /\ mute = FALSE
      /\ req = [c \in Clients |-> [op |-> "none", of |-> 0, qty |-> 0, new |-> 0]]
  BY DEF DoInit, NoRequest
<1>2. BookTypeOK
  <2>1. /\ real \in [Numbers -> Nat] /\ book \in [Numbers -> Nat] /\ heardEarly \in [Numbers -> Nat]
        /\ given \in 0 .. MaxNumbers /\ seen \subseteq 1 .. given
        /\ news \in Seq(Notice) /\ mute \in BOOLEAN
    <3>0. 0 \in 0 .. MaxNumbers /\ {} \subseteq 1 .. 0
      BY DomesticAssumption
    <3>1. given \in 0 .. MaxNumbers /\ seen \subseteq 1 .. given /\ mute \in BOOLEAN
      BY <1>0, <3>0
    <3>2. news \in Seq(Notice)
      BY <1>0, <1>1
    <3> QED BY <1>0, <3>1, <3>2
  <2>2. ASSUME NEW c \in Clients
        PROVE  req[c] \in [op : ToTake \cup Told \cup {"none", "done"}, of : 0 .. MaxNumbers,
                           qty : Nat, new : 0 .. MaxNumbers]
    BY <1>0, <1>1
  <2> QED BY <2>1, <2>2, <1>0 DEF BookTypeOK
<1>3. UnbornInv
  BY <1>0, <1>1 DEF UnbornInv
<1>4. ToldApart /\ NoneMissing /\ SeenInv
  BY <1>0, <1>1 DEF ToldApart, NoneMissing, SeenInv
<1>5. ASSUME NEW c \in Clients PROVE RequestFits(req[c])
  <2>1. req[c].op = "none"
    BY <1>0
  <2> QED BY <2>1 DEF RequestFits, Told
<1> QED BY <1>2, <1>3, <1>4, <1>5 DEF BookInv

LEMMA BookResult ==
  ASSUME BookInv
  PROVE  BookIsReal
<1> SUFFICES ASSUME news = <<>>, ~mute, \A c \in Clients : req[c].op = "none"
             PROVE  book = real
  BY DEF BookIsReal
<1>1. seen = 1 .. given
  BY DEF BookInv, BookTypeOK, NoneMissing, Tells, Told
<1>2. ASSUME NEW n \in Numbers PROVE book[n] = real[n]
  <2>1. CASE n \in seen
    BY <2>1, CourseEnds DEF BookInv, BookTypeOK, SeenInv
  <2>2. CASE n \notin seen
    BY <2>2, <1>1, DomesticAssumption DEF BookInv, BookTypeOK, UnbornInv, Numbers
  <2> QED BY <2>1, <2>2
<1> QED BY <1>2 DEF BookInv, BookTypeOK

-----------------------------------------------------------------------------
(* A request that begins, or ends without telling anything new: the others *)
(* are as they were.                                                       *)
LEMMA RequestKeeps ==
  ASSUME BookInv, NEW c \in Clients,
         NEW r \in [op : ToTake \cup {"none"}, of : 0 .. MaxNumbers, qty : Nat, new : 0 .. MaxNumbers],
         req' = [req EXCEPT ![c] = r], RequestFits(r),
         UNCHANGED <<real, given, book, seen, news, heardEarly>>,
         mute' \in BOOLEAN, mute => mute', req[c].op \in Told => mute'
  PROVE  BookInv'
<1>1. BookTypeOK'
  BY DEF BookInv, BookTypeOK
<1>2. req'[c] = r /\ r.op \notin Told /\ \A d \in Clients : d # c => req'[d] = req[d]
  BY DEF BookInv, BookTypeOK, Told, ToTake
<1>3. UnbornInv' /\ SeenInv'
  BY DEF BookInv, UnbornInv, SeenInv
<1>4. \A n : ~Tells(c, n)' /\ \A d \in Clients : d # c => (Tells(d, n)' <=> Tells(d, n))
  BY <1>2 DEF Tells
<1>5. ToldApart'
  BY <1>4 DEF BookInv, ToldApart
<1>6. NoneMissing'
  <2>1. CASE req[c].op \in Told
    BY <2>1 DEF NoneMissing
  <2>2. CASE req[c].op \notin Told
    <3>1. \A n : ~Tells(c, n)
      BY <2>2 DEF Tells
    <3> QED BY <3>1, <1>4 DEF BookInv, NoneMissing
  <2> QED BY <2>1, <2>2
<1>7. ASSUME NEW d \in Clients PROVE RequestFits(req[d])'
  <2>1. PICK q : q = req'[d]
    OBVIOUS
  <2>2. RequestFits(q)
    BY <2>1, <1>2 DEF BookInv
  <2>3. RequestFits(q)'
    BY <2>2 DEF RequestFits
  <2> QED BY <2>1, <2>3
<1> QED BY <1>1, <1>3, <1>5, <1>6, <1>7 DEF BookInv

LEMMA NoRequestFits ==
  /\ NoRequest \in [op : ToTake \cup {"none"}, of : 0 .. MaxNumbers, qty : Nat, new : 0 .. MaxNumbers]
  /\ RequestFits(NoRequest)
BY DomesticAssumption DEF NoRequest, RequestFits, Told

(* A request for an order names what the book has left of it, which is no  *)
(* less than there is.                                                     *)
LEMMA AskKeeps ==
  ASSUME BookInv, NEW c \in Clients, NEW op \in ToTake, NEW n \in 0 .. MaxNumbers, NEW q \in Nat,
         AskBrokerFor(c, op, n, q),
         \/ op = "place" /\ n = 0
         \/ op \in {"amend", "cancel"} /\ n \in seen /\ real[n] <= q
  PROVE  BookInv'
<1> DEFINE r == [op |-> op, of |-> n, qty |-> q, new |-> 0]
<1>1. r \in [op : ToTake \cup {"none"}, of : 0 .. MaxNumbers, qty : Nat, new : 0 .. MaxNumbers]
  BY DomesticAssumption
<1>2. r.op = op /\ r.of = n /\ r.qty = q
  OBVIOUS
<1>3. /\ UNCHANGED <<real, given, book, seen, news, heardEarly, mute>> /\ req[c].op = "none"
      /\ req' = [req EXCEPT ![c] = r]
  BY DEF AskBrokerFor
<1> HIDE DEF r
<1>4. RequestFits(r)
  BY <1>2 DEF RequestFits, Told, ToTake
<1>5. mute \in BOOLEAN
  BY DEF BookInv, BookTypeOK
<1> QED BY <1>1, <1>3, <1>4, <1>5, RequestKeeps DEF Told

-----------------------------------------------------------------------------
(* The broker takes quantity off an order and sends a notice of it: every  *)
(* course goes on to what the broker has left now.                         *)
LEMMA CoursesAppend ==
  ASSUME BookInv, NEW n \in Numbers, NEW q \in Nat, q <= real[n],
         NEW real2, real2 = [real EXCEPT ![n] = @ - q],
         NEW news2, news2 = Append(news, [of |-> n, qty |-> q])
  PROVE  /\ real2 \in [Numbers -> Nat] /\ news2 \in Seq(Notice)
         /\ \A k \in Numbers : real2[k] <= real[k]
         /\ \A k \in Numbers : \A x : Course(news, k, x, real[k]) => Course(news2, k, x, real2[k])
<1> DEFINE e == [of |-> n, qty |-> q]
<1>1. real \in [Numbers -> Nat] /\ news \in Seq(Notice) /\ e \in Notice /\ e.of = n /\ e.qty = q
  BY DEF BookInv, BookTypeOK, Notice
<1> HIDE DEF e
<1>2. real2 \in [Numbers -> Nat] /\ \A k \in Numbers : real[k] = real2[k] + Off(e, k)
  BY <1>1 DEF Off
<1>3. ASSUME NEW k \in Numbers, NEW x, Course(news, k, x, real[k]) PROVE Course(news2, k, x, real2[k])
  BY <1>1, <1>2, <1>3, CourseAppends DEF e
<1>4. \A k \in Numbers : real2[k] <= real[k]
  BY <1>1, <1>2 DEF Off
<1>5. news2 \in Seq(Notice)
  BY <1>1 DEF e
<1> QED BY <1>2, <1>3, <1>4, <1>5

(* What a notice at the head of the line does to the courses.              *)
LEMMA NumbersGiven ==
  ASSUME BookInv
  PROVE  /\ 1 .. given \subseteq Numbers /\ seen \subseteq Numbers /\ given \in Nat
         /\ \A c \in Clients : /\ req[c].of \in 0 .. MaxNumbers /\ req[c].new \in 0 .. MaxNumbers
                               /\ req[c].qty \in Nat
BY DomesticAssumption DEF BookInv, BookTypeOK, Numbers

LEMMA FillKeeps ==
  ASSUME BookInv, NEW n \in Numbers, BrokerFillsOne(n)
  PROVE  BookInv'
<1>0. /\ real[n] \in Nat /\ 1 <= real[n] /\ real' = [real EXCEPT ![n] = @ - 1]
      /\ news' = Append(news, [of |-> n, qty |-> 1])
      /\ UNCHANGED <<given, book, seen, heardEarly, req, mute>>
  BY DEF BrokerFillsOne, GoneAtBroker, BookInv, BookTypeOK
<1>1. /\ real' \in [Numbers -> Nat] /\ news' \in Seq(Notice)
      /\ \A k \in Numbers : real'[k] <= real[k]
      /\ \A k \in Numbers : \A x : Course(news, k, x, real[k]) => Course(news', k, x, real'[k])
  BY <1>0, CoursesAppend
<1>2. BookTypeOK'
  BY <1>0, <1>1 DEF BookInv, BookTypeOK
<1>3. n <= given
  BY <1>0, NumbersGiven DEF BookInv, UnbornInv, Numbers
<1>4. UnbornInv'
  <2>1. \A k \in Numbers : k > given => real'[k] = 0
    BY <1>0, <1>1, <1>3 DEF BookInv, UnbornInv, BookTypeOK
  <2>2. \A i \in 1 .. Len(news') : news'[i].of <= given
    BY <1>0, <1>3 DEF BookInv, UnbornInv, BookTypeOK
  <2> QED BY <1>0, <2>1, <2>2 DEF BookInv, UnbornInv
<1>5. SeenInv'
  <2>1. \A k \in Numbers : real[k] = 0 => real'[k] = 0
    BY <1>1 DEF BookInv, BookTypeOK
  <2> QED BY <1>0, <1>1, <2>1, NumbersGiven DEF BookInv, SeenInv
<1>6. ASSUME NEW c \in Clients PROVE RequestFits(req[c])'
  <2>1. PICK r : r = req[c]
    OBVIOUS
  <2>2. RequestFits(r) /\ r.of \in 0 .. MaxNumbers /\ r.qty \in Nat
    BY <2>1, NumbersGiven DEF BookInv
  <2>3. \A k \in Numbers : real'[k] \in Nat /\ real[k] \in Nat /\ real'[k] <= real[k]
    BY <1>1 DEF BookInv, BookTypeOK
  <2>4. r.op \in {"amend", "cancel"} => r.of \in seen /\ real'[r.of] <= r.qty
    <3>1. ASSUME r.of \in seen, real[r.of] <= r.qty PROVE real'[r.of] <= r.qty
      BY <2>2, <2>3, <3>1, NumbersGiven
    <3> QED BY <2>2, <3>1 DEF RequestFits
  <2>5. r.op = "tell amend" => r.of \in seen /\ real'[r.of] = 0
    <3>1. ASSUME r.of \in seen, real[r.of] = 0 PROVE real'[r.of] = 0
      BY <2>3, <3>1, NumbersGiven
    <3> QED BY <2>2, <3>1 DEF RequestFits
  <2>6. ASSUME r.op \in Told
        PROVE  Course(news', r.new, r.qty - heardEarly[r.new], real'[r.new])
    BY <2>2, <2>6, <1>1, NumbersGiven DEF RequestFits
  <2>7. RequestFits(r)'
    BY <1>0, <2>2, <2>4, <2>5, <2>6 DEF RequestFits
  <2> QED BY <2>1, <2>7, <1>0
<1>7. ToldApart' /\ NoneMissing'
  BY <1>0 DEF BookInv, ToldApart, NoneMissing, Tells
<1> QED BY <1>2, <1>4, <1>5, <1>6, <1>7 DEF BookInv

(* A notice is taken off the order, or kept until the order is registered. *)
LEMMA HearKeeps ==
  ASSUME BookInv, HearNews
  PROVE  BookInv'
<1>0. /\ news # <<>> /\ news' = Tail(news) /\ news \in Seq(Notice)
      /\ UNCHANGED <<real, given, seen, req, mute>>
      /\ real \in [Numbers -> Nat] /\ book \in [Numbers -> Nat] /\ heardEarly \in [Numbers -> Nat]
  BY DEF HearNews, BookInv, BookTypeOK
<1>1. PICK e \in Notice : e = Head(news)
  BY <1>0
<1>2. /\ e.of \in Numbers /\ e.qty \in Nat /\ e.of <= given
      /\ news' \in Seq(Notice) /\ \A i \in 1 .. Len(news') : news'[i] = news[i + 1] /\ i + 1 \in 1 .. Len(news)
  <2>1. Head(news) = news[1] /\ 1 \in 1 .. Len(news)
    BY <1>0
  <2> QED BY <1>0, <1>1, <2>1 DEF Notice, BookInv, UnbornInv
<1>3. \A n \in Numbers : \A x : Course(news, n, x, real[n]) =>
        Off(e, n) <= x /\ Course(news', n, x - Off(e, n), real[n])
  BY <1>0, <1>1, CourseGoesOn
<1>4. IF e.of \in seen
        THEN book' = [book EXCEPT ![e.of] = Less(@, e.qty)] /\ UNCHANGED heardEarly
        ELSE heardEarly' = [heardEarly EXCEPT ![e.of] = @ + e.qty] /\ UNCHANGED book
  BY <1>1 DEF HearNews
<1>5. BookTypeOK'
  <2>1. heardEarly' \in [Numbers -> Nat]
    <3>1. heardEarly[e.of] + e.qty \in Nat
      BY <1>0, <1>2
    <3> QED BY <1>0, <1>4, <3>1
  <2>2. book' \in [Numbers -> Nat]
    <3>1. Less(book[e.of], e.qty) \in Nat
      BY <1>0, <1>2 DEF Less
    <3> QED BY <1>0, <1>4, <3>1
  <2> QED BY <1>0, <1>2, <2>1, <2>2 DEF BookInv, BookTypeOK
<1>6. UnbornInv'
  <2>1. \A i \in 1 .. Len(news') : news'[i].of <= given
    BY <1>2 DEF BookInv, UnbornInv
  <2>2. \A n \in Numbers : n > given => heardEarly'[n] = 0
    <3>1. ASSUME NEW n \in Numbers, n > given PROVE n # e.of
      BY <1>2, <3>1, NumbersGiven DEF Numbers
    <3>2. \A n \in Numbers : n # e.of => heardEarly'[n] = heardEarly[n]
      BY <1>0, <1>4
    <3> QED BY <3>1, <3>2 DEF BookInv, UnbornInv
  <2>3. \A n \in Numbers : n \notin seen => book'[n] = 0
    BY <1>0, <1>4 DEF BookInv, UnbornInv
  <2> QED BY <1>0, <2>1, <2>2, <2>3 DEF BookInv, UnbornInv
<1>7. ASSUME NEW n \in seen
      PROVE  Course(news', n, book'[n], real[n]) \/ (real[n] = 0 /\ book'[n] = 0)
  <2>0. n \in Numbers /\ book[n] \in Nat
    BY <1>0, NumbersGiven
  <2>1. book'[n] = IF n = e.of THEN Less(book[n], e.qty) ELSE book[n]
    BY <1>0, <1>4, <2>0
  <2>2. CASE Course(news, n, book[n], real[n])
    <3>1. Off(e, n) <= book[n] /\ Course(news', n, book[n] - Off(e, n), real[n])
      BY <1>3, <2>0, <2>2
    <3>2. book'[n] = book[n] - Off(e, n)
      BY <1>2, <2>0, <2>1, <3>1 DEF Off, Less
    <3> QED BY <3>1, <3>2
  <2>3. CASE real[n] = 0 /\ book[n] = 0
    BY <1>2, <2>1, <2>3 DEF Less
  <2> QED BY <2>2, <2>3 DEF BookInv, SeenInv
<1>8. ASSUME NEW c \in Clients PROVE RequestFits(req[c])'
  <2>1. PICK r : r = req[c]
    OBVIOUS
  <2>2. RequestFits(r) /\ r.qty \in Nat
    BY <2>1, NumbersGiven DEF BookInv
  <2>3. ASSUME r.op \in Told
        PROVE  heardEarly'[r.new] <= r.qty /\ Course(news', r.new, r.qty - heardEarly'[r.new], real[r.new])
    <3> DEFINE n == r.new
               x == r.qty - heardEarly[n]
    <3>0. n \in Numbers /\ n \notin seen /\ heardEarly[n] \in Nat /\ heardEarly[n] <= r.qty
      BY <1>0, <2>2, <2>3, NumbersGiven DEF RequestFits
    <3>1. Off(e, n) <= x /\ Course(news', n, x - Off(e, n), real[n])
      BY <1>3, <2>2, <2>3, <3>0 DEF RequestFits
    <3>2. heardEarly'[n] = heardEarly[n] + Off(e, n)
      BY <1>0, <1>2, <1>4, <3>0 DEF Off
    <3>3. Off(e, n) \in Nat
      BY <1>2 DEF Off
    <3>4. heardEarly'[n] <= r.qty /\ r.qty - heardEarly'[n] = x - Off(e, n)
      BY <2>2, <3>0, <3>1, <3>2, <3>3
    <3> HIDE DEF x
    <3> QED BY <3>1, <3>4
  <2>4. RequestFits(r)'
    BY <1>0, <2>2, <2>3 DEF RequestFits
  <2> QED BY <2>1, <2>4, <1>0
<1>9. ToldApart' /\ NoneMissing'
  BY <1>0 DEF BookInv, ToldApart, NoneMissing, Tells
<1> QED BY <1>0, <1>5, <1>6, <1>7, <1>8, <1>9 DEF BookInv, SeenInv

-----------------------------------------------------------------------------
(* What the broker takes off an order when it takes a request: an amend or *)
(* a cancel takes all that is left, since no more was left than it names   *)
(* and no less may be.                                                     *)
LEMMA TakenOff ==
  ASSUME BookInv, NEW c \in Clients, NEW r, r = req[c], r.op \in ToTake,
         r.op # "place" => r.qty <= real[r.of],
         NEW real1, real1 = IF r.op = "place" THEN real ELSE [real EXCEPT ![r.of] = @ - r.qty],
         NEW news1, news1 = IF r.op = "place" THEN news ELSE Append(news, [of |-> r.of, qty |-> r.qty])
  PROVE  /\ real1 \in [Numbers -> Nat] /\ news1 \in Seq(Notice)
         /\ \A k \in Numbers : real1[k] <= real[k]
         /\ \A k \in Numbers : \A x : Course(news, k, x, real[k]) => Course(news1, k, x, real1[k])
         /\ \A i \in 1 .. Len(news1) : news1[i].of <= given
         /\ r.op # "place" => r.of \in seen /\ real1[r.of] = 0
<1>0. /\ real \in [Numbers -> Nat] /\ news \in Seq(Notice) /\ r.qty \in Nat
      /\ \A i \in 1 .. Len(news) : news[i].of <= given
      /\ RequestFits(r)
  BY NumbersGiven DEF BookInv, BookTypeOK, UnbornInv
<1>1. CASE r.op = "place"
  BY <1>0, <1>1
<1>2. CASE r.op # "place"
  <2>1. r.of \in seen /\ real[r.of] <= r.qty /\ r.of \in Numbers /\ r.of <= given
    <3>1. r.op \in {"amend", "cancel"}
      BY <1>2 DEF ToTake
    <3>2. r.of \in seen /\ real[r.of] <= r.qty
      BY <1>0, <3>1 DEF RequestFits
    <3>3. r.of \in 1 .. given
      BY <3>2 DEF BookInv, BookTypeOK
    <3> QED BY <3>2, <3>3, NumbersGiven
  <2>2. r.qty <= real[r.of] /\ real1 = [real EXCEPT ![r.of] = @ - r.qty]
        /\ news1 = Append(news, [of |-> r.of, qty |-> r.qty])
    BY <1>2
  <2>3. /\ real1 \in [Numbers -> Nat] /\ news1 \in Seq(Notice)
        /\ \A k \in Numbers : real1[k] <= real[k]
        /\ \A k \in Numbers : \A x : Course(news, k, x, real[k]) => Course(news1, k, x, real1[k])
    BY <1>0, <2>1, <2>2, CoursesAppend
  <2>4. real1[r.of] = 0
    BY <1>0, <2>1, <2>2
  <2>5. ASSUME NEW i \in 1 .. Len(news1) PROVE news1[i].of <= given
    <3> DEFINE e == [of |-> r.of, qty |-> r.qty]
    <3>1. e \in Notice /\ e.of = r.of
      BY <1>0, <2>1 DEF Notice
    <3> HIDE DEF e
    <3>2. (i <= Len(news) /\ news1[i] = news[i]) \/ news1[i] = e
      BY <1>0, <2>2, <3>1 DEF e
    <3> QED BY <1>0, <2>1, <3>1, <3>2
  <2> QED BY <2>1, <2>3, <2>4, <2>5
<1> QED BY <1>1, <1>2

LEMMA TakesKeeps ==
  ASSUME BookInv, NEW c \in Clients, BrokerTakes(c)
  PROVE  BookInv'
<1>1. PICK r, m : r = req[c] /\ m = given + 1
  OBVIOUS
<1>2. PICK real1, news1 :
        /\ real1 = IF r.op = "place" THEN real ELSE [real EXCEPT ![r.of] = @ - r.qty]
        /\ news1 = IF r.op = "place" THEN news ELSE Append(news, [of |-> r.of, qty |-> r.qty])
  OBVIOUS
<1>3. /\ r.op \in ToTake /\ (r.op # "place" => r.qty <= real[r.of]) /\ (r.op # "cancel" => m \in Numbers)
      /\ r.of \in 0 .. MaxNumbers /\ r.qty \in Nat /\ m \notin 1 .. given /\ m > given /\ m \in 1 .. m
      /\ 1 .. given \subseteq 1 .. m /\ RequestFits(r) /\ 1 .. m = (1 .. given) \cup {m}
  BY <1>1, NumbersGiven DEF BrokerTakes, ToTake, BookInv
<1>4. /\ real1 \in [Numbers -> Nat] /\ news1 \in Seq(Notice)
      /\ \A k \in Numbers : real1[k] <= real[k]
      /\ \A k \in Numbers : \A x : Course(news, k, x, real[k]) => Course(news1, k, x, real1[k])
      /\ \A i \in 1 .. Len(news1) : news1[i].of <= given
      /\ r.op # "place" => r.of \in seen /\ real1[r.of] = 0
  BY <1>1, <1>2, <1>3, TakenOff
<1>5. /\ UNCHANGED <<book, seen, heardEarly, mute>> /\ news' = news1
      /\ given' = IF r.op = "cancel" THEN given ELSE m
      /\ req' = [req EXCEPT ![c].op = TellOf(@), ![c].new = IF r.op = "cancel" THEN 0 ELSE m]
  BY <1>1, <1>2 DEF BrokerTakes, GoneAtBroker
<1>6. /\ real' = [n \in Numbers |-> real'[n]]
      /\ \A n \in Numbers : real'[n] = IF r.op # "cancel" /\ n = m THEN r.qty ELSE real1[n]
  <2>1. real' = [n \in Numbers |-> IF n = r.of THEN real[n] - r.qty
                                   ELSE IF n = m /\ r.op # "cancel" THEN r.qty ELSE real[n]]
    BY <1>1 DEF BrokerTakes
  <2>2. real \in [Numbers -> Nat]
    BY DEF BookInv, BookTypeOK
  <2>3. CASE r.op = "place"
    <3>1. r.of = 0 /\ r.of \notin Numbers
      BY <1>3, <2>3 DEF RequestFits, Numbers
    <3> QED BY <1>2, <2>1, <2>2, <2>3, <3>1
  <2>4. CASE r.op # "place"
    <3>1. r.of \in Numbers /\ r.of # m
      BY <1>3, <1>4, <2>4, NumbersGiven DEF BookInv, BookTypeOK
    <3> QED BY <1>2, <2>1, <2>2, <2>4, <3>1
  <2> QED BY <2>3, <2>4
<1>7. /\ req'[c].op = TellOf(r.op) /\ req'[c].of = r.of /\ req'[c].qty = r.qty
      /\ req'[c].new = IF r.op = "cancel" THEN 0 ELSE m
      /\ \A d \in Clients : d # c => req'[d] = req[d]
  BY <1>1, <1>5 DEF BookInv, BookTypeOK
<1>8. /\ r.op = "cancel" => TellOf(r.op) = "done"
      /\ r.op = "place" => TellOf(r.op) = "tell place"
      /\ r.op = "amend" => TellOf(r.op) = "tell amend"
  BY DEF TellOf
<1>9. \A n \in 1 .. given : n \in Numbers /\ real'[n] = real1[n]
  BY <1>3, <1>6, NumbersGiven
<1>10. BookTypeOK'
  <2>1. real' \in [Numbers -> Nat]
    BY <1>3, <1>4, <1>6
  <2>2. given' \in 0 .. MaxNumbers /\ seen' \subseteq 1 .. given' /\ given' \in Nat
    <3>1. given' \in 0 .. MaxNumbers /\ given' \in Nat /\ given <= given'
      <4>1. given \in 0 .. MaxNumbers /\ given \in Nat /\ MaxNumbers \in Nat
        BY NumbersGiven, DomesticAssumption DEF BookInv, BookTypeOK
      <4>2. m = given + 1
        BY <1>1
      <4>3. r.op # "cancel" => m \in 1 .. MaxNumbers
        BY <1>3 DEF Numbers
      <4> QED BY <1>5, <4>1, <4>2, <4>3
    <3>2. seen' \subseteq 1 .. given
      BY <1>5 DEF BookInv, BookTypeOK
    <3> QED BY <3>1, <3>2, NumbersGiven
  <2>3. req'[c].new \in 0 .. MaxNumbers
    BY <1>3, <1>7, DomesticAssumption DEF Numbers
  <2>4. TellOf(r.op) \in ToTake \cup Told \cup {"none", "done"}
    BY <1>3, <1>8 DEF ToTake, Told
  <2>5. req' \in [Clients -> [op : ToTake \cup Told \cup {"none", "done"}, of : 0 .. MaxNumbers,
                              qty : Nat, new : 0 .. MaxNumbers]]
    BY <1>1, <1>5, <1>7, <2>3, <2>4 DEF BookInv, BookTypeOK
  <2> QED BY <1>4, <1>5, <2>1, <2>2, <2>5 DEF BookInv, BookTypeOK
<1>11. UnbornInv'
  <2>1. ASSUME NEW n \in Numbers, n > given' PROVE real'[n] = 0 /\ heardEarly'[n] = 0
    <3>1. n > given /\ (r.op # "cancel" => n # m)
      BY <1>1, <1>5, <2>1, NumbersGiven DEF Numbers
    <3>2. real[n] = 0 /\ real1[n] <= real[n] /\ real1[n] \in Nat /\ heardEarly[n] = 0
      BY <1>4, <3>1 DEF BookInv, UnbornInv
    <3> QED BY <1>5, <1>6, <3>1, <3>2
  <2>2. \A i \in 1 .. Len(news') : news'[i].of <= given'
    <3>1. given <= given' /\ given \in Nat /\ given' \in Nat
      BY <1>1, <1>5, NumbersGiven
    <3>2. ASSUME NEW i \in 1 .. Len(news1) PROVE news1[i].of <= given'
      <4>1. news1[i] \in Notice /\ news1[i].of <= given
        BY <1>4
      <4> QED BY <3>1, <4>1 DEF Notice, Numbers
    <3> QED BY <3>2, <1>5
  <2> QED BY <1>5, <2>1, <2>2 DEF BookInv, UnbornInv
<1>12. SeenInv'
  <2>1. ASSUME NEW n \in seen
        PROVE  Course(news', n, book[n], real'[n]) \/ (real'[n] = 0 /\ book[n] = 0)
    <3>1. n \in Numbers /\ real'[n] = real1[n] /\ real[n] \in Nat /\ real1[n] \in Nat
      BY <1>4, <1>9, NumbersGiven DEF BookInv, BookTypeOK
    <3> QED BY <1>4, <1>5, <3>1 DEF BookInv, SeenInv
  <2> QED BY <1>5, <2>1 DEF SeenInv
<1>13. ASSUME NEW d \in Clients, d # c PROVE RequestFits(req[d])'
  <2>1. PICK q : q = req[d]
    OBVIOUS
  <2>2. RequestFits(q) /\ q.of \in 0 .. MaxNumbers /\ q.qty \in Nat
    BY <2>1, NumbersGiven DEF BookInv
  <2>3. \A n \in seen : real'[n] <= real[n] /\ real'[n] \in Nat /\ real[n] \in Nat
    BY <1>4, <1>9, NumbersGiven DEF BookInv, BookTypeOK
  <2>4. q.op \in {"amend", "cancel"} => q.of \in seen /\ real'[q.of] <= q.qty
    <3>1. ASSUME q.of \in seen, real[q.of] <= q.qty PROVE real'[q.of] <= q.qty
      BY <2>2, <2>3, <3>1
    <3> QED BY <2>2, <3>1 DEF RequestFits
  <2>5. q.op = "tell amend" => q.of \in seen /\ real'[q.of] = 0
    <3>1. ASSUME q.of \in seen, real[q.of] = 0 PROVE real'[q.of] = 0
      BY <2>3, <3>1
    <3> QED BY <2>2, <3>1 DEF RequestFits
  <2>6. ASSUME q.op \in Told
        PROVE  q.new \in 1 .. given' /\ Course(news', q.new, q.qty - heardEarly[q.new], real'[q.new])
    <3>1. q.new \in 1 .. given /\ Course(news, q.new, q.qty - heardEarly[q.new], real[q.new])
      BY <2>2, <2>6 DEF RequestFits
    <3> QED BY <1>3, <1>4, <1>5, <1>9, <3>1
  <2>7. RequestFits(q)'
    BY <1>5, <2>2, <2>4, <2>5, <2>6 DEF RequestFits
  <2> QED BY <2>1, <2>7, <1>7, <1>13
<1>14. RequestFits(req[c])'
  <2>1. PICK q : q = req'[c]
    OBVIOUS
  <2>2. CASE r.op = "cancel"
    <3>1. q.op = "done"
      BY <1>7, <1>8, <2>1, <2>2
    <3>2. RequestFits(q)'
      BY <3>1 DEF RequestFits, Told
    <3> QED BY <2>1, <3>2
  <2>3. CASE r.op # "cancel"
    <3>1. q.op = (IF r.op = "place" THEN "tell place" ELSE "tell amend")
          /\ q.of = r.of /\ q.qty = r.qty /\ q.new = m
      BY <1>3, <1>7, <1>8, <2>1, <2>3 DEF ToTake
    <3>2. real'[m] = r.qty /\ heardEarly[m] = 0 /\ m \in Numbers /\ m \notin seen /\ given' = m
      BY <1>3, <1>5, <1>6, <2>3 DEF BookInv, BookTypeOK, UnbornInv
    <3>3. \A i \in 1 .. Len(news1) : news1[i].of # m
      BY <1>1, <1>4, NumbersGiven
    <3>4. Course(news1, m, r.qty, r.qty) /\ r.qty - 0 = r.qty
      BY <1>3, <1>4, <3>3, CourseBegins
    <3>5. r.op # "place" => r.of \in seen /\ real'[r.of] = 0
      BY <1>4, <1>9 DEF BookInv, BookTypeOK
    <3>6. r.op = "place" => r.of = 0
      BY <1>3 DEF RequestFits
    <3>7. /\ q.new \in 1 .. given' /\ q.new \notin seen' /\ heardEarly'[q.new] <= q.qty
          /\ Course(news', q.new, q.qty - heardEarly'[q.new], real'[q.new])
      <4>1. heardEarly'[m] = 0 /\ m \in 1 .. given' /\ m \notin seen' /\ 0 <= r.qty
        BY <1>3, <1>5, <3>2
      <4>2. r.qty - heardEarly'[m] = r.qty
        BY <3>4, <4>1
      <4>3. Course(news', m, r.qty - heardEarly'[m], real'[m])
        BY <1>5, <3>2, <3>4, <4>2
      <4> QED BY <3>1, <4>1, <4>3
    <3>8. q.op \in Told /\ q.op \notin {"place", "amend", "cancel"}
      BY <3>1 DEF Told
    <3>9. (q.op = "tell place" => q.of = 0) /\ (q.op = "tell amend" => q.of \in seen' /\ real'[q.of] = 0)
      BY <1>5, <3>1, <3>5, <3>6
    <3>10. RequestFits(q)'
      BY <3>7, <3>8, <3>9 DEF RequestFits
    <3> QED BY <2>1, <3>10
  <2> QED BY <2>2, <2>3
<1>15. /\ \A n : Tells(c, n)' => r.op # "cancel" /\ n = m
       /\ r.op # "cancel" => Tells(c, m)'
       /\ \A n : ~Tells(c, n)
       /\ \A d \in Clients : \A n : d # c => (Tells(d, n)' <=> Tells(d, n))
       /\ \A d \in Clients : \A n : Tells(d, n) => n \in 1 .. given
  <2>1. \A d \in Clients : \A n : Tells(d, n) => n \in 1 .. given
    BY DEF BookInv, Tells, RequestFits
  <2> QED BY <2>1, <1>1, <1>3, <1>7, <1>8 DEF Tells, Told, ToTake
<1>16. ToldApart'
  BY <1>3, <1>15 DEF BookInv, ToldApart
<1>17. NoneMissing'
  <2>1. ASSUME ~mute, NEW n \in 1 .. given', n \notin seen PROVE \E d \in Clients : Tells(d, n)'
    <3>1. CASE n \in 1 .. given
      BY <1>15, <2>1, <3>1 DEF BookInv, NoneMissing
    <3>2. CASE n \notin 1 .. given
      BY <1>3, <1>5, <1>15, <2>1, <3>2
    <3> QED BY <3>1, <3>2
  <2> QED BY <1>5, <2>1 DEF NoneMissing
<1> QED BY <1>10, <1>11, <1>12, <1>13, <1>14, <1>16, <1>17 DEF BookInv

LEMMA LessIs ==
  ASSUME NEW x \in Nat, NEW y \in Nat, y <= x
  PROVE  Less(x, y) = x - y /\ x - y \in Nat
BY DEF Less

(* An order is registered: it is on the course that what was kept leaves   *)
(* it, and the order it replaced has nothing left.                         *)
LEMMA AnswerKeeps ==
  ASSUME BookInv, NEW c \in Clients, TheAnswer(c)
  PROVE  BookInv'
<1>1. PICK r : r = req[c]
  OBVIOUS
<1>2. /\ UNCHANGED <<real, given, news, mute>> /\ req' = [req EXCEPT ![c] = NoRequest]
      /\ r.op \in Told \cup {"done"}
  BY <1>1 DEF TheAnswer, Told
<1>3. CASE r.op = "done"
  <2>1. UNCHANGED <<book, seen, heardEarly>> /\ mute \in BOOLEAN /\ req[c].op \notin Told
    BY <1>1, <1>3 DEF TheAnswer, BookInv, BookTypeOK, Told
  <2> QED BY <1>2, <2>1, NoRequestFits, RequestKeeps
<1>4. CASE r.op \in Told
  <2>1. PICK m : m = r.new
    OBVIOUS
  <2>2. /\ seen' = seen \cup {m} /\ heardEarly' = [heardEarly EXCEPT ![m] = 0]
        /\ book' = [n \in Numbers |-> IF n = m THEN Less(r.qty, heardEarly[m])
                                      ELSE IF n = r.of THEN 0 ELSE book[n]]
    BY <1>1, <1>4, <2>1 DEF TheAnswer, Registered, Told
  <2>3. /\ m \in 1 .. given /\ m \in Numbers /\ m \notin seen /\ heardEarly[m] <= r.qty
        /\ Course(news, m, r.qty - heardEarly[m], real[m])
        /\ r.op = "tell amend" => r.of \in seen /\ real[r.of] = 0
        /\ r.op = "tell place" => r.of = 0
        /\ r.qty \in Nat /\ heardEarly[m] \in Nat
    BY <1>1, <1>4, <2>1, NumbersGiven DEF BookInv, RequestFits, BookTypeOK
  <2>4. Less(r.qty, heardEarly[m]) = r.qty - heardEarly[m] /\ r.qty - heardEarly[m] \in Nat
    BY <2>3, LessIs
  <2>5. r.of \in Numbers => r.of \in seen /\ real[r.of] = 0
    <3>1. r.op = "tell place" => r.of \notin Numbers
      <4>1. 0 \notin Numbers
        BY DomesticAssumption DEF Numbers
      <4> QED BY <2>3, <4>1
    <3> QED BY <1>4, <2>3, <3>1 DEF Told
  <2>6. req'[c] = NoRequest /\ \A d \in Clients : d # c => req'[d] = req[d]
    BY <1>2 DEF BookInv, BookTypeOK
  <2>7. BookTypeOK'
    <3>1. book' \in [Numbers -> Nat] /\ heardEarly' \in [Numbers -> Nat]
      BY <2>2, <2>4 DEF BookInv, BookTypeOK
    <3>2. NoRequest \in [op : ToTake \cup Told \cup {"none", "done"}, of : 0 .. MaxNumbers,
                         qty : Nat, new : 0 .. MaxNumbers]
      BY DomesticAssumption DEF NoRequest
    <3>3. seen' \subseteq 1 .. given
      BY <2>2, <2>3 DEF BookInv, BookTypeOK
    <3> QED BY <1>2, <3>1, <3>2, <3>3 DEF BookInv, BookTypeOK
  <2>8. UnbornInv'
    <3>1. \A n \in Numbers : n > given => heardEarly'[n] = 0
      BY <2>2 DEF BookInv, BookTypeOK, UnbornInv
    <3>2. \A n \in Numbers : n \notin seen' => book'[n] = 0
      BY <2>2 DEF BookInv, UnbornInv
    <3> QED BY <1>2, <3>1, <3>2 DEF BookInv, UnbornInv
  <2>9. SeenInv'
    <3>1. ASSUME NEW n \in seen'
          PROVE  Course(news, n, book'[n], real[n]) \/ (real[n] = 0 /\ book'[n] = 0)
      <4>0. n \in Numbers
        BY <2>2, <2>3, NumbersGiven
      <4>1. CASE n = m
        BY <2>2, <2>3, <2>4, <4>0, <4>1
      <4>2. CASE n # m /\ n = r.of
        BY <2>2, <2>5, <4>0, <4>2
      <4>3. CASE n # m /\ n # r.of
        <5>1. n \in seen /\ book'[n] = book[n]
          BY <2>2, <4>0, <4>3
        <5> QED BY <5>1 DEF BookInv, SeenInv
      <4> QED BY <4>1, <4>2, <4>3
    <3> QED BY <1>2, <3>1 DEF SeenInv
  <2>10. /\ \A n : Tells(c, n) <=> n = m
         /\ \A n : ~Tells(c, n)'
         /\ \A d \in Clients : \A n : d # c => (Tells(d, n)' <=> Tells(d, n))
    <3>1. NoRequest.op \notin Told
      BY DEF NoRequest, Told
    <3>2. \A n : Tells(c, n) <=> n = m
      BY <1>1, <1>4, <2>1 DEF Tells
    <3>3. \A n : ~Tells(c, n)'
      BY <2>6, <3>1 DEF Tells
    <3> QED BY <2>6, <3>2, <3>3 DEF Tells
  <2>11. \A d \in Clients : d # c => ~Tells(d, m)
    BY <2>3, <2>10 DEF BookInv, ToldApart
  <2>12. ToldApart'
    BY <1>2, <2>10 DEF BookInv, ToldApart
  <2>13. NoneMissing'
    BY <1>2, <2>2, <2>10 DEF BookInv, NoneMissing
  <2>14. ASSUME NEW d \in Clients PROVE RequestFits(req[d])'
    <3>1. PICK q : q = req'[d]
      OBVIOUS
    <3>2. CASE d = c
      <4>1. RequestFits(q)'
        <5>1. q.op = "none"
          BY <2>6, <3>1, <3>2 DEF NoRequest
        <5> QED BY <5>1 DEF RequestFits, Told
      <4> QED BY <3>1, <4>1
    <3>3. CASE d # c
      <4>1. q = req[d] /\ RequestFits(q)
        BY <2>6, <3>1, <3>3 DEF BookInv
      <4>2. q.op \in Told => q.new # m
        BY <2>11, <3>3, <4>1 DEF Tells
      <4>3. ASSUME q.op \in Told
            PROVE  q.new \notin seen' /\ heardEarly'[q.new] = heardEarly[q.new]
        <5>1. q.new \in Numbers /\ q.new \notin seen
          BY <4>1, <4>3, NumbersGiven DEF RequestFits
        <5> QED BY <2>2, <4>2, <4>3, <5>1 DEF BookInv, BookTypeOK
      <4>4. RequestFits(q)'
        BY <1>2, <2>2, <4>1, <4>3 DEF RequestFits
      <4> QED BY <3>1, <4>4
    <3> QED BY <3>2, <3>3
  <2> QED BY <2>7, <2>8, <2>9, <2>12, <2>13, <2>14 DEF BookInv
<1> QED BY <1>2, <1>3, <1>4

LEMMA BookStep ==
  ASSUME BookInv, [DoNext]_domesticVars
  PROVE  BookInv'
<1>0. mute \in BOOLEAN /\ OrderSize \in Nat /\ 0 \in 0 .. MaxNumbers
      /\ \A n \in Numbers : n \in 0 .. MaxNumbers /\ book[n] \in Nat /\ real[n] \in Nat
  BY DomesticAssumption DEF BookInv, BookTypeOK, Numbers
<1>1. \A n \in seen : real[n] <= book[n]
  <2>1. ASSUME NEW n \in seen, Course(news, n, book[n], real[n]) PROVE real[n] <= book[n]
    BY <2>1, CourseEnds DEF BookInv, BookTypeOK
  <2>2. ASSUME NEW n \in seen, real[n] = 0 /\ book[n] = 0 PROVE real[n] <= book[n]
    BY <2>2
  <2> QED BY <2>1, <2>2 DEF BookInv, SeenInv
<1>2. ASSUME NEW c \in Clients, AskPlace(c) PROVE BookInv'
  BY <1>0, <1>2, AskKeeps DEF AskPlace, ToTake
<1>3. ASSUME NEW c \in Clients, NEW n \in Numbers, AskAmend(c, n) \/ AskCancel(c, n) PROVE BookInv'
  BY <1>0, <1>1, <1>3, AskKeeps DEF AskAmend, AskCancel, ToTake
<1>4. ASSUME NEW c \in Clients, BrokerRefuses(c) PROVE BookInv'
  <2>1. /\ UNCHANGED <<real, given, book, seen, news, heardEarly, mute>>
        /\ req' = [req EXCEPT ![c] = NoRequest] /\ req[c].op \notin Told
    BY <1>4 DEF BrokerRefuses, Told
  <2> QED BY <1>0, <2>1, NoRequestFits, RequestKeeps
<1>5. ASSUME NEW c \in Clients, NoAnswer(c) PROVE BookInv'
  <2>1. /\ UNCHANGED <<real, given, book, seen, news, heardEarly>>
        /\ req' = [req EXCEPT ![c] = NoRequest] /\ mute' = (mute \/ req[c].op \in Told)
    BY <1>5 DEF NoAnswer, Told
  <2>2. mute' \in BOOLEAN /\ (mute => mute') /\ (req[c].op \in Told => mute')
    BY <1>0, <2>1
  <2> QED BY <2>1, <2>2, NoRequestFits, RequestKeeps
<1>6. CASE UNCHANGED domesticVars
  BY <1>6 DEF domesticVars, BookInv, BookTypeOK, UnbornInv, SeenInv, ToldApart, NoneMissing,
              Tells, RequestFits
<1> QED BY <1>2, <1>3, <1>4, <1>5, <1>6, TakesKeeps, AnswerKeeps, FillKeeps, HearKeeps DEF DoNext

(* Once nothing is on its way, the book has of every order exactly what    *)
(* the broker has, however fills, amends and cancels crossed (place,       *)
(* amend_price, cancel, replay_pending).                                   *)
THEOREM BookAgrees == DoSpec => []BookIsReal
<1>1. BookInv /\ [DoNext]_domesticVars => BookInv'
  BY BookStep
<1>2. BookInv => BookIsReal
  BY BookResult
<1> QED BY <1>1, <1>2, BookInitInv, PTL DEF DoSpec

-----------------------------------------------------------------------------
(***************************************************************************)
(* The components together: a step of the run is a step of each of them,   *)
(* or leaves it alone.                                                     *)
(***************************************************************************)
LEMMA EngineSteps ==
  ASSUME [MCNext]_<<part, setSide, marketSide, accountSide>>
  PROVE  /\ [HlFirstNext]_hlFirstVars /\ [JudgeLoopNext]_judgeVars /\ [PriceNext]_preVars
         /\ [RateNext]_rateVars /\ [StockPriceNext]_priceVars
         /\ [ClNext]_loanVars /\ [DoNext]_domesticVars /\ [HlLimitNext]_hlLimitVars
<1>1. ASSUME UNCHANGED setSide PROVE UNCHANGED <<hlFirstVars, judgeVars, preVars>>
  BY <1>1 DEF setSide
<1>2. ASSUME UNCHANGED marketSide PROVE UNCHANGED <<rateVars, priceVars>>
  BY <1>2 DEF marketSide
<1>3. ASSUME UNCHANGED accountSide PROVE UNCHANGED <<loanVars, domesticVars, hlLimitVars>>
  BY <1>3 DEF accountSide
<1>4. CASE HlFirsts
  BY <1>4, <1>2, <1>3 DEF HlFirsts
<1>5. CASE Loops
  BY <1>5, <1>2, <1>3 DEF Loops
<1>6. CASE Prices
  BY <1>6, <1>2, <1>3 DEF Prices
<1>7. CASE RateMoves
  BY <1>7, <1>1, <1>3 DEF RateMoves
<1>8. CASE StockMoves
  BY <1>8, <1>1, <1>3 DEF StockMoves
<1>9. CASE LoanMoves
  BY <1>9, <1>1, <1>2 DEF LoanMoves
<1>10. CASE Orders
  BY <1>10, <1>1, <1>2 DEF Orders
<1>11. CASE Counts
  BY <1>11, <1>1, <1>2 DEF Counts
<1>12. CASE UNCHANGED <<part, setSide, marketSide, accountSide>>
  BY <1>12, <1>1, <1>2, <1>3
<1> QED BY <1>4, <1>5, <1>6, <1>7, <1>8, <1>9, <1>10, <1>11, <1>12 DEF MCNext

-----------------------------------------------------------------------------
(***************************************************************************)
(* The exchange rates.                                                     *)
(***************************************************************************)
RatesHeld == Rates \cup {NoRate}

RateInv ==
  /\ price \in [Months -> RatesHeld] /\ picked \in Months
  /\ priceQuery = <<>> \/ \E m \in Months : priceQuery = <<m>>
  /\ TheoryIsCurrent /\ BrokerStays

LEMMA RateInitInv == RateInit => RateInv
<1> SUFFICES ASSUME RateInit PROVE RateInv
  OBVIOUS
<1>1. price \in [Months -> RatesHeld] /\ picked \in Months /\ price[picked] = NoRate
  BY DEF RateInit, RatesHeld
<1>2. TheoryIsCurrent
  BY <1>1 DEF RateInit, TheoryIsCurrent, Theory
<1>3. BrokerStays
  BY DEF RateInit, BrokerStays
<1> QED BY <1>1, <1>2, <1>3 DEF RateInv, RateInit

(* A price of a month keeps the theory one of now.                         *)
LEMMA FxPriceKeeps ==
  ASSUME RateInv, NEW m \in Months, NEW r \in RatesHeld, ApplyFxPrice(m, r),
         UNCHANGED <<quote, picked, carry>>
  PROVE  price' \in [Months -> RatesHeld] /\ TheoryIsCurrent'
<1>1. price \in [Months -> RatesHeld] /\ picked \in Months
  BY DEF RateInv
<1>2. price' = [price EXCEPT ![m] = r]
  BY DEF ApplyFxPrice
<1>3. price' \in [Months -> RatesHeld] /\ price'[m] = r
  BY <1>1, <1>2
<1>4. CASE m = picked
  BY <1>3, <1>4 DEF ApplyFxPrice, TheoryIsCurrent
<1>5. CASE m # picked
  <2>1. price'[picked] = price[picked]
    BY <1>1, <1>2, <1>5
  <2>2. UNCHANGED <<futures, theory>>
    BY <1>5 DEF ApplyFxPrice
  <2> QED BY <1>3, <2>1, <2>2 DEF RateInv, TheoryIsCurrent, Theory
<1> QED BY <1>3, <1>4, <1>5

LEMMA RateStep ==
  ASSUME RateInv, [RateNext]_rateVars
  PROVE  RateInv'
<1>1. ASSUME NEW r \in Rates, BrokerSpot(r) PROVE RateInv'
  <2>1. BrokerStays'
    BY <1>1 DEF BrokerSpot, Spot, BrokerStays
  <2> QED BY <1>1, <2>1 DEF BrokerSpot, RateInv, TheoryIsCurrent, Theory
<1>2. ASSUME NEW r \in Rates, NEW m \in Months, FeedPrice(m, r) PROVE RateInv'
  <2>1. r \in RatesHeld
    BY DEF RatesHeld
  <2>2. price' \in [Months -> RatesHeld] /\ TheoryIsCurrent'
    BY <1>2, <2>1, FxPriceKeeps DEF FeedPrice
  <2> QED BY <1>2, <2>2 DEF FeedPrice, RateInv, BrokerStays
<1>3. ASSUME NEW r \in Rates, NEW m \in Months, FeedQuote(m, r) PROVE RateInv'
  <2>1. TheoryIsCurrent'
    <3>1. CASE m = picked
      BY <1>3, <3>1 DEF FeedQuote, TheoryIsCurrent, RateInv
    <3>2. CASE m # picked
      <4>1. quote'[picked] = quote[picked] \/ quote'[picked] = [quote EXCEPT ![m] = r][picked]
        BY <1>3 DEF FeedQuote
      <4>2. quote'[picked] = quote[picked]
        BY <1>3, <3>2 DEF FeedQuote
      <4> QED BY <1>3, <3>2, <4>2 DEF FeedQuote, RateInv, TheoryIsCurrent, Theory
    <3> QED BY <3>1, <3>2
  <2> QED BY <1>3, <2>1 DEF FeedQuote, RateInv, BrokerStays
<1>4. CASE HanaTurn
  BY <1>4 DEF HanaTurn, RateInv, TheoryIsCurrent, Theory, BrokerStays
<1>5. ASSUME NEW r, HanaAnswer(r) PROVE RateInv'
  <2>1. BrokerStays'
    BY <1>5 DEF HanaAnswer, BankSpot, Spot, RateInv, BrokerStays
  <2> QED BY <1>5, <2>1 DEF HanaAnswer, RateInv, TheoryIsCurrent, Theory
<1>6. ASSUME NEW r \in RatesHeld, PriceAnswer(r) PROVE RateInv'
  <2>1. price' \in [Months -> RatesHeld] /\ TheoryIsCurrent'
    <3>1. CASE r = NoRate
      BY <1>6, <3>1 DEF PriceAnswer, RateInv, TheoryIsCurrent, Theory
    <3>2. CASE r # NoRate
      <4>1. PICK m \in Months : priceQuery = <<m>>
        BY <1>6 DEF PriceAnswer, RateInv
      <4>2. ApplyFxPrice(m, r) /\ UNCHANGED <<quote, picked, carry>>
        BY <1>6, <3>2, <4>1 DEF PriceAnswer
      <4> QED BY <4>2, FxPriceKeeps
    <3> QED BY <3>1, <3>2
  <2> QED BY <1>6, <2>1 DEF PriceAnswer, RateInv, BrokerStays
<1>7. CASE AskPrice
  BY <1>7 DEF AskPrice, RateInv, TheoryIsCurrent, Theory, BrokerStays
<1>8. ASSUME NEW m \in Months, SetMonth(m) PROVE RateInv'
  BY <1>8 DEF SetMonth, RateInv, TheoryIsCurrent, Theory, BrokerStays
<1>9. ASSUME NEW c \in Carries, SetCarry(c) PROVE RateInv'
  BY <1>9 DEF SetCarry, RateInv, TheoryIsCurrent, Theory, BrokerStays
<1>10. CASE UNCHANGED rateVars
  BY <1>10 DEF rateVars, RateInv, TheoryIsCurrent, Theory, BrokerStays
<1> QED BY <1>1, <1>2, <1>3, <1>4, <1>5, <1>6, <1>7, <1>8, <1>9, <1>10 DEF RateNext, RatesHeld

(* However settings, ticks and late answers cross, the theoretical rate is *)
(* the one that what is kept now gives, and no answer of the bank replaces *)
(* the broker's spot rate (_recompute_fx_theory, _resolve_spot).           *)
THEOREM RatesStayCurrent == MCSpec => []RatesAreCurrent
<1>1. MCInit => RateInv
  BY RateInitInv DEF MCInit
<1>2. RateInv /\ [MCNext]_<<part, setSide, marketSide, accountSide>> => RateInv'
  BY EngineSteps, RateStep
<1>3. RateInv => RatesAreCurrent
  BY DEF RateInv, RatesAreCurrent
<1> QED BY <1>1, <1>2, <1>3, PTL DEF MCSpec

-----------------------------------------------------------------------------
(***************************************************************************)
(* What is judged at a time.                                               *)
(***************************************************************************)
DelaysSeen == running /\ ~halted => \A k \in owed : EndOf(k) >= lastPump

LoopTypeOK ==
  /\ mono \in Nat /\ lastPump \in Nat /\ watchAt \in Nat
  /\ watchAt <= lastPump /\ lastPump <= mono
  /\ {settle, filled, resumed, cancelAt} \subseteq Nat \cup {NoTime}
  /\ delays \in [DelayKinds -> Nat] /\ owed \subseteq DelayKinds

LoopInv == LoopTypeOK /\ DelaysSeen /\ LongCancelIsAlarmed

LEMMA LoopInitInv == JudgeLoopInit => LoopInv
<1> SUFFICES ASSUME JudgeLoopInit PROVE LoopInv
  OBVIOUS
<1>1. delays \in [DelayKinds -> Nat]
  BY JudgeAssumption DEF JudgeLoopInit
<1>2. LoopTypeOK
  BY <1>1 DEF JudgeLoopInit, LoopTypeOK, NoTime
<1>3. DelaysSeen /\ LongCancelIsAlarmed
  BY DEF JudgeLoopInit, DelaysSeen, LongCancelIsAlarmed, NoTime
<1> QED BY <1>2, <1>3 DEF LoopInv

(* A delay that is waited for ends at a time of the timers, or never.      *)
LEMMA EndsAre ==
  ASSUME LoopTypeOK, NEW k \in DelayKinds
  PROVE  EndOf(k) \in Nat \cup {NoTime}
<1>1. delays.switch \in Nat /\ delays.resume \in Nat
  BY DEF LoopTypeOK, DelayKinds
<1>2. {settle, filled, resumed} \subseteq Nat \cup {NoTime}
  BY DEF LoopTypeOK
<1> QED BY <1>1, <1>2 DEF EndOf, DelayKinds

(* The loop's turn: a delay that is still waited for ends after it.        *)
LEMMA PumpSees ==
  ASSUME LoopTypeOK, DelaysSeen, Pump
  PROVE  DelaysSeen'
<1> SUFFICES ASSUME running, ~halted', NEW k \in owed' PROVE EndOf(k)' >= mono
  BY DEF DelaysSeen, Pump
<1>1. mono \in Nat /\ lastPump \in Nat /\ owed \subseteq DelayKinds
  BY DEF LoopTypeOK
<1>2. UNCHANGED <<filled, delays, running>>
  BY DEF Pump
<1>3. CASE ~Judged
  <2>1. UNCHANGED <<halted, resumed, owed, settle>>
    BY <1>3 DEF Pump
  <2>2. k \in owed /\ EndOf(k) >= lastPump /\ EndOf(k)' = EndOf(k)
    BY <1>2, <2>1 DEF DelaysSeen, EndOf
  <2>3. k \in DelayKinds /\ EndOf(k) # NoTime
    BY <1>1, <2>2 DEF NoTime
  <2>4. EndOf(k) \in WakeTimes
    BY <2>3 DEF WakeTimes
  <2>5. ~(lastPump <= EndOf(k) /\ EndOf(k) <= mono)
    BY <1>3, <2>4 DEF Judged, TimedOut
  <2>6. EndOf(k) \in Nat
    BY <2>3, EndsAre
  <2> QED BY <1>1, <2>2, <2>5, <2>6
<1>4. CASE Judged
  <2>1. JudgeTick
    BY <1>4 DEF Pump
  <2>2. ~halt
    BY <2>1 DEF JudgeTick
  <2>3. CASE k = "resume" /\ halted
    <3>1. resumed' = mono /\ delays'.resume \in Nat
      BY <1>2, <2>1, <2>2, <2>3 DEF JudgeTick, LoopTypeOK, DelayKinds
    <3>2. mono # NoTime
      BY <1>1 DEF NoTime
    <3> QED BY <1>1, <2>3, <3>1, <3>2 DEF EndOf
  <2>4. CASE ~(k = "resume" /\ halted)
    <3>1. k \in owed /\ ~(EndOf(k) <= mono)
      BY <2>1, <2>2, <2>4 DEF JudgeTick
    <3>2. EndOf(k) \in Nat \cup {NoTime}
      BY <1>1, <3>1, EndsAre
    <3>3. k = "resume" => resumed' = resumed
      BY <2>1, <2>2, <2>4 DEF JudgeTick
    <3>4. k = "settle" => settle' = settle
      BY <2>1, <3>1 DEF JudgeTick, EndOf
    <3>5. EndOf(k)' = EndOf(k)
      BY <1>1, <1>2, <3>1, <3>3, <3>4 DEF EndOf, DelayKinds
    <3> QED BY <1>1, <3>1, <3>2, <3>5 DEF NoTime
  <2> QED BY <2>3, <2>4
<1> QED BY <1>3, <1>4

LEMMA LoopStep ==
  ASSUME LoopInv, [JudgeLoopNext]_judgeVars
  PROVE  LoopInv'
<1>0. LoopTypeOK /\ DelaysSeen /\ LongCancelIsAlarmed
  BY DEF LoopInv
<1>1. AlarmAfter \in Nat /\ AlarmAfter > 0 /\ Watch \in Nat
  BY JudgeAssumption
<1>2. CASE Pump
  <2>1. /\ lastPump' = mono /\ UNCHANGED <<mono, filled, delays, cancelAt>>
        /\ watchAt' = (IF Watching THEN mono ELSE watchAt)
        /\ alarmed' = (alarmed \/ (Watching /\ Overdue))
    BY <1>2 DEF Pump
  <2>2. /\ settle' \in {settle, NoTime} /\ resumed' \in {resumed, mono, NoTime}
        /\ owed' \subseteq owed \cup {"resume"}
    <3>1. CASE JudgeTick
      BY <3>1 DEF JudgeTick
    <3>2. CASE UNCHANGED <<halted, resumed, owed, settle>>
      BY <3>2
    <3> QED BY <1>2, <3>1, <3>2 DEF Pump
  <2>3. LoopTypeOK'
    BY <1>0, <2>1, <2>2 DEF LoopTypeOK, DelayKinds
  <2>4. LongCancelIsAlarmed'
    BY <1>0, <2>1 DEF LongCancelIsAlarmed, Overdue
  <2> QED BY <1>0, <1>2, <2>3, <2>4, PumpSees DEF LoopInv
<1>3. CASE Passes
  <2>1. /\ mono' = mono + 1
        /\ UNCHANGED <<running, settle, filled, delays, halted, resumed, cancelAt, alarmed, owed>>
        /\ UNCHANGED <<watchAt, lastPump>>
    BY <1>3 DEF Passes, outVars
  <2>2. LoopTypeOK'
    BY <1>0, <2>1 DEF LoopTypeOK
  <2>3. DelaysSeen'
    BY <1>0, <2>1 DEF DelaysSeen, EndOf
  <2>4. LongCancelIsAlarmed'
    BY <1>0, <2>1 DEF LongCancelIsAlarmed
  <2> QED BY <2>2, <2>3, <2>4 DEF LoopInv
<1>4. CASE BeginsSettle
  <2>1. /\ settle' = mono + delays.settle /\ owed' = owed \cup {"settle"}
        /\ UNCHANGED <<mono, running, filled, delays, halted, resumed, cancelAt, alarmed>>
        /\ UNCHANGED <<watchAt, lastPump>>
    BY <1>4 DEF BeginsSettle, outVars
  <2>2. delays.settle \in Nat
    BY <1>0 DEF LoopTypeOK, DelayKinds
  <2>3. LoopTypeOK'
    BY <1>0, <2>1, <2>2 DEF LoopTypeOK, DelayKinds
  <2>4. ASSUME running', ~halted', NEW k \in owed' PROVE EndOf(k)' >= lastPump'
    <3>1. CASE k = "settle"
      BY <1>0, <2>1, <2>2, <3>1 DEF LoopTypeOK, EndOf
    <3>2. CASE k # "settle"
      <4>1. EndOf(k)' = EndOf(k) /\ k \in owed
        BY <1>0, <2>1, <2>4, <3>2 DEF EndOf, LoopTypeOK, DelayKinds
      <4> QED BY <1>0, <2>1, <2>4, <4>1 DEF DelaysSeen
    <3> QED BY <3>1, <3>2
  <2>5. LongCancelIsAlarmed'
    BY <1>0, <2>1 DEF LongCancelIsAlarmed
  <2> QED BY <2>3, <2>4, <2>5 DEF LoopInv, DelaysSeen
<1>5. CASE OtherSideFills
  <2>1. /\ filled' = mono /\ owed' = owed \cup {"switch"}
        /\ UNCHANGED <<mono, running, settle, delays, halted, resumed, cancelAt, alarmed>>
        /\ UNCHANGED <<watchAt, lastPump>>
    BY <1>5 DEF OtherSideFills, outVars
  <2>2. delays.switch \in Nat
    BY <1>0 DEF LoopTypeOK, DelayKinds
  <2>3. LoopTypeOK'
    BY <1>0, <2>1 DEF LoopTypeOK, DelayKinds
  <2>4. ASSUME running', ~halted', NEW k \in owed' PROVE EndOf(k)' >= lastPump'
    <3>1. CASE k = "switch"
      BY <1>0, <2>1, <2>2, <3>1 DEF LoopTypeOK, EndOf, NoTime
    <3>2. CASE k # "switch"
      <4>1. EndOf(k)' = EndOf(k) /\ k \in owed
        BY <1>0, <2>1, <2>4, <3>2 DEF EndOf, LoopTypeOK, DelayKinds
      <4> QED BY <1>0, <2>1, <2>4, <4>1 DEF DelaysSeen
    <3> QED BY <3>1, <3>2
  <2>5. LongCancelIsAlarmed'
    BY <1>0, <2>1 DEF LongCancelIsAlarmed
  <2> QED BY <2>3, <2>4, <2>5 DEF LoopInv, DelaysSeen
<1>6. CASE CancelSent
  <2>1. /\ cancelAt' = lastPump /\ alarmed' = FALSE
        /\ UNCHANGED <<mono, running, settle, filled, delays, halted, resumed, owed>>
        /\ UNCHANGED <<watchAt, lastPump>>
    BY <1>6 DEF CancelSent, outVars
  <2>2. LongCancelIsAlarmed'
    BY <1>0, <1>1, <2>1 DEF LongCancelIsAlarmed, LoopTypeOK
  <2> QED BY <1>0, <2>1, <2>2 DEF LoopInv, LoopTypeOK, DelaysSeen, EndOf
<1>7. CASE CancelConfirmed
  <2>1. /\ cancelAt' = NoTime
        /\ UNCHANGED <<mono, running, settle, filled, delays, halted, resumed, owed>>
        /\ UNCHANGED <<watchAt, lastPump>>
    BY <1>7 DEF CancelConfirmed, outVars
  <2> QED BY <1>0, <2>1 DEF LoopInv, LoopTypeOK, DelaysSeen, EndOf, LongCancelIsAlarmed
<1>8. CASE HaltTurns \/ \E everyone \in BOOLEAN : Quote(everyone)
  <2>1. /\ UNCHANGED <<mono, running, settle, filled, delays, halted, resumed, cancelAt, alarmed, owed>>
        /\ UNCHANGED <<watchAt, lastPump>>
    BY <1>8 DEF HaltTurns, Quote, outVars
  <2> QED BY <1>0, <2>1 DEF LoopInv, LoopTypeOK, DelaysSeen, EndOf, LongCancelIsAlarmed
<1>9. ASSUME SwitchSet \/ \E k \in DelayKinds, d \in Delays : SetDelay(k, d) PROVE LoopInv'
  <2>1. /\ owed' = {} /\ delays' \in [DelayKinds -> Nat]
        /\ UNCHANGED <<mono, settle, filled, resumed, cancelAt, alarmed>>
        /\ UNCHANGED <<watchAt, lastPump>>
    BY <1>0, <1>9, JudgeAssumption DEF SwitchSet, SetDelay, outVars, LoopTypeOK
  <2> QED BY <1>0, <2>1 DEF LoopInv, LoopTypeOK, DelaysSeen, LongCancelIsAlarmed
<1>10. CASE UNCHANGED judgeVars
  BY <1>0, <1>10 DEF judgeVars, LoopInv, LoopTypeOK, DelaysSeen, EndOf, LongCancelIsAlarmed
<1> QED BY <1>2, <1>3, <1>4, <1>5, <1>6, <1>7, <1>8, <1>9, <1>10 DEF JudgeLoopNext

(* A delay that ends without a quote is judged no later than the watch,    *)
(* however fills, halts and late turns move the timers, and a cancel that  *)
(* is not confirmed is alarmed (pump, _sleep_s, _watch_cancel_wait).       *)
THEOREM TimesAreJudged == MCSpec => []JudgedInTime
<1>1. MCInit => LoopInv
  BY LoopInitInv DEF MCInit
<1>2. LoopInv /\ [MCNext]_<<part, setSide, marketSide, accountSide>> => LoopInv'
  BY EngineSteps, LoopStep
<1>3. LoopInv => JudgedInTime
  BY DEF LoopInv, DelaysSeen, JudgedInTime, NothingTimedIsMissed
<1> QED BY <1>1, <1>2, <1>3, PTL DEF MCSpec

-----------------------------------------------------------------------------
(***************************************************************************)
(* The price of an order.                                                  *)
(***************************************************************************)
PriceOK ==
  /\ side \in {"buy", "sell"} /\ first \in {"ls", "hl"} /\ nth \in Nat \ {0}
  /\ gridUnit \in Nat \ {0} /\ gridBase \in Nat /\ raw \in Nat /\ touch \in Nat

LEMMA PriceInitOK == PriceInit => PriceOK
BY PriceAssumption DEF PriceInit, PriceOK

LEMMA PriceStep ==
  ASSUME PriceOK, [PriceNext]_preVars
  PROVE  PriceOK'
BY PriceAssumption DEF PriceOK, PriceNext, PlaceAtPrice, CancelAtPrice, OrderGone, MarketMoves,
                       SetGrid, preVars, priceSet

(* Fitting to a grid goes down, and from the other side up.                *)
LEMMA GridBelow ==
  ASSUME NEW a \in Int, NEW u \in Nat \ {0}
  PROVE  (a \div u) * u \in Int /\ (a \div u) * u <= a
<1>1. PICK q \in Int : q = a \div u
  OBVIOUS
<1>2. u * q <= a
  BY <1>1
<1>3. q * u = u * q /\ q * u \in Int
  OBVIOUS
<1> QED BY <1>1, <1>2, <1>3

(* A price fitted to the grid is as good as it was.                        *)
LEMMA SnapIsBetter ==
  ASSUME PriceOK, NEW p \in Int
  PROVE  Snap(p) \in Int /\ Better(Snap(p), p)
<1>1. gridUnit \in Nat \ {0} /\ gridBase \in Int
  BY DEF PriceOK
<1>2. CASE side = "buy"
  <2>1. PICK a \in Int : a = p - gridBase
    BY <1>1
  <2>2. PICK g \in Int : g = (a \div gridUnit) * gridUnit /\ g <= a
    BY <1>1, GridBelow
  <2>3. Snap(p) = g + gridBase
    BY <1>2, <2>1, <2>2 DEF Snap
  <2> QED BY <1>1, <1>2, <2>1, <2>2, <2>3 DEF Better
<1>3. CASE side = "sell"
  <2>1. PICK a \in Int : a = gridBase - p
    BY <1>1
  <2>2. PICK g \in Int : g = (a \div gridUnit) * gridUnit /\ g <= a
    BY <1>1, GridBelow
  <2>3. Snap(p) = -g + gridBase \/ Snap(p) = (-(a \div gridUnit)) * gridUnit + gridBase
    BY <1>3, <2>1, <2>2 DEF Snap
  <2>4. PICK q \in Int : q = a \div gridUnit
    BY <1>1, <2>1
  <2>5. (-q) * gridUnit = -(q * gridUnit)
    BY <1>1
  <2>6. Snap(p) = -g + gridBase
    BY <2>2, <2>3, <2>4, <2>5
  <2> QED BY <1>1, <1>3, <2>1, <2>2, <2>6 DEF Better
<1> QED BY <1>2, <1>3 DEF PriceOK

(* The price of an order is no worse than the value it is to guarantee,    *)
(* and rests where the best quote counts.                                  *)
Rests(p) == nth = 1 \/ first = "hl" => Better(p, touch) /\ p # touch

LEMMA PriceIsFit ==
  ASSUME PriceOK
  PROVE  Better(Price, raw) /\ Rests(Price)
<1>0. raw \in Int /\ touch \in Int /\ nth \in Int /\ Step \in Nat /\ Step > 0
  BY PriceAssumption DEF PriceOK
<1>1. PICK p \in Int : p = Snap(raw)
  BY <1>0, SnapIsBetter
<1>2. Better(p, raw)
  BY <1>0, <1>1, SnapIsBetter
<1>3. CASE first = "ls"
  <2>1. \A q \in Int : TickFor(q) \in Nat /\ TickFor(q) > 0
    BY PriceAssumption DEF TickFor
  <2>2. PICK r \in Int : r = Rel /\ (nth = 1 => r = touch)
    <3>1. PICK t \in Int : t = Quoted(touch)
      BY <1>0, <1>3, <2>1 DEF Quoted
    <3>2. Rel = (IF side = "buy" THEN touch + (nth - 1) * t ELSE touch - (nth - 1) * t)
      BY <3>1 DEF Rel
    <3>3. PICK w \in Int : w = (nth - 1) * t /\ (nth = 1 => w = 0)
      BY <1>0, <3>1
    <3> QED BY <1>0, <3>2, <3>3
  <2>3. PICK e \in Int : e = RangeStart /\ Better(e, r) /\ e # r
    <3>1. PICK t \in Int : t = TickFor(r) /\ t > 0
      BY <2>1
    <3>2. RangeStart = (IF side = "buy" THEN r - t ELSE r + t)
      BY <1>3, <2>2, <3>1 DEF RangeStart, Away
    <3> QED BY <3>1, <3>2 DEF Better
  <2>4. PICK m \in Int : m = Snap(e) /\ Better(m, e)
    BY SnapIsBetter
  <2>5. Price = (IF (side = "sell" /\ p < e) \/ (side = "buy" /\ p > e) THEN m ELSE p)
    BY <1>1, <1>3, <2>3, <2>4 DEF Price, MakerStart
  <2> QED BY <1>0, <1>2, <1>3, <2>2, <2>3, <2>4, <2>5 DEF Better, Rests, PriceOK
<1>4. CASE first # "ls"
  <2>1. Price = (IF (side = "sell" /\ p <= touch) \/ (side = "buy" /\ p >= touch)
                 THEN (IF side = "buy" THEN touch - Step ELSE touch + Step) ELSE p)
    BY <1>1, <1>4 DEF Price, AloStep, Away
  <2> QED BY <1>0, <1>2, <2>1 DEF Better, Rests, PriceOK
<1> QED BY <1>3, <1>4

(* One step of a set's price.                                              *)
LEMMA PlacedIsFit ==
  ASSUME PriceOK, [PriceNext]_preVars
  PROVE  PlacedNow => Better(order', raw) /\ Rests(order')
<1>1. Better(Price, raw) /\ Rests(Price)
  BY PriceIsFit
<1>2. PlacedNow => order' = Price
  BY DEF PlacedNow, PriceNext, PlaceAtPrice, CancelAtPrice, OrderGone, MarketMoves, SetGrid, preVars
<1> QED BY <1>1, <1>2

(* While a pause lasts, what was read before it is what is read.           *)
LEMMA PauseHolds ==
  ASSUME [StockPriceNext]_priceVars, Paused, Paused', before # NoPrice
  PROVE  StockLast' = StockLast
<1>1. before' = before
  BY DEF StockPriceNext, SendQuote, SendTrade, SendExpected, SendFrame, SeedPrices, TurnAuction,
         TurnVi, HearQuote, HearTrade, HearExpected, HearJif, HearVi, ReadLast, NoteStockLast, priceVars
<1> QED BY <1>1 DEF StockLast

-----------------------------------------------------------------------------
(***************************************************************************)
(* The loans.                                                              *)
(***************************************************************************)
LEMMA SummedIs ==
  ASSUME NEW w
  PROVE  Summed(w) = TotalOf(w, MaxLoanOrders)
BY DEF Summed, TotalOf

LEMMA SummedMoves ==
  ASSUME NEW w \in [LoanSlots -> Nat], NEW v \in [LoanSlots -> Nat], NEW k \in LoanSlots,
         \A j \in LoanSlots : j # k => v[j] = w[j]
  PROVE  /\ Summed(w) \in Nat /\ w[k] <= Summed(w)
         /\ Summed(v) = Summed(w) - w[k] + v[k]
<1>1. PICK N : N = MaxLoanOrders
  OBVIOUS
<1>2. N \in Nat /\ LoanSlots = 1 .. N
  BY <1>1, LoansAssumption DEF LoanSlots
<1>3. v = [w EXCEPT ![k] = v[k]] /\ v[k] \in Nat
  OBVIOUS
<1>4. PICK x \in Nat : x = v[k]
  BY <1>3
<1>5. /\ TotalOf(w, N) \in Nat /\ w[k] <= TotalOf(w, N)
      /\ TotalOf([w EXCEPT ![k] = x], N) = TotalOf(w, N) - w[k] + x
  BY <1>2, TotalOfOne
<1> QED BY <1>1, <1>3, <1>4, <1>5, SummedIs

LEMMA SummedNone ==
  ASSUME NEW w \in [LoanSlots -> Nat], \A j \in LoanSlots : w[j] = 0
  PROVE  Summed(w) = 0
BY LoansAssumption, SummedIs, TotalOfNone DEF LoanSlots

LEMMA SummedIsNat ==
  ASSUME NEW w \in [LoanSlots -> Nat]
  PROVE  Summed(w) \in Nat
<1>1. CASE LoanSlots = {}
  <2>1. Summed(w) = 0
    BY <1>1, SummedNone
  <2> QED BY <2>1
<1>2. CASE LoanSlots # {}
  <2>1. PICK k \in LoanSlots : TRUE
    BY <1>2
  <2> QED BY <2>1, SummedMoves
<1> QED BY <1>1, <1>2

(* Numbers added one by one and in pairs.                                  *)
LEMMA SummedBoth ==
  ASSUME NEW w \in [LoanSlots -> Nat], NEW u \in [LoanSlots -> Nat], NEW v \in [LoanSlots -> Nat],
         \A j \in LoanSlots : w[j] = u[j] + v[j]
  PROVE  Summed(w) = Summed(u) + Summed(v)
<1>1. PICK N : N = MaxLoanOrders
  OBVIOUS
<1>2. N \in Nat /\ LoanSlots = 1 .. N
  BY <1>1, LoansAssumption DEF LoanSlots
<1>3. PICK t : Runs(t, w, N) /\ TotalOf(w, N) = t[N]
  BY <1>2, TotalRuns
<1>4. PICK r : Runs(r, u, N) /\ TotalOf(u, N) = r[N]
  BY <1>2, TotalRuns
<1>5. PICK q : Runs(q, v, N) /\ TotalOf(v, N) = q[N]
  BY <1>2, TotalRuns
<1> DEFINE S == {n \in 0 .. N : t[n] = r[n] + q[n]}
<1>6. 0 \in S
  BY <1>2, <1>3, <1>4, <1>5 DEF Runs
<1>7. ASSUME NEW n \in 0 .. N, n \in S, n < N
      PROVE  n + 1 \in S
  <2>1. n + 1 \in 0 .. N /\ n + 1 # 0 /\ (n + 1) - 1 = n /\ n + 1 \in LoanSlots
    BY <1>2, <1>7
  <2>2. /\ t[n + 1] = t[n] + w[n + 1] /\ r[n + 1] = r[n] + u[n + 1] /\ q[n + 1] = q[n] + v[n + 1]
        /\ r[n] \in Nat /\ q[n] \in Nat
    BY <1>3, <1>4, <1>5, <2>1 DEF Runs
  <2>3. PICK a \in Nat, b \in Nat, c \in Nat, e \in Nat :
               a = r[n] /\ b = q[n] /\ c = u[n + 1] /\ e = v[n + 1]
    BY <2>1, <2>2
  <2>4. t[n] = a + b /\ w[n + 1] = c + e
    BY <1>7, <2>1, <2>3
  <2>5. t[n + 1] = r[n + 1] + q[n + 1]
    BY <2>2, <2>3, <2>4
  <2> QED BY <2>1, <2>5
<1> HIDE DEF S
<1>8. N \in S
  <2>1. \A n \in 0 .. N : n \in S
    BY <1>2, <1>6, <1>7, AllUpTo
  <2> QED BY <1>2, <2>1
<1> QED BY <1>1, <1>3, <1>4, <1>5, <1>8, SummedIs DEF S

-----------------------------------------------------------------------------
(* Of one order: what it asks of loan d, and the contracts bought to and   *)
(* repaid from it whose notice is on the way.                              *)
Asks(o, d) == IF o.repay /\ o.loan = d /\ o.phase \in {"open", "sent"} THEN o.left ELSE 0
Bought(o, f, d) == IF ~o.repay /\ o.loan = d THEN f ELSE 0
Repaid(o, f, d) == IF o.repay /\ o.loan = d THEN f ELSE 0

AllAsk(d) == [k \in LoanSlots |-> Asks(taken[k], d)]
AllBought(d) == [k \in LoanSlots |-> Bought(taken[k], fresh[k], d)]
AllRepaid(d) == [k \in LoanSlots |-> Repaid(taken[k], fresh[k], d)]

(* A balance n of loan d, once the notices are in, is not above the        *)
(* broker's.                                                               *)
Holds(n, d) == n + Summed(AllBought(d)) <= bal[d] + Summed(AllRepaid(d))
HoldsThen(n, d) == n + Summed(AllBought(d)') <= bal'[d] + Summed(AllRepaid(d)')

LoanPhases == {"none", "sent", "open", "lost", "over"}
LoanRecord == [phase : LoanPhases, repay : BOOLEAN, loan : Loans, left : Nat]
LoanQuery == [phase : {"idle", "asked", "answered"}, answer : [Loans -> Nat],
              crossed : SUBSET Loans]

LoanTypeOK ==
  /\ bal \in [Loans -> Nat] /\ snap \in [Loans -> Nat]
  /\ known \in [loans : BOOLEAN, today : BOOLEAN]
  /\ taken \in [LoanSlots -> LoanRecord] /\ fresh \in [LoanSlots -> Nat]
  /\ query \in [{"periodic", "learn"} -> LoanQuery] /\ crossed \subseteq Loans

(* An order at rest has told all, one that is bought is of today, and of   *)
(* one that nobody counts the loan is known to have crossed.               *)
SlotFits(o, f) ==
  /\ o.phase \in {"none", "over"} => f = 0
  /\ ~o.repay => o.loan = Today
  /\ o.phase = "lost" => o.loan \in crossed

SlotsFit == \A k \in LoanSlots : SlotFits(taken[k], fresh[k])
SnapHolds == known.loans => \A d \in Loans \ crossed : Holds(snap[d], d)
AnswersHold ==
  \A c \in {"periodic", "learn"} : query[c].phase = "answered" =>
    \A d \in Loans \ query[c].crossed : Holds(query[c].answer[d], d)

LoanInv == LoanTypeOK /\ SlotsFit /\ SnapHolds /\ AnswersHold

LEMMA WeightsAre ==
  \A o \in LoanRecord : \A f \in Nat : \A d :
    Asks(o, d) \in Nat /\ Bought(o, f, d) \in Nat /\ Repaid(o, f, d) \in Nat
BY DEF LoanRecord, Asks, Bought, Repaid

LEMMA AllAre ==
  ASSUME LoanTypeOK, NEW d
  PROVE  /\ AllAsk(d) \in [LoanSlots -> Nat] /\ AllBought(d) \in [LoanSlots -> Nat]
         /\ AllRepaid(d) \in [LoanSlots -> Nat]
<1>1. \A k \in LoanSlots : taken[k] \in LoanRecord /\ fresh[k] \in Nat
  BY DEF LoanTypeOK
<1> QED BY <1>1, WeightsAre DEF AllAsk, AllBought, AllRepaid

LEMMA AllAreNext ==
  ASSUME LoanTypeOK', NEW d
  PROVE  /\ AllAsk(d)' \in [LoanSlots -> Nat] /\ AllBought(d)' \in [LoanSlots -> Nat]
         /\ AllRepaid(d)' \in [LoanSlots -> Nat]
<1>1. \A k \in LoanSlots : taken'[k] \in LoanRecord /\ fresh'[k] \in Nat
  BY DEF LoanTypeOK
<1>2. \A k \in LoanSlots :
        /\ Asks(taken'[k], d) \in Nat /\ Bought(taken'[k], fresh'[k], d) \in Nat
        /\ Repaid(taken'[k], fresh'[k], d) \in Nat
  BY <1>1, WeightsAre
<1> QED BY <1>2 DEF AllAsk, AllBought, AllRepaid

LEMMA AskedIs == \A d : Asked(d) = Summed(AllAsk(d))
BY DEF Asked, AllAsk, Asks, Repays

(* A step that moves one order.                                            *)
Moves(k) == \A j \in LoanSlots : j # k => taken'[j] = taken[j] /\ fresh'[j] = fresh[j]

LEMMA HoldsOn ==
  ASSUME LoanTypeOK, LoanTypeOK', NEW k \in LoanSlots, Moves(k), NEW d \in Loans,
         NEW a \in Nat, NEW b \in Nat, Holds(a, d),
         b + bal[d] + Bought(taken'[k], fresh'[k], d) + Repaid(taken[k], fresh[k], d)
           <= a + bal'[d] + Bought(taken[k], fresh[k], d) + Repaid(taken'[k], fresh'[k], d)
  PROVE  HoldsThen(b, d)
<1>1. /\ AllBought(d) \in [LoanSlots -> Nat] /\ AllRepaid(d) \in [LoanSlots -> Nat]
      /\ AllBought(d)' \in [LoanSlots -> Nat] /\ AllRepaid(d)' \in [LoanSlots -> Nat]
  BY AllAre, AllAreNext
<1>2. /\ AllBought(d)[k] = Bought(taken[k], fresh[k], d)
      /\ AllBought(d)'[k] = Bought(taken'[k], fresh'[k], d)
      /\ AllRepaid(d)[k] = Repaid(taken[k], fresh[k], d)
      /\ AllRepaid(d)'[k] = Repaid(taken'[k], fresh'[k], d)
  BY DEF AllBought, AllRepaid
<1>3. \A j \in LoanSlots : j # k => /\ AllBought(d)'[j] = AllBought(d)[j]
                                    /\ AllRepaid(d)'[j] = AllRepaid(d)[j]
  BY DEF Moves, AllBought, AllRepaid
<1>4. PICK w, v, r, u : /\ w = AllBought(d) /\ v = AllBought(d)'
                        /\ r = AllRepaid(d) /\ u = AllRepaid(d)'
  OBVIOUS
<1>5. Summed(w) \in Nat /\ w[k] <= Summed(w) /\ Summed(v) = Summed(w) - w[k] + v[k]
  BY <1>1, <1>3, <1>4, SummedMoves
<1>6. Summed(r) \in Nat /\ r[k] <= Summed(r) /\ Summed(u) = Summed(r) - r[k] + u[k]
  BY <1>1, <1>3, <1>4, SummedMoves
<1>7. w[k] \in Nat /\ v[k] \in Nat /\ r[k] \in Nat /\ u[k] \in Nat /\ bal[d] \in Nat /\ bal'[d] \in Nat
  BY <1>1, <1>4 DEF LoanTypeOK
<1>8. b + bal[d] + v[k] + r[k] <= a + bal'[d] + w[k] + u[k] /\ a + Summed(w) <= bal[d] + Summed(r)
  BY <1>2, <1>4 DEF Holds
<1>9. PICK W \in Nat, R \in Nat, wk \in Nat, vk \in Nat, rk \in Nat, uk \in Nat, B \in Nat, C \in Nat :
        /\ W = Summed(w) /\ R = Summed(r) /\ wk = w[k] /\ vk = v[k] /\ rk = r[k] /\ uk = u[k]
        /\ B = bal[d] /\ C = bal'[d]
  BY <1>5, <1>6, <1>7
<1>10. b + (W - wk + vk) <= C + (R - rk + uk)
  BY <1>8, <1>9
<1>11. b + Summed(v) <= bal'[d] + Summed(u)
  BY <1>5, <1>6, <1>9, <1>10
<1> QED BY <1>4, <1>11 DEF HoldsThen

(* What loan d gains at the broker covers what the notices still to come   *)
(* bring.                                                                  *)
Covers(k, d) ==
  bal[d] + Bought(taken'[k], fresh'[k], d) + Repaid(taken[k], fresh[k], d)
    <= bal'[d] + Bought(taken[k], fresh[k], d) + Repaid(taken'[k], fresh'[k], d)

SnapMoves(k) ==
  known'.loans => /\ known.loans
                  /\ \A d \in Loans \ crossed' :
                       \/ snap'[d] = snap[d] /\ Covers(k, d)
                       \/ snap'[d] + bal[d] + Bought(taken'[k], fresh'[k], d) + Repaid(taken[k], fresh[k], d)
                            <= snap[d] + bal'[d] + Bought(taken[k], fresh[k], d) + Repaid(taken'[k], fresh'[k], d)

AnswersMove(k) ==
  \A c \in {"periodic", "learn"} : query'[c].phase = "answered" =>
    /\ query[c].phase = "answered" /\ query'[c].answer = query[c].answer
    /\ query[c].crossed \subseteq query'[c].crossed
    /\ \A d \in Loans \ query'[c].crossed : Covers(k, d)

LEMMA CoversIsSlack ==
  ASSUME LoanTypeOK, LoanTypeOK', NEW k \in LoanSlots, NEW d \in Loans, NEW a \in Nat, Covers(k, d)
  PROVE  a + bal[d] + Bought(taken'[k], fresh'[k], d) + Repaid(taken[k], fresh[k], d)
           <= a + bal'[d] + Bought(taken[k], fresh[k], d) + Repaid(taken'[k], fresh'[k], d)
<1>1. /\ taken[k] \in LoanRecord /\ fresh[k] \in Nat /\ taken'[k] \in LoanRecord /\ fresh'[k] \in Nat
      /\ bal[d] \in Nat /\ bal'[d] \in Nat
  BY DEF LoanTypeOK
<1>2. PICK p \in Nat, q \in Nat, r \in Nat, u \in Nat :
        /\ p = Bought(taken'[k], fresh'[k], d) /\ q = Repaid(taken[k], fresh[k], d)
        /\ r = Bought(taken[k], fresh[k], d) /\ u = Repaid(taken'[k], fresh'[k], d)
  BY <1>1, WeightsAre
<1>3. bal[d] + p + q <= bal'[d] + r + u
  BY <1>2 DEF Covers
<1>4. a + bal[d] + p + q <= a + bal'[d] + r + u
  BY <1>1, <1>3
<1> QED BY <1>2, <1>4

LEMMA MoveKeeps ==
  ASSUME LoanInv, LoanTypeOK', NEW k \in LoanSlots, Moves(k), SlotFits(taken[k], fresh[k])',
         crossed \subseteq crossed', SnapMoves(k), AnswersMove(k)
  PROVE  LoanInv'
<1>0. LoanTypeOK
  BY DEF LoanInv
<1>1. SlotsFit'
  <2>1. ASSUME NEW j \in LoanSlots PROVE SlotFits(taken[j], fresh[j])'
    <3>1. CASE j = k
      BY <3>1
    <3>2. CASE j # k
      <4>1. taken'[j] = taken[j] /\ fresh'[j] = fresh[j] /\ SlotFits(taken[j], fresh[j])
        BY <3>2 DEF Moves, LoanInv, SlotsFit
      <4> QED BY <4>1 DEF SlotFits
    <3> QED BY <3>1, <3>2
  <2> QED BY <2>1 DEF SlotsFit
<1>2. ASSUME known'.loans, NEW d \in Loans, d \notin crossed' PROVE HoldsThen(snap'[d], d)
  <2>1. known.loans /\ d \notin crossed /\ snap[d] \in Nat /\ snap'[d] \in Nat
    BY <1>0, <1>2 DEF SnapMoves, LoanTypeOK
  <2>2. Holds(snap[d], d)
    BY <2>1 DEF LoanInv, SnapHolds
  <2>3. snap'[d] + bal[d] + Bought(taken'[k], fresh'[k], d) + Repaid(taken[k], fresh[k], d)
          <= snap[d] + bal'[d] + Bought(taken[k], fresh[k], d) + Repaid(taken'[k], fresh'[k], d)
    BY <1>0, <1>2, <2>1, CoversIsSlack DEF SnapMoves
  <2>4. PICK a \in Nat, b \in Nat : a = snap[d] /\ b = snap'[d]
    BY <2>1
  <2>5. HoldsThen(b, d)
    BY <1>0, <2>2, <2>3, <2>4, HoldsOn
  <2> QED BY <2>4, <2>5
<1>3. ASSUME NEW c \in {"periodic", "learn"}, query'[c].phase = "answered",
             NEW d \in Loans, d \notin query'[c].crossed
      PROVE  HoldsThen(query'[c].answer[d], d)
  <2>1. /\ query[c].phase = "answered" /\ query'[c].answer = query[c].answer
        /\ d \notin query[c].crossed /\ Covers(k, d) /\ query[c] \in LoanQuery
    BY <1>0, <1>3 DEF AnswersMove, LoanTypeOK
  <2>2. PICK a \in Nat : a = query[c].answer[d]
    BY <2>1 DEF LoanQuery
  <2>3. Holds(a, d)
    BY <2>1, <2>2 DEF LoanInv, AnswersHold
  <2>4. a + bal[d] + Bought(taken'[k], fresh'[k], d) + Repaid(taken[k], fresh[k], d)
          <= a + bal'[d] + Bought(taken[k], fresh[k], d) + Repaid(taken'[k], fresh'[k], d)
    BY <1>0, <2>1, CoversIsSlack
  <2>5. HoldsThen(a, d)
    BY <1>0, <2>3, <2>4, HoldsOn
  <2>6. query'[c].answer[d] = a
    BY <2>1, <2>2
  <2> QED BY <2>5, <2>6
<1>4. SnapHolds'
  BY <1>2 DEF SnapHolds, Holds, HoldsThen
<1>5. AnswersHold'
  BY <1>3 DEF AnswersHold, Holds, HoldsThen
<1> QED BY <1>1, <1>4, <1>5 DEF LoanInv

LEMMA SlotTyped ==
  ASSUME LoanTypeOK, NEW k \in LoanSlots, NEW o \in LoanRecord, NEW f \in Nat,
         taken' = [taken EXCEPT ![k] = o], fresh' = [fresh EXCEPT ![k] = f]
  PROVE  /\ taken' \in [LoanSlots -> LoanRecord] /\ fresh' \in [LoanSlots -> Nat]
         /\ taken'[k] = o /\ fresh'[k] = f /\ Moves(k)
BY DEF LoanTypeOK, Moves

LEMMA LoansAre == Loans \in SUBSET Nat /\ Today \in Loans
<1>1. PICK n \in Nat \ {0} : Loans = 1 .. n
  BY LoansAssumption
<1>2. n \in Loans /\ \A e \in Loans : e <= n
  BY <1>1
<1> QED BY <1>1, <1>2 DEF Today

LEMMA RestingOrders == NoLoanOrder \in LoanRecord /\ OverOrder \in LoanRecord
                       /\ OverOrder.phase = "over" /\ ~OverOrder.repay /\ OverOrder.loan = Today
                       /\ OverOrder.left = 0
BY LoansAre DEF NoLoanOrder, OverOrder, LoanRecord, LoanPhases

LEMMA LoanInitInv == ClInit => LoanInv
<1> SUFFICES ASSUME ClInit PROVE LoanInv
  OBVIOUS
<1>1. FirstLoans \in [Loans -> Nat]
  BY LoansAssumption
<1>2. NoQuery \in LoanQuery /\ NoQuery.phase = "idle"
  BY <1>1 DEF NoQuery, LoanQuery
<1>3. LoanTypeOK
  BY <1>1, <1>2, RestingOrders DEF ClInit, LoanTypeOK
<1>4. SlotsFit
  BY DEF ClInit, SlotsFit, SlotFits, NoLoanOrder
<1>5. SnapHolds /\ AnswersHold
  BY <1>2 DEF ClInit, SnapHolds, AnswersHold
<1> QED BY <1>3, <1>4, <1>5 DEF LoanInv

(* What is reserved of a loan is a number, and covers what is asked of it  *)
(* and the repaid contracts whose notice is on the way.                    *)
LEMMA ReservedIs ==
  ASSUME LoanTypeOK, SlotsFit, NEW d \in Loans
  PROVE  /\ Reserved(d) \in Nat /\ Asked(d) \in Nat /\ Summed(AllRepaid(d)) \in Nat
         /\ Summed(AllBought(d)) \in Nat
         /\ d \notin crossed => Reserved(d) = Asked(d) + Summed(AllRepaid(d))
<1> DEFINE w == [k \in LoanSlots |-> IF Repays(k, d, {"open", "sent"}) THEN taken[k].left + fresh[k] ELSE 0]
<1>1. AllAsk(d) \in [LoanSlots -> Nat] /\ AllRepaid(d) \in [LoanSlots -> Nat] /\ AllBought(d) \in [LoanSlots -> Nat]
  BY AllAre
<1>2. \A k \in LoanSlots : taken[k].left \in Nat /\ fresh[k] \in Nat /\ taken[k].phase \in LoanPhases
  BY DEF LoanTypeOK, LoanRecord
<1>3. w \in [LoanSlots -> Nat] /\ Reserved(d) = Summed(w)
  BY <1>2 DEF Reserved
<1>4. ASSUME d \notin crossed, NEW k \in LoanSlots
      PROVE  w[k] = AllAsk(d)[k] + AllRepaid(d)[k]
  <2>1. SlotFits(taken[k], fresh[k])
    BY DEF SlotsFit
  <2>2. CASE Repays(k, d, {"open", "sent"})
    BY <1>2, <2>2 DEF Repays, AllAsk, AllRepaid, Asks, Repaid
  <2>3. CASE ~Repays(k, d, {"open", "sent"})
    <3>1. taken[k].repay /\ taken[k].loan = d => fresh[k] = 0
      BY <1>2, <1>4, <2>1, <2>3 DEF Repays, SlotFits, LoanPhases
    <3>2. Asks(taken[k], d) = 0 /\ Repaid(taken[k], fresh[k], d) = 0
      BY <2>3, <3>1 DEF Repays, Asks, Repaid
    <3> QED BY <2>3, <3>2 DEF AllAsk, AllRepaid
  <2> QED BY <2>2, <2>3
<1> HIDE DEF w
<1>5. d \notin crossed => Summed(w) = Summed(AllAsk(d)) + Summed(AllRepaid(d))
  <2>1. PICK u, v : u = AllAsk(d) /\ v = AllRepaid(d)
    OBVIOUS
  <2>2. SUFFICES ASSUME d \notin crossed PROVE Summed(w) = Summed(u) + Summed(v)
    BY <2>1
  <2> QED BY <1>1, <1>3, <1>4, <2>1, <2>2, SummedBoth
<1> QED BY <1>1, <1>3, <1>5, SummedIsNat, AskedIs

(* The loan an order takes has that much free.                             *)
LEMMA RepayPlaced ==
  ASSUME LoanTypeOK, SlotsFit, NEW k \in LoanSlots, PlaceRepay(k)
  PROVE  \/ UNCHANGED taken
         \/ \E d \in Loans, n \in Nat :
              /\ known.loans /\ n + Reserved(d) <= snap[d]
              /\ taken' = [taken EXCEPT ![k] =
                   [phase |-> "sent", repay |-> TRUE, loan |-> d, left |-> n]]
<1> SUFFICES ASSUME known.loans, Payable(snap) # {}
             PROVE  \E d \in Loans, n \in Nat :
                      /\ n + Reserved(d) <= snap[d]
                      /\ taken' = [taken EXCEPT ![k] =
                           [phase |-> "sent", repay |-> TRUE, loan |-> d, left |-> n]]
  BY DEF PlaceRepay
<1>1. PICK d : d = Min(Payable(snap))
  OBVIOUS
<1>2. d \in Payable(snap)
  <2>1. Payable(snap) \in SUBSET Nat
    BY LoansAre DEF Payable
  <2>2. \E n \in Payable(snap) : \A m \in Payable(snap) : n <= m
    BY <2>1, LeastOne
  <2> QED BY <1>1, <2>2 DEF Min
<1>3. d \in Loans /\ FreeOf(snap, d) >= 1 /\ snap[d] \in Nat /\ Reserved(d) \in Nat
  BY <1>2, ReservedIs DEF Payable, LoanTypeOK
<1>4. FreeOf(snap, d) \in Nat /\ FreeOf(snap, d) + Reserved(d) = snap[d]
  BY <1>3 DEF FreeOf
<1>5. PICK n : n = IF RepayQty < FreeOf(snap, d) THEN RepayQty ELSE FreeOf(snap, d)
  OBVIOUS
<1>6. n \in Nat /\ n + Reserved(d) <= snap[d]
  BY <1>3, <1>4, <1>5, LoansAssumption
<1>7. taken' = [taken EXCEPT ![k] = [phase |-> "sent", repay |-> TRUE, loan |-> d, left |-> n]]
  BY <1>1, <1>5 DEF PlaceRepay
<1> QED BY <1>3, <1>6, <1>7

(* A step of an order of which no contract changes hands.                  *)
LEMMA QuietMove ==
  ASSUME LoanInv, NEW k \in LoanSlots, NEW o \in LoanRecord,
         taken' = [taken EXCEPT ![k] = o], UNCHANGED <<bal, snap, known, fresh, query>>,
         crossed \subseteq crossed', crossed' \subseteq Loans,
         fresh[k] = 0 \/ (o.repay = taken[k].repay /\ o.loan = taken[k].loan),
         o.phase \in {"none", "over"} => fresh[k] = 0, ~o.repay => o.loan = Today,
         o.phase = "lost" => o.loan \in crossed'
  PROVE  LoanInv'
<1>0. LoanTypeOK
  BY DEF LoanInv
<1>1. fresh[k] \in Nat /\ fresh' = [fresh EXCEPT ![k] = fresh[k]]
  BY <1>0 DEF LoanTypeOK
<1>2. PICK f \in Nat : f = fresh[k]
  BY <1>1
<1>3. /\ taken' \in [LoanSlots -> LoanRecord] /\ taken'[k] = o /\ fresh'[k] = f /\ Moves(k)
  BY <1>0, <1>1, <1>2, SlotTyped
<1>4. LoanTypeOK'
  BY <1>0, <1>3 DEF LoanTypeOK
<1>5. SlotFits(taken[k], fresh[k])'
  BY <1>2, <1>3 DEF SlotFits
<1>6. \A d \in Loans : bal[d] \in Nat
  BY <1>0 DEF LoanTypeOK
<1>7. ASSUME NEW d \in Loans PROVE Covers(k, d)
  <2>1. /\ Bought(o, f, d) = Bought(taken[k], f, d) /\ Repaid(o, f, d) = Repaid(taken[k], f, d)
        /\ Bought(o, f, d) \in Nat /\ Repaid(o, f, d) \in Nat
    BY <1>2 DEF Bought, Repaid
  <2>2. bal' = bal
    OBVIOUS
  <2> QED BY <1>2, <1>3, <1>6, <2>1, <2>2 DEF Covers
<1>8. SnapMoves(k)
  BY <1>7 DEF SnapMoves
<1>9. AnswersMove(k)
  BY <1>7 DEF AnswersMove
<1> QED BY <1>3, <1>4, <1>5, <1>8, <1>9, MoveKeeps

LEMMA LoansStand ==
  ASSUME LoanInv, UNCHANGED <<bal, snap, known, taken, fresh, query, crossed>>
  PROVE  LoanInv'
<1>1. \A n, d : Holds(n, d)' <=> Holds(n, d)
  BY DEF Holds, AllBought, AllRepaid
<1>2. LoanTypeOK' /\ SlotsFit'
  BY DEF LoanInv, LoanTypeOK, SlotsFit, SlotFits
<1>3. SnapHolds' /\ AnswersHold'
  BY <1>1 DEF LoanInv, SnapHolds, AnswersHold
<1> QED BY <1>2, <1>3 DEF LoanInv

LEMMA PlacesKeep ==
  ASSUME LoanInv, NEW k \in LoanSlots, PlaceRepay(k) \/ PlaceEntry(k)
  PROVE  LoanInv'
<1>0. LoanTypeOK /\ SlotsFit /\ SlotFits(taken[k], fresh[k]) /\ crossed \subseteq Loans
  BY DEF LoanInv, SlotsFit, LoanTypeOK
<1>1. /\ UNCHANGED <<bal, snap, known, fresh, query>> /\ crossed' = crossed
      /\ taken[k].phase = "none"
  BY DEF PlaceRepay, PlaceEntry, Unused
<1>2. fresh[k] = 0
  BY <1>0, <1>1 DEF SlotFits
<1>3. ASSUME NEW o \in LoanRecord, taken' = [taken EXCEPT ![k] = o], o.phase = "sent",
             ~o.repay => o.loan = Today
      PROVE  LoanInv'
  BY <1>0, <1>1, <1>2, <1>3, QuietMove
<1>4. CASE UNCHANGED taken
  BY <1>1, <1>4, LoansStand
<1>5. CASE PlaceRepay(k) /\ ~UNCHANGED taken
  <2>1. PICK d \in Loans, n \in Nat :
          taken' = [taken EXCEPT ![k] = [phase |-> "sent", repay |-> TRUE, loan |-> d, left |-> n]]
    BY <1>0, <1>5, RepayPlaced
  <2>2. PICK o : o = [phase |-> "sent", repay |-> TRUE, loan |-> d, left |-> n]
    OBVIOUS
  <2>3. o \in LoanRecord /\ o.phase = "sent" /\ o.repay
    BY <2>2 DEF LoanRecord, LoanPhases
  <2> QED BY <1>3, <2>1, <2>2, <2>3
<1>6. CASE PlaceEntry(k)
  <2>1. PICK o : o = [phase |-> "sent", repay |-> FALSE, loan |-> Today, left |-> EntryQty]
    OBVIOUS
  <2>2. o \in LoanRecord /\ o.phase = "sent" /\ o.loan = Today
    BY <2>1, LoansAre, LoansAssumption DEF LoanRecord, LoanPhases
  <2> QED BY <1>3, <1>6, <2>1, <2>2 DEF PlaceEntry
<1> QED BY <1>4, <1>5, <1>6

LEMMA AnswerOrOverKeeps ==
  ASSUME LoanInv, NEW k \in LoanSlots,
         LoanOver(k) \/ \E how \in {"open", "refused", "lost"} : LoanAnswer(k, how)
  PROVE  LoanInv'
<1>0. /\ LoanTypeOK /\ SlotFits(taken[k], fresh[k]) /\ taken[k] \in LoanRecord
      /\ crossed \subseteq Loans
  BY DEF LoanInv, SlotsFit, LoanTypeOK
<1>1. UNCHANGED <<bal, snap, known, fresh, query>>
  BY DEF LoanAnswer, LoanOver
<1>2. CASE LoanOver(k) \/ LoanAnswer(k, "refused")
  <2>1. /\ taken' = [taken EXCEPT ![k] = OverOrder] /\ fresh[k] = 0 /\ crossed' = crossed
    BY <1>2 DEF LoanOver, LoanAnswer
  <2>2. PICK o \in LoanRecord : o = OverOrder /\ o.phase = "over" /\ ~o.repay /\ o.loan = Today
    BY RestingOrders
  <2> QED BY <1>0, <1>1, <2>1, <2>2, QuietMove
<1>3. ASSUME NEW how \in {"open", "lost"}, LoanAnswer(k, how)
      PROVE  LoanInv'
  <2>1. PICK o : o = [taken[k] EXCEPT !.phase = how]
    OBVIOUS
  <2>2. /\ o \in LoanRecord /\ o.phase = how /\ o.repay = taken[k].repay /\ o.loan = taken[k].loan
        /\ o.loan \in Loans
    BY <1>0, <1>3, <2>1 DEF LoanRecord, LoanPhases
  <2>3. taken' = [taken EXCEPT ![k] = o]
    BY <1>3, <2>1 DEF LoanAnswer
  <2>4. /\ crossed \subseteq crossed' /\ crossed' \subseteq Loans
        /\ how = "lost" => o.loan \in crossed'
    BY <1>0, <1>3, <2>2 DEF LoanAnswer
  <2>5. ~o.repay => o.loan = Today
    BY <1>0, <2>2 DEF SlotFits
  <2> QED BY <1>0, <1>1, <1>3, <2>2, <2>3, <2>4, <2>5, QuietMove
<1> QED BY <1>2, <1>3

LEMMA FillsKeep ==
  ASSUME LoanInv, NEW k \in LoanSlots, LoanFill(k)
  PROVE  LoanInv'
<1>0. LoanTypeOK /\ SlotFits(taken[k], fresh[k])
  BY DEF LoanInv, SlotsFit
<1>1. PICK o : o = taken[k]
  OBVIOUS
<1>2. PICK l : l = o.loan
  OBVIOUS
<1>3. PICK f : f = fresh[k]
  OBVIOUS
<1>4. /\ o \in LoanRecord /\ l \in Loans /\ f \in Nat /\ o.left \in Nat /\ o.left > 0
      /\ o.phase \in {"sent", "open", "lost"} /\ o.repay \in BOOLEAN
  BY <1>0, <1>1, <1>2, <1>3 DEF LoanFill, LoanTypeOK, LoanRecord
<1>5. PICK p : p = [o EXCEPT !.left = o.left - 1]
  OBVIOUS
<1>6. p \in LoanRecord /\ p.repay = o.repay /\ p.loan = l /\ p.phase = o.phase
  BY <1>2, <1>4, <1>5 DEF LoanRecord
<1>7. taken' = [taken EXCEPT ![k] = p]
  BY <1>0, <1>1, <1>5 DEF LoanFill, LoanTypeOK, LoanRecord
<1>8. PICK g \in Nat : g = IF o.phase = "lost" THEN f ELSE f + 1
  BY <1>4
<1>9. fresh' = [fresh EXCEPT ![k] = g]
  BY <1>0, <1>1, <1>3, <1>8 DEF LoanFill, LoanTypeOK
<1>10. /\ taken' \in [LoanSlots -> LoanRecord] /\ fresh' \in [LoanSlots -> Nat]
       /\ taken'[k] = p /\ fresh'[k] = g /\ Moves(k)
  BY <1>0, <1>6, <1>7, <1>9, SlotTyped
<1>11. PICK b \in Nat : b = bal[l]
  BY <1>0, <1>4 DEF LoanTypeOK
<1>12. PICK e \in Nat : e = (IF o.repay THEN b - 1 ELSE b + 1) /\ bal' = [bal EXCEPT ![l] = e]
  <2>1. o.repay => b > 0
    BY <1>1, <1>2, <1>11 DEF LoanFill
  <2>2. bal' = [bal EXCEPT ![l] = IF o.repay THEN b - 1 ELSE b + 1]
    BY <1>0, <1>1, <1>2, <1>4, <1>11 DEF LoanFill, LoanTypeOK
  <2>3. PICK x : x = IF o.repay THEN b - 1 ELSE b + 1
    OBVIOUS
  <2>4. x \in Nat
    BY <1>4, <2>1, <2>3
  <2> QED BY <2>2, <2>3, <2>4
<1>13. bal' \in [Loans -> Nat] /\ bal'[l] = e /\ \A d \in Loans : d # l => bal'[d] = bal[d]
  BY <1>0, <1>4, <1>12 DEF LoanTypeOK
<1>14. UNCHANGED <<snap, known, crossed>>
  BY DEF LoanFill
<1>15. ASSUME NEW c \in {"periodic", "learn"}
       PROVE  /\ query'[c] \in LoanQuery
              /\ query'[c].phase = query[c].phase /\ query'[c].answer = query[c].answer
              /\ query[c].crossed \subseteq query'[c].crossed
              /\ o.phase = "lost" /\ query[c].phase = "answered" => l \in query'[c].crossed
  <2>1. query[c] \in LoanQuery /\ DOMAIN query = {"periodic", "learn"}
    BY <1>0 DEF LoanTypeOK
  <2>2. PICK q : q = query[c]
    OBVIOUS
  <2>3. query'[c] = IF o.phase = "lost" /\ q.phase = "answered"
                    THEN [q EXCEPT !.crossed = q.crossed \cup {l}] ELSE q
    BY <1>1, <1>2, <2>1, <2>2 DEF LoanFill
  <2> QED BY <1>4, <2>1, <2>2, <2>3 DEF LoanQuery
<1>16. query' \in [{"periodic", "learn"} -> LoanQuery]
  <2>1. query' = [c \in {"periodic", "learn"} |-> query'[c]]
    <3>1. DOMAIN query = {"periodic", "learn"} /\ query = [c \in {"periodic", "learn"} |-> query[c]]
      BY <1>0 DEF LoanTypeOK
    <3>2. \/ query' = query
          \/ query' = [c \in DOMAIN query |->
                         IF query[c].phase = "answered"
                           THEN [query[c] EXCEPT !.crossed = @ \cup {taken[k].loan}] ELSE query[c]]
      BY DEF LoanFill
    <3> QED BY <3>1, <3>2
  <2> QED BY <1>15, <2>1
<1>17. LoanTypeOK'
  BY <1>0, <1>10, <1>13, <1>14, <1>16 DEF LoanTypeOK
<1>18. SlotFits(taken[k], fresh[k])'
  BY <1>0, <1>1, <1>2, <1>4, <1>6, <1>10, <1>14 DEF SlotFits
<1>19. ASSUME NEW d \in Loans, o.phase = "lost" => d # l
       PROVE  Covers(k, d)
  <2>1. PICK m \in Nat, n \in Nat : m = bal[d] /\ n = bal'[d]
    BY <1>0, <1>13 DEF LoanTypeOK
  <2>2. CASE d = l
    <3>1. m = b /\ n = e /\ g = f + 1
      BY <1>8, <1>11, <1>13, <1>19, <2>1, <2>2
    <3>2. CASE o.repay
      <4>1. /\ Bought(p, g, d) = 0 /\ Repaid(o, f, d) = f
            /\ Bought(o, f, d) = 0 /\ Repaid(p, g, d) = g
        BY <1>2, <1>6, <2>2, <3>2 DEF Bought, Repaid
      <4>2. m + 0 + f <= n + 0 + g
        BY <1>4, <1>12, <3>1, <3>2
      <4> QED BY <1>1, <1>3, <1>10, <2>1, <4>1, <4>2 DEF Covers
    <3>3. CASE ~o.repay
      <4>1. /\ Bought(p, g, d) = g /\ Repaid(o, f, d) = 0
            /\ Bought(o, f, d) = f /\ Repaid(p, g, d) = 0
        BY <1>2, <1>6, <2>2, <3>3 DEF Bought, Repaid
      <4>2. m + g + 0 <= n + f + 0
        BY <1>4, <1>12, <3>1, <3>3
      <4> QED BY <1>1, <1>3, <1>10, <2>1, <4>1, <4>2 DEF Covers
    <3> QED BY <3>2, <3>3
  <2>3. CASE d # l
    <3>1. /\ Bought(p, g, d) = 0 /\ Repaid(o, f, d) = 0
          /\ Bought(o, f, d) = 0 /\ Repaid(p, g, d) = 0 /\ m = n
      BY <1>2, <1>6, <1>13, <2>1, <2>3 DEF Bought, Repaid
    <3>2. m + 0 + 0 <= n + 0 + 0
      BY <3>1
    <3> QED BY <1>1, <1>3, <1>10, <2>1, <3>1, <3>2 DEF Covers
  <2> QED BY <2>2, <2>3
<1>20. SnapMoves(k)
  <2>1. o.phase = "lost" => l \in crossed'
    BY <1>0, <1>1, <1>2, <1>14 DEF SlotFits
  <2> QED BY <1>14, <1>19, <2>1 DEF SnapMoves
<1>21. AnswersMove(k)
  BY <1>15, <1>19 DEF AnswersMove
<1> QED BY <1>10, <1>14, <1>17, <1>18, <1>20, <1>21, MoveKeeps

LEMMA NoticesKeep ==
  ASSUME LoanInv, NEW k \in LoanSlots, CreditNotice(k)
  PROVE  LoanInv'
<1>0. LoanTypeOK /\ SlotFits(taken[k], fresh[k])
  BY DEF LoanInv, SlotsFit
<1>1. PICK o \in LoanRecord : o = taken[k] /\ o.phase = "open"
  BY <1>0 DEF LoanTypeOK, CreditNotice
<1>2. PICK l \in Loans : l = o.loan /\ (~o.repay => l = Today)
  BY <1>0, <1>1 DEF LoanRecord, SlotFits
<1>3. PICK f \in Nat : f = fresh[k] /\ f > 0
  BY <1>0 DEF LoanTypeOK, CreditNotice
<1>4. PICK g \in Nat : g = f - 1
  BY <1>3
<1>5. taken' = [taken EXCEPT ![k] = o] /\ fresh' = [fresh EXCEPT ![k] = g]
  BY <1>0, <1>1, <1>3, <1>4 DEF CreditNotice, LoanTypeOK
<1>6. /\ taken' \in [LoanSlots -> LoanRecord] /\ fresh' \in [LoanSlots -> Nat]
      /\ taken'[k] = o /\ fresh'[k] = g /\ Moves(k)
  BY <1>0, <1>5, SlotTyped
<1>7. /\ UNCHANGED <<bal, known>> /\ o.repay \in BOOLEAN
      /\ crossed' = IF o.repay /\ snap[l] = 0 THEN crossed \cup {l} ELSE crossed
  BY <1>1, <1>2 DEF CreditNotice, LoanRecord
<1>8. PICK a \in Nat : a = snap[l]
  BY <1>0 DEF LoanTypeOK
<1>9. /\ snap' \in [Loans -> Nat] /\ \A d \in Loans : d # l => snap'[d] = snap[d]
      /\ o.repay /\ known.loans => snap'[l] = IF a = 0 THEN 0 ELSE a - 1
      /\ ~o.repay => snap'[l] \in {a, a + 1}
  <2>1. snap' = IF o.repay /\ known.loans THEN [snap EXCEPT ![l] = IF a = 0 THEN 0 ELSE a - 1]
                ELSE IF ~o.repay /\ known.today THEN [snap EXCEPT ![l] = a + 1] ELSE snap
    BY <1>0, <1>1, <1>2, <1>8 DEF CreditNotice, LoanTypeOK
  <2>2. (IF a = 0 THEN 0 ELSE a - 1) \in Nat /\ a + 1 \in Nat
    OBVIOUS
  <2> QED BY <1>0, <1>8, <2>1, <2>2 DEF LoanTypeOK
<1>10. ASSUME NEW c \in {"periodic", "learn"}
       PROVE  /\ query'[c] \in LoanQuery
              /\ query'[c].phase = "answered" =>
                   /\ query[c].phase = "answered" /\ query'[c].answer = query[c].answer
                   /\ query[c].crossed \subseteq query'[c].crossed
                   /\ o.repay => l \in query'[c].crossed
  <2>1. query[c] \in LoanQuery /\ DOMAIN query = {"periodic", "learn"}
    BY <1>0 DEF LoanTypeOK
  <2>2. PICK q : q = query[c]
    OBVIOUS
  <2>3. query'[c] = IF q.phase = "answered" /\ o.repay
                      THEN [q EXCEPT !.crossed = q.crossed \cup {l}]
                    ELSE IF c = "learn" /\ q.phase = "idle" /\ ~o.repay /\ ~known.today
                      THEN [NoQuery EXCEPT !.phase = "asked"] ELSE q
    BY <1>1, <1>2, <2>1, <2>2 DEF CreditNotice
  <2>4. PICK n : n = [NoQuery EXCEPT !.phase = "asked"]
    OBVIOUS
  <2>5. FirstLoans \in [Loans -> Nat]
    BY LoansAssumption
  <2>6. n \in LoanQuery /\ n.phase = "asked"
    BY <2>4, <2>5 DEF NoQuery, LoanQuery
  <2> QED BY <1>2, <2>1, <2>2, <2>3, <2>4, <2>6 DEF LoanQuery
<1>11. query' \in [{"periodic", "learn"} -> LoanQuery]
  <2>1. query' = [c \in {"periodic", "learn"} |-> query'[c]]
    BY <1>0 DEF LoanTypeOK, CreditNotice
  <2> QED BY <1>10, <2>1
<1>12. LoanTypeOK'
  BY <1>0, <1>6, <1>7, <1>9, <1>11 DEF LoanTypeOK
<1>13. SlotFits(taken[k], fresh[k])'
  BY <1>1, <1>2, <1>6 DEF SlotFits
<1>14. ASSUME NEW d \in Loans, d # l
       PROVE  Covers(k, d)
  <2>1. /\ Bought(o, g, d) = 0 /\ Repaid(o, f, d) = 0
        /\ Bought(o, f, d) = 0 /\ Repaid(o, g, d) = 0 /\ bal'[d] = bal[d] /\ bal[d] \in Nat
    BY <1>0, <1>2, <1>7, <1>14 DEF Bought, Repaid, LoanTypeOK
  <2> QED BY <1>1, <1>3, <1>6, <2>1 DEF Covers
<1>15. PICK b \in Nat : b = bal[l] /\ b = bal'[l]
  BY <1>0, <1>7 DEF LoanTypeOK
<1>16. ASSUME known.loans, l \notin crossed'
       PROVE  snap'[l] + bal[l] + Bought(taken'[k], fresh'[k], l) + Repaid(taken[k], fresh[k], l)
                <= snap[l] + bal'[l] + Bought(taken[k], fresh[k], l) + Repaid(taken'[k], fresh'[k], l)
  <2>1. CASE o.repay
    <3>1. a # 0 /\ snap'[l] = a - 1
      BY <1>7, <1>8, <1>9, <1>16, <2>1
    <3>2. /\ Bought(o, g, l) = 0 /\ Repaid(o, f, l) = f
          /\ Bought(o, f, l) = 0 /\ Repaid(o, g, l) = g
      BY <1>2, <2>1 DEF Bought, Repaid
    <3>3. (a - 1) + b + 0 + f <= a + b + 0 + g
      BY <1>4
    <3> QED BY <1>1, <1>3, <1>6, <1>8, <1>15, <3>1, <3>2, <3>3
  <2>2. CASE ~o.repay
    <3>1. PICK n \in Nat : n = snap'[l] /\ n <= a + 1
      BY <1>9, <2>2
    <3>2. /\ Bought(o, g, l) = g /\ Repaid(o, f, l) = 0
          /\ Bought(o, f, l) = f /\ Repaid(o, g, l) = 0
      BY <1>2, <2>2 DEF Bought, Repaid
    <3>3. n + b + g + 0 <= a + b + f + 0
      BY <1>4, <3>1
    <3> QED BY <1>1, <1>3, <1>6, <1>8, <1>15, <3>1, <3>2, <3>3
  <2> QED BY <1>7, <2>1, <2>2
<1>17. SnapMoves(k)
  BY <1>7, <1>9, <1>14, <1>16 DEF SnapMoves
<1>18. ASSUME ~o.repay PROVE Covers(k, l)
  <2>1. /\ Bought(o, g, l) = g /\ Repaid(o, f, l) = 0
        /\ Bought(o, f, l) = f /\ Repaid(o, g, l) = 0
    BY <1>2, <1>18 DEF Bought, Repaid
  <2>2. b + g + 0 <= b + f + 0
    BY <1>4
  <2> QED BY <1>1, <1>3, <1>6, <1>15, <2>1, <2>2 DEF Covers
<1>19. AnswersMove(k)
  BY <1>7, <1>10, <1>14, <1>18 DEF AnswersMove
<1>20. crossed \subseteq crossed'
  BY <1>7
<1> QED BY <1>6, <1>12, <1>13, <1>17, <1>19, <1>20, MoveKeeps

LEMMA QueriesKeep ==
  ASSUME LoanInv,
         AskBroker \/ \E c \in {"periodic", "learn"} :
                        BrokerAnswers(c) \/ LoansArrive(c) \/ LoanQueryFails(c)
  PROVE  LoanInv'
<1>0. /\ LoanTypeOK /\ \A c \in {"periodic", "learn"} : query[c] \in LoanQuery
      /\ FirstLoans \in [Loans -> Nat] /\ bal \in [Loans -> Nat]
  BY LoansAssumption DEF LoanInv, LoanTypeOK
<1>1. UNCHANGED <<bal, taken, fresh>>
  BY DEF AskBroker, BrokerAnswers, LoansArrive, LoanQueryFails
<1>2. \A n, d : Holds(n, d)' <=> Holds(n, d)
  BY <1>1 DEF Holds, AllBought, AllRepaid
<1>3. ASSUME NEW c \in {"periodic", "learn"}, NEW q \in LoanQuery, query' = [query EXCEPT ![c] = q],
             UNCHANGED <<snap, known, crossed>>,
             q.phase = "answered" => \A d \in Loans \ q.crossed : Holds(q.answer[d], d)
      PROVE  LoanInv'
  <2>1. LoanTypeOK'
    BY <1>0, <1>1, <1>3 DEF LoanTypeOK
  <2>2. SlotsFit' /\ SnapHolds'
    BY <1>1, <1>2, <1>3 DEF LoanInv, SlotsFit, SlotFits, SnapHolds
  <2>3. AnswersHold'
    <3>1. ASSUME NEW e \in {"periodic", "learn"}, query'[e].phase = "answered",
                 NEW d \in Loans, d \notin query'[e].crossed
          PROVE  Holds(query'[e].answer[d], d)
      <4>1. CASE e = c
        <5>1. query'[e] = q
          BY <1>0, <1>3, <4>1 DEF LoanTypeOK
        <5> QED BY <1>3, <3>1, <5>1
      <4>2. CASE e # c
        <5>1. query'[e] = query[e]
          BY <1>0, <1>3, <4>2 DEF LoanTypeOK
        <5> QED BY <3>1, <5>1 DEF LoanInv, AnswersHold
      <4> QED BY <4>1, <4>2
    <3> QED BY <1>2, <3>1 DEF AnswersHold
  <2> QED BY <2>1, <2>2, <2>3 DEF LoanInv
<1>4. CASE AskBroker
  <2>1. PICK q : q = [query["periodic"] EXCEPT !.phase = "asked"]
    OBVIOUS
  <2>2. q \in LoanQuery /\ q.phase = "asked"
    BY <1>0, <2>1 DEF LoanQuery
  <2>3. query' = [query EXCEPT !["periodic"] = q]
    BY <1>4, <2>1 DEF AskBroker
  <2> QED BY <1>3, <1>4, <2>2, <2>3 DEF AskBroker
<1>5. ASSUME NEW c \in {"periodic", "learn"}, LoanQueryFails(c) PROVE LoanInv'
  <2>1. PICK q : q = NoQuery
    OBVIOUS
  <2>2. q \in LoanQuery /\ q.phase = "idle"
    BY <1>0, <2>1 DEF LoanQuery, NoQuery
  <2> QED BY <1>3, <1>5, <2>1, <2>2 DEF LoanQueryFails
<1>6. ASSUME NEW c \in {"periodic", "learn"}, BrokerAnswers(c) PROVE LoanInv'
  <2>1. PICK X : X = {taken[k].loan : k \in {j \in LoanSlots : ~taken[j].repay /\ fresh[j] > 0}}
    OBVIOUS
  <2>2. PICK q : q = [phase |-> "answered", answer |-> bal, crossed |-> X]
    OBVIOUS
  <2>3. X \subseteq Loans
    BY <1>0, <2>1 DEF LoanTypeOK, LoanRecord
  <2>4. q \in LoanQuery /\ q.answer = bal /\ q.crossed = X
    BY <1>0, <2>2, <2>3 DEF LoanQuery
  <2>5. query' = [query EXCEPT ![c] = q]
    BY <1>6, <2>1, <2>2 DEF BrokerAnswers
  <2>6. ASSUME NEW d \in Loans, d \notin X PROVE Holds(bal[d], d)
    <3>1. AllBought(d) \in [LoanSlots -> Nat] /\ AllRepaid(d) \in [LoanSlots -> Nat]
      BY <1>0, AllAre
    <3>2. ASSUME NEW j \in LoanSlots PROVE AllBought(d)[j] = 0
      <4>1. fresh[j] \in Nat
        BY <1>0 DEF LoanTypeOK
      <4>2. ~taken[j].repay /\ taken[j].loan = d => fresh[j] = 0
        BY <2>1, <2>6, <4>1
      <4> QED BY <4>2 DEF AllBought, Bought
    <3>3. PICK w, v : w = AllBought(d) /\ v = AllRepaid(d)
      OBVIOUS
    <3>4. Summed(w) = 0 /\ Summed(v) \in Nat
      BY <3>1, <3>2, <3>3, SummedNone, SummedIsNat
    <3>5. bal[d] \in Nat
      BY <1>0
    <3> QED BY <3>3, <3>4, <3>5 DEF Holds
  <2> QED BY <1>3, <1>6, <2>4, <2>5, <2>6 DEF BrokerAnswers
<1>7. ASSUME NEW c \in {"periodic", "learn"}, LoansArrive(c) PROVE LoanInv'
  <2>1. PICK q \in LoanQuery : q = query[c] /\ q.phase = "answered"
    BY <1>0, <1>7 DEF LoansArrive
  <2>2. PICK Y : Y = {taken[k].loan : k \in {j \in LoanSlots : taken[j].phase = "lost"}}
    OBVIOUS
  <2>3. Y \subseteq Loans
    BY <1>0, <2>2 DEF LoanTypeOK, LoanRecord
  <2>4. /\ snap' = q.answer /\ crossed' = q.crossed \cup Y /\ query' = [query EXCEPT ![c] = NoQuery]
        /\ known' \in [loans : BOOLEAN, today : BOOLEAN]
    BY <1>0, <1>7, <2>1, <2>2 DEF LoansArrive, LoanTypeOK
  <2>5. NoQuery \in LoanQuery /\ NoQuery.phase = "idle"
    BY <1>0 DEF LoanQuery, NoQuery
  <2>6. LoanTypeOK'
    BY <1>0, <1>1, <2>3, <2>4, <2>5 DEF LoanTypeOK, LoanQuery
  <2>7. SlotsFit'
    BY <1>1, <2>2, <2>4 DEF LoanInv, SlotsFit, SlotFits
  <2>8. SnapHolds'
    BY <1>2, <2>1, <2>4 DEF LoanInv, AnswersHold, SnapHolds
  <2>9. AnswersHold'
    <3>1. ASSUME NEW e \in {"periodic", "learn"}, query'[e].phase = "answered"
          PROVE  query'[e] = query[e]
      BY <1>0, <2>4, <2>5, <3>1 DEF LoanTypeOK
    <3> QED BY <1>2, <3>1 DEF LoanInv, AnswersHold
  <2> QED BY <2>6, <2>7, <2>8, <2>9 DEF LoanInv
<1> QED BY <1>4, <1>5, <1>6, <1>7

LEMMA LoanStep ==
  ASSUME LoanInv, [ClNext]_loanVars
  PROVE  LoanInv'
<1>1. DOMAIN query = {"periodic", "learn"}
  BY DEF LoanInv, LoanTypeOK
<1>2. CASE UNCHANGED loanVars
  BY <1>2, LoansStand DEF loanVars
<1>3. CASE ClNext
  BY <1>1, <1>3, PlacesKeep, AnswerOrOverKeeps, FillsKeep, NoticesKeep, QueriesKeep DEF ClNext
<1> QED BY <1>2, <1>3

(* What one order comes to ask moves the sum as much.                      *)
LEMMA AskedMoves ==
  ASSUME LoanTypeOK, LoanTypeOK', NEW k \in LoanSlots, Moves(k), NEW d \in Loans
  PROVE  /\ Asked(d) \in Nat /\ Asks(taken[k], d) <= Asked(d)
         /\ Asked(d)' = Asked(d) - Asks(taken[k], d) + Asks(taken'[k], d)
<1>1. AllAsk(d) \in [LoanSlots -> Nat] /\ AllAsk(d)' \in [LoanSlots -> Nat]
  BY AllAre, AllAreNext
<1>2. AllAsk(d)[k] = Asks(taken[k], d) /\ AllAsk(d)'[k] = Asks(taken'[k], d)
  BY DEF AllAsk
<1>3. \A j \in LoanSlots : j # k => AllAsk(d)'[j] = AllAsk(d)[j]
  BY DEF Moves, AllAsk
<1>4. PICK w, v : w = AllAsk(d) /\ v = AllAsk(d)'
  OBVIOUS
<1>5. Summed(w) \in Nat /\ w[k] <= Summed(w) /\ Summed(v) = Summed(w) - w[k] + v[k]
  BY <1>1, <1>3, <1>4, SummedMoves
<1>6. Asked(d) = Summed(w) /\ Asked(d)' = Summed(v)
  BY <1>4, AskedIs DEF Asked, AllAsk, Asks, Repays
<1> QED BY <1>2, <1>4, <1>5, <1>6

(* Only an order that is placed asks for more, and it asks for what is     *)
(* free.                                                                   *)
LEMMA RepaysStep ==
  ASSUME LoanInv, LoanInv', [ClNext]_loanVars, NEW d \in Loans, d \notin crossed
  PROVE  Asked(d)' > Asked(d) => Asked(d)' <= bal[d]
<1>0. LoanTypeOK /\ LoanTypeOK' /\ SlotsFit /\ DOMAIN query = {"periodic", "learn"}
  BY DEF LoanInv, LoanTypeOK
<1>1. Asked(d) \in Nat
  BY <1>0, ReservedIs
<1>2. CASE UNCHANGED taken
  <2>1. Asked(d)' = Asked(d)
    BY <1>2 DEF Asked, Repays
  <2> QED BY <1>1, <2>1
<1>3. ASSUME NEW k \in LoanSlots, Moves(k), Asks(taken'[k], d) <= Asks(taken[k], d)
      PROVE  ~(Asked(d)' > Asked(d))
  <2>1. taken[k] \in LoanRecord /\ taken'[k] \in LoanRecord
    BY <1>0 DEF LoanTypeOK
  <2>2. PICK x \in Nat, y \in Nat : x = Asks(taken[k], d) /\ y = Asks(taken'[k], d)
    BY <2>1, WeightsAre
  <2>3. Asked(d)' = Asked(d) - x + y /\ y <= x /\ x <= Asked(d)
    BY <1>0, <1>3, <2>2, AskedMoves
  <2> QED BY <1>1, <2>2, <2>3
<1>4. ASSUME NEW k \in LoanSlots, PlaceRepay(k)
      PROVE  Asked(d)' > Asked(d) => Asked(d)' <= bal[d]
  <2>1. CASE UNCHANGED taken
    BY <1>2, <2>1
  <2>2. CASE ~UNCHANGED taken
    <3>1. PICK l \in Loans, n \in Nat :
            /\ known.loans /\ n + Reserved(l) <= snap[l]
            /\ taken' = [taken EXCEPT ![k] =
                 [phase |-> "sent", repay |-> TRUE, loan |-> l, left |-> n]]
      BY <1>0, <1>4, <2>2, RepayPlaced
    <3>2. PICK o : o = [phase |-> "sent", repay |-> TRUE, loan |-> l, left |-> n]
      OBVIOUS
    <3>3. Asks(o, d) = IF l = d THEN n ELSE 0
      BY <3>2 DEF Asks
    <3>4. taken'[k] = o /\ Moves(k)
      BY <1>0, <1>4, <3>1, <3>2 DEF PlaceRepay, LoanTypeOK, Moves
    <3>5. Asks(taken[k], d) = 0
      BY <1>4 DEF PlaceRepay, Unused, Asks
    <3>6. Asked(d)' = Asked(d) + Asks(o, d)
      <4>1. Asked(d)' = Asked(d) - 0 + Asks(o, d)
        BY <1>0, <3>4, <3>5, AskedMoves
      <4>2. Asks(o, d) \in Nat
        BY <3>3
      <4> QED BY <1>1, <4>1, <4>2
    <3>7. CASE l # d
      BY <1>1, <3>3, <3>6, <3>7
    <3>8. CASE l = d
      <4>1. Holds(snap[d], d)
        BY <3>1 DEF LoanInv, SnapHolds
      <4>2. PICK R \in Nat, B \in Nat : R = Summed(AllRepaid(d)) /\ B = Summed(AllBought(d))
        BY <1>0, ReservedIs
      <4>3. Reserved(d) = Asked(d) + R
        BY <1>0, <4>2, ReservedIs
      <4>4. snap[d] \in Nat /\ bal[d] \in Nat
        BY <1>0 DEF LoanTypeOK
      <4>5. snap[d] + B <= bal[d] + R
        BY <4>1, <4>2 DEF Holds
      <4>6. Asked(d)' = Asked(d) + n /\ n + (Asked(d) + R) <= snap[d]
        BY <3>1, <3>3, <3>6, <3>8, <4>3
      <4> QED BY <1>1, <4>2, <4>4, <4>5, <4>6
    <3> QED BY <3>7, <3>8
  <2> QED BY <2>1, <2>2
<1>5. ASSUME NEW k \in LoanSlots, NEW o \in LoanRecord, taken' = [taken EXCEPT ![k] = o],
             UNCHANGED fresh, Asks(o, d) <= Asks(taken[k], d)
      PROVE  ~(Asked(d)' > Asked(d))
  <2>1. taken'[k] = o /\ Moves(k)
    BY <1>0, <1>5 DEF LoanTypeOK, Moves
  <2> QED BY <1>3, <1>5, <2>1
<1>6. ASSUME NEW k \in LoanSlots, PlaceEntry(k)
      PROVE  ~(Asked(d)' > Asked(d))
  <2>1. PICK o : o = [phase |-> "sent", repay |-> FALSE, loan |-> Today, left |-> EntryQty]
    OBVIOUS
  <2>2. o \in LoanRecord /\ Asks(o, d) = 0
    BY <2>1, LoansAre, LoansAssumption DEF LoanRecord, LoanPhases, Asks
  <2>3. Asks(taken[k], d) = 0
    BY <1>6 DEF PlaceEntry, Unused, Asks
  <2>4. taken' = [taken EXCEPT ![k] = o] /\ UNCHANGED fresh
    BY <1>6, <2>1 DEF PlaceEntry
  <2>5. Asks(o, d) <= Asks(taken[k], d)
    BY <2>2, <2>3
  <2> QED BY <1>5, <2>2, <2>4, <2>5
<1>7. ASSUME NEW k \in LoanSlots, LoanOver(k) \/ LoanAnswer(k, "refused")
      PROVE  ~(Asked(d)' > Asked(d))
  <2>1. PICK o \in LoanRecord : o = OverOrder /\ ~o.repay
    BY RestingOrders
  <2>2. taken' = [taken EXCEPT ![k] = o] /\ UNCHANGED fresh
    BY <1>7, <2>1 DEF LoanOver, LoanAnswer
  <2>3. taken[k] \in LoanRecord
    BY <1>0 DEF LoanTypeOK
  <2>4. Asks(taken[k], d) \in Nat /\ Asks(o, d) = 0
    BY <2>1, <2>3, WeightsAre DEF Asks, LoanRecord
  <2>5. Asks(o, d) <= Asks(taken[k], d)
    BY <2>4
  <2> QED BY <1>5, <2>2, <2>5
<1>8. ASSUME NEW k \in LoanSlots, NEW how \in {"open", "lost"}, LoanAnswer(k, how)
      PROVE  ~(Asked(d)' > Asked(d))
  <2>1. PICK p \in LoanRecord : p = taken[k] /\ p.phase = "sent"
    BY <1>0, <1>8 DEF LoanTypeOK, LoanAnswer
  <2>2. PICK o : o = [p EXCEPT !.phase = how]
    OBVIOUS
  <2>3. o \in LoanRecord /\ Asks(o, d) <= Asks(p, d)
    BY <2>1, <2>2 DEF LoanRecord, LoanPhases, Asks
  <2>4. taken' = [taken EXCEPT ![k] = o] /\ UNCHANGED fresh
    BY <1>8, <2>1, <2>2 DEF LoanAnswer
  <2> QED BY <1>5, <2>1, <2>3, <2>4
<1>9. ASSUME NEW k \in LoanSlots, LoanFill(k)
      PROVE  ~(Asked(d)' > Asked(d))
  <2>1. PICK p \in LoanRecord : p = taken[k] /\ p.left > 0
    BY <1>0, <1>9 DEF LoanTypeOK, LoanFill
  <2>2. PICK o : o = [p EXCEPT !.left = p.left - 1]
    OBVIOUS
  <2>3. Asks(o, d) <= Asks(p, d)
    BY <2>1, <2>2 DEF LoanRecord, Asks
  <2>4. taken'[k] = o /\ Moves(k)
    BY <1>0, <1>9, <2>1, <2>2 DEF LoanFill, LoanTypeOK, LoanRecord, Moves
  <2> QED BY <1>3, <2>1, <2>3, <2>4
<1>10. CASE UNCHANGED loanVars
  BY <1>2, <1>10 DEF loanVars
<1>11. ASSUME \/ \E k \in LoanSlots : CreditNotice(k)
              \/ AskBroker
              \/ \E c \in DOMAIN query : BrokerAnswers(c) \/ LoansArrive(c) \/ LoanQueryFails(c)
       PROVE  UNCHANGED taken
  BY <1>11 DEF CreditNotice, AskBroker, BrokerAnswers, LoansArrive, LoanQueryFails
<1> QED BY <1>2, <1>4, <1>6, <1>7, <1>8, <1>9, <1>10, <1>11 DEF ClNext

(* No order asks for more of a loan than there is on it, whatever answers  *)
(* and notices cross (_pick_loan, _repay_reserved), or is placed at a      *)
(* price that gives the spread away (gate G6, maker_start), and no quote   *)
(* moves the price a pause holds (_note_stock_last).                       *)
THEOREM StepsStayFit == MCSpec => StepsAreFit
<1> DEFINE Inv == LoanInv /\ PriceOK
<1>1. MCInit => Inv
  BY LoanInitInv, PriceInitOK DEF MCInit
<1>2. Inv /\ [MCNext]_<<part, setSide, marketSide, accountSide>> => Inv'
  BY EngineSteps, LoanStep, PriceStep
<1>3. Inv /\ Inv' /\ [MCNext]_<<part, setSide, marketSide, accountSide>>
      => [\A d \in Loans \ crossed : Asked(d)' > Asked(d) => Asked(d)' <= bal[d]]_loanVars
  BY EngineSteps, RepaysStep
<1>4. Inv /\ [MCNext]_<<part, setSide, marketSide, accountSide>>
      => [PlacedNow => Better(order', raw)
            /\ (nth = 1 \/ first = "hl" => Better(order', touch) /\ order' # touch)]_preVars
  BY EngineSteps, PlacedIsFit DEF Rests
<1>5. [MCNext]_<<part, setSide, marketSide, accountSide>>
      => [Paused /\ Paused' /\ before # NoPrice => StockLast' = StockLast]_priceVars
  BY EngineSteps, PauseHolds
<1>6. MCSpec => []Inv
  BY <1>1, <1>2, PTL DEF MCSpec
<1> HIDE DEF Inv
<1>7. MCSpec => RepaysFit
  BY <1>3, <1>6, PTL DEF MCSpec, RepaysFit
<1>8. MCSpec => PlacedKeepsTheSpread
  BY <1>4, <1>6, PTL DEF MCSpec, PlacedKeepsTheSpread
<1>9. MCSpec => PauseHoldsPrice
  BY <1>5, PTL DEF MCSpec, PauseHoldsPrice
<1> QED BY <1>7, <1>8, <1>9 DEF StepsAreFit

-----------------------------------------------------------------------------
(***************************************************************************)
(* A set whose pre order rests on Hyperliquid (HlFirst), for every size,   *)
(* ratio and limit and every number of orders.                             *)
(***************************************************************************)

Posts == 1 .. MaxLsPosts

HlPre == [block : Block, qty : Nat, filled : Nat,
          phase : {"none", "sent", "known", "open", "over", "lost"}]
LsPost == [block : Block, left : Nat, call : Nat,
           phase : {"none", "sent", "open"}]

PresOK  == pres \in [AllPres -> HlPre]
PostsOK == posts \in [Posts -> LsPost]
MateOK  == mate \in [AllPres -> 0 .. 2 * MaxHlPres]

HIInv ==
  /\ hs \in SetRecord /\ PresOK /\ PostsOK /\ MateOK
  /\ frag \in [Block -> Nat] /\ loose \in BOOLEAN
  /\ AsOne(hs) /\ LooseIsOwed /\ UnknownHalts

(* A handler that halts the set or leaves the difference alone.            *)
Follows(s, t) ==
  /\ t \in SetRecord /\ AsOne(t) /\ Sticks(s, t)
  /\ t.diff = s.diff \/ Halted(t.leg["entry"])

LEMMA FollowsSelf ==
  ASSUME NEW s \in SetRecord, AsOne(s) PROVE Follows(s, s)
BY DEF Follows, Sticks

LEMMA FollowsFollows ==
  ASSUME NEW s, NEW t, NEW u, Follows(s, t), Follows(t, u)
  PROVE  Follows(s, u)
BY DEF Follows, Sticks, Block

LEMMA MildFollows ==
  ASSUME NEW s, NEW t, AsOne(s), Mild(s, t) PROVE Follows(s, t)
BY MildKeeps DEF Follows, Keeps, Mild, SameLedger

LEMMA HaltFollows ==
  ASSUME NEW s \in SetRecord, NEW b \in Block, AsOne(s)
  PROVE  Follows(s, HaltSet(s, b)) /\ \A c \in Block : Halted(HaltSet(s, b).leg[c])
BY HaltSetHalts, HaltKeeps DEF Follows, Keeps, Block

LEMMA RejectFollows ==
  ASSUME NEW s \in SetRecord, NEW b \in Block, AsOne(s)
  PROVE  Follows(s, OnPreReject(s, b))
<1>1. CASE Mild(s, OnPreReject(s, b))
  BY <1>1, MildFollows
<1>2. CASE /\ OnPreReject(s, b) \in SetRecord
           /\ \A c \in Block : Halted(OnPreReject(s, b).leg[c])
           /\ AsOne(s) => \A c \in Block : ~OnPreReject(s, b).leg[c].running
  BY <1>2, TwoBlocks DEF Follows, AsOne, Sticks
<1> QED BY <1>1, <1>2, OnPreRejectEither

LEMMA ForgetFollows ==
  ASSUME NEW s \in SetRecord, AsOne(s), NEW k PROVE Follows(s, A!Forget(s, k))
BY DEF A!Forget, SetRecord, Follows, AsOne, Sticks

(* The other set's handlers are those of AutoMSet.                         *)
LEMMA SameHandlers ==
  ASSUME NEW s, NEW b, NEW f
  PROVE  /\ A!CancelIfResting(s, b, f) = CancelIfResting(s, b, f)
         /\ A!OnPreCancelled(s, b) = OnPreCancelled(s, b)
         /\ A!OnPreCancelFailed(s, b) = OnPreCancelFailed(s, b)
         /\ A!OnPreReject(s, b) = OnPreReject(s, b)
         /\ A!SwitchOn(s, b) = SwitchOn(s, b)
         /\ A!SwitchOff(s, b) = SwitchOff(s, b)
<1>1. A!CancelIfResting(s, b, f) = CancelIfResting(s, b, f)
  BY DEF A!CancelIfResting, CancelIfResting, A!Full, Full, A!NoOrder, NoOrder
<1>2. A!OnPreCancelled(s, b) = OnPreCancelled(s, b)
  BY DEF A!OnPreCancelled, OnPreCancelled, A!ClearPre, ClearPre, A!StartDelay, StartDelay,
         A!PostDone, PostDone, A!Halted, Halted, A!NoOrder, NoOrder
<1>3. A!OnPreCancelFailed(s, b) = OnPreCancelFailed(s, b)
  BY DEF A!OnPreCancelFailed, OnPreCancelFailed
<1>4. A!SwitchOn(s, b) = SwitchOn(s, b)
  BY DEF A!SwitchOn, SwitchOn
<1>5. A!SwitchOff(s, b) = SwitchOff(s, b)
  BY DEF A!SwitchOff, SwitchOff, A!CancelIfResting, CancelIfResting, A!Full, Full,
         A!NoOrder, NoOrder, A!PostDone, PostDone, A!Halted, Halted
<1>6. A!OnPreReject(s, b) = OnPreReject(s, b)
  BY DEF A!OnPreReject, OnPreReject, A!ClearPre, ClearPre, A!StartDelay, StartDelay,
         A!HaltSet, HaltSet, A!Stopped, Stopped, A!Other, Other, A!Block, Block,
         A!CancelIfResting, CancelIfResting, A!Full, Full,
         A!Halted, Halted, A!NoOrder, NoOrder
<1> QED BY <1>1, <1>2, <1>3, <1>4, <1>5, <1>6

-----------------------------------------------------------------------------
(* The evaluation of a leg and the commands.                               *)

LEMMA LegOf == ASSUME NEW t \in SetRecord, NEW b \in Block PROVE t.leg[b] \in Leg
BY DEF SetRecord

LEMMA AwakeIs ==
  ASSUME NEW l \in Leg
  PROVE  /\ A!Awake(l) \in Leg /\ A!Awake(l).post = l.post
         /\ Halted(A!Awake(l)) <=> Halted(l)
         /\ A!Awake(l).running = l.running
BY DEF A!Awake, Leg, LegStatus, Halted

LEMMA RestedIs ==
  ASSUME NEW l \in Leg
  PROVE  /\ A!Rested(l) \in Leg /\ A!Rested(l).post = l.post
         /\ Halted(A!Rested(l)) <=> Halted(l)
         /\ A!Rested(l).running = l.running
BY AwakeIs DEF A!Rested, Leg, LegStatus, Halted

(* Leg b woken or rested, then cancelled.                                  *)
LEMMA LegThenCancelled ==
  ASSUME NEW t \in SetRecord, AsOne(t), NEW b \in Block, NEW l \in Leg,
         l.post = t.leg[b].post, Halted(l) <=> Halted(t.leg[b]),
         l.running = t.leg[b].running
  PROVE  Follows(t, CancelIfResting([t EXCEPT !.leg[b] = l], b, FALSE))
<1> DEFINE u == [t EXCEPT !.leg[b] = l]
<1>1. Mild(t, u)
  BY MildLeg
<1> HIDE DEF u
<1>2. Mild(u, CancelIfResting(u, b, FALSE))
  BY <1>1, CancelMild DEF Mild
<1>3. Mild(t, CancelIfResting(u, b, FALSE))
  BY <1>1, <1>2, MildMild
<1> QED BY <1>3, MildFollows DEF u

LEMMA EvalFollows ==
  ASSUME hs \in SetRecord, AsOne(hs), NEW b \in Block,
         \/ A!EvalHalted(b) \/ A!EvalOff(b) \/ A!EvalShut(b)
         \/ A!EvalHold(b) \/ A!EvalReplace(b)
  PROVE  Follows(hs, hs') /\ UNCHANGED <<pres, posts, rest>>
<1> USE LegOf, SameHandlers
<1>1. CASE A!EvalHalted(b)
  <2>1. hs' = CancelIfResting(hs, b, FALSE)
    BY <1>1 DEF A!EvalHalted
  <2> QED BY <1>1, <2>1, CancelMild, MildFollows DEF A!EvalHalted
<1>2. CASE A!EvalOff(b)
  <2> DEFINE t == CancelIfResting(hs, b, FALSE)
  <2>1. /\ hs' = t \/ hs' = [t EXCEPT !.leg[b].status = "idle"]
        /\ ~Halted(hs.leg[b])
    BY <1>2 DEF A!EvalOff, Halted
  <2>2. Mild(hs, t)
    BY CancelMild
  <2> HIDE DEF t
  <2>3. ~Halted(t.leg[b]) /\ t \in SetRecord
    BY <2>1, <2>2 DEF Mild, SameHalt
  <2>4. Mild(t, [t EXCEPT !.leg[b].status = "idle"])
    BY <2>3, IdleMild
  <2>5. Mild(hs, hs')
    BY <2>1, <2>2, <2>4, MildMild
  <2> QED BY <1>2, <2>5, MildFollows DEF A!EvalOff
<1>3. CASE A!EvalShut(b)
  <2>1. \/ hs' = CancelIfResting([hs EXCEPT !.leg[b] = A!Awake(hs.leg[b])], b, FALSE)
        \/ hs' = CancelIfResting([hs EXCEPT !.leg[b] = A!Rested(hs.leg[b])], b, FALSE)
    BY <1>3 DEF A!EvalShut
  <2>2. Follows(hs, hs')
    BY <2>1, AwakeIs, RestedIs, LegThenCancelled
  <2> QED BY <1>3, <2>2 DEF A!EvalShut
<1>4. CASE A!EvalHold(b)
  <2>1. \/ hs' = [hs EXCEPT !.leg[b] = A!Awake(hs.leg[b])]
        \/ hs' = [hs EXCEPT !.leg[b] = A!Rested(hs.leg[b])]
    BY <1>4 DEF A!EvalHold
  <2>2. Mild(hs, hs')
    BY <2>1, AwakeIs, RestedIs, MildLeg
  <2> QED BY <1>4, <2>2, MildFollows DEF A!EvalHold
<1>5. CASE A!EvalReplace(b)
  <2> DEFINE l == A!Rested(hs.leg[b])
             r == (l.qty > 0)
             m == [l EXCEPT !.replace = r]
             t == [hs EXCEPT !.leg[b] = m]
  <2>1. hs' = [hs EXCEPT !.leg[b] = m, !.asked = @ \cup {l.id}]
    BY <1>5 DEF A!EvalReplace
  <2>2. l \in Leg /\ l.post = hs.leg[b].post /\ (Halted(l) <=> Halted(hs.leg[b]))
        /\ l.running = hs.leg[b].running
    BY RestedIs
  <2>a. r \in BOOLEAN
    OBVIOUS
  <2> HIDE DEF l, r
  <2>3. m \in Leg /\ m.post = l.post /\ (Halted(m) <=> Halted(l)) /\ l.id \in Nat
        /\ m.running = l.running
    BY <2>2, <2>a DEF Leg, Halted
  <2> HIDE DEF m
  <2>4. Mild(hs, t)
    BY <2>2, <2>3, MildLeg
  <2>5. hs' \in SetRecord /\ hs'.leg = t.leg /\ hs'.diff = t.diff
    BY <2>1, <2>3 DEF SetRecord
  <2> HIDE DEF t
  <2>6. Mild(hs, hs')
    BY <2>4, <2>5 DEF Mild, SameLedger, SameHalt
  <2> QED BY <1>5, <2>6, MildFollows DEF A!EvalReplace
<1> QED BY <1>1, <1>2, <1>3, <1>4, <1>5

LEMMA CommandFollows ==
  ASSUME hs \in SetRecord, AsOne(hs), NEW b \in Block,
         A!CommandOn(b) \/ A!CommandOff(b)
  PROVE  Follows(hs, hs') /\ UNCHANGED <<pres, posts, rest>>
<1>1. \/ hs' = SwitchOn(hs, b) /\ ~Halted(hs.leg["entry"])
      \/ hs' = SwitchOff(hs, b)
  BY SameHandlers DEF A!CommandOn, A!CommandOff, A!Block, A!Halted, Halted
<1>2. Mild(hs, hs')
  BY <1>1, SwitchOnMild, SwitchOffMild
<1> QED BY <1>2, MildFollows DEF A!CommandOn, A!CommandOff

-----------------------------------------------------------------------------
(* Steps that neither fill an order nor touch a hedge.                     *)

LEMMA StepKeeps ==
  ASSUME HIInv, Follows(hs, hs'), PresOK', MateOK', UnknownHalts',
         UNCHANGED <<posts, frag, loose>>
  PROVE  HIInv'
<1>1. \A b \in Block : Owed(b)' = Owed(b)
  BY DEF Owed, Unfilled, A!Hedging
<1>2. "entry" \in Block /\ "exit" \in Block
  BY DEF Block
<1>3. LooseIsOwed'
  <2> SUFFICES ASSUME ~loose', ~Halted(hs'.leg["entry"])
               PROVE  hs'.diff = Owed("exit")' - Owed("entry")'
    BY DEF LooseIsOwed
  <2>1. ~loose /\ ~Halted(hs.leg["entry"]) /\ hs'.diff = hs.diff
    BY <1>2 DEF Follows, Sticks
  <2> QED BY <1>1, <1>2, <2>1 DEF HIInv, LooseIsOwed
<1> QED BY <1>3 DEF HIInv, Follows, PostsOK

(* No order is lost by a step that loses none.                             *)
LEMMA LostStays ==
  ASSUME HIInv, Sticks(hs, hs'),
         \A k \in AllPres : pres'[k].phase = "lost" => pres'[k] = pres[k]
  PROVE  UnknownHalts'
<1> SUFFICES ASSUME NEW k \in AllPres, pres'[k].phase = "lost"
             PROVE  Halted(hs'.leg[pres'[k].block])
  BY DEF UnknownHalts
<1>1. pres[k].phase = "lost" /\ pres'[k] = pres[k] /\ pres[k].block \in Block
  BY DEF HIInv, PresOK, HlPre
<1> QED BY <1>1 DEF HIInv, UnknownHalts, Sticks

(* One pre order is replaced by one that is not lost.                      *)
LEMMA OneReplaced ==
  ASSUME HIInv, NEW k \in AllPres, NEW o \in HlPre, o.phase # "lost",
         pres' = [pres EXCEPT ![k] = o]
  PROVE  PresOK' /\ \A n \in AllPres : pres'[n].phase = "lost" => pres'[n] = pres[n]
BY DEF HIInv, PresOK

LEMMA NoPreOK == A!NoPre \in HlPre /\ A!NoPre.phase = "none"
BY DEF A!NoPre, HlPre, Block

LEMMA PlaceFollows ==
  ASSUME HIInv, NEW B \in SUBSET Block, PlaceBatch(B)
  PROVE  Follows(hs, hs')
<1> DEFINE q == [b \in B |-> OrderQty(hs, b) * Ratio]
           m == [b \in B |-> [A!Rested(hs.leg[b]) EXCEPT !.qty = q[b], !.filled = 0,
                                !.sent = FALSE, !.status = "pre_resting"]]
           f == [b \in Block |-> IF b \in B THEN m[b] ELSE hs.leg[b]]
<1>1. hs' = [hs EXCEPT !.leg = f]
  BY DEF PlaceBatch
<1>2. ASSUME NEW b \in B
      PROVE  /\ m[b] \in Leg /\ ~Halted(m[b]) /\ ~Halted(hs.leg[b])
             /\ m[b].running = hs.leg[b].running
  <2>1. hs.leg[b] \in Leg
    BY LegOf DEF HIInv
  <2>2. /\ A!Rested(hs.leg[b]) \in Leg
        /\ Halted(A!Rested(hs.leg[b])) <=> Halted(hs.leg[b])
        /\ A!Rested(hs.leg[b]).running = hs.leg[b].running
    BY <2>1, RestedIs
  <2>3. ~Halted(A!Rested(hs.leg[b]))
    BY DEF PlaceBatch, Ready, A!Active, A!Halted, Halted
  <2>4. q[b] \in Nat
    BY QtyNat, ProductNat DEF HIInv
  <2> HIDE DEF q
  <2> QED BY <2>2, <2>3, <2>4 DEF Leg, LegStatus, Halted
<1> HIDE DEF m
<1>3. /\ f \in [Block -> Leg]
      /\ \A b \in Block : /\ Halted(f[b]) <=> Halted(hs.leg[b])
                         /\ f[b].running = hs.leg[b].running
  BY <1>2, LegOf DEF HIInv
<1> HIDE DEF f
<1>4. hs' \in SetRecord /\ hs'.leg = f /\ hs'.diff = hs.diff
  BY <1>1, <1>3 DEF HIInv, SetRecord
<1> QED BY <1>3, <1>4 DEF Follows, AsOne, Sticks, HIInv, Block

LEMMA HlPlaceKeeps ==
  ASSUME HIInv, NEW B \in SUBSET Block, PlaceBatch(B)
  PROVE  HIInv'
<1> DEFINE k == [b \in B |-> Min(A!FreePre \cap Mine(b))]
           q == [b \in B |-> OrderQty(hs, b) * Ratio]
           both == B = Block /\ solo = {}
           Owner(n) == {b \in B : k[b] = n}
           Sent(b) == [block |-> b, qty |-> q[b], filled |-> 0, phase |-> "sent"]
<1>1. ASSUME NEW b \in B PROVE k[b] \in Mine(b) /\ k[b] \in AllPres
  <2> DEFINE S == A!FreePre \cap Mine(b)
  <2>1. S # {}
    BY DEF PlaceBatch, Ready
  <2>2. Mine(b) \subseteq AllPres /\ AllPres \subseteq Nat
    BY HlFirstAssumption DEF Mine, AllPres
  <2>3. S \in SUBSET Nat
    BY <2>2
  <2> HIDE DEF S
  <2>4. Min(S) \in S
    BY <2>1, <2>3, LeastOne DEF Min
  <2>5. k[b] = Min(S)
    BY DEF S
  <2> QED BY <2>2, <2>4, <2>5 DEF S
<1>2. ASSUME NEW b \in B PROVE Sent(b) \in HlPre
  <2>1. q[b] \in Nat
    BY QtyNat, ProductNat DEF HIInv
  <2> HIDE DEF q
  <2> QED BY <2>1 DEF HlPre
<1>3. pres' = [n \in AllPres |-> IF Owner(n) = {} THEN pres[n]
                                 ELSE Sent(CHOOSE c \in Owner(n) : TRUE)]
  BY DEF PlaceBatch
<1>4. mate' = [n \in AllPres |-> IF Owner(n) = {} THEN mate[n]
                 ELSE IF both THEN k[CHOOSE c \in B : k[c] # n] ELSE 0]
  BY DEF PlaceBatch
<1> HIDE DEF k, q
<1>5. \A n \in AllPres : \/ pres'[n] = pres[n]
                         \/ \E b \in B : pres'[n] = Sent(b)
  BY <1>3
<1>6. PresOK' /\ \A n \in AllPres : pres'[n].phase = "lost" => pres'[n] = pres[n]
  <2>1. pres' \in [AllPres -> HlPre]
    BY <1>2, <1>3, <1>5 DEF HIInv, PresOK
  <2>2. \A b \in B : Sent(b).phase # "lost"
    OBVIOUS
  <2> QED BY <1>5, <2>1, <2>2 DEF PresOK
<1>7. MateOK'
  <2>1. ASSUME NEW n \in AllPres, both
        PROVE  k[CHOOSE c \in B : k[c] # n] \in AllPres
    <3>1. "entry" \in B /\ "exit" \in B
      BY <2>1 DEF Block
    <3>2. k["entry"] \in Mine("entry") /\ k["exit"] \in Mine("exit")
      BY <1>1, <3>1
    <3>3. k["entry"] # k["exit"]
      BY <3>2, HlFirstAssumption DEF Mine
    <3>4. \E c \in B : k[c] # n
      BY <3>1, <3>3
    <3> QED BY <1>1, <3>4
  <2>2. \A n \in AllPres : mate'[n] \in 0 .. 2 * MaxHlPres
    BY <1>4, <2>1, HlFirstAssumption DEF HIInv, MateOK, AllPres
  <2> QED BY <1>4, <2>2 DEF MateOK
<1>8. Follows(hs, hs') /\ UNCHANGED <<posts, frag, loose>>
  BY PlaceFollows DEF PlaceBatch
<1>9. UnknownHalts'
  BY <1>6, <1>8, LostStays DEF Follows
<1> QED BY <1>6, <1>7, <1>8, <1>9, StepKeeps

-----------------------------------------------------------------------------
(* The answer to a request.                                                *)

LEMMA QuietRejectFollows ==
  ASSUME NEW t \in SetRecord, AsOne(t), NEW b \in Block
  PROVE  Follows(t, OnQuietReject(t, b))
<1> DEFINE l == ClearPre(t.leg[b])
<1>1. /\ l \in Leg /\ l.post = t.leg[b].post /\ l.running = t.leg[b].running
      /\ Halted(l) <=> Halted(t.leg[b])
  BY LegOf, ClearPreLeg DEF Halted
<1>2. \/ OnQuietReject(t, b) = [t EXCEPT !.leg[b] = l]
      \/ ~Halted(l) /\ OnQuietReject(t, b) = [t EXCEPT !.leg[b] = StartDelay(l)]
  BY DEF OnQuietReject
<1> HIDE DEF l
<1>3. /\ StartDelay(l) \in Leg /\ StartDelay(l).post = l.post
      /\ ~Halted(StartDelay(l)) /\ StartDelay(l).running = l.running
  BY <1>1, StartDelayLeg DEF Halted
<1>4. Mild(t, OnQuietReject(t, b))
  BY <1>1, <1>2, <1>3, MildLeg
<1> QED BY <1>4, MildFollows

LEMMA ResultFollows ==
  ASSUME PresOK, NEW t \in SetRecord, AsOne(t), NEW k \in AllPres, NEW kind
  PROVE  /\ Follows(t, Result(t, k, kind))
         /\ kind = "unknown" =>
              \A c \in Block : Halted(Result(t, k, kind).leg[c])
<1> DEFINE b == pres[k].block
<1>1. b \in Block /\ k \in Nat
  BY HlFirstAssumption DEF PresOK, HlPre, AllPres
<1> HIDE DEF b
<1>2. CASE kind = "taken"
  <2>1. Result(t, k, kind) = t \/ Result(t, k, kind) = OnPreAck(t, b, k)
    BY <1>2 DEF Result, b
  <2>2. Follows(t, OnPreAck(t, b, k))
    BY <1>1, OnPreAckMild, MildFollows
  <2> QED BY <1>2, <2>1, <2>2, FollowsSelf
<1>3. CASE kind = "refused"
  BY <1>1, <1>3, RejectFollows DEF Result, b
<1>4. CASE kind = "unknown"
  <2>1. Result(t, k, kind) = HaltSet(t, b)
    BY <1>4 DEF Result, b
  <2> QED BY <1>1, <2>1, HaltFollows
<1>5. CASE kind \notin {"taken", "refused", "unknown"}
  <2>1. Result(t, k, kind) = OnQuietReject(t, b)
    BY <1>5 DEF Result, b
  <2> QED BY <1>1, <1>5, <2>1, QuietRejectFollows
<1> QED BY <1>2, <1>3, <1>4, <1>5

(* Orders of one request are lost together or not at all.                  *)
LEMMA AnswersAgree ==
  ASSUME NEW K, NEW f \in Answers(K), NEW n \in K, f[n] = "unknown"
  PROVE  \A m \in K : f[m] = "unknown"
BY DEF Answers

LEMMA AnsweredKeeps ==
  ASSUME HIInv, NEW k \in AllPres, BatchAnswered(k)
  PROVE  HIInv'
<1> DEFINE K == {k, mate[k]} \ {0}
<1>1. PICK f \in Answers(K) :
        /\ hs' = LET t == Result(hs, k, f[k])
                 IN IF mate[k] = 0 THEN t ELSE Result(t, mate[k], f[mate[k]])
        /\ pres' = [n \in AllPres |->
             IF n \notin K THEN pres[n]
             ELSE IF ResultPhase(n, f[n]) = "none" THEN A!NoPre
             ELSE [pres[n] EXCEPT !.phase = ResultPhase(n, f[n])]]
        /\ mate' = [n \in AllPres |-> IF n \in K THEN 0 ELSE mate[n]]
  BY DEF BatchAnswered
<1>2. /\ k \in K /\ K \subseteq AllPres
      /\ mate[k] # 0 => mate[k] \in AllPres /\ mate[k] \in K
  BY HlFirstAssumption DEF HIInv, MateOK, AllPres
<1>3. \A n \in K : n = k \/ (n = mate[k] /\ mate[k] # 0)
  OBVIOUS
<1> HIDE DEF K
<1> DEFINE t == Result(hs, k, f[k])
           u == Result(t, mate[k], f[mate[k]])
<1>4. /\ Follows(hs, t)
      /\ f[k] = "unknown" => \A c \in Block : Halted(t.leg[c])
  BY ResultFollows DEF HIInv
<1>5. hs' = IF mate[k] = 0 THEN t ELSE u
  BY <1>1
<1> HIDE DEF t
<1>6. mate[k] # 0 => Follows(t, u)
  BY <1>2, <1>4, ResultFollows DEF HIInv, Follows
<1> HIDE DEF u
<1>7. Follows(hs, hs') /\ Follows(t, hs')
  BY <1>4, <1>5, <1>6, FollowsFollows, FollowsSelf DEF Follows
<1>8. f[k] = "unknown" => \A c \in Block : Halted(hs'.leg[c])
  BY <1>4, <1>7 DEF Follows, Sticks
<1>9. ASSUME NEW n \in AllPres
      PROVE  /\ pres'[n] \in HlPre
             /\ pres'[n].phase = "lost" =>
                  \/ pres'[n] = pres[n]
                  \/ n \in K /\ f[n] = "unknown"
  <2>1. pres[n] \in HlPre
    BY DEF HIInv, PresOK
  <2>2. /\ ResultPhase(n, f[n]) \in {"none", "lost", "open"}
        /\ ResultPhase(n, f[n]) = "lost" => f[n] = "unknown"
    BY DEF ResultPhase
  <2>3. CASE n \notin K
    BY <1>1, <2>1, <2>3
  <2>4. CASE n \in K /\ ResultPhase(n, f[n]) = "none"
    BY <1>1, <2>4, NoPreOK
  <2>5. CASE n \in K /\ ResultPhase(n, f[n]) # "none"
    <3>1. pres'[n] = [pres[n] EXCEPT !.phase = ResultPhase(n, f[n])]
      BY <1>1, <2>5
    <3> QED BY <2>1, <2>2, <2>5, <3>1 DEF HlPre
  <2> QED BY <2>3, <2>4, <2>5
<1>10. PresOK'
  BY <1>1, <1>9 DEF PresOK
<1>11. MateOK'
  BY <1>1, HlFirstAssumption DEF HIInv, MateOK
<1>12. UnknownHalts'
  <2> SUFFICES ASSUME NEW n \in AllPres, pres'[n].phase = "lost"
               PROVE  Halted(hs'.leg[pres'[n].block])
    BY DEF UnknownHalts
  <2>1. CASE pres'[n] = pres[n]
    BY <1>7, <1>10, <2>1 DEF HIInv, UnknownHalts, Follows, Sticks, PresOK, HlPre
  <2>2. CASE n \in K /\ f[n] = "unknown"
    <3>1. f[k] = "unknown"
      BY <1>2, <2>2, AnswersAgree
    <3>2. pres'[n].block \in Block
      BY <1>10 DEF PresOK, HlPre
    <3> QED BY <1>8, <3>1, <3>2
  <2> QED BY <1>9, <2>1, <2>2
<1> QED BY <1>7, <1>10, <1>11, <1>12, StepKeeps DEF BatchAnswered

LEMMA IdentifiedKeeps ==
  ASSUME HIInv, NEW k \in AllPres, Identified(k) \/ NeverArrived(k)
  PROVE  HIInv'
<1> DEFINE p == IF pres[k].phase = "sent" THEN "known" ELSE "open"
           o == [pres[k] EXCEPT !.phase = p]
<1>1. o \in HlPre /\ o.phase # "lost"
  <2>1. pres[k] \in HlPre
    BY DEF HIInv, PresOK
  <2> QED BY <2>1 DEF HlPre
<1>2. pres' = [pres EXCEPT ![k] = o] \/ pres' = [pres EXCEPT ![k] = A!NoPre]
  BY DEF Identified, NeverArrived, HIInv, PresOK
<1> HIDE DEF o
<1>3. PresOK' /\ \A n \in AllPres : pres'[n].phase = "lost" => pres'[n] = pres[n]
  BY <1>1, <1>2, OneReplaced, NoPreOK
<1>4. UNCHANGED <<hs, posts, mate, frag, loose>>
  BY DEF Identified, NeverArrived, rest
<1>5. Follows(hs, hs')
  BY <1>4, FollowsSelf DEF HIInv
<1>6. UnknownHalts' /\ MateOK'
  BY <1>3, <1>4, <1>5, LostStays DEF Follows, HIInv, MateOK
<1> QED BY <1>3, <1>4, <1>5, <1>6, StepKeeps

-----------------------------------------------------------------------------
(* The end of a pre order, and of a cancel request.                        *)

(* A step that may take one pre order off the table.                       *)
LEMMA OffKeeps ==
  ASSUME HIInv, NEW k \in AllPres, Follows(hs, hs'),
         pres' = pres \/ pres' = [pres EXCEPT ![k] = A!NoPre],
         UNCHANGED <<posts, rest>>
  PROVE  HIInv'
<1>1. PresOK' /\ \A n \in AllPres : pres'[n].phase = "lost" => pres'[n] = pres[n]
  <2>1. CASE pres' = pres
    BY <2>1 DEF HIInv, PresOK
  <2>2. CASE pres' = [pres EXCEPT ![k] = A!NoPre]
    BY <2>2, OneReplaced, NoPreOK
  <2> QED BY <2>1, <2>2
<1>2. UNCHANGED <<posts, mate, frag, loose>>
  BY DEF rest
<1>3. UnknownHalts' /\ MateOK'
  BY <1>1, <1>2, LostStays DEF Follows, HIInv, MateOK
<1> QED BY <1>1, <1>2, <1>3, StepKeeps

LEMMA ThenForgets ==
  ASSUME NEW s, NEW t, NEW k, Follows(s, t)
  PROVE  Follows(s, A!Forget(t, k))
<1>1. Follows(t, A!Forget(t, k))
  BY ForgetFollows DEF Follows
<1> QED BY <1>1, FollowsFollows

LEMMA EndKeeps ==
  ASSUME HIInv, NEW k \in AllPres,
         \/ \E how \in {"cancelled", "rejected"} : HlPreEnds(k, how)
         \/ A!PreVanishes(k) \/ A!CancelFails(k) \/ A!CancelReturns(k)
  PROVE  HIInv'
<1> DEFINE b == pres[k].block
<1>1. b \in Block /\ hs \in SetRecord /\ AsOne(hs)
  BY DEF HIInv, PresOK, HlPre
<1>2. /\ Follows(hs, hs) /\ Follows(hs, OnPreCancelled(hs, b))
      /\ Follows(hs, OnPreCancelFailed(hs, b)) /\ Follows(hs, OnPreReject(hs, b))
  BY <1>1, FollowsSelf, OnPreCancelledMild, OnPreCancelFailedMild, MildFollows,
     RejectFollows
<1> HIDE DEF b
<1>3. ASSUME NEW how \in {"cancelled", "rejected"}, HlPreEnds(k, how)
      PROVE  HIInv'
  <2> DEFINE t == A!EndOfPre(hs, k, how)
  <2>1. t \in {hs, OnPreCancelled(hs, b), OnPreReject(hs, b)}
    BY SameHandlers DEF A!EndOfPre, b
  <2>2. hs' = A!Forget(t, k)
    BY <1>3 DEF HlPreEnds
  <2> HIDE DEF t
  <2>3. Follows(hs, hs')
    BY <1>2, <2>1, <2>2, ThenForgets
  <2> QED BY <1>3, <2>3, OffKeeps DEF HlPreEnds
<1>4. CASE A!PreVanishes(k)
  <2> DEFINE t == IF hs.leg[b].id = k THEN OnPreCancelled(hs, b) ELSE hs
  <2>1. hs' = A!Forget(t, k)
    BY <1>4, SameHandlers DEF A!PreVanishes, b
  <2>2. t \in {hs, OnPreCancelled(hs, b)}
    OBVIOUS
  <2> HIDE DEF t
  <2>3. Follows(hs, hs')
    BY <1>2, <2>1, <2>2, ThenForgets
  <2>4. pres' = [pres EXCEPT ![k] = A!NoPre]
    BY <1>4 DEF A!PreVanishes, A!PreAfter
  <2> QED BY <1>4, <2>3, <2>4, OffKeeps DEF A!PreVanishes
<1>5. CASE A!CancelFails(k)
  <2> DEFINE t == IF hs.leg[b].id = k THEN OnPreCancelFailed(hs, b) ELSE hs
  <2>1. hs' = A!Forget(t, k)
    BY <1>5, SameHandlers DEF A!CancelFails, b
  <2>2. t \in {hs, OnPreCancelFailed(hs, b)}
    OBVIOUS
  <2> HIDE DEF t
  <2>3. Follows(hs, hs')
    BY <1>2, <2>1, <2>2, ThenForgets
  <2> QED BY <1>5, <2>3, OffKeeps DEF A!CancelFails
<1>6. CASE A!CancelReturns(k)
  <2>1. Follows(hs, hs')
    BY <1>2, <1>6, ThenForgets DEF A!CancelReturns
  <2> QED BY <1>6, <2>1, OffKeeps DEF A!CancelReturns
<1> QED BY <1>3, <1>4, <1>5, <1>6

-----------------------------------------------------------------------------
(* What is owed.                                                           *)

(* What a hedge leaves to fill for leg b.                                  *)
Part(o, b) ==
  IF o.block = b /\ o.left > 0 /\ o.phase \in {"sent", "open"} THEN o.left ELSE 0

LEMMA UnfilledIs ==
  ASSUME PostsOK, NEW b \in Block
  PROVE  /\ Unfilled(b) = [i \in Posts |-> Part(posts[i], b)]
         /\ Unfilled(b) \in [Posts -> Nat]
<1>1. \A i \in Posts : i \in A!Hedging(b) <=>
        posts[i].block = b /\ posts[i].left > 0 /\ posts[i].phase \in {"sent", "open"}
  BY DEF A!Hedging, A!Posts, Posts
<1>2. \A i \in Posts : Part(posts[i], b) \in Nat
  BY DEF PostsOK, LsPost, Part
<1> QED BY <1>1, <1>2 DEF Unfilled, Part, Posts

(* One hedge of the table is replaced.                                     *)
LEMMA OwedOfOne ==
  ASSUME PostsOK, NEW i \in Posts, NEW o \in LsPost, posts' = [posts EXCEPT ![i] = o],
         NEW b \in Block
  PROVE  /\ TotalOf(Unfilled(b), MaxLsPosts) \in Nat
         /\ Part(posts[i], b) \in Nat /\ Part(o, b) \in Nat
         /\ Part(posts[i], b) <= TotalOf(Unfilled(b), MaxLsPosts)
         /\ TotalOf(Unfilled(b)', MaxLsPosts) =
              TotalOf(Unfilled(b), MaxLsPosts) - Part(posts[i], b) + Part(o, b)
<1> DEFINE w == Unfilled(b)
           x == Part(o, b)
<1>1. PostsOK'
  BY DEF PostsOK
<1>2. w = [j \in Posts |-> Part(posts[j], b)] /\ w \in [1 .. MaxLsPosts -> Nat]
  BY UnfilledIs DEF Posts
<1>3. Unfilled(b)' = [j \in Posts |-> Part(posts'[j], b)]
  BY <1>1, UnfilledIs DEF Unfilled, Part, A!Hedging, A!Posts, Posts
<1>4. Unfilled(b)' = [w EXCEPT ![i] = x]
  BY <1>2, <1>3 DEF PostsOK, Posts
<1>5. x \in Nat /\ w[i] = Part(posts[i], b) /\ w[i] \in Nat
  BY <1>2 DEF Part, LsPost, Posts
<1>6. MaxLsPosts \in Nat /\ i \in 1 .. MaxLsPosts
  BY HlFirstAssumption DEF Posts
<1> HIDE DEF w, x
<1>7. /\ TotalOf(w, MaxLsPosts) \in Nat /\ w[i] <= TotalOf(w, MaxLsPosts)
      /\ TotalOf([w EXCEPT ![i] = x], MaxLsPosts) = TotalOf(w, MaxLsPosts) - w[i] + x
  BY <1>2, <1>5, <1>6, TotalOfOne
<1> QED BY <1>4, <1>5, <1>7 DEF w, x

LEMMA TotalNat ==
  ASSUME PostsOK, NEW b \in Block
  PROVE  TotalOf(Unfilled(b), MaxLsPosts) \in Nat
<1> DEFINE w == Unfilled(b)
<1>1. w \in [1 .. MaxLsPosts -> Nat] /\ MaxLsPosts \in Nat
  BY UnfilledIs, HlFirstAssumption DEF Posts
<1> HIDE DEF w
<1>2. PICK t : Runs(t, w, MaxLsPosts) /\ TotalOf(w, MaxLsPosts) = t[MaxLsPosts]
  BY <1>1, TotalRuns
<1>3. t[MaxLsPosts] \in Nat
  BY <1>1, <1>2 DEF Runs
<1> QED BY <1>2, <1>3 DEF w

LEMMA WholeAndRest ==
  ASSUME NEW a \in Nat
  PROVE  /\ a \div Ratio \in Nat /\ a % Ratio \in Nat
         /\ a = Ratio * (a \div Ratio) + (a % Ratio)
<1>1. ASSUME NEW r \in Nat \ {0}
      PROVE  a \div r \in Nat /\ a % r \in Nat /\ a = r * (a \div r) + (a % r)
  <2>1. a \div r \in Nat
    OBVIOUS
  <2>2. a % r \in Nat
    OBVIOUS
  <2>3. a = r * (a \div r) + (a % r)
    OBVIOUS
  <2> QED BY <2>1, <2>2, <2>3
<1> QED BY <1>1, RatioAssumption

LEMMA Spread ==
  ASSUME NEW r \in Nat, NEW a \in Nat, NEW c \in Nat
  PROVE  /\ r * (a + c) = r * a + r * c /\ r * a \in Nat /\ r * c \in Nat
         /\ r * (a - c) = r * a - c * r
OBVIOUS

(* A step that fills an order: what is owed moves as the difference does,  *)
(* which the set may then be halted for.                                   *)
LEMMA MovedKeeps ==
  ASSUME HIInv, NEW t, SameHalt(hs, t), Follows(t, hs'), NEW d \in Int,
         t.diff = hs.diff + d, hs.diff \in Int,
         Owed("exit")' - Owed("entry")' = (Owed("exit") - Owed("entry")) + d,
         Owed("exit") - Owed("entry") \in Int,
         PresOK', PostsOK', MateOK', frag' \in [Block -> Nat], loose' = loose,
         \A k \in AllPres : pres'[k].phase = "lost" => pres'[k] = pres[k]
  PROVE  HIInv'
<1>1. Sticks(hs, hs') /\ "entry" \in Block
  BY DEF SameHalt, Follows, Sticks, Block
<1>2. UnknownHalts'
  BY <1>1, LostStays
<1>3. LooseIsOwed'
  <2> SUFFICES ASSUME ~loose', ~Halted(hs'.leg["entry"])
               PROVE  hs'.diff = Owed("exit")' - Owed("entry")'
    BY DEF LooseIsOwed
  <2>1. ~loose /\ ~Halted(hs.leg["entry"]) /\ hs'.diff = t.diff
    BY <1>1 DEF Follows, Sticks
  <2>2. hs.diff = Owed("exit") - Owed("entry")
    BY <2>1 DEF HIInv, LooseIsOwed
  <2> QED BY <2>1, <2>2
<1> QED BY <1>2, <1>3 DEF HIInv, Follows

-----------------------------------------------------------------------------
(* A pre order fills.                                                      *)

LEMMA OnHlPreFillMoves ==
  ASSUME NEW t \in SetRecord, AsOne(t), NEW b \in Block, NEW q \in Nat, NEW c \in Nat
  PROVE  LET u == OnHlPreFill(t, b, q, c)
         IN /\ u \in SetRecord /\ AsOne(u) /\ SameHalt(t, u)
            /\ u.diff = IF b = "entry" THEN t.diff - q ELSE t.diff + q
<1> DEFINE l == [t.leg[b] EXCEPT !.filled = @ + q, !.streak = 0, !.post = @ + c]
           n == IF Halted(l) THEN "halted"
                ELSE IF Full(l) THEN "post_pending" ELSE "pre_partial"
           m == [l EXCEPT !.status = n]
           v == ApplyHl(t, b, q)
           u == [v EXCEPT !.leg[b] = m]
<1>1. OnHlPreFill(t, b, q, c) = u
  BY DEF OnHlPreFill
<1>2. /\ v \in SetRecord /\ v.leg = t.leg
      /\ v.diff = IF b = "entry" THEN t.diff - q ELSE t.diff + q
  BY DEF ApplyHl, SetRecord
<1>3. l \in Leg /\ l.status = t.leg[b].status /\ l.running = t.leg[b].running
  <2>1. t.leg[b] \in Leg
    BY LegOf
  <2>2. t.leg[b].filled + q \in Nat /\ t.leg[b].post + c \in Nat
    BY <2>1 DEF Leg
  <2> QED BY <2>1, <2>2 DEF Leg
<1> HIDE DEF l, v
<1>4. m \in Leg /\ (Halted(m) <=> Halted(t.leg[b])) /\ m.running = t.leg[b].running
  BY <1>3 DEF Leg, LegStatus, Halted
<1> HIDE DEF m
<1>5. /\ u \in SetRecord /\ u.leg[b] = m /\ u.leg[Other(b)] = v.leg[Other(b)]
      /\ u.diff = v.diff
  BY <1>2, <1>4, SetLeg
<1> HIDE DEF u
<1>6. SameHalt(t, u)
  BY <1>2, <1>4, <1>5, TwoBlocks DEF SameHalt
<1>7. AsOne(u)
  BY <1>6, TwoBlocks DEF AsOne, SameHalt
<1> QED BY <1>1, <1>2, <1>5, <1>6, <1>7

(* A hedge of c is placed for leg b, or none if nothing is due.            *)
LEMMA HedgeOwed ==
  ASSUME HIInv, NEW b \in Block, NEW c \in Nat,
         IF c = 0 THEN posts' = posts ELSE A!NewPost(b, c)
  PROVE  /\ PostsOK'
         /\ TotalOf(Unfilled(b)', MaxLsPosts) = TotalOf(Unfilled(b), MaxLsPosts) + c
         /\ TotalOf(Unfilled(Other(b))', MaxLsPosts) = TotalOf(Unfilled(Other(b)), MaxLsPosts)
<1>1. PostsOK /\ Other(b) \in Block /\ Other(b) # b
  BY TwoBlocks DEF HIInv
<1>2. CASE c = 0
  <2>1. posts' = posts
    BY <1>2
  <2>2. Unfilled(b)' = Unfilled(b) /\ Unfilled(Other(b))' = Unfilled(Other(b))
    BY <2>1 DEF Unfilled, A!Hedging
  <2> QED BY <1>1, <1>2, <2>1, <2>2, TotalNat DEF PostsOK
<1>3. CASE c # 0
  <2> DEFINE i == A!Smallest(A!FreePost)
             o == [block |-> b, left |-> c, call |-> 0, phase |-> "sent"]
  <2>1. A!FreePost # {} /\ posts' = [posts EXCEPT ![i] = o]
    BY <1>3 DEF A!NewPost
  <2>2. A!FreePost \in SUBSET Nat /\ A!FreePost \subseteq Posts
    BY HlFirstAssumption DEF A!FreePost, A!Posts, Posts
  <2>3. i \in A!FreePost
    BY <2>1, <2>2, LeastOne DEF A!Smallest
  <2>4. i \in Posts /\ posts[i].phase = "none"
    BY <2>2, <2>3 DEF A!FreePost
  <2>5. o \in LsPost /\ Part(o, b) = c /\ Part(o, Other(b)) = 0
    BY <1>1, <1>3 DEF LsPost, Part
  <2>6. Part(posts[i], b) = 0 /\ Part(posts[i], Other(b)) = 0
    BY <2>4 DEF Part
  <2> HIDE DEF i, o
  <2>7. PostsOK'
    BY <1>1, <2>1, <2>5 DEF PostsOK
  <2>8. \A a \in Block :
          /\ TotalOf(Unfilled(a), MaxLsPosts) \in Nat
          /\ TotalOf(Unfilled(a)', MaxLsPosts) =
               TotalOf(Unfilled(a), MaxLsPosts) - Part(posts[i], a) + Part(o, a)
    BY <1>1, <2>1, <2>4, <2>5, OwedOfOne
  <2> QED BY <1>1, <2>5, <2>6, <2>7, <2>8
<1> QED BY <1>2, <1>3

LEMMA PreFillKeeps ==
  ASSUME HIInv, NEW k \in AllPres, NEW q \in 1 .. Per * Ratio, HlPreFills(k, q)
  PROVE  HIInv'
<1>0. PICK b \in Block : b = pres[k].block
  BY DEF HIInv, PresOK, HlPre
<1>c. PICK c : c = Due(b, q)
  OBVIOUS
<1> DEFINE o == pres[k]
           full == o.filled + q = o.qty
           over == A!Excess(hs, k, q)
           p == IF full THEN "over" ELSE o.phase
           n == IF full /\ o.phase = "open" THEN A!NoPre
                ELSE [o EXCEPT !.filled = @ + q, !.phase = p]
<1>1. q \in Nat /\ o \in HlPre /\ o.phase \in {"known", "open"}
  <2>1. Per * Ratio \in Nat
    BY ProductNat, SizesAssumption
  <2>2. o \in HlPre
    BY DEF HIInv, PresOK
  <2> QED BY <2>1, <2>2 DEF HlPreFills, HlPre
<1>2. c \in Nat /\ frag[b] \in Nat /\ (frag[b] + q) % Ratio \in Nat
      /\ frag[b] + q = Ratio * c + ((frag[b] + q) % Ratio)
  <2>1. frag[b] \in Nat
    BY <1>1 DEF HIInv
  <2>2. frag[b] + q \in Nat
    BY <1>1, <2>1
  <2> QED BY <2>1, <2>2, WholeAndRest, <1>c DEF Due
<1>3. pres' = [pres EXCEPT ![k] = n] /\ UNCHANGED <<mate, loose>>
  BY DEF HlPreFills
<1>4. n \in HlPre /\ n.phase # "lost"
  <2>1. p \in {"over", "known", "open"}
    BY <1>1
  <2> HIDE DEF p
  <2>2. o.filled + q \in Nat
    BY <1>1 DEF HlPre
  <2>3. [o EXCEPT !.filled = @ + q, !.phase = p] \in HlPre
    BY <1>1, <2>1, <2>2 DEF HlPre
  <2>4. [o EXCEPT !.filled = @ + q, !.phase = p].phase # "lost"
    BY <1>1, <2>1 DEF HlPre
  <2> QED BY <2>3, <2>4, NoPreOK
<1> HIDE DEF n
<1>5. /\ PresOK' /\ MateOK'
      /\ \A m \in AllPres : pres'[m].phase = "lost" => pres'[m] = pres[m]
  BY <1>3, <1>4, OneReplaced DEF HIInv, MateOK
<1>6. hs \in SetRecord /\ AsOne(hs)
  BY DEF HIInv
<1>7. CASE over
  <2>1. /\ hs' = A!Forget(HaltSet(hs, b), k) \/ hs' = HaltSet(hs, b)
        /\ UNCHANGED <<posts, frag, loose>>
    BY <1>0, <1>7 DEF HlPreFills
  <2>2. Follows(hs, hs')
    BY <1>1, <1>6, <2>1, HaltFollows, ThenForgets
  <2>3. UnknownHalts'
    BY <1>5, <2>2, LostStays DEF Follows
  <2> QED BY <1>5, <2>1, <2>2, <2>3, StepKeeps
<1>8. CASE ~over
  <2> DEFINE t == OnHlPreFill(hs, b, q, c)
             d == IF b = "entry" THEN -q ELSE q
  <2>1. /\ hs' = A!Forget(t, k) \/ hs' = t
        /\ frag' = [frag EXCEPT ![b] = (frag[b] + q) % Ratio]
        /\ IF c = 0 THEN posts' = posts ELSE A!NewPost(b, c)
    BY <1>0, <1>c, <1>8 DEF HlPreFills
  <2>2. /\ t \in SetRecord /\ AsOne(t) /\ SameHalt(hs, t)
        /\ t.diff = IF b = "entry" THEN hs.diff - q ELSE hs.diff + q
    BY <1>1, <1>2, <1>6, OnHlPreFillMoves
  <2> HIDE DEF t
  <2>3. Follows(t, hs')
    BY <2>1, <2>2, FollowsSelf, ThenForgets
  <2>4. hs.diff \in Int /\ t.diff = hs.diff + d /\ d \in Int
    BY <1>1, <1>6, <2>2 DEF SetRecord
  <2>5. Other(b) \in Block /\ Other(b) # b /\ (b = "entry" \/ b = "exit")
        /\ (b = "entry" => Other(b) = "exit") /\ (b = "exit" => Other(b) = "entry")
    BY <1>1 DEF Other, Block
  <2>6. /\ PostsOK'
        /\ TotalOf(Unfilled(b)', MaxLsPosts) = TotalOf(Unfilled(b), MaxLsPosts) + c
        /\ TotalOf(Unfilled(Other(b))', MaxLsPosts) = TotalOf(Unfilled(Other(b)), MaxLsPosts)
    BY <1>1, <1>2, <2>1, HedgeOwed
  <2>7. /\ frag'[b] = (frag[b] + q) % Ratio /\ frag'[Other(b)] = frag[Other(b)]
        /\ frag' \in [Block -> Nat] /\ frag[Other(b)] \in Nat
    BY <1>1, <1>2, <2>1, <2>5 DEF HIInv
  <2>8. Owed(b)' = Owed(b) + q /\ Owed(b) \in Int
    <3> DEFINE T == TotalOf(Unfilled(b), MaxLsPosts)
               f == (frag[b] + q) % Ratio
    <3>1. T \in Nat /\ Ratio \in Nat
      BY <1>1, TotalNat, RatioAssumption DEF HIInv
    <3>2. Owed(b)' = f + Ratio * (T + c) /\ Owed(b) = frag[b] + Ratio * T
      BY <2>6, <2>7 DEF Owed
    <3>3. f \in Nat /\ frag[b] + q = Ratio * c + f
      BY <1>2
    <3> HIDE DEF T, f
    <3>4. Ratio * (T + c) = Ratio * T + Ratio * c /\ Ratio * T \in Nat /\ Ratio * c \in Nat
      BY <1>2, <3>1, Spread
    <3> QED BY <1>1, <1>2, <3>2, <3>3, <3>4
  <2>9. Owed(Other(b))' = Owed(Other(b)) /\ Owed(Other(b)) \in Int
    <3>1. Owed(Other(b))' = Owed(Other(b))
      BY <2>6, <2>7 DEF Owed
    <3>2. TotalOf(Unfilled(Other(b)), MaxLsPosts) \in Nat
      BY <2>5, TotalNat DEF HIInv
    <3>3. Ratio * TotalOf(Unfilled(Other(b)), MaxLsPosts) \in Nat
      BY <3>2, RatioAssumption, Spread
    <3> QED BY <2>7, <3>1, <3>3 DEF Owed
  <2>10. /\ Owed("exit")' - Owed("entry")' = (Owed("exit") - Owed("entry")) + d
         /\ Owed("exit") - Owed("entry") \in Int
    <3>1. CASE b = "entry"
      <4>1. Other(b) = "exit" /\ d = -q
        BY <2>5, <3>1
      <4> QED BY <1>1, <2>8, <2>9, <3>1, <4>1
    <3>2. CASE b = "exit"
      <4>1. Other(b) = "entry" /\ d = q
        BY <2>5, <3>2
      <4> QED BY <1>1, <2>8, <2>9, <3>2, <4>1
    <3> QED BY <2>5, <3>1, <3>2
  <2> HIDE DEF d
  <2> QED BY <1>3, <1>5, <2>2, <2>3, <2>4, <2>6, <2>7, <2>10, MovedKeeps
<1> QED BY <1>7, <1>8

-----------------------------------------------------------------------------
(* The hedge fills, or ends.                                               *)

LEMMA FinishFollows ==
  ASSUME NEW t \in SetRecord, AsOne(t), NEW b \in Block
  PROVE  Follows(t, FinishRound(t, b))
<1>1. CASE Halted(t.leg[b])
  BY <1>1, FollowsSelf DEF FinishRound
<1>2. CASE ~Halted(t.leg[b]) /\ SetPostDone(t) /\ OverLimit(t.diff)
  BY <1>2, HaltFollows DEF FinishRound
<1>3. CASE ~Halted(t.leg[b]) /\ ~(SetPostDone(t) /\ OverLimit(t.diff))
  <2>1. Mild(t, Continue(t, b))
    BY <1>3, ContinueMild
  <2> QED BY <1>3, <2>1, MildFollows DEF FinishRound
<1> QED BY <1>1, <1>2, <1>3

(* The ledger moves by the fill; then the round may end.                   *)
LEMMA OnLsPostFillMoves ==
  ASSUME NEW t \in SetRecord, AsOne(t), NEW b \in Block, NEW q \in Nat
  PROVE  \E u : /\ u \in SetRecord /\ AsOne(u) /\ SameHalt(t, u)
                /\ u.diff = IF b = "entry" THEN t.diff + q * Ratio
                            ELSE t.diff - q * Ratio
                /\ Follows(u, OnLsPostFill(t, b, q))
<1> DEFINE p == Minus(t.leg[b].post, q)
           v == WithPost(t, b, p, t.diff)
           u == ApplyRt(v, b, q)
           l == u.leg[b]
<1>1. p \in Nat /\ t.diff \in Int
  <2>1. t.leg[b].post \in Nat
    BY DEF SetRecord, Leg
  <2> QED BY <2>1, MinusNat DEF SetRecord
<1>2. [t EXCEPT !.leg[b].post = Minus(@, q)] = v
  BY DEF WithPost, SetRecord
<1> HIDE DEF p
<1>3. v \in SetRecord /\ AsOne(v) /\ SameHalt(t, v) /\ v.diff = t.diff
  BY <1>1, PostRecord
<1> HIDE DEF v
<1>4. /\ u \in SetRecord /\ u.leg = v.leg
      /\ u.diff = IF b = "entry" THEN v.diff + q * Ratio ELSE v.diff - q * Ratio
  BY <1>3, ApplyRtSet
<1>5. \/ OnLsPostFill(t, b, q) = u
      \/ /\ OnLsPostFill(t, b, q) = [u EXCEPT !.leg[b].status = "pre_partial"]
         /\ ~Halted(l)
      \/ OnLsPostFill(t, b, q) = FinishRound(u, b)
  BY <1>2 DEF OnLsPostFill, PreOpen
<1> HIDE DEF u
<1>6. AsOne(u) /\ SameHalt(t, u)
  BY <1>3, <1>4 DEF AsOne, SameHalt
<1>7. ASSUME ~Halted(l)
      PROVE  Follows(u, [u EXCEPT !.leg[b].status = "pre_partial"])
  <2> DEFINE m == [l EXCEPT !.status = "pre_partial"]
  <2>1. l \in Leg
    BY <1>4, LegOf
  <2>2. m \in Leg /\ m.post = l.post /\ ~Halted(m) /\ m.running = l.running
    BY <2>1 DEF Leg, LegStatus, Halted
  <2>3. [u EXCEPT !.leg[b].status = "pre_partial"] = [u EXCEPT !.leg[b] = m]
    BY <1>4 DEF SetRecord
  <2> HIDE DEF m
  <2>4. Mild(u, [u EXCEPT !.leg[b] = m])
    BY <1>4, <1>7, <2>2, MildLeg
  <2> QED BY <1>6, <2>3, <2>4, MildFollows
<1>8. Follows(u, OnLsPostFill(t, b, q))
  BY <1>4, <1>5, <1>6, <1>7, FollowsSelf, FinishFollows
<1> QED BY <1>3, <1>4, <1>6, <1>8

LEMMA LsFillKeeps ==
  ASSUME HIInv, NEW i \in Posts, NEW q \in 1 .. Per, LsPostFills(i, q)
  PROVE  HIInv'
<1>1. PICK b \in Block : b = posts[i].block
  BY DEF HIInv, PostsOK, LsPost
<1>2. PICK a \in Block : a = Other(b) /\ a # b
  BY TwoBlocks
<1> DEFINE o == posts[i]
           n == IF q = o.left THEN A!NoPost ELSE [o EXCEPT !.left = @ - q]
           d == IF b = "entry" THEN q * Ratio ELSE -(q * Ratio)
<1>3. /\ q \in Nat /\ q > 0 /\ o \in LsPost /\ o.phase = "open" /\ q <= o.left
      /\ hs' = OnLsPostFill(hs, b, q) /\ posts' = [posts EXCEPT ![i] = n]
      /\ UNCHANGED <<pres, mate, frag, loose>>
  <2>1. q \in Nat /\ q > 0
    BY SizesAssumption
  <2>2. o \in LsPost
    BY DEF HIInv, PostsOK
  <2> QED BY <1>1, <2>1, <2>2 DEF LsPostFills, rest
<1>4. /\ n \in LsPost /\ Part(n, b) = Part(o, b) - q
      /\ Part(n, a) = Part(o, a)
  <2>1. o.left \in Nat /\ o.left > 0 /\ o.left - q \in Nat
    BY <1>3 DEF LsPost
  <2>2. CASE q = o.left
    <3>1. n = A!NoPost /\ A!NoPost.left = 0
      BY <2>2 DEF A!NoPost
    <3>2. A!NoPost \in LsPost
      BY DEF A!NoPost, LsPost, Block
    <3> QED BY <1>1, <1>2, <1>3, <2>1, <2>2, <3>1, <3>2 DEF Part
  <2>3. CASE q # o.left
    <3> DEFINE m == [o EXCEPT !.left = o.left - q]
    <3>1. /\ m \in LsPost /\ m.left = o.left - q /\ m.block = o.block
          /\ m.phase = o.phase
      BY <1>3, <2>1 DEF LsPost
    <3>2. n = m
      BY <2>3
    <3> HIDE DEF m
    <3> QED BY <1>1, <1>2, <1>3, <2>1, <2>3, <3>1, <3>2 DEF Part
  <2> QED BY <2>2, <2>3
<1> HIDE DEF n, o
<1>5. \A c \in Block :
        /\ TotalOf(Unfilled(c), MaxLsPosts) \in Nat
        /\ Part(o, c) \in Nat /\ Part(n, c) \in Nat
        /\ Part(o, c) <= TotalOf(Unfilled(c), MaxLsPosts)
        /\ TotalOf(Unfilled(c)', MaxLsPosts) =
             TotalOf(Unfilled(c), MaxLsPosts) - Part(o, c) + Part(n, c)
  BY <1>3, <1>4, OwedOfOne DEF HIInv, o
<1>6. /\ Owed(b)' = Owed(b) - q * Ratio /\ Owed(b) \in Int
      /\ Owed(a)' = Owed(a) /\ Owed(a) \in Int /\ q * Ratio \in Int
  <2> DEFINE T == TotalOf(Unfilled(b), MaxLsPosts)
             U == TotalOf(Unfilled(a), MaxLsPosts)
  <2>1. T \in Nat /\ U \in Nat /\ Ratio \in Nat
    BY <1>5, RatioAssumption
  <2>2. TotalOf(Unfilled(b)', MaxLsPosts) = T - q /\ TotalOf(Unfilled(a)', MaxLsPosts) = U
    BY <1>3, <1>4, <1>5
  <2>3. /\ Owed(b)' = frag[b] + Ratio * (T - q) /\ Owed(b) = frag[b] + Ratio * T
        /\ Owed(a)' = frag[a] + Ratio * U /\ Owed(a) = frag[a] + Ratio * U
    BY <1>3, <2>2 DEF Owed
  <2>4. frag[a] \in Nat /\ frag[b] \in Nat
    BY DEF HIInv
  <2> HIDE DEF T, U
  <2>5. /\ Ratio * (T - q) = Ratio * T - q * Ratio
        /\ Ratio * T \in Nat /\ Ratio * U \in Nat /\ q * Ratio \in Nat
    BY <1>3, <2>1, Spread, ProductNat
  <2> QED BY <2>3, <2>4, <2>5
<1>7. d \in Int
  BY <1>6
<1>8. /\ Owed("exit")' - Owed("entry")' = (Owed("exit") - Owed("entry")) + d
      /\ Owed("exit") - Owed("entry") \in Int
  <2>1. CASE b = "entry"
    <3>1. a = "exit" /\ d = q * Ratio
      BY <1>2, <2>1 DEF Other
    <3> HIDE DEF d
    <3> QED BY <1>6, <2>1, <3>1
  <2>2. CASE b = "exit"
    <3>1. a = "entry" /\ d = -(q * Ratio)
      BY <1>2, <2>2 DEF Other
    <3> HIDE DEF d
    <3> QED BY <1>6, <2>2, <3>1
  <2> QED BY <2>1, <2>2 DEF Block
<1>9. PICK u : /\ u \in SetRecord /\ AsOne(u) /\ SameHalt(hs, u)
               /\ u.diff = IF b = "entry" THEN hs.diff + q * Ratio
                           ELSE hs.diff - q * Ratio
               /\ Follows(u, hs')
  BY <1>3, OnLsPostFillMoves DEF HIInv
<1>10. u.diff = hs.diff + d /\ hs.diff \in Int
  BY <1>6, <1>9 DEF HIInv, SetRecord
<1>11. /\ PresOK' /\ PostsOK' /\ MateOK' /\ frag' \in [Block -> Nat]
       /\ \A k \in AllPres : pres'[k].phase = "lost" => pres'[k] = pres[k]
  BY <1>3, <1>4 DEF HIInv, PresOK, PostsOK, MateOK
<1> HIDE DEF d
<1> QED BY <1>3, <1>7, <1>8, <1>9, <1>10, <1>11, MovedKeeps

(* Once the set is halted nothing is said of what is owed.                 *)
LEMMA HaltedKeeps ==
  ASSUME HIInv, Follows(hs, hs'), Halted(hs'.leg["entry"]), PostsOK',
         UNCHANGED <<pres, rest>>
  PROVE  HIInv'
<1>1. PresOK' /\ MateOK' /\ UNCHANGED <<frag, loose>>
  BY DEF rest, HIInv, PresOK, MateOK
<1>2. UnknownHalts'
  BY LostStays DEF Follows
<1>3. LooseIsOwed'
  BY DEF LooseIsOwed
<1> QED BY <1>1, <1>2, <1>3 DEF HIInv, Follows

LEMMA PostStepKeeps ==
  ASSUME HIInv, NEW i \in Posts,
         \/ LsPostFails(i) \/ LsPostTaken(i) \/ LsPostEnds(i)
         \/ \E q \in 1 .. Per : LsPostFills(i, q)
  PROVE  HIInv'
<1>1. PICK b \in Block : b = posts[i].block
  BY DEF HIInv, PostsOK, LsPost
<1>2. CASE LsPostFails(i) \/ LsPostEnds(i)
  <2> DEFINE t == [hs EXCEPT !.leg[b].post = 0]
  <2>1. hs' = HaltSet(t, b) /\ posts' = [posts EXCEPT ![i] = A!NoPost]
        /\ UNCHANGED <<pres, rest>>
    BY <1>1, <1>2 DEF LsPostFails, LsPostEnds, OnLsPostReject
  <2>2. t = WithPost(hs, b, 0, hs.diff) /\ hs.diff \in Int
    BY DEF HIInv, SetRecord, WithPost
  <2> HIDE DEF t
  <2>3. t \in SetRecord /\ AsOne(t) /\ SameHalt(hs, t) /\ t.diff = hs.diff
    BY <2>2, PostRecord DEF HIInv
  <2>4. Follows(t, hs') /\ Halted(hs'.leg["entry"])
    BY <2>1, <2>3, HaltFollows DEF Block
  <2>5. Follows(hs, hs')
    BY <2>3, <2>4 DEF Follows, Sticks, SameHalt, Block
  <2>6. PostsOK'
    BY <2>1 DEF HIInv, PostsOK, LsPost, A!NoPost, Block
  <2> QED BY <2>1, <2>4, <2>5, <2>6, HaltedKeeps
<1>3. CASE LsPostTaken(i)
  <2> DEFINE n == [posts[i] EXCEPT !.phase = "open"]
  <2>1. /\ posts' = [posts EXCEPT ![i] = n] /\ posts[i].phase = "sent"
        /\ UNCHANGED <<hs, pres, mate, frag, loose>>
    BY <1>3 DEF LsPostTaken, HIInv, PostsOK, rest
  <2>2. n \in LsPost /\ \A c \in Block : Part(n, c) = Part(posts[i], c)
    BY <2>1 DEF HIInv, PostsOK, LsPost, Part
  <2> HIDE DEF n
  <2>3. PostsOK'
    BY <2>1, <2>2 DEF HIInv, PostsOK
  <2>4. \A c \in Block : Unfilled(c)' = Unfilled(c)
    <3>1. \A c \in Block : /\ Unfilled(c) = [j \in Posts |-> Part(posts[j], c)]
                           /\ Unfilled(c)' = [j \in Posts |-> Part(posts'[j], c)]
      BY <2>3, UnfilledIs DEF HIInv, Unfilled, A!Hedging, A!Posts, Posts, Part
    <3>2. \A c \in Block : \A j \in Posts : Part(posts'[j], c) = Part(posts[j], c)
      BY <2>1, <2>2 DEF HIInv, PostsOK
    <3> QED BY <3>1, <3>2
  <2>5. \A c \in Block : Owed(c)' = Owed(c)
    BY <2>1, <2>4 DEF Owed
  <2>6. LooseIsOwed'
    BY <2>1, <2>5 DEF HIInv, LooseIsOwed, Block
  <2> QED BY <2>1, <2>3, <2>6 DEF HIInv, PresOK, MateOK, UnknownHalts
<1>4. ASSUME NEW q \in 1 .. Per, LsPostFills(i, q) PROVE HIInv'
  BY <1>4, LsFillKeeps
<1> QED BY <1>2, <1>3, <1>4

-----------------------------------------------------------------------------
(* A person releases the halt, and clears the difference.                  *)

LEMMA ReleaseKeeps ==
  ASSUME HIInv, HlRelease PROVE HIInv'
<1>1. hs' \in SetRecord /\ AsOne(hs')
  BY ReleaseAsOne DEF HlRelease, HIInv
<1>2. \A k \in AllPres : pres[k].phase = "none"
  BY DEF HlRelease, A!Working, A!Pres, AllPres, HIInv, PresOK, HlPre
<1>3. LooseIsOwed' /\ UnknownHalts'
  BY <1>2 DEF HlRelease, LooseIsOwed, UnknownHalts
<1> QED BY <1>1, <1>3 DEF HlRelease, HIInv, PresOK, PostsOK, MateOK

LEMMA ClearKeeps ==
  ASSUME HIInv, HlClear PROVE HIInv'
<1>1. hs' \in SetRecord /\ AsOne(hs') /\ hs'.leg = hs.leg /\ hs'.diff = 0
  BY ClearJudged DEF HlClear, HIInv, Settles, ClearDiff, SetRecord
<1>2. \A b \in Block : TotalOf(Unfilled(b)', MaxLsPosts) = 0
  <2>1. ASSUME NEW b \in Block PROVE TotalOf(Unfilled(b)', MaxLsPosts) = 0
    <3> DEFINE w == Unfilled(b)'
    <3>1. w = [i \in 1 .. MaxLsPosts |-> 0]
      BY DEF HlClear, Unfilled, A!Hedging
    <3>2. w \in [1 .. MaxLsPosts -> Nat] /\ \A i \in 1 .. MaxLsPosts : w[i] = 0
      BY <3>1
    <3> HIDE DEF w
    <3>3. TotalOf(w, MaxLsPosts) = 0
      BY <3>2, HlFirstAssumption, TotalOfNone
    <3> QED BY <3>3 DEF w
  <2> QED BY <2>1
<1>3. LooseIsOwed'
  <2> SUFFICES ASSUME ~loose'
               PROVE  hs'.diff = Owed("exit")' - Owed("entry")'
    BY DEF LooseIsOwed
  <2>1. \A b \in Block : frag'[b] = 0
    BY DEF HlClear, HIInv
  <2>2. \A b \in Block : Owed(b)' = 0
    BY <1>2, <2>1, RatioAssumption DEF Owed
  <2> QED BY <1>1, <2>2 DEF Block
<1>4. UnknownHalts'
  BY <1>1 DEF HlClear, HIInv, UnknownHalts
<1>5. loose' \in BOOLEAN
  BY DEF HlClear
<1> QED BY <1>1, <1>3, <1>4, <1>5 DEF HlClear, HIInv, PresOK, PostsOK, MateOK

-----------------------------------------------------------------------------
(* The invariant.                                                          *)

LEMMA InitHIInv == HlFirstInit => HIInv
<1> SUFFICES ASSUME HlFirstInit PROVE HIInv
  OBVIOUS
<1>1. NewLeg \in Leg /\ ~Halted(NewLeg) /\ NewLeg.running = FALSE
  BY DEF NewLeg, Leg, LegStatus, NoOrder, Halted
<1>2. hs \in SetRecord /\ hs.leg = [b \in Block |-> NewLeg] /\ hs.diff = 0
  BY <1>1 DEF HlFirstInit, Restored, SetRecord
<1>3. AsOne(hs)
  <2>1. \A b \in Block : ~Halted(hs.leg[b]) /\ ~hs.leg[b].running
    BY <1>1, <1>2
  <2>2. "entry" \in Block /\ "exit" \in Block
    BY DEF Block
  <2> QED BY <2>1, <2>2 DEF AsOne
<1>4. A!NoPost \in LsPost /\ A!NoPost.left = 0
  BY DEF A!NoPost, LsPost, Block
<1>5. PresOK /\ PostsOK /\ MateOK /\ frag \in [Block -> Nat] /\ loose \in BOOLEAN
  <2>1. PresOK
    BY NoPreOK DEF HlFirstInit, PresOK
  <2>2. PostsOK
    BY <1>4 DEF HlFirstInit, PostsOK, Posts
  <2>3. MateOK
    BY HlFirstAssumption DEF HlFirstInit, MateOK
  <2>4. frag \in [Block -> Nat] /\ loose \in BOOLEAN
    BY DEF HlFirstInit
  <2> QED BY <2>1, <2>2, <2>3, <2>4
<1>6. UnknownHalts
  BY NoPreOK DEF HlFirstInit, UnknownHalts
<1>7. ASSUME NEW b \in Block PROVE Owed(b) = 0
  <2> DEFINE w == Unfilled(b)
  <2>1. w = [i \in 1 .. MaxLsPosts |-> 0]
    BY <1>4 DEF HlFirstInit, Unfilled, A!Hedging, A!Posts
  <2>2. w \in [1 .. MaxLsPosts -> Nat] /\ \A i \in 1 .. MaxLsPosts : w[i] = 0
    BY <2>1
  <2> HIDE DEF w
  <2>3. TotalOf(w, MaxLsPosts) = 0
    BY <2>2, HlFirstAssumption, TotalOfNone
  <2>4. frag[b] = 0
    BY DEF HlFirstInit
  <2> QED BY <2>3, <2>4, RatioAssumption DEF w, Owed
<1>8. LooseIsOwed
  BY <1>2, <1>7 DEF LooseIsOwed, Block
<1> QED BY <1>2, <1>3, <1>5, <1>6, <1>8 DEF HIInv

LEMMA NextHIInv ==
  ASSUME HIInv, [HlFirstNext]_hlFirstVars PROVE HIInv'
<1>1. ASSUME NEW b \in Block, UNCHANGED <<pres, posts, rest>>, Follows(hs, hs')
      PROVE  HIInv'
  <2>1. PresOK' /\ MateOK' /\ UNCHANGED <<posts, frag, loose>>
    BY <1>1 DEF rest, HIInv, PresOK, MateOK
  <2>2. UnknownHalts'
    BY <1>1, LostStays DEF Follows
  <2> QED BY <1>1, <2>1, <2>2, StepKeeps
<1>2. ASSUME NEW b \in Block,
             \/ A!EvalHalted(b) \/ A!EvalOff(b) \/ A!EvalShut(b)
             \/ A!EvalHold(b) \/ A!EvalReplace(b)
      PROVE  HIInv'
  BY <1>1, <1>2, EvalFollows DEF HIInv
<1>3. ASSUME NEW b \in Block, A!CommandOn(b) \/ A!CommandOff(b)
      PROVE  HIInv'
  BY <1>1, <1>3, CommandFollows DEF HIInv
<1>4. ASSUME NEW B \in SUBSET Block, PlaceBatch(B) PROVE HIInv'
  BY <1>4, HlPlaceKeeps
<1>5. ASSUME NEW k \in AllPres,
             \/ BatchAnswered(k) \/ Identified(k) \/ NeverArrived(k)
             \/ \E q \in 1 .. Per * Ratio : HlPreFills(k, q)
             \/ \E how \in {"cancelled", "rejected"} : HlPreEnds(k, how)
             \/ A!PreVanishes(k) \/ A!CancelFails(k) \/ A!CancelReturns(k)
      PROVE  HIInv'
  BY <1>5, AnsweredKeeps, IdentifiedKeeps, PreFillKeeps, EndKeeps
<1>6. ASSUME NEW i \in Posts,
             \/ LsPostFails(i) \/ LsPostTaken(i) \/ LsPostEnds(i)
             \/ \E q \in 1 .. Per : LsPostFills(i, q)
      PROVE  HIInv'
  BY <1>6, PostStepKeeps
<1>7. CASE UNCHANGED hlFirstVars
  <2>1. UNCHANGED <<hs, pres, posts, rest>>
    BY <1>7 DEF hlFirstVars
  <2>2. Follows(hs, hs')
    BY <2>1, FollowsSelf DEF HIInv
  <2> QED BY <1>1, <2>1, <2>2 DEF Block
<1> QED BY <1>2, <1>3, <1>4, <1>5, <1>6, <1>7, ReleaseKeeps, ClearKeeps
        DEF HlFirstNext, Posts

THEOREM HlFirstSafety == HlFirstSpec => []HIInv
<1> QED BY InitHIInv, NextHIInv, PTL DEF HlFirstSpec

(* Unless the set halted, the difference of its ledger is exactly what is  *)
(* left over or being hedged: no fill is hedged twice, and none is         *)
(* forgotten when its pre order is replaced (on_hl_pre_fill).              *)
THEOREM DifferenceIsOwed == HlFirstSpec => []LooseIsOwed
<1>1. HIInv => LooseIsOwed
  BY DEF HIInv
<1> QED BY <1>1, HlFirstSafety, PTL

(* While nobody knows what became of a pre order its set is halted, and    *)
(* sends no second one (_halt_hl_pre_unknown).                             *)
THEOREM LostOrderHalts == HlFirstSpec => []UnknownHalts
<1>1. HIInv => UnknownHalts
  BY DEF HIInv
<1> QED BY <1>1, HlFirstSafety, PTL

=============================================================================
