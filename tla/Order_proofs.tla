---------------------------- MODULE Order_proofs ----------------------------
(***************************************************************************)
(* Proofs about OrderFlow, for any orders, quantities and buffer limit:    *)
(* what is counted (the invariant CountInv), then how orders end (IInv),   *)
(* the order book against its exchange, and the ledger it implements; then *)
(* about OrderResync: what no refresh of the order book may do, for any    *)
(* number of refreshes and losses.  Notices may be lost and rows may be    *)
(* old there, so IInv does not hold; RIInv says what is left of it.        *)
(***************************************************************************)
EXTENDS OrderResync, FiniteSetTheorems, SequenceTheorems, TLAPS


-----------------------------------------------------------------------------
(* The pure handlers of one order.                                         *)

LEMMA NewOrderSound ==
  ASSUME NEW q \in Nat \ {0}, NEW x \in Nat
  PROVE  NewOrder(q) \in OrderRecord /\ Sound(NewOrder(q), x)
<1>1. UNION NewOrder(q).seen = {}
  BY DEF NewOrder
<1>2. SeenLots(NewOrder(q)) = 0
  BY <1>1, FS_EmptySet DEF SeenLots
<1> QED
  BY <1>1, <1>2 DEF NewOrder, OrderRecord, Sound, Shape, IsOpen, OpenStatus,
     ClosedStatus

(* Recounting an open order keeps its shape.                               *)
LEMMA RecountShape ==
  ASSUME NEW o \in OrderRecord, ~o.assumed,
         o.status = "filled" => o.qty <= o.filled
  PROVE  /\ Recount(o) \in OrderRecord
         /\ Shape(Recount(o))
         /\ Recount(o) = [o EXCEPT !.status = Recount(o).status]
         /\ ~IsOpen(o) => Recount(o) = o
<1>1. CASE IsOpen(o)
  <2>1. StatusAfterQty(o) \in OpenStatus \cup ClosedStatus
    BY <1>1 DEF StatusAfterQty, OpenStatus, ClosedStatus, IsOpen, OrderRecord,
       Remaining
  <2>2. Recount(o) = [o EXCEPT !.status = StatusAfterQty(o)]
    BY <1>1 DEF Recount
  <2>3. StatusAfterQty(o) = "filled" => o.qty <= o.filled
    BY <1>1 DEF StatusAfterQty, Remaining, OrderRecord, IsOpen, OpenStatus
  <2>4. StatusAfterQty(o) \in OpenStatus => o.filled + o.cancelled < o.qty
    BY <1>1 DEF StatusAfterQty, Remaining, OrderRecord, IsOpen, OpenStatus
  <2> QED
    BY <1>1, <2>1, <2>2, <2>3, <2>4 DEF Shape, IsOpen, OrderRecord
<1>2. CASE ~IsOpen(o)
  <2>1. Recount(o) = o
    BY <1>2 DEF Recount
  <2> QED
    BY <1>2, <2>1 DEF Shape, OrderRecord
<1> QED
  BY <1>1, <1>2

(* A disjoint fill adds its lots to those seen.                            *)
LEMMA SeenAdds ==
  ASSUME NEW S, NEW x \in Nat, NEW f, UNION S \subseteq 1 .. x,
         f \subseteq 1 .. x, \A g \in S : g \cap f = {}
  PROVE  /\ Cardinality(f) \in Nat /\ Cardinality(UNION S) \in Nat
         /\ UNION (S \cup {f}) \subseteq 1 .. x
         /\ Cardinality(UNION (S \cup {f}))
              = Cardinality(UNION S) + Cardinality(f)
         /\ Cardinality(UNION (S \cup {f})) <= x
<1>1. IsFiniteSet(1 .. x) /\ Cardinality(1 .. x) = x
  BY FS_Interval
<1>2. IsFiniteSet(f) /\ IsFiniteSet(UNION S)
  BY <1>1, FS_Subset
<1>3. UNION (S \cup {f}) = (UNION S) \cup f
  OBVIOUS
<1>4. (UNION S) \cap f = {}
  OBVIOUS
<1>5. Cardinality((UNION S) \cup f) = Cardinality(UNION S) + Cardinality(f)
  <2>1. Cardinality((UNION S) \cap f) = 0
    BY <1>4, FS_EmptySet
  <2>2. Cardinality((UNION S) \cup f)
          = Cardinality(UNION S) + Cardinality(f) - Cardinality((UNION S) \cap f)
    BY <1>2, FS_Union
  <2>3. Cardinality(UNION S) \in Nat /\ Cardinality(f) \in Nat
    BY <1>2, FS_CardinalityType
  <2> QED
    BY <2>1, <2>2, <2>3
<1>6. Cardinality((UNION S) \cup f) <= x
  <2>1. (UNION S) \cup f \in SUBSET (1 .. x)
    OBVIOUS
  <2> QED
    BY <1>1, <2>1, FS_Subset
<1> QED
  BY <1>2, <1>3, <1>5, <1>6, FS_CardinalityType

(* What every handler of a notice owes: a sound order stays sound, counts  *)
(* no less, and remembers at most the fill it was given.                   *)
Handled(o, p, x, f) ==
  /\ p \in OrderRecord
  /\ Sound(p, x)
  /\ p.qty = o.qty
  /\ o.filled <= p.filled
  /\ p.seen \subseteq o.seen \cup {f}

LEMMA FillSound ==
  ASSUME NEW o \in OrderRecord, NEW x \in Nat, x <= o.qty, Sound(o, x),
         NEW f, f \subseteq 1 .. x,
         \A g \in o.seen : g = f \/ g \cap f = {}
  PROVE  Handled(o, AfterFill(o, f), x, f)
<1>1. CASE f \in o.seen
  BY <1>1 DEF AfterFill, Handled, OrderRecord, Drops
<1>2. CASE f \notin o.seen
  <2> DEFINE n == Note(o, f)
             c == Cardinality(f)
             ab == Absorbed(o, f)
             r == Rest(o, f)
  <2>1. /\ c \in Nat /\ SeenLots(o) \in Nat
        /\ UNION (o.seen \cup {f}) \subseteq 1 .. x
        /\ Cardinality(UNION (o.seen \cup {f})) = SeenLots(o) + c
        /\ SeenLots(o) + c <= x
    <3>1. \A g \in o.seen : g \cap f = {}
      BY <1>2
    <3>2. UNION o.seen \subseteq 1 .. x
      BY DEF Sound
    <3>3. /\ Cardinality(f) \in Nat /\ Cardinality(UNION o.seen) \in Nat
          /\ UNION (o.seen \cup {f}) \subseteq 1 .. x
          /\ Cardinality(UNION (o.seen \cup {f}))
               = Cardinality(UNION o.seen) + Cardinality(f)
          /\ Cardinality(UNION (o.seen \cup {f})) <= x
      BY <3>1, <3>2, SeenAdds
    <3> QED
      BY <3>3 DEF SeenLots
  <2>2. /\ ab \in Nat /\ r \in Nat /\ ab <= o.prov
        /\ c = ab + r /\ (r = 0 \/ ab = o.prov)
    BY <2>1 DEF Absorbed, Rest, OrderRecord
  <2>3. /\ n = [o EXCEPT !.seen = @ \cup {f}, !.prov = @ - ab]
        /\ n \in OrderRecord
    <3>1. o.seen \cup {f} \in SUBSET (SUBSET Nat)
      <4>1. f \subseteq Nat
        OBVIOUS
      <4> QED
        BY <4>1 DEF OrderRecord
    <3>2. o.prov - ab \in Nat
      BY <2>2 DEF OrderRecord
    <3>3. n = [o EXCEPT !.seen = @ \cup {f}, !.prov = @ - ab]
      BY DEF Note
    <3> HIDE DEF n, ab
    <3> QED
      BY <3>1, <3>2, <3>3 DEF OrderRecord
  <2>4. /\ n.seen = o.seen \cup {f} /\ n.prov = o.prov - ab
        /\ n.filled = o.filled /\ n.qty = o.qty /\ n.status = o.status
        /\ n.cancelled = o.cancelled /\ n.assumed = o.assumed
    BY <2>3 DEF OrderRecord
  <2>5. SeenLots(n) = SeenLots(o) + c
    BY <2>1, <2>4 DEF SeenLots
  <2>6. o.filled = SeenLots(o) + o.prov /\ Shape(o)
    BY DEF Sound
  <2>7. CASE Drops(o, f)
    <3>1. AfterFill(o, f) = n
      BY <1>2, <2>7 DEF AfterFill
    <3>2. r = 0
      <4>1. SUFFICES ASSUME r > 0 PROVE FALSE
        BY <2>2
      <4>2. o.filled + r <= x
        BY <4>1, <2>1, <2>2, <2>6 DEF OrderRecord
      <4>3. o.filled < o.qty
        BY <4>1, <4>2, <2>2 DEF OrderRecord
      <4>4. o.status # "filled"
        BY <4>3, <2>6 DEF Shape, OrderRecord
      <4>5. ~(IsOpen(o) /\ Remaining(o) = 0)
        BY <2>6 DEF Shape, Remaining, OrderRecord
      <4> QED
        BY <4>1, <4>4, <4>5, <1>2, <2>7 DEF Drops
    <3>3. n.filled = SeenLots(n) + n.prov
      BY <3>2, <2>1, <2>2, <2>4, <2>5, <2>6 DEF OrderRecord
    <3>4. Shape(n)
      BY <2>4, <2>6 DEF Shape, IsOpen
    <3>5. Sound(n, x)
      BY <3>3, <3>4, <2>1, <2>4 DEF Sound
    <3> QED
      BY <3>1, <3>5, <2>3, <2>4 DEF Handled, OrderRecord
  <2>8. CASE ~Drops(o, f)
    <3> DEFINE q == [n EXCEPT !.filled = @ + r]
    <3>1. AfterFill(o, f) = Recount(q)
      <4>1. Reclaim(n, r) = n
        BY <2>4, <2>6 DEF Reclaim, Shape
      <4> QED
        BY <4>1, <1>2, <2>8 DEF AfterFill, ApplyFill
    <3>2. /\ q \in OrderRecord /\ q.filled = o.filled + r
          /\ q.seen = n.seen /\ q.prov = n.prov /\ q.qty = o.qty
          /\ q.status = o.status /\ ~q.assumed
      <4> HIDE DEF n, r
      <4>1. n \in OrderRecord /\ n.filled + r \in Nat
        BY <2>2, <2>3 DEF OrderRecord
      <4>2. /\ q \in OrderRecord /\ q.filled = n.filled + r
            /\ q.seen = n.seen /\ q.prov = n.prov /\ q.qty = n.qty
            /\ q.status = n.status /\ q.assumed = n.assumed
        BY <4>1 DEF OrderRecord
      <4> QED
        BY <4>2, <2>4, <2>6 DEF Shape
    <3>3. q.status = "filled" => q.qty <= q.filled
      BY <2>8, <3>2 DEF Drops
    <3> HIDE DEF q
    <3>4. /\ Recount(q) \in OrderRecord /\ Shape(Recount(q))
          /\ Recount(q) = [q EXCEPT !.status = Recount(q).status]
      BY <3>2, <3>3, RecountShape
    <3> DEFINE p == Recount(q)
    <3>5. /\ p.filled = q.filled /\ p.seen = q.seen /\ p.prov = q.prov
          /\ p.qty = q.qty
      BY <3>4, <3>2 DEF OrderRecord
    <3>6. SeenLots(p) = SeenLots(o) + c
      BY <3>5, <3>2, <2>5, <2>4 DEF SeenLots
    <3>7. p.filled = SeenLots(p) + p.prov
      BY <3>6, <3>5, <3>2, <2>1, <2>2, <2>4, <2>6 DEF OrderRecord
    <3>8. p.filled <= x
      BY <3>7, <3>6, <3>5, <3>2, <2>1, <2>2, <2>4, <2>6, <2>8 DEF OrderRecord, Drops
    <3>9. Sound(p, x)
      BY <3>4, <3>5, <3>7, <3>8, <3>2, <2>4, <2>1 DEF Sound
    <3> QED
      BY <3>1, <3>4, <3>5, <3>9, <3>2, <2>2, <2>4 DEF Handled, OrderRecord
  <2> QED
    BY <2>7, <2>8
<1> QED
  BY <1>1, <1>2


(* A change that leaves the lots alone leaves the order sound.             *)
LEMMA SameLotsSound ==
  ASSUME NEW o \in OrderRecord, NEW x \in Nat, Sound(o, x),
         NEW p \in OrderRecord, Shape(p), p.qty = o.qty,
         p.filled = o.filled, p.seen = o.seen, p.prov = o.prov,
         NEW f
  PROVE  Handled(o, p, x, f)
BY DEF Handled, Sound, SeenLots, OrderRecord

LEMMA AckSound ==
  ASSUME NEW o \in OrderRecord, NEW x \in Nat, Sound(o, x), NEW f
  PROVE  Handled(o, AfterAck(o), x, f)
<1> DEFINE p == AfterAck(o)
<1>1. /\ p \in OrderRecord /\ Shape(p) /\ p.qty = o.qty
      /\ p.filled = o.filled /\ p.seen = o.seen /\ p.prov = o.prov
  BY DEF AfterAck, OrderRecord, OpenStatus, ClosedStatus, Shape, Sound, IsOpen
<1> QED
  BY <1>1, SameLotsSound

LEMMA RejectSound ==
  ASSUME NEW o \in OrderRecord, NEW x \in Nat, Sound(o, x), NEW f
  PROVE  Handled(o, AfterReject(o), x, f)
<1> DEFINE p == AfterReject(o)
<1>1. /\ p \in OrderRecord /\ Shape(p) /\ p.qty = o.qty
      /\ p.filled = o.filled /\ p.seen = o.seen /\ p.prov = o.prov
  BY DEF AfterReject, OrderRecord, OpenStatus, ClosedStatus, Shape, Sound, IsOpen
<1> QED
  BY <1>1, SameLotsSound

LEMMA CancelSound ==
  ASSUME NEW o \in OrderRecord, NEW x \in Nat, Sound(o, x), NEW q \in Nat, NEW f
  PROVE  Handled(o, AfterCancel(o, q), x, f)
<1>1. CASE IsOpen(o)
  <2> DEFINE d == IF q >= Remaining(o) THEN Remaining(o) ELSE q
             c == [o EXCEPT !.cancelled = @ + d]
             p == Recount(c)
  <2>1. d \in Nat
    BY DEF Remaining, OrderRecord
  <2> HIDE DEF d
  <2>2. /\ c \in OrderRecord /\ c.qty = o.qty /\ c.status = o.status
        /\ c.filled = o.filled /\ c.seen = o.seen /\ c.prov = o.prov
        /\ c.assumed = o.assumed
    BY <2>1 DEF OrderRecord
  <2>3. ~c.assumed /\ (c.status = "filled" => c.qty <= c.filled)
    BY <2>2 DEF Sound, Shape
  <2>4. AfterCancel(o, q) = p
    BY <1>1 DEF AfterCancel, d
  <2> HIDE DEF c
  <2>5. p \in OrderRecord /\ Shape(p) /\ p = [c EXCEPT !.status = p.status]
    BY <2>2, <2>3, RecountShape
  <2>6. p.qty = o.qty /\ p.filled = o.filled /\ p.seen = o.seen /\ p.prov = o.prov
    BY <2>2, <2>5 DEF OrderRecord
  <2> HIDE DEF p
  <2> QED
    BY <2>4, <2>5, <2>6, SameLotsSound
<1>2. CASE ~IsOpen(o)
  <2>1. AfterCancel(o, q) = o
    BY <1>2 DEF AfterCancel
  <2>2. Shape(o)
    BY DEF Sound
  <2> QED
    BY <2>1, <2>2, SameLotsSound
<1> QED
  BY <1>1, <1>2

(* A place response counts in advance lots that were executed.             *)
LEMMA PlaceFillSound ==
  ASSUME NEW o \in OrderRecord, NEW x \in Nat, Sound(o, x),
         NEW q \in Nat, o.filled + q <= x
  PROVE  Handled(o, AfterPlaceFill(o, q), x, {})
         /\ AfterPlaceFill(o, q).seen = o.seen
<1> DEFINE a == PlaceApplied(o, q)
<1>1. a \in Nat /\ a <= q
  BY DEF PlaceApplied, Remaining, OrderRecord
<1>2. CASE a = 0
  <2>1. AfterPlaceFill(o, q) = o
    BY <1>2 DEF AfterPlaceFill
  <2>2. Shape(o)
    BY DEF Sound
  <2> QED
    BY <2>1, <2>2, SameLotsSound
<1>3. CASE a # 0
  <2> DEFINE c == [o EXCEPT !.filled = @ + a]
             p == Recount(c)
             r == [p EXCEPT !.prov = @ + a]
  <2>1. AfterPlaceFill(o, q) = r
    BY <1>3 DEF AfterPlaceFill, ApplyFill
  <2> HIDE DEF a
  <2>2. o.filled + a \in Nat /\ o.prov + a \in Nat /\ o.filled + a <= x
    BY <1>1 DEF OrderRecord
  <2>3. /\ c \in OrderRecord /\ c.qty = o.qty /\ c.status = o.status
        /\ c.filled = o.filled + a /\ c.seen = o.seen /\ c.prov = o.prov
        /\ c.assumed = o.assumed
    BY <2>2 DEF OrderRecord
  <2>4. ~c.assumed /\ (c.status = "filled" => c.qty <= c.filled)
    <3>1. o.status = "filled" => o.qty <= o.filled
      BY DEF Sound, Shape
    <3>2. ~o.assumed
      BY DEF Sound, Shape
    <3> HIDE DEF c
    <3> QED
      BY <3>1, <3>2, <2>3, <1>1 DEF OrderRecord
  <2> HIDE DEF c
  <2>5. p \in OrderRecord /\ Shape(p) /\ p = [c EXCEPT !.status = p.status]
    BY <2>3, <2>4, RecountShape
  <2>6. /\ p.qty = o.qty /\ p.filled = o.filled + a /\ p.seen = o.seen
        /\ p.prov = o.prov
    BY <2>3, <2>5 DEF OrderRecord
  <2> HIDE DEF p
  <2>7. /\ r \in OrderRecord /\ r.qty = o.qty /\ r.filled = o.filled + a
        /\ r.seen = o.seen /\ r.prov = o.prov + a
        /\ r.status = p.status /\ r.assumed = p.assumed
        /\ r.cancelled = p.cancelled
    BY <2>2, <2>5, <2>6 DEF OrderRecord
  <2> HIDE DEF r
  <2>8. Shape(r)
    BY <2>5, <2>6, <2>7 DEF Shape, IsOpen
  <2>9. UNION o.seen \subseteq 1 .. x /\ o.filled = SeenLots(o) + o.prov
    BY DEF Sound
  <2>10. SeenLots(o) \in Nat
    <3>1. IsFiniteSet(1 .. x)
      BY FS_Interval
    <3> QED
      BY <3>1, <2>9, FS_Subset, FS_CardinalityType DEF SeenLots
  <2>11. r.filled = SeenLots(r) + r.prov
    <3>1. SeenLots(r) = SeenLots(o)
      BY <2>7 DEF SeenLots
    <3> QED
      BY <3>1, <2>7, <2>9, <2>10, <1>1 DEF OrderRecord
  <2>12. Sound(r, x)
    BY <2>2, <2>7, <2>8, <2>9, <2>11 DEF Sound
  <2>13. o.filled <= r.filled
    BY <2>7, <1>1 DEF OrderRecord
  <2> QED
    BY <2>1, <2>7, <2>12, <2>13 DEF Handled
<1> QED
  BY <1>2, <1>3

(* Every notice keeps a sound order sound, provided a fill it brings is    *)
(* part of what was executed and disjoint from the other fills seen.       *)
LEMMA EventSound ==
  ASSUME NEW o \in OrderRecord, NEW x \in Nat, x <= o.qty, Sound(o, x),
         NEW m \in Message,
         m.kind = "fill" =>
           /\ m.lots \subseteq 1 .. x
           /\ \A g \in o.seen : g = m.lots \/ g \cap m.lots = {}
  PROVE  /\ Handled(o, AfterEvent(o, m), x, m.lots)
         /\ m.kind # "fill" => AfterEvent(o, m).seen = o.seen
<1>1. CASE m.kind = "ack" /\ m.key \in LsKeys
  <2>1. AfterEvent(o, m) = AfterAck(o)
    BY <1>1, KeysAssumption DEF AfterEvent
  <2>2. AfterAck(o).seen = o.seen
    BY DEF AfterAck, OrderRecord
  <2> QED
    BY <2>1, <2>2, AckSound
<1>2. CASE m.kind = "ack" /\ m.key \in HlKeys
  <2>1. AfterEvent(o, m) = o
    BY <1>2, KeysAssumption DEF AfterEvent
  <2>2. Shape(o)
    BY DEF Sound
  <2> QED
    BY <2>1, <2>2, SameLotsSound
<1>3. CASE m.kind = "fill"
  <2>1. AfterEvent(o, m) = AfterFill(o, m.lots)
    BY <1>3 DEF AfterEvent
  <2> QED
    BY <1>3, <2>1, FillSound
<1>4. CASE m.kind = "cancel"
  <2>1. AfterEvent(o, m) = AfterCancel(o, m.qty)
    BY <1>4 DEF AfterEvent
  <2>2. m.qty \in Nat
    BY DEF Message
  <2>3. AfterCancel(o, m.qty).seen = o.seen
    <3> DEFINE d == IF m.qty >= Remaining(o) THEN Remaining(o) ELSE m.qty
               c == [o EXCEPT !.cancelled = @ + d]
    <3>1. c.seen = o.seen /\ [c EXCEPT !.status = StatusAfterQty(c)].seen = o.seen
      BY DEF OrderRecord
    <3>2. AfterCancel(o, m.qty) \in {o, c, [c EXCEPT !.status = StatusAfterQty(c)]}
      BY DEF AfterCancel, Recount
    <3> HIDE DEF c
    <3> QED
      BY <3>1, <3>2
  <2> QED
    BY <2>1, <2>2, <2>3, CancelSound
<1>5. CASE m.kind = "reject"
  <2>1. AfterEvent(o, m) = AfterReject(o)
    BY <1>5 DEF AfterEvent
  <2>2. AfterReject(o).seen = o.seen
    BY DEF AfterReject, OrderRecord
  <2> QED
    BY <2>1, <2>2, RejectSound
<1> QED
  BY <1>1, <1>2, <1>3, <1>4, <1>5 DEF Message, Kinds, Keys


-----------------------------------------------------------------------------
(* Steps of the whole book.                                                *)

(* Handling a notice of one order keeps the whole book sound.              *)
LEMMA HandledStep ==
  ASSUME TypeOK, BookOK, NEW k \in Keys, NEW p, NEW f,
         Handled(book[k], p, xfilled[k], f), SetOrder(k, p),
         UNCHANGED exchange, k \in tracked', tracked \subseteq tracked'
  PROVE  /\ book' \in [Keys -> OrderRecord] /\ told' \in [Keys -> Nat]
         /\ BookOK'
         /\ \A j \in Keys : book'[j].seen \subseteq
              (IF j = k THEN book[k].seen \cup {f} ELSE book[j].seen)
<1>1. /\ book' = [book EXCEPT ![k] = p]
      /\ told' = [told EXCEPT ![k] = @ + (p.filled - book[k].filled)]
  BY DEF SetOrder
<1>2. p \in OrderRecord /\ book[k] \in OrderRecord /\ book[k].filled <= p.filled
  BY DEF Handled, TypeOK
<1>3. told[k] = book[k].filled
  BY DEF BookOK
<1>4. told'[k] = p.filled
  BY <1>1, <1>2, <1>3 DEF TypeOK, OrderRecord
<1>5. book' \in [Keys -> OrderRecord] /\ told' \in [Keys -> Nat]
  BY <1>1, <1>2, <1>4 DEF TypeOK, OrderRecord
<1>6. ASSUME NEW j \in Keys
      PROVE  /\ Sound(book'[j], xfilled'[j])
             /\ book'[j].qty = Qty[j]
             /\ told'[j] = book'[j].filled
             /\ j \notin tracked' => book'[j] = NewOrder(Qty[j])
  <2>1. xfilled' = xfilled
    BY DEF exchange
  <2>2. CASE j = k
    <3>1. book'[j] = p
      BY <1>1, <2>2 DEF TypeOK
    <3> QED
      BY <3>1, <2>1, <2>2, <1>4 DEF Handled, BookOK
  <2>3. CASE j # k
    <3>1. book'[j] = book[j] /\ told'[j] = told[j]
      BY <1>1, <2>3 DEF TypeOK
    <3> QED
      BY <3>1, <2>1, <2>3 DEF BookOK
  <2> QED
    BY <2>2, <2>3
<1>7. BookOK'
  BY <1>6 DEF BookOK
<1>8. \A j \in Keys : book'[j].seen \subseteq
         (IF j = k THEN book[k].seen \cup {f} ELSE book[j].seen)
  BY <1>1, <1>2 DEF TypeOK, Handled
<1> QED
  BY <1>5, <1>7, <1>8

LEMMA BookUnchanged ==
  ASSUME BookOK, UNCHANGED <<exchange, books>>
  PROVE  BookOK'
BY DEF BookOK, exchange, books

(* Fills that only move keep the fills apart.                              *)
LEMMA FillsMove ==
  ASSUME FillsApart, xfilled' = xfilled,
         \A j \in Keys : FillsOf(j)' \subseteq FillsOf(j)
  PROVE  FillsApart'
BY DEF FillsApart

(* Tracking an order anew.                                                 *)
LEMMA FreshSound ==
  ASSUME TypeOK, NEW k \in Keys
  PROVE  /\ NewOrder(Qty[k]) \in OrderRecord
         /\ Sound(NewOrder(Qty[k]), xfilled[k])
         /\ NewOrder(Qty[k]).filled = 0 /\ NewOrder(Qty[k]).seen = {}
         /\ NewOrder(Qty[k]).qty = Qty[k]
<1>1. Qty[k] \in Nat \ {0} /\ xfilled[k] \in Nat
  BY QtyAssumption DEF TypeOK
<1> QED
  BY <1>1, NewOrderSound DEF NewOrder

-----------------------------------------------------------------------------
(* The buffer.                                                             *)

LEMMA AppendKept ==
  ASSUME NEW s \in Seq(Message), NEW m \in Message
  PROVE  /\ Append(s, m) \in Seq(Message) /\ Append(s, m) # <<>>
         /\ KeptFills(Append(s, m)) \subseteq
              KeptFills(s) \cup (IF m.kind = "fill" THEN {m.lots} ELSE {})
<1>1. /\ Append(s, m) \in Seq(Message) /\ Len(Append(s, m)) = Len(s) + 1
      /\ \A i \in 1 .. Len(s) : Append(s, m)[i] = s[i]
      /\ Append(s, m)[Len(s) + 1] = m
  OBVIOUS
<1>2. \A i \in 1 .. Len(s) + 1 : i \in 1 .. Len(s) \/ i = Len(s) + 1
  BY LenProperties
<1>3. Append(s, m) # <<>>
  BY <1>1, LenProperties, EmptySeq
<1> QED
  BY <1>1, <1>2, <1>3 DEF KeptFills

LEMMA TailKept ==
  ASSUME NEW s \in Seq(Message), s # <<>>
  PROVE  /\ Head(s) \in Message /\ Tail(s) \in Seq(Message)
         /\ KeptFills(Tail(s)) \subseteq KeptFills(s)
         /\ Head(s).kind = "fill" => Head(s).lots \in KeptFills(s)
<1>1. /\ Head(s) \in Message /\ Tail(s) \in Seq(Message)
      /\ Len(Tail(s)) = Len(s) - 1
      /\ \A i \in 1 .. Len(Tail(s)) : Tail(s)[i] = s[i + 1]
  BY HeadTailProperties
<1>2. Len(s) \in Nat /\ Len(s) > 0
  BY EmptySeq
<1>3. \A i \in 1 .. Len(Tail(s)) : i + 1 \in 1 .. Len(s)
  BY <1>1, <1>2
<1>4. KeptFills(Tail(s)) \subseteq KeptFills(s)
  BY <1>1, <1>3 DEF KeptFills
<1>5. Head(s) = s[1] /\ 1 \in 1 .. Len(s)
  BY <1>2
<1> QED
  BY <1>1, <1>4, <1>5 DEF KeptFills

LEMMA BufferKeeps ==
  ASSUME TypeOK, NEW m \in Message, BufferEvent(m)
  PROVE  /\ pending' \in [Keys -> Seq(Message)]
         /\ rank' \in [Keys -> Nat]
         /\ \A j \in Keys : KeptFills(pending'[j]) \subseteq KeptFills(pending[j])
              \cup (IF j = m.key /\ m.kind = "fill" THEN {m.lots} ELSE {})
<1> DEFINE gone == Evicted(m.key)
           kept == [k \in Keys |-> IF k \in gone THEN <<>> ELSE pending[k]]
           down == [k \in Keys |-> IF gone = {} \/ rank[k] = 0 THEN rank[k]
                                   ELSE rank[k] - 1]
<1>1. m.key \in Keys
  BY DEF Message
<1>2. kept \in [Keys -> Seq(Message)]
  BY EmptySeq DEF TypeOK
<1>3. \A j \in Keys : KeptFills(kept[j]) \subseteq KeptFills(pending[j])
  <2>1. KeptFills(<<>>) = {}
    BY DEF KeptFills
  <2> QED
    BY <2>1
<1>4. pending' = [kept EXCEPT ![m.key] = Append(@, m)]
  BY DEF BufferEvent
<1>5. pending' \in [Keys -> Seq(Message)]
  BY <1>1, <1>2, <1>4, AppendKept
<1>6. Cardinality(Buffered \ gone) \in Nat
  <2>1. Buffered \ gone \in SUBSET Keys
    BY DEF Buffered
  <2> QED
    BY <2>1, KeysAssumption, FS_Subset, FS_CardinalityType
<1>7. down \in [Keys -> Nat]
  BY DEF TypeOK
<1>8. rank' \in [Keys -> Nat]
  <2>1. rank' = [down EXCEPT ![m.key] = IF rank[m.key] > 0 THEN @
                                        ELSE Cardinality(Buffered \ gone) + 1]
    BY DEF BufferEvent
  <2> HIDE DEF down, gone
  <2> QED
    BY <2>1, <1>1, <1>6, <1>7
<1>9. ASSUME NEW j \in Keys
      PROVE  KeptFills(pending'[j]) \subseteq KeptFills(pending[j])
               \cup (IF j = m.key /\ m.kind = "fill" THEN {m.lots} ELSE {})
  <2> HIDE DEF kept
  <2>1. CASE j = m.key
    <3>1. pending'[j] = Append(kept[j], m) /\ kept[j] \in Seq(Message)
      BY <1>2, <1>4, <2>1
    <3> QED
      BY <3>1, <2>1, <1>3, AppendKept
  <2>2. CASE j # m.key
    <3>1. pending'[j] = kept[j]
      BY <1>2, <1>4, <2>2
    <3> QED
      BY <3>1, <1>3
  <2> QED
    BY <2>1, <2>2
<1> QED
  BY <1>5, <1>8, <1>9


-----------------------------------------------------------------------------
(* The inductive invariant, action by action.                              *)

LEMMA InitInv == Init => CountInv
<1> SUFFICES ASSUME Init PROVE CountInv
  OBVIOUS
<1> USE DEF Init
<1>1. \A k \in Keys : NewOrder(Qty[k]) \in OrderRecord
                      /\ Sound(NewOrder(Qty[k]), 0)
                      /\ NewOrder(Qty[k]).filled = 0
                      /\ NewOrder(Qty[k]).seen = {}
                      /\ NewOrder(Qty[k]).qty = Qty[k]
  BY QtyAssumption, NewOrderSound DEF NewOrder
<1>2. TypeOK
  BY <1>1, EmptySeq DEF TypeOK
<1>3. ExchangeOK
  BY QtyAssumption DEF ExchangeOK
<1>4. \A k \in Keys : FillsOf(k) = {}
  <2>1. KeptFills(<<>>) = {}
    BY DEF KeptFills
  <2> QED
    BY <2>1, <1>1 DEF FillsOf, WireFills
<1>5. FillsApart
  BY <1>4 DEF FillsApart
<1>6. BookOK
  BY <1>1 DEF BookOK
<1>7. ReplayOK /\ LsTracked
  BY DEF ReplayOK, LsTracked
<1> QED
  BY <1>2, <1>3, <1>5, <1>6, <1>7 DEF CountInv

(* The exchange has executed n lots of order k; F are the new fills, st    *)
(* its state, g the lots executed at once, W what it sends.                *)
Executes(k, n, g, F, st, W) ==
  /\ st \in {"live", "done"} /\ n \in Nat /\ g \in Nat
  /\ xfilled[k] <= n /\ n <= Qty[k] /\ g <= n
  /\ \A f \in F : f \subseteq (xfilled[k] + 1) .. n
  /\ \A e, f \in F : e = f \/ e \cap f = {}
  /\ \A m \in W : m \in Message /\ m.key = k /\ (m.kind = "fill" => m.lots \in F)
  /\ xs' = [xs EXCEPT ![k] = st]
  /\ xfilled' = [xfilled EXCEPT ![k] = n]
  /\ xfirst' = [xfirst EXCEPT ![k] = g]
  /\ wire' = wire \cup W
  /\ UNCHANGED <<repeats, resp, books, buffer, replaying>>

LEMMA ExecuteInv ==
  ASSUME CountInv, replaying = NoKey, NEW k \in Keys, NEW n, NEW g, NEW F, NEW st,
         NEW W, Executes(k, n, g, F, st, W)
  PROVE  CountInv'
<1> USE DEF CountInv, Executes
<1>2. TypeOK'
  <2>2. wire' \subseteq Message
    BY DEF TypeOK
  <2>3. xs' \in [Keys -> {"none", "live", "done", "refused"}]
    BY DEF TypeOK
  <2> QED
    BY <2>2, <2>3 DEF TypeOK, books, buffer
<1>3. ExchangeOK'
  BY DEF ExchangeOK, TypeOK
<1>4. \A j \in Keys : FillsOf(j)' \subseteq FillsOf(j) \cup (IF j = k THEN F ELSE {})
  <2>1. \A j \in Keys : WireFills(j)' \subseteq
                          WireFills(j) \cup (IF j = k THEN F ELSE {})
    BY DEF WireFills
  <2> QED
    BY <2>1 DEF FillsOf, books, buffer
<1>5. FillsApart'
  <2>1. ASSUME NEW j \in Keys
        PROVE  /\ \A f \in FillsOf(j)' : f \subseteq 1 .. xfilled'[j]
               /\ \A e, f \in FillsOf(j)' : e = f \/ e \cap f = {}
    <3>1. /\ \A f \in FillsOf(j) : f \subseteq 1 .. xfilled[j]
          /\ \A e, f \in FillsOf(j) : e = f \/ e \cap f = {}
      BY DEF FillsApart
    <3>2. CASE j = k
      <4>1. xfilled[k] \in Nat /\ xfilled'[k] = n
        BY DEF TypeOK
      <4>2. \A e \in FillsOf(k), f \in F : e \cap f = {}
        BY <3>1, <3>2, <4>1
      <4>3. \A f \in FillsOf(k) \cup F : f \subseteq 1 .. n
        BY <3>1, <3>2, <4>1
      <4> QED
        BY <3>1, <3>2, <4>1, <4>2, <4>3, <1>4
    <3>3. CASE j # k
      <4>1. xfilled'[j] = xfilled[j]
        BY <3>3 DEF TypeOK
      <4> QED
        BY <3>1, <3>3, <4>1, <1>4
    <3> QED
      BY <3>2, <3>3
  <2> QED
    BY <2>1 DEF FillsApart
<1>6. BookOK'
  <2>1. ASSUME NEW j \in Keys PROVE Sound(book[j], xfilled'[j])
    <3>1. /\ Sound(book[j], xfilled[j]) /\ book[j] \in OrderRecord
          /\ xfilled[j] \in Nat /\ xfilled'[j] \in Nat /\ xfilled[j] <= xfilled'[j]
      BY DEF BookOK, TypeOK
    <3>2. 1 .. xfilled[j] \subseteq 1 .. xfilled'[j]
      BY <3>1
    <3>3. book[j].filled <= xfilled'[j]
      BY <3>1 DEF Sound, OrderRecord
    <3> QED
      BY <3>1, <3>2, <3>3 DEF Sound
  <2> QED
    BY <2>1 DEF BookOK, books
<1>7. ReplayOK' /\ LsTracked'
  BY DEF ReplayOK, LsTracked, books
<1> QED
  BY <1>2, <1>3, <1>5, <1>6, <1>7

(* A notice that brings no fill changes nothing the invariant relates.     *)
LEMMA NoticeInv ==
  ASSUME CountInv, replaying = NoKey, NEW m \in Message, m.kind # "fill",
         xs' \in [Keys -> {"none", "live", "done", "refused"}],
         \A k \in Keys : xs'[k] = "none" => xs[k] = "none",
         wire' = wire \cup {m} \/ wire' = wire,
         resp' \in [Keys -> {"idle", "wait", "held", "done", "gone"}],
         \A k \in LsKeys : resp[k] = "done" => resp'[k] = "done",
         UNCHANGED <<xfilled, xfirst, repeats, books, buffer, replaying>>
  PROVE  CountInv'
<1> USE DEF CountInv
<1>1. TypeOK'
  BY DEF TypeOK, books, buffer
<1>2. ExchangeOK'
  BY DEF ExchangeOK
<1>3. \A j \in Keys : FillsOf(j)' \subseteq FillsOf(j)
  BY DEF FillsOf, WireFills, books, buffer
<1>4. FillsApart'
  BY <1>3, FillsMove
<1>5. BookOK'
  BY DEF BookOK, books
<1>6. ReplayOK' /\ LsTracked'
  BY DEF ReplayOK, LsTracked, books
<1> QED
  BY <1>1, <1>2, <1>4, <1>5, <1>6


LEMMA ExchangeInv ==
  ASSUME CountInv, replaying = NoKey, NEW k \in Keys, Exchange(k)
  PROVE  CountInv'
<1> Qty[k] \in Nat \ {0} /\ xfilled[k] \in Nat /\ xfirst[k] \in Nat
  BY QtyAssumption DEF CountInv, TypeOK
<1>1. ASSUME NEW q \in 0 .. Qty[k], NEW s \in 0 .. q, XAccept(k, q, s)
      PROVE  CountInv'
  <2> DEFINE F == {1 .. s, (s + 1) .. q} \ {{}}
             st == IF q = Qty[k] THEN "done" ELSE "live"
             W == {Ack(k)} \cup {Fill(k, f) : f \in F}
  <2>1. xfilled[k] = 0
    BY <1>1 DEF XAccept, CountInv, ExchangeOK
  <2>2. \A f \in F : f \subseteq (xfilled[k] + 1) .. q
    BY <2>1
  <2>3. \A e, f \in F : e = f \/ e \cap f = {}
    OBVIOUS
  <2>4. /\ xs' = [xs EXCEPT ![k] = st]
        /\ xfilled' = [xfilled EXCEPT ![k] = q]
        /\ xfirst' = [xfirst EXCEPT ![k] = q]
        /\ wire' = wire \cup W
        /\ UNCHANGED <<repeats, resp, books, buffer, replaying>>
    BY <1>1 DEF XAccept
  <2>5. st \in {"live", "done"} /\ q \in Nat /\ xfilled[k] <= q /\ q <= Qty[k]
    BY <2>1
  <2>6. \A m \in W : m \in Message /\ m.key = k /\ (m.kind = "fill" => m.lots \in F)
    <3>1. \A f \in F : f \in SUBSET Nat
      OBVIOUS
    <3> HIDE DEF F
    <3> QED
      BY <3>1 DEF Ack, Fill, Message, Kinds
  <2> HIDE DEF F, st, W
  <2>7. Executes(k, q, q, F, st, W)
    BY <2>2, <2>3, <2>4, <2>5, <2>6 DEF Executes
  <2> QED
    BY <2>7, ExecuteInv
<1>2. ASSUME NEW q \in 1 .. Qty[k], XFill(k, q)
      PROVE  CountInv'
  <2> DEFINE F == {(xfilled[k] + 1) .. (xfilled[k] + q)}
             st == IF q = XLeft(k) THEN "done" ELSE "live"
             n == xfilled[k] + q
             g == xfirst[k]
             W == {Fill(k, f) : f \in F}
  <2>1. n \in Nat /\ xfilled[k] <= n /\ n <= Qty[k] /\ g <= n
    BY <1>2 DEF XFill, XLeft, CountInv, ExchangeOK
  <2>2. \A f \in F : f \subseteq (xfilled[k] + 1) .. n
    OBVIOUS
  <2>3. \A e, f \in F : e = f \/ e \cap f = {}
    OBVIOUS
  <2>4. /\ xs' = [xs EXCEPT ![k] = st]
        /\ xfilled' = [xfilled EXCEPT ![k] = n]
        /\ wire' = wire \cup W
        /\ UNCHANGED <<xfirst, repeats, resp, books, buffer, replaying>>
    BY <1>2 DEF XFill, CountInv, TypeOK
  <2>5. xfirst' = [xfirst EXCEPT ![k] = g]
    BY <2>4 DEF CountInv, TypeOK
  <2>6. st \in {"live", "done"} /\ g \in Nat
    OBVIOUS
  <2>7. \A m \in W : m \in Message /\ m.key = k /\ (m.kind = "fill" => m.lots \in F)
    <3>1. \A f \in F : f \in SUBSET Nat
      OBVIOUS
    <3> HIDE DEF F
    <3> QED
      BY <3>1 DEF Fill, Message, Kinds
  <2> HIDE DEF F, st, n, g, W
  <2>8. Executes(k, n, g, F, st, W)
    BY <2>1, <2>2, <2>3, <2>4, <2>5, <2>6, <2>7 DEF Executes
  <2> QED
    BY <2>8, ExecuteInv
<1>3. ASSUME NEW notify \in BOOLEAN, XRefuse(k, notify)
      PROVE  CountInv'
  <2>1. Reject(k) \in Message /\ Reject(k).kind # "fill"
    BY DEF Reject, Message, Kinds
  <2>2. /\ xs' \in [Keys -> {"none", "live", "done", "refused"}]
        /\ \A j \in Keys : xs'[j] = "none" => xs[j] = "none"
        /\ wire' = wire \cup {Reject(k)} \/ wire' = wire
        /\ UNCHANGED <<xfilled, xfirst, repeats, resp, books, buffer, replaying>>
    BY <1>3 DEF XRefuse, CountInv, TypeOK
  <2> QED
    BY <2>1, <2>2, NoticeInv DEF CountInv, TypeOK
<1>4. ASSUME XCancel(k) PROVE CountInv'
  <2>1. Cancel(k, XLeft(k)) \in Message /\ Cancel(k, XLeft(k)).kind # "fill"
    BY DEF Cancel, Message, Kinds, XLeft, CountInv, ExchangeOK
  <2>2. /\ xs' \in [Keys -> {"none", "live", "done", "refused"}]
        /\ \A j \in Keys : xs'[j] = "none" => xs[j] = "none"
        /\ wire' = wire \cup {Cancel(k, XLeft(k))}
        /\ UNCHANGED <<xfilled, xfirst, repeats, resp, books, buffer, replaying>>
    BY <1>4 DEF XCancel, CountInv, TypeOK
  <2> QED
    BY <2>1, <2>2, NoticeInv DEF CountInv, TypeOK
<1>5. ASSUME XReject(k) PROVE CountInv'
  <2>1. Reject(k) \in Message /\ Reject(k).kind # "fill"
    BY DEF Reject, Message, Kinds
  <2>2. /\ xs' \in [Keys -> {"none", "live", "done", "refused"}]
        /\ \A j \in Keys : xs'[j] = "none" => xs[j] = "none"
        /\ wire' = wire \cup {Reject(k)}
        /\ UNCHANGED <<xfilled, xfirst, repeats, resp, books, buffer, replaying>>
    BY <1>5 DEF XReject, CountInv, TypeOK
  <2> QED
    BY <2>1, <2>2, NoticeInv DEF CountInv, TypeOK
<1> QED
  BY <1>1, <1>2, <1>3, <1>4, <1>5 DEF Exchange

(* A notice taken off the wire: it is a message, and its fill one of its   *)
(* order's.                                                                *)
LEMMA ConsumedOK ==
  ASSUME CountInv, NEW m, NEW again \in BOOLEAN, Consume(m, again)
  PROVE  /\ m \in Message /\ m.key \in Keys
         /\ wire' \subseteq wire /\ wire' \subseteq Message /\ repeats' \in Nat
         /\ m.kind = "fill" => m.lots \in FillsOf(m.key)
         /\ \A j \in Keys : WireFills(j)' \subseteq WireFills(j)
<1>1. m \in Message /\ m.key \in Keys /\ wire' \subseteq wire
  BY DEF Consume, CountInv, TypeOK, Message
<1>2. wire' \subseteq Message /\ repeats' \in Nat
  BY <1>1 DEF Consume, CountInv, TypeOK
<1>3. m.kind = "fill" => m.lots \in FillsOf(m.key)
  BY DEF Consume, FillsOf, WireFills
<1>4. \A j \in Keys : WireFills(j)' \subseteq WireFills(j)
  BY <1>1 DEF WireFills
<1> QED
  BY <1>1, <1>2, <1>3, <1>4

(* A notice of order k is handled soundly.                                 *)
LEMMA EventHandled ==
  ASSUME CountInv, NEW k \in Keys, NEW m \in Message,
         m.kind = "fill" => m.lots \in FillsOf(k)
  PROVE  /\ Handled(book[k], AfterEvent(book[k], m), xfilled[k], m.lots)
         /\ m.kind # "fill" => AfterEvent(book[k], m).seen = book[k].seen
<1>1. /\ book[k] \in OrderRecord /\ xfilled[k] \in Nat
      /\ xfilled[k] <= book[k].qty /\ Sound(book[k], xfilled[k])
  BY DEF CountInv, TypeOK, ExchangeOK, BookOK
<1>2. m.kind = "fill" =>
        /\ m.lots \subseteq 1 .. xfilled[k]
        /\ \A g \in book[k].seen : g = m.lots \/ g \cap m.lots = {}
  BY DEF CountInv, FillsApart, FillsOf
<1> QED
  BY <1>1, <1>2, EventSound

LEMMA DeliverTrackedInv ==
  ASSUME CountInv, replaying = NoKey, NEW m, NEW again \in BOOLEAN,
         DeliverTracked(m, again)
  PROVE  CountInv'
<1> DEFINE k == m.key
           p == AfterEvent(book[k], m)
<1>1. Consume(m, again) /\ k \in tracked /\ SetOrder(k, p)
      /\ UNCHANGED <<exchange, resp, tracked, buffer, replaying>>
  BY DEF DeliverTracked
<1>2. /\ m \in Message /\ k \in Keys
      /\ wire' \subseteq wire /\ wire' \subseteq Message /\ repeats' \in Nat
      /\ m.kind = "fill" => m.lots \in FillsOf(k)
      /\ \A j \in Keys : WireFills(j)' \subseteq WireFills(j)
  BY <1>1, ConsumedOK
<1>3. /\ Handled(book[k], p, xfilled[k], m.lots)
      /\ m.kind # "fill" => p.seen = book[k].seen
  BY <1>2, EventHandled
<1> HIDE DEF p, k
<1>4. /\ book' \in [Keys -> OrderRecord] /\ told' \in [Keys -> Nat]
      /\ BookOK'
      /\ \A j \in Keys : book'[j].seen \subseteq
              (IF j = k THEN book[k].seen \cup {m.lots} ELSE book[j].seen)
  BY <1>1, <1>2, <1>3, HandledStep DEF CountInv
<1>5. book'[k] = p
  BY <1>1, <1>2 DEF SetOrder, CountInv, TypeOK
<1>6. \A j \in Keys : FillsOf(j)' \subseteq FillsOf(j)
  <2>1. \A j \in Keys : book'[j].seen \subseteq FillsOf(j)
    BY <1>2, <1>3, <1>4, <1>5 DEF FillsOf
  <2> QED
    BY <2>1, <1>1, <1>2 DEF FillsOf, buffer
<1>7. FillsApart'
  BY <1>1, <1>6, FillsMove DEF exchange, CountInv
<1>8. TypeOK'
  BY <1>1, <1>2, <1>4 DEF CountInv, TypeOK, exchange, buffer
<1>9. ExchangeOK' /\ ReplayOK' /\ LsTracked'
  BY <1>1 DEF CountInv, ExchangeOK, ReplayOK, LsTracked, exchange, buffer
<1> QED
  BY <1>4, <1>7, <1>8, <1>9 DEF CountInv

LEMMA DeliverUntrackedInv ==
  ASSUME CountInv, replaying = NoKey, NEW m, NEW again \in BOOLEAN,
         DeliverUntracked(m, again)
  PROVE  CountInv'
<1>1. /\ Consume(m, again)
      /\ BufferEvent(m) \/ UNCHANGED buffer
      /\ UNCHANGED <<exchange, books, replaying>>
      /\ resp' \in {resp, [resp EXCEPT ![m.key] = "gone"]}
      /\ resp' # resp => m.key \in HlKeys
  BY DEF DeliverUntracked
<1>2. /\ m \in Message /\ m.key \in Keys
      /\ wire' \subseteq wire /\ wire' \subseteq Message /\ repeats' \in Nat
      /\ m.kind = "fill" => m.lots \in FillsOf(m.key)
      /\ \A j \in Keys : WireFills(j)' \subseteq WireFills(j)
  BY <1>1, ConsumedOK
<1>3. /\ pending' \in [Keys -> Seq(Message)] /\ rank' \in [Keys -> Nat]
      /\ \A j \in Keys : KeptFills(pending'[j]) \subseteq KeptFills(pending[j])
           \cup (IF j = m.key /\ m.kind = "fill" THEN {m.lots} ELSE {})
  BY <1>1, <1>2, BufferKeeps DEF CountInv, TypeOK, buffer
<1>4. \A j \in Keys : FillsOf(j)' \subseteq FillsOf(j)
  BY <1>1, <1>2, <1>3 DEF FillsOf, books
<1>5. FillsApart'
  BY <1>1, <1>4, FillsMove DEF exchange, CountInv
<1>6. BookOK'
  BY <1>1, BookUnchanged DEF CountInv
<1>7. TypeOK'
  BY <1>1, <1>2, <1>3 DEF CountInv, TypeOK, exchange, books
<1>8. ExchangeOK' /\ ReplayOK'
  BY <1>1 DEF CountInv, ExchangeOK, ReplayOK, exchange
<1>9. LsTracked'
  BY <1>1, KeysAssumption DEF CountInv, LsTracked, books, TypeOK, Keys
<1> QED
  BY <1>5, <1>6, <1>7, <1>8, <1>9 DEF CountInv


(* Placing, failing and giving up change nothing the invariant relates.    *)
LEMMA CallInv ==
  ASSUME CountInv, replaying = NoKey,
         resp' \in [Keys -> {"idle", "wait", "held", "done", "gone"}],
         \A j \in LsKeys : resp[j] = "done" => resp'[j] = "done",
         UNCHANGED <<exchange, wire, repeats, books, buffer, replaying>>
  PROVE  CountInv'
<1>1. TypeOK'
  BY DEF CountInv, TypeOK, exchange, books, buffer
<1>2. \A j \in Keys : FillsOf(j)' \subseteq FillsOf(j)
  BY DEF FillsOf, WireFills, books, buffer
<1>3. FillsApart'
  BY <1>2, FillsMove DEF CountInv, exchange
<1>4. BookOK'
  BY BookUnchanged DEF CountInv
<1>5. ExchangeOK' /\ ReplayOK' /\ LsTracked'
  BY DEF CountInv, ExchangeOK, ReplayOK, LsTracked, exchange, books, buffer
<1> QED
  BY <1>1, <1>3, <1>4, <1>5 DEF CountInv

(* Tracking an order anew: its book entry stays pristine.                  *)
LEMMA TrackInv ==
  ASSUME CountInv, replaying = NoKey, NEW k \in Keys, k \notin tracked,
         tracked' = tracked \cup {k},
         book' = [book EXCEPT ![k] = NewOrder(Qty[k])],
         resp' \in [Keys -> {"idle", "wait", "held", "done", "gone"}],
         \A j \in LsKeys : resp[j] = "done" => resp'[j] = "done",
         k \in LsKeys => resp'[k] = "done",
         wire' \subseteq wire, repeats' \in Nat,
         pending' \in [Keys -> Seq(Message)],
         \A j \in Keys : KeptFills(pending'[j]) \subseteq KeptFills(pending[j]),
         replaying' = IF pending'[k] = <<>> THEN NoKey ELSE k,
         UNCHANGED <<exchange, told, rank>>
  PROVE  CountInv'
<1>1. book' = book
  BY DEF CountInv, BookOK, TypeOK
<1>2. TypeOK'
  BY <1>1 DEF CountInv, TypeOK, exchange
<1>3. \A j \in Keys : FillsOf(j)' \subseteq FillsOf(j)
  BY <1>1 DEF FillsOf, WireFills
<1>4. FillsApart'
  BY <1>3, FillsMove DEF CountInv, exchange
<1>5. BookOK'
  BY <1>1 DEF CountInv, BookOK, exchange
<1>6. ExchangeOK' /\ ReplayOK'
  BY DEF CountInv, ExchangeOK, ReplayOK, exchange
<1>7. LsTracked'
  BY DEF CountInv, LsTracked
<1> QED
  BY <1>2, <1>4, <1>5, <1>6, <1>7 DEF CountInv

LEMMA IdentifyInv ==
  ASSUME CountInv, replaying = NoKey, NEW m, IdentifyHl(m)
  PROVE  CountInv'
<1> DEFINE k == m.key
<1>1. Identifiable(k) /\ m.kind \in {"ack", "cancel"} /\ Consume(m, FALSE)
  BY DEF IdentifyHl
<1>2. m \in Message /\ k \in Keys /\ wire' \subseteq wire /\ repeats' \in Nat
  BY <1>1, ConsumedOK
<1>3. k \in HlKeys /\ k \notin tracked /\ k \notin LsKeys
  BY <1>1, KeysAssumption DEF Identifiable
<1>4. /\ pending' \in [Keys -> Seq(Message)]
      /\ \A j \in Keys : KeptFills(pending'[j]) \subseteq KeptFills(pending[j])
  <2>1. CASE m.kind = "cancel"
    <3>1. pending' = [pending EXCEPT ![k] = Append(@, m)]
      BY <2>1 DEF IdentifyHl
    <3>2. pending[k] \in Seq(Message)
      BY <1>2 DEF CountInv, TypeOK
    <3>3. /\ Append(pending[k], m) \in Seq(Message)
          /\ KeptFills(Append(pending[k], m)) \subseteq KeptFills(pending[k])
      BY <3>2, <1>2, <2>1, AppendKept
    <3> QED
      BY <3>1, <3>3, <1>2 DEF CountInv, TypeOK
  <2>2. CASE m.kind # "cancel"
    BY <2>2 DEF IdentifyHl, CountInv, TypeOK
  <2> QED
    BY <2>1, <2>2
<1>5. /\ resp' \in [Keys -> {"idle", "wait", "held", "done", "gone"}]
      /\ \A j \in LsKeys : resp[j] = "done" => resp'[j] = "done"
  BY <1>2, <1>3 DEF IdentifyHl, CountInv, TypeOK, Keys
<1>6. /\ tracked' = tracked \cup {k}
      /\ book' = [book EXCEPT ![k] = NewOrder(Qty[k])]
      /\ replaying' = IF pending'[k] = <<>> THEN NoKey ELSE k
      /\ UNCHANGED <<exchange, told, rank>>
  BY DEF IdentifyHl
<1> HIDE DEF k
<1> QED
  BY <1>2, <1>3, <1>4, <1>5, <1>6, TrackInv

(* The late lookup finds the order; it is tracked unless a notice did so.  *)
LEMMA RecheckFindsInv ==
  ASSUME CountInv, replaying = NoKey, NEW k \in Keys, RecheckFinds(k)
  PROVE  CountInv'
<1>1. /\ resp' = [resp EXCEPT ![k] = "done"] /\ resp[k] = "held"
      /\ UNCHANGED <<exchange, wire, repeats, told, buffer>>
  BY DEF RecheckFinds
<1>2. /\ resp' \in [Keys -> {"idle", "wait", "held", "done", "gone"}]
      /\ \A j \in LsKeys : resp[j] = "done" => resp'[j] = "done"
      /\ resp'[k] = "done"
  BY <1>1 DEF CountInv, TypeOK, Keys
<1>3. CASE k \in tracked
  <2>1. UNCHANGED <<tracked, book, replaying>>
    BY <1>3 DEF RecheckFinds
  <2> QED
    BY <1>1, <1>2, <2>1, CallInv DEF books
<1>4. CASE k \notin tracked
  <2>1. /\ tracked' = tracked \cup {k}
        /\ book' = [book EXCEPT ![k] = NewOrder(Qty[k])]
        /\ StartReplay(k)
    BY <1>4 DEF RecheckFinds
  <2>2. /\ pending' = pending /\ rank' = rank /\ wire' = wire
        /\ pending' \in [Keys -> Seq(Message)]
        /\ repeats' \in Nat
        /\ replaying' = IF pending'[k] = <<>> THEN NoKey ELSE k
    BY <1>1, <2>1 DEF buffer, StartReplay, CountInv, TypeOK
  <2> QED
    BY <1>1, <1>2, <1>4, <2>1, <2>2, TrackInv
<1> QED
  BY <1>3, <1>4

LEMMA RespondLsInv ==
  ASSUME CountInv, replaying = NoKey, NEW k \in Keys, RespondLs(k)
  PROVE  CountInv'
<1>1. /\ k \in LsKeys /\ resp[k] = "wait"
      /\ resp' = [resp EXCEPT ![k] = "done"]
      /\ tracked' = tracked \cup {k}
      /\ book' = [book EXCEPT ![k] = NewOrder(Qty[k])]
      /\ StartReplay(k)
      /\ UNCHANGED <<exchange, wire, repeats, told, buffer>>
  BY DEF RespondLs
<1>2. k \notin tracked
  BY <1>1 DEF CountInv, LsTracked
<1>3. /\ resp' \in [Keys -> {"idle", "wait", "held", "done", "gone"}]
      /\ \A j \in LsKeys : resp[j] = "done" => resp'[j] = "done"
      /\ resp'[k] = "done"
  BY <1>1 DEF CountInv, TypeOK, Keys
<1>4. /\ pending' = pending /\ rank' = rank /\ wire' = wire
      /\ pending' \in [Keys -> Seq(Message)]
      /\ repeats' \in Nat
      /\ replaying' = IF pending'[k] = <<>> THEN NoKey ELSE k
  BY <1>1 DEF buffer, StartReplay, CountInv, TypeOK
<1> QED
  BY <1>1, <1>2, <1>3, <1>4, TrackInv

LEMMA RespondHlInv ==
  ASSUME CountInv, replaying = NoKey, NEW k \in Keys, NEW q \in {0, xfirst[k]},
         RespondHl(k, q)
  PROVE  CountInv'
<1>1. /\ k \in HlKeys
      /\ resp' = [resp EXCEPT ![k] = "done"]
      /\ tracked' = tracked \cup {k}
      /\ SetOrder(k, Adopted(k, q))
      /\ StartReplay(k)
      /\ UNCHANGED <<exchange, wire, repeats, buffer>>
  BY DEF RespondHl
<1>2. Adopted(k, q) = IF q > book[k].filled
                      THEN AfterPlaceFill(book[k], q - book[k].filled)
                      ELSE book[k]
  BY DEF Adopted, CountInv, BookOK
<1>3. /\ book[k] \in OrderRecord /\ xfilled[k] \in Nat /\ q \in Nat
      /\ q <= xfilled[k] /\ Sound(book[k], xfilled[k])
  BY DEF CountInv, TypeOK, BookOK, ExchangeOK
<1>4. /\ Handled(book[k], Adopted(k, q), xfilled[k], {})
      /\ Adopted(k, q).seen = book[k].seen
  <2>1. CASE q > book[k].filled
    <3>1. /\ q - book[k].filled \in Nat
          /\ book[k].filled + (q - book[k].filled) <= xfilled[k]
      BY <1>3, <2>1 DEF OrderRecord
    <3> QED
      BY <3>1, <2>1, <1>2, <1>3, PlaceFillSound
  <2>2. CASE ~(q > book[k].filled)
    <3>1. Adopted(k, q) = book[k] /\ Shape(book[k])
      BY <2>2, <1>2, <1>3 DEF Sound
    <3> QED
      BY <3>1, <1>3, SameLotsSound
  <2> QED
    BY <2>1, <2>2
<1>5. /\ book' \in [Keys -> OrderRecord] /\ told' \in [Keys -> Nat] /\ BookOK'
  BY <1>1, <1>4, HandledStep DEF CountInv
<1>6. \A j \in Keys : book'[j].seen = book[j].seen
  BY <1>1, <1>4 DEF SetOrder, CountInv, TypeOK
<1>7. \A j \in Keys : FillsOf(j)' \subseteq FillsOf(j)
  BY <1>1, <1>6 DEF FillsOf, WireFills, buffer
<1>8. FillsApart'
  BY <1>1, <1>7, FillsMove DEF exchange, CountInv
<1>9. TypeOK'
  BY <1>1, <1>5 DEF CountInv, TypeOK, exchange, buffer, StartReplay
<1>10. ReplayOK' /\ ExchangeOK'
  BY <1>1 DEF CountInv, ReplayOK, ExchangeOK, exchange, buffer, StartReplay
<1>11. LsTracked'
  BY <1>1, KeysAssumption DEF CountInv, LsTracked, TypeOK
<1> QED
  BY <1>5, <1>8, <1>9, <1>10, <1>11 DEF CountInv

LEMMA ReplayInv ==
  ASSUME CountInv, Replay
  PROVE  CountInv'
<1> DEFINE k == replaying
           m == Head(pending[k])
           p == AfterEvent(book[k], m)
<1>1. k \in Keys /\ k \in tracked /\ pending[k] # <<>>
  BY DEF Replay, CountInv, ReplayOK, TypeOK
<1>2. /\ SetOrder(k, p)
      /\ pending' = [pending EXCEPT ![k] = Tail(@)]
      /\ rank' = RankWithout(k)
      /\ replaying' = IF Tail(pending[k]) = <<>> THEN NoKey ELSE k
      /\ UNCHANGED <<exchange, wire, repeats, resp, tracked>>
  BY DEF Replay
<1>3. pending[k] \in Seq(Message)
  BY <1>1 DEF CountInv, TypeOK
<1>4. /\ m \in Message /\ Tail(pending[k]) \in Seq(Message)
      /\ KeptFills(Tail(pending[k])) \subseteq KeptFills(pending[k])
      /\ m.kind = "fill" => m.lots \in KeptFills(pending[k])
  BY <1>1, <1>3, TailKept
<1>5. /\ Handled(book[k], p, xfilled[k], m.lots)
      /\ m.kind # "fill" => p.seen = book[k].seen
  BY <1>1, <1>4, EventHandled DEF FillsOf
<1> HIDE DEF p, m, k
<1>6. rank' \in [Keys -> Nat]
  <2>1. rank \in [Keys -> Nat]
    BY DEF CountInv, TypeOK
  <2>2. \A j \in Keys : rank[k] > 0 /\ rank[j] > rank[k] => rank[j] - 1 \in Nat
    BY <1>1, <2>1
  <2> QED
    BY <1>2, <2>1, <2>2 DEF RankWithout
<1>7. pending' \in [Keys -> Seq(Message)]
  BY <1>1, <1>2, <1>4 DEF CountInv, TypeOK
<1>8. BookOK' /\ book' \in [Keys -> OrderRecord] /\ told' \in [Keys -> Nat]
  BY <1>1, <1>2, <1>5, HandledStep DEF CountInv
<1>9. book'[k] = p /\ \A j \in Keys \ {k} : book'[j] = book[j]
  BY <1>1, <1>2 DEF SetOrder, CountInv, TypeOK
<1>10. \A j \in Keys : FillsOf(j)' \subseteq FillsOf(j)
  <2>1. ASSUME NEW j \in Keys PROVE FillsOf(j)' \subseteq FillsOf(j)
    <3>1. CASE j = k
      <4>1. book'[j].seen \subseteq FillsOf(j)
        BY <3>1, <1>4, <1>5, <1>9 DEF FillsOf, Handled
      <4>2. pending'[j] = Tail(pending[k])
        BY <3>1, <1>1, <1>2 DEF CountInv, TypeOK
      <4> QED
        BY <3>1, <4>1, <4>2, <1>2, <1>4 DEF FillsOf, WireFills
    <3>2. CASE j # k
      <4>1. book'[j] = book[j] /\ pending'[j] = pending[j]
        BY <3>2, <1>2, <1>9 DEF CountInv, TypeOK
      <4> QED
        BY <4>1, <1>2 DEF FillsOf, WireFills
    <3> QED
      BY <3>1, <3>2
  <2> QED
    BY <2>1
<1>11. FillsApart'
  BY <1>2, <1>10, FillsMove DEF exchange, CountInv
<1>12. TypeOK'
  BY <1>1, <1>2, <1>6, <1>7, <1>8 DEF CountInv, TypeOK, exchange
<1>13. ReplayOK'
  <2>1. pending'[k] = Tail(pending[k])
    BY <1>1, <1>2 DEF CountInv, TypeOK
  <2>2. replaying' # NoKey =>
          replaying' = k /\ k \in tracked' /\ pending'[k] # <<>>
    BY <1>1, <1>2, <2>1
  <2> QED
    BY <2>2 DEF ReplayOK
<1>14. ExchangeOK' /\ LsTracked'
  BY <1>2 DEF CountInv, ExchangeOK, LsTracked, exchange
<1> QED
  BY <1>8, <1>11, <1>12, <1>13, <1>14 DEF CountInv


-----------------------------------------------------------------------------
(* The theorems.                                                           *)

LEMMA StepInv ==
  ASSUME CountInv, [Next]_vars
  PROVE  CountInv'
<1>1. CASE Replay
  BY <1>1, ReplayInv
<1>2. CASE replaying = NoKey /\ Step
  <2>1. ASSUME NEW k \in Keys, Exchange(k) PROVE CountInv'
    BY <1>2, <2>1, ExchangeInv
  <2>2. ASSUME NEW k \in Keys,
               Place(k) \/ PlaceFails(k) \/ RecheckGivesUp(k)
        PROVE  CountInv'
    <3>1. /\ resp' \in [Keys -> {"idle", "wait", "held", "done", "gone"}]
          /\ \A j \in LsKeys : resp[j] = "done" => resp'[j] = "done"
          /\ UNCHANGED <<exchange, wire, repeats, books, buffer, replaying>>
      BY <2>2 DEF Place, PlaceFails, RecheckGivesUp, CountInv, TypeOK, Keys
    <3> QED
      BY <3>1, <1>2, CallInv
  <2>3. ASSUME NEW k \in Keys, RespondLs(k) PROVE CountInv'
    BY <1>2, <2>3, RespondLsInv
  <2>4. ASSUME NEW k \in Keys, NEW q \in {0, xfirst[k]}, RespondHl(k, q)
        PROVE  CountInv'
    BY <1>2, <2>4, RespondHlInv
  <2>5. ASSUME NEW k \in Keys, RecheckFinds(k) PROVE CountInv'
    BY <1>2, <2>5, RecheckFindsInv
  <2>6. ASSUME NEW m \in wire, NEW again \in BOOLEAN, Deliver(m, again)
        PROVE  CountInv'
    <3>1. CASE DeliverTracked(m, again)
      BY <1>2, <3>1, DeliverTrackedInv
    <3>2. CASE IdentifyHl(m)
      BY <1>2, <3>2, IdentifyInv
    <3>3. CASE DeliverUntracked(m, again)
      BY <1>2, <3>3, DeliverUntrackedInv
    <3> QED
      BY <2>6, <3>1, <3>2, <3>3 DEF Deliver
  <2> QED
    BY <1>2, <2>1, <2>2, <2>3, <2>4, <2>5, <2>6 DEF Step, Respond, Recheck
<1>3. CASE UNCHANGED vars
  <2>1. FillsApart'
    BY <1>3, FillsMove DEF CountInv, vars, FillsOf, WireFills
  <2> QED
    BY <1>3, <2>1 DEF CountInv, vars, TypeOK, ReplayOK, ExchangeOK, BookOK, LsTracked
<1> QED
  BY <1>1, <1>2, <1>3 DEF Next

(* Every order of the book stays sound against what the exchange executed  *)
(* (order_book.py on_fill, apply_place_fill, replay_pending; bootstrap.py  *)
(* place, _adopt_hl_order, _identify_hl_order).                            *)
THEOREM Counted == Spec => []CountInv
<1>1. Init => CountInv
  BY InitInv
<1>2. CountInv /\ [Next]_vars => CountInv'
  BY StepInv
<1> QED
  BY <1>1, <1>2, PTL DEF Spec

(* Every variable of the order flow keeps its type: every buffered event,  *)
(* every tracked order, and the rank of every key of _pending.             *)
THEOREM TypeCorrect == Spec => []TypeOK
<1>1. CountInv => TypeOK
  BY DEF CountInv
<1> QED
  BY <1>1, Counted, PTL

(* No lot is announced to the engines that the exchange has not executed,  *)
(* for any orders, any splitting into fills, any order and any repetition  *)
(* of the notices, and any limit of the buffer.                            *)
THEOREM NoPhantom == Spec => []NoPhantomFill
<1>1. CountInv => NoPhantomFill
  BY DEF CountInv, NoPhantomFill, BookOK, Sound
<1> QED
  BY <1>1, Counted, PTL

-----------------------------------------------------------------------------
(* One order.                                                              *)

(* A closed order has counted all that was executed.                       *)
LEMMA ClosedCounts ==
  ASSUME NEW o \in OrderRecord, NEW x \in Nat, x <= o.qty, Sound(o, x),
         Settled(o, x), ~IsOpen(o)
  PROVE  o.filled = x
<1>1. o.status \in {"filled", "cancelled", "rejected"}
  BY DEF OrderRecord, IsOpen, OpenStatus, ClosedStatus
<1>2. CASE o.status = "filled"
  BY <1>2 DEF Sound, Shape, OrderRecord
<1>3. CASE o.status = "cancelled"
  BY <1>3 DEF Sound, Settled, Remaining, OrderRecord
<1>4. CASE o.status = "rejected"
  BY <1>4 DEF Sound, Settled, OrderRecord
<1> QED
  BY <1>1, <1>2, <1>3, <1>4

(* Recounting changes the status alone: an open order is cancelled only    *)
(* with nothing remaining, and never rejected.                             *)
LEMMA RecountEnds ==
  ASSUME NEW o \in OrderRecord
  PROVE  /\ Recount(o).qty = o.qty /\ Recount(o).filled = o.filled
         /\ Recount(o).cancelled = o.cancelled /\ Recount(o).seen = o.seen
         /\ Recount(o).prov = o.prov
         /\ ~IsOpen(o) => Recount(o).status = o.status
         /\ IsOpen(o) /\ Recount(o).status = "cancelled" => Remaining(o) = 0
         /\ IsOpen(o) => Recount(o).status # "rejected"
<1>1. CASE IsOpen(o)
  <2>1. Recount(o) = [o EXCEPT !.status = StatusAfterQty(o)]
    BY <1>1 DEF Recount
  <2>2. StatusAfterQty(o) = "cancelled" => Remaining(o) = 0
    BY <1>1 DEF StatusAfterQty, Remaining, OrderRecord, IsOpen, OpenStatus
  <2>3. StatusAfterQty(o) # "rejected"
    BY <1>1 DEF StatusAfterQty, Remaining, OrderRecord, IsOpen, OpenStatus
  <2> HIDE DEF StatusAfterQty
  <2> QED
    BY <1>1, <2>1, <2>2, <2>3 DEF OrderRecord
<1>2. CASE ~IsOpen(o)
  BY <1>2 DEF Recount, OrderRecord
<1> QED
  BY <1>1, <1>2

(* What a change of an order does to its end: nothing is remembered of     *)
(* one, the quantities only grow, and a closed order stays closed.         *)
SameEnd(o, p, x) ==
  /\ Settled(p, x)
  /\ p.cancelled = o.cancelled
  /\ p.status = "rejected" <=> o.status = "rejected"
  /\ ~IsOpen(o) => ~IsOpen(p)

(* An order recounted with other quantities filled.                        *)
LEMMA RefilledEnds ==
  ASSUME NEW o \in OrderRecord, NEW x \in Nat, Settled(o, x),
         NEW n \in OrderRecord, n.qty = o.qty, n.cancelled = o.cancelled,
         n.status = o.status, o.filled <= n.filled
  PROVE  SameEnd(o, Recount(n), x)
<1> DEFINE p == Recount(n)
<1>1. /\ p.qty = n.qty /\ p.filled = n.filled /\ p.cancelled = n.cancelled
      /\ ~IsOpen(n) => p.status = n.status
      /\ IsOpen(n) /\ p.status = "cancelled" => Remaining(n) = 0
      /\ IsOpen(n) => p.status # "rejected"
  BY RecountEnds
<1> HIDE DEF p
<1>2. Remaining(o) = 0 => Remaining(n) = 0
  BY DEF Remaining, OrderRecord
<1>3. Remaining(p) = Remaining(n)
  BY <1>1 DEF Remaining
<1>4. IsOpen(n) <=> IsOpen(o)
  BY DEF IsOpen
<1>5. o.status = "rejected" => ~IsOpen(o)
  BY DEF IsOpen, OpenStatus
<1>6. /\ p.status = "rejected" <=> o.status = "rejected"
      /\ ~IsOpen(o) => ~IsOpen(p)
  BY <1>1, <1>4, <1>5 DEF IsOpen
<1>7. Settled(p, x)
  BY <1>1, <1>2, <1>3, <1>4, <1>6 DEF Settled, IsOpen
<1> QED
  BY <1>1, <1>6, <1>7 DEF SameEnd, p

LEMMA FillEnds ==
  ASSUME NEW o \in OrderRecord, NEW x \in Nat, Settled(o, x), ~o.assumed,
         NEW f \in SUBSET Nat, IsFiniteSet(f)
  PROVE  /\ SameEnd(o, AfterFill(o, f), x)
         /\ AfterFill(o, f).seen = o.seen \cup {f}
<1>1. CASE f \in o.seen
  <2>1. AfterFill(o, f) = o /\ o.seen = o.seen \cup {f}
    BY <1>1 DEF AfterFill
  <2> QED
    BY <2>1 DEF SameEnd
<1>2. CASE f \notin o.seen
  <2> DEFINE n == Note(o, f)
             r == Rest(o, f)
             ab == Absorbed(o, f)
  <2>1. Cardinality(f) \in Nat
    BY FS_CardinalityType
  <2>2. ab \in Nat /\ ab <= o.prov /\ r \in Nat
    BY <2>1 DEF Absorbed, Rest, OrderRecord
  <2>3. /\ n \in OrderRecord /\ n.seen = o.seen \cup {f} /\ n.qty = o.qty
        /\ n.cancelled = o.cancelled /\ n.filled = o.filled
        /\ n.status = o.status /\ n.assumed = o.assumed
    <3>1. n = [o EXCEPT !.seen = @ \cup {f}, !.prov = @ - ab]
      BY DEF Note
    <3>2. o.prov - ab \in Nat
      BY <2>2 DEF OrderRecord
    <3>3. o.seen \cup {f} \in SUBSET (SUBSET Nat)
      BY DEF OrderRecord
    <3> HIDE DEF n, ab
    <3> QED
      BY <3>1, <3>2, <3>3 DEF OrderRecord
  <2> HIDE DEF ab
  <2>4. CASE Drops(o, f)
    <3>1. AfterFill(o, f) = n
      BY <1>2, <2>4 DEF AfterFill
    <3>2. SameEnd(o, n, x)
      BY <2>3 DEF SameEnd, Settled, Remaining, IsOpen
    <3> QED
      BY <3>1, <3>2, <2>3
  <2>5. CASE ~Drops(o, f)
    <3> DEFINE q == [n EXCEPT !.filled = @ + r]
    <3>1. Reclaim(n, r) = n
      BY <2>3 DEF Reclaim
    <3>2. AfterFill(o, f) = Recount(q)
      BY <3>1, <1>2, <2>5 DEF AfterFill, ApplyFill
    <3> HIDE DEF n, r
    <3>3. /\ q \in OrderRecord /\ q.qty = o.qty /\ q.cancelled = o.cancelled
          /\ q.status = o.status /\ o.filled <= q.filled
          /\ q.seen = o.seen \cup {f}
      BY <2>2, <2>3 DEF OrderRecord
    <3> HIDE DEF q
    <3>4. SameEnd(o, Recount(q), x)
      BY <3>3, RefilledEnds
    <3>5. Recount(q).seen = q.seen
      BY <3>3, RecountEnds
    <3> QED
      BY <3>2, <3>3, <3>4, <3>5
  <2> QED
    BY <2>4, <2>5
<1> QED
  BY <1>1, <1>2

LEMMA PlaceFillEnds ==
  ASSUME NEW o \in OrderRecord, NEW x \in Nat, Settled(o, x), NEW q \in Nat
  PROVE  SameEnd(o, AfterPlaceFill(o, q), x)
<1> DEFINE a == PlaceApplied(o, q)
<1>1. a \in Nat
  BY DEF PlaceApplied, Remaining, OrderRecord
<1>2. CASE a = 0
  <2>1. AfterPlaceFill(o, q) = o
    BY <1>2 DEF AfterPlaceFill
  <2> QED
    BY <2>1 DEF SameEnd
<1>3. CASE a # 0
  <2> DEFINE c == [o EXCEPT !.filled = @ + a]
             p == Recount(c)
             r == [p EXCEPT !.prov = @ + a]
  <2>1. AfterPlaceFill(o, q) = r
    BY <1>3 DEF AfterPlaceFill, ApplyFill
  <2> HIDE DEF a
  <2>2. /\ c \in OrderRecord /\ c.qty = o.qty /\ c.cancelled = o.cancelled
        /\ c.status = o.status /\ o.filled <= c.filled
    BY <1>1 DEF OrderRecord
  <2> HIDE DEF c
  <2>3. SameEnd(o, p, x)
    BY <2>2, RefilledEnds
  <2>4. p \in {c, [c EXCEPT !.status = StatusAfterQty(c)]}
    BY DEF Recount
  <2>5. /\ r.qty = p.qty /\ r.filled = p.filled /\ r.cancelled = p.cancelled
        /\ r.status = p.status
    BY <2>2, <2>4 DEF OrderRecord
  <2> HIDE DEF p, r
  <2>6. SameEnd(o, r, x)
    BY <2>3, <2>5 DEF SameEnd, Settled, Remaining, IsOpen
  <2> QED
    BY <2>1, <2>6
<1> QED
  BY <1>2, <1>3

(* The notice of an order's end finds it open, and ends it.                *)
LEMMA EndNoticeEnds ==
  ASSUME NEW o \in OrderRecord, NEW x \in Nat, x <= o.qty, o.qty > 0,
         Sound(o, x), Settled(o, x), ~HasEnded(o)
  PROVE  /\ x = 0 => /\ Settled(AfterReject(o), x)
                     /\ HasEnded(AfterReject(o))
         /\ o.qty - x > 0 => /\ Settled(AfterCancel(o, o.qty - x), x)
                             /\ HasEnded(AfterCancel(o, o.qty - x))
<1>1. /\ o.cancelled = 0 /\ o.status # "rejected" /\ o.filled <= x
      /\ o.status = "filled" => o.qty <= o.filled
      /\ o.status = "cancelled" => o.qty <= o.filled
  BY DEF HasEnded, Sound, Shape, Settled, Remaining, OrderRecord
<1>2. x < o.qty => IsOpen(o)
  BY <1>1 DEF IsOpen, OpenStatus, ClosedStatus, OrderRecord
<1>3. ASSUME x = 0 PROVE Settled(AfterReject(o), x) /\ HasEnded(AfterReject(o))
  <2>1. AfterReject(o) = [o EXCEPT !.status = "rejected"]
    BY <1>2, <1>3 DEF AfterReject
  <2> DEFINE p == [o EXCEPT !.status = "rejected"]
  <2>2. p.status = "rejected" /\ p.cancelled = o.cancelled /\ p.qty = o.qty
    BY DEF OrderRecord
  <2> HIDE DEF p
  <2> QED
    BY <1>3, <2>1, <2>2 DEF Settled, HasEnded, p
<1>4. ASSUME o.qty - x > 0
      PROVE  /\ Settled(AfterCancel(o, o.qty - x), x)
             /\ HasEnded(AfterCancel(o, o.qty - x))
  <2> DEFINE q == o.qty - x
             c == [o EXCEPT !.cancelled = q]
  <2>1. q \in Nat /\ q > 0 /\ x < o.qty
    BY <1>4 DEF OrderRecord
  <2>2. Remaining(o) \in Nat /\ q <= Remaining(o)
    BY <1>1, <2>1 DEF Remaining, OrderRecord
  <2>3. AfterCancel(o, q) = Recount(c)
    <3>1. (IF q >= Remaining(o) THEN Remaining(o) ELSE q) = q
      BY <2>1, <2>2
    <3>2. o.cancelled + q = q
      BY <1>1, <2>1
    <3> QED
      BY <1>2, <2>1, <3>1, <3>2 DEF AfterCancel
  <2>4. c \in OrderRecord /\ c.cancelled = q /\ c.qty = o.qty /\ c.status = o.status
    BY <2>1 DEF OrderRecord
  <2>5. IsOpen(c)
    BY <1>2, <2>1, <2>4 DEF IsOpen
  <2>6. /\ Recount(c).qty = c.qty /\ Recount(c).filled = c.filled
        /\ Recount(c).cancelled = c.cancelled
        /\ Recount(c).status = "cancelled" => Remaining(c) = 0
        /\ Recount(c).status # "rejected"
    BY <2>4, <2>5, RecountEnds
  <2> HIDE DEF c
  <2>7. Settled(Recount(c), x) /\ HasEnded(Recount(c))
    BY <2>1, <2>4, <2>6 DEF Settled, Remaining, HasEnded, q
  <2> QED
    BY <2>3, <2>7 DEF q
<1> QED
  BY <1>3, <1>4

(* What each notice of an order does to its end.                           *)
LEMMA EventEnds ==
  ASSUME NEW o \in OrderRecord, NEW x \in Nat, x <= o.qty, o.qty > 0,
         Sound(o, x), Settled(o, x), NEW m \in Message,
         m.kind = "fill" => m.lots \subseteq 1 .. x,
         m.kind \in Ending => ~HasEnded(o),
         m.kind = "cancel" => m.qty = o.qty - x /\ m.qty > 0,
         m.kind = "reject" => x = 0
  PROVE  /\ Settled(AfterEvent(o, m), x)
         /\ HasEnded(AfterEvent(o, m)) <=> (HasEnded(o) \/ m.kind \in Ending)
         /\ ~IsOpen(o) => ~IsOpen(AfterEvent(o, m))
         /\ o.seen \subseteq AfterEvent(o, m).seen
         /\ m.kind = "fill" => m.lots \in AfterEvent(o, m).seen
<1>1. m.kind # "fill" => AfterEvent(o, m).seen = o.seen
  BY EventSound
<1>2. CASE m.kind = "ack"
  <2>1. AfterEvent(o, m) \in {o, AfterAck(o)}
    BY <1>2, KeysAssumption DEF AfterEvent, Message, Keys
  <2>2. /\ AfterAck(o).qty = o.qty /\ AfterAck(o).filled = o.filled
        /\ AfterAck(o).cancelled = o.cancelled
        /\ o.status = "new" \/ AfterAck(o).status = o.status
        /\ AfterAck(o).status = "accepted" \/ AfterAck(o).status = o.status
    BY DEF AfterAck, OrderRecord
  <2>3. Settled(AfterAck(o), x) /\ (HasEnded(AfterAck(o)) <=> HasEnded(o))
    BY <2>2 DEF Settled, Remaining, HasEnded
  <2>4. ~IsOpen(o) => ~IsOpen(AfterAck(o))
    BY <2>2 DEF IsOpen, OpenStatus
  <2> QED
    BY <1>1, <1>2, <2>1, <2>3, <2>4 DEF Ending
<1>3. CASE m.kind = "fill"
  <2>1. AfterEvent(o, m) = AfterFill(o, m.lots)
    BY <1>3 DEF AfterEvent
  <2>2. m.lots \in SUBSET Nat /\ IsFiniteSet(m.lots) /\ ~o.assumed
    <3>1. IsFiniteSet(1 .. x)
      BY FS_Interval
    <3> QED
      BY <1>3, <3>1, FS_Subset DEF Sound, Shape
  <2>3. /\ SameEnd(o, AfterFill(o, m.lots), x)
        /\ AfterFill(o, m.lots).seen = o.seen \cup {m.lots}
    BY <2>2, FillEnds
  <2> QED
    BY <1>3, <2>1, <2>3 DEF SameEnd, HasEnded, Ending
<1>4. CASE m.kind = "cancel"
  <2>1. AfterEvent(o, m) = AfterCancel(o, o.qty - x)
    BY <1>4 DEF AfterEvent
  <2>2. Settled(AfterCancel(o, o.qty - x), x) /\ HasEnded(AfterCancel(o, o.qty - x))
    BY <1>4, EndNoticeEnds DEF Ending
  <2>3. ~IsOpen(o) => AfterCancel(o, o.qty - x) = o
    BY DEF AfterCancel
  <2> QED
    BY <1>1, <1>4, <2>1, <2>2, <2>3 DEF Ending
<1>5. CASE m.kind = "reject"
  <2>1. AfterEvent(o, m) = AfterReject(o)
    BY <1>5 DEF AfterEvent
  <2>2. Settled(AfterReject(o), x) /\ HasEnded(AfterReject(o))
    BY <1>5, EndNoticeEnds DEF Ending
  <2>3. ~IsOpen(o) => AfterReject(o) = o
    BY DEF AfterReject
  <2> QED
    BY <1>1, <1>5, <2>1, <2>2, <2>3 DEF Ending
<1> QED
  BY <1>2, <1>3, <1>4, <1>5 DEF Message, Kinds

-----------------------------------------------------------------------------
(* The buffer and the wire.                                                *)

LEMMA AppendEnds ==
  ASSUME NEW s \in Seq(Message), NEW m \in Message
  PROVE  /\ KeptFills(s) \subseteq KeptFills(Append(s, m))
         /\ m.kind = "fill" => m.lots \in KeptFills(Append(s, m))
         /\ KeptEnds(Append(s, m))
              = KeptEnds(s) \cup (IF m.kind \in Ending THEN {Len(s) + 1} ELSE {})
         /\ \A i \in 1 .. Len(Append(s, m)) :
              Append(s, m)[i] = m \/ (i \in 1 .. Len(s) /\ Append(s, m)[i] = s[i])
<1>1. /\ Len(Append(s, m)) = Len(s) + 1
      /\ \A i \in 1 .. Len(s) : Append(s, m)[i] = s[i]
      /\ Append(s, m)[Len(s) + 1] = m
  OBVIOUS
<1>2. Len(s) \in Nat
  BY LenProperties
<1>3. 1 .. Len(s) + 1 = (1 .. Len(s)) \cup {Len(s) + 1}
  BY <1>2
<1> DEFINE t == Append(s, m)
<1> HIDE DEF t
<1>4. /\ KeptFills(s) \subseteq KeptFills(t)
      /\ m.kind = "fill" => m.lots \in KeptFills(t)
  BY <1>1, <1>3 DEF KeptFills, t
<1>5. KeptEnds(t) = KeptEnds(s) \cup (IF m.kind \in Ending THEN {Len(s) + 1} ELSE {})
  BY <1>1, <1>3 DEF KeptEnds, t
<1> QED
  BY <1>1, <1>3, <1>4, <1>5 DEF t

LEMMA TailEnds ==
  ASSUME NEW s \in Seq(Message), s # <<>>
  PROVE  /\ KeptFills(s) \subseteq KeptFills(Tail(s)) \cup
              (IF Head(s).kind = "fill" THEN {Head(s).lots} ELSE {})
         /\ \A i \in KeptEnds(Tail(s)) : i + 1 \in KeptEnds(s)
         /\ \A i \in KeptEnds(s) : i = 1 \/ i - 1 \in KeptEnds(Tail(s))
         /\ Head(s) = s[1] /\ 1 \in 1 .. Len(s)
         /\ \A i \in 1 .. Len(Tail(s)) : i + 1 \in 1 .. Len(s) /\ Tail(s)[i] = s[i + 1]
<1>1. /\ Len(Tail(s)) = Len(s) - 1
      /\ \A i \in 1 .. Len(Tail(s)) : Tail(s)[i] = s[i + 1]
      /\ Tail(s) \in Seq(Message)
  BY HeadTailProperties
<1>2. Len(s) \in Nat /\ Len(s) > 0
  BY EmptySeq
<1> DEFINE t == Tail(s)
<1> HIDE DEF t
<1>3. \A i \in 1 .. Len(t) : i + 1 \in 1 .. Len(s) /\ t[i] = s[i + 1]
  BY <1>1, <1>2 DEF t
<1>4. \A i \in 1 .. Len(s) : i = 1 \/ (i - 1 \in 1 .. Len(t) /\ t[i - 1] = s[i])
  <2> SUFFICES ASSUME NEW i \in 1 .. Len(s), i # 1
               PROVE  i - 1 \in 1 .. Len(t) /\ t[i - 1] = s[i]
    OBVIOUS
  <2>1. i - 1 \in 1 .. Len(t) /\ (i - 1) + 1 = i
    BY <1>1, <1>2 DEF t
  <2> QED
    BY <1>3, <2>1
<1>5. Head(s) = s[1] /\ 1 \in 1 .. Len(s)
  BY <1>2
<1>6. KeptFills(s) \subseteq KeptFills(t) \cup
        (IF Head(s).kind = "fill" THEN {Head(s).lots} ELSE {})
  BY <1>4, <1>5 DEF KeptFills
<1>7. \A i \in KeptEnds(t) : i + 1 \in KeptEnds(s)
  BY <1>3 DEF KeptEnds
<1>8. \A i \in KeptEnds(s) : i = 1 \/ i - 1 \in KeptEnds(t)
  BY <1>4 DEF KeptEnds
<1> QED
  BY <1>3, <1>5, <1>6, <1>7, <1>8 DEF t

-----------------------------------------------------------------------------
(* Steps.                                                                  *)

(* The buffer held before if it holds after: calls are not unmade.         *)
LEMMA HeldBefore ==
  ASSUME \A k \in Keys : resp[k] # "idle" => resp'[k] # "idle", BufferHolds'
  PROVE  BufferHolds
<1> DEFINE S == {k \in Keys : resp[k] # "idle"}
           T == {k \in Keys : resp'[k] # "idle"}
<1>1. S \subseteq T /\ T \subseteq Keys
  OBVIOUS
<1>2. IsFiniteSet(T)
  BY <1>1, KeysAssumption, FS_Subset
<1>3. /\ Cardinality(S) <= Cardinality(T)
      /\ Cardinality(S) \in Nat /\ Cardinality(T) \in Nat
  BY <1>1, <1>2, FS_Subset, FS_CardinalityType
<1>4. Cardinality(T) <= PendingCap
  BY DEF BufferHolds
<1> HIDE DEF S, T
<1>5. Cardinality(S) <= PendingCap
  BY <1>3, <1>4, CapAssumption
<1> QED
  BY <1>5 DEF BufferHolds, S

(* A step that is about another order: all it may do to order j is to push *)
(* its notices out of a buffer that does not hold.                         *)
Still(j) ==
  /\ xs'[j] = xs[j] /\ xfilled'[j] = xfilled[j]
  /\ book'[j] = book[j] /\ resp'[j] = resp[j]
  /\ j \in tracked' <=> j \in tracked
  /\ rank'[j] > 0 => rank[j] > 0
  /\ pending'[j] = pending[j] \/ (~BufferHolds /\ pending'[j] = <<>>)
  /\ \A m \in wire \cup wire' : m.key = j => m \in wire /\ m \in wire'

KeyInv(k) == CallOK(k) /\ NoticesTrue(k) /\ EndsOnce(k) /\ EndsTrue(k)

LEMMA StillEnds ==
  ASSUME EndInv, NEW k \in Keys, NEW j \in Keys \ {k}, Still(j),
         replaying \in {NoKey, k}
  PROVE  KeyInv(j)' /\ (BufferHolds => Lossless(j)')
<1> USE DEF EndInv, Still
<1>1. CallOK(j)'
  BY KeysAssumption DEF CallOK
<1>2. WireEnds(j)' = WireEnds(j) /\ WireFills(j)' = WireFills(j)
  BY DEF WireEnds, WireFills
<1>3. CASE pending'[j] = pending[j]
  <2>1. NoticesTrue(j)'
    BY <1>3 DEF NoticesTrue, Truthful, XLeft
  <2>2. EndsOnce(j)' /\ EndsTrue(j)'
    BY <1>2, <1>3 DEF EndsOnce, EndsTrue
  <2>3. FillsOf(j)' = FillsOf(j)
    BY <1>2, <1>3 DEF FillsOf
  <2>4. BufferHolds => Lossless(j)'
    BY <1>2, <1>3, <2>3 DEF Lossless
  <2> QED
    BY <1>1, <2>1, <2>2, <2>4 DEF KeyInv
<1>4. CASE ~BufferHolds /\ pending'[j] = <<>>
  <2>1. NoticesTrue(j)'
    BY <1>4 DEF NoticesTrue, Truthful, XLeft
  <2>2. KeptEnds(pending'[j]) = {}
    BY <1>4 DEF KeptEnds
  <2>3. EndsOnce(j)' /\ EndsTrue(j)'
    BY <1>2, <2>2 DEF EndsOnce, EndsTrue
  <2> QED
    BY <1>1, <1>4, <2>1, <2>3 DEF KeyInv
<1> QED
  BY <1>3, <1>4

(* So it is enough to look at the order that a step is about.              *)
LEMMA OneKey ==
  ASSUME EndInv, NEW k \in Keys, replaying \in {NoKey, k},
         \A j \in Keys \ {k} : Still(j),
         resp[k] # "idle" => resp'[k] # "idle",
         KeyInv(k)', BufferHolds => Lossless(k)'
  PROVE  EndInv'
<1>1. \A j \in Keys : KeyInv(j)' /\ (BufferHolds => Lossless(j)')
  BY StillEnds
<1>2. BufferHolds' => BufferHolds
  BY HeldBefore DEF Still
<1> QED
  BY <1>1, <1>2 DEF EndInv, KeyInv

(* What is known of order k before a step.                                 *)
LEMMA KeyFacts ==
  ASSUME IInv, NEW k \in Keys
  PROVE  /\ KeyInv(k) /\ (BufferHolds => Lossless(k))
         /\ Qty[k] \in Nat \ {0} /\ xfilled[k] \in Nat /\ xfilled[k] <= Qty[k]
         /\ book[k] \in OrderRecord /\ book[k].qty = Qty[k]
         /\ Sound(book[k], xfilled[k])
         /\ pending[k] \in Seq(Message)
         /\ xs[k] \in {"none", "live", "done", "refused"}
         /\ \A m \in wire : m \in Message
         /\ k \notin tracked => book[k] = NewOrder(Qty[k])
BY QtyAssumption DEF IInv, EndInv, KeyInv, CountInv, TypeOK, ExchangeOK, BookOK

(* An order that the exchange works, or does not know yet, has no end.     *)
LEMMA NoEndYet ==
  ASSUME IInv, NEW k \in Keys, xs[k] \in {"none", "live"}
  PROVE  /\ WireEnds(k) = {} /\ KeptEnds(pending[k]) = {} /\ ~HasEnded(book[k])
         /\ xs[k] = "none" => /\ \A m \in wire : m.key # k
                              /\ \A i \in 1 .. Len(pending[k]) : FALSE
<1>1. KeyInv(k) /\ pending[k] \in Seq(Message) /\ \A m \in wire : m \in Message
  BY KeyFacts
<1>2. \A m \in wire : m.key = k => m.kind \notin Ending
  BY <1>1 DEF KeyInv, NoticesTrue, Truthful, Ending
<1>3. \A i \in 1 .. Len(pending[k]) : pending[k][i].kind \notin Ending
  BY <1>1 DEF KeyInv, NoticesTrue, Truthful, Ending
<1>4. ~HasEnded(book[k])
  BY <1>1 DEF KeyInv, EndsTrue
<1>5. \A i \in 1 .. Len(pending[k]) : pending[k][i] \in Message
  BY <1>1
<1>6. ASSUME xs[k] = "none"
      PROVE  /\ \A m \in wire : m.key # k
             /\ \A i \in 1 .. Len(pending[k]) : FALSE
  <2>1. \A m \in Message : m.kind \in {"ack", "fill"} \/ m.kind \in Ending
    BY DEF Message, Kinds, Ending
  <2>2. \A m \in Message : Truthful(k, m) => m.kind \in Ending
    BY <1>6, <2>1 DEF Truthful
  <2> QED
    BY <1>1, <1>2, <1>3, <1>5, <2>2 DEF KeyInv, NoticesTrue
<1> QED
  BY <1>2, <1>3, <1>4, <1>6 DEF WireEnds, KeptEnds

(* The exchange says of order k, of which n lots are executed then and     *)
(* whose state is st then, the notices of W: they are true, at most one is *)
(* of its end, and they tell all that happened.                            *)
Says(k, st, n, W) ==
  /\ st \in {"live", "done", "refused"} /\ n \in Nat
  /\ xs[k] = "live" => st # "refused"
  /\ st = "live" => n < Qty[k]
  /\ st = "refused" => n = 0
  /\ \A m \in W : m \in Message /\ m.key = k
  /\ \A m \in W : m.kind \in {"ack", "fill"} => st \in {"live", "done"}
  /\ \A m \in W : m.kind = "reject" => st \in {"done", "refused"} /\ n = 0
  /\ \A m \in W : m.kind = "cancel" =>
                    st = "done" /\ m.qty = Qty[k] - n /\ m.qty > 0
  /\ \A m, e \in W : m.kind \in Ending /\ e.kind \in Ending => m = e
  /\ \A i \in (xfilled[k] + 1) .. n : \E m \in W : m.kind = "fill" /\ i \in m.lots
  /\ st = "done" /\ n < Qty[k] => \E m \in W : m.kind \in Ending

LEMMA ExchangeEnds ==
  ASSUME IInv, replaying = NoKey, NEW k \in Keys, NEW st, NEW n, NEW W,
         Says(k, st, n, W), resp[k] # "idle", xs[k] \in {"none", "live"},
         xs' = [xs EXCEPT ![k] = st], xfilled' = [xfilled EXCEPT ![k] = n],
         wire' = wire \cup W, UNCHANGED <<resp, books, buffer, replaying>>
  PROVE  EndInv'
<1> USE DEF Says
<1>1. /\ KeyInv(k) /\ (BufferHolds => Lossless(k))
      /\ xfilled[k] \in Nat /\ pending[k] \in Seq(Message)
      /\ \A m \in wire : m \in Message
      /\ book[k] \in OrderRecord /\ book[k].qty = Qty[k]
  BY KeyFacts
<1>2. /\ WireEnds(k) = {} /\ KeptEnds(pending[k]) = {} /\ ~HasEnded(book[k])
      /\ xs[k] = "none" => /\ \A m \in wire : m.key # k
                           /\ \A i \in 1 .. Len(pending[k]) : FALSE
  BY NoEndYet
<1>3. xs'[k] = st /\ xfilled'[k] = n
  BY DEF IInv, CountInv, TypeOK
<1>4. ASSUME NEW j \in Keys \ {k} PROVE Still(j)
  BY DEF Still, books, buffer, IInv, CountInv, TypeOK
<1>5. CallOK(k)'
  <2>1. k \in tracked => xs[k] = "live"
    BY <1>1 DEF KeyInv, CallOK
  <2> QED
    BY <1>1, <1>3, <2>1 DEF KeyInv, CallOK, books, buffer
<1>6. NoticesTrue(k)'
  <2>1. /\ \A m \in wire : m.key = k => m.kind \in {"ack", "fill"} /\ xs[k] = "live"
        /\ \A i \in 1 .. Len(pending[k]) :
             pending[k][i].kind \in {"ack", "fill"} /\ xs[k] = "live"
    <3>1. \A m \in Message : m.kind \in {"ack", "fill"} \/ m.kind \in Ending
      BY DEF Message, Kinds, Ending
    <3>2. \A m \in wire : m.key = k => m.kind \notin Ending
      BY <1>2 DEF WireEnds
    <3>3. \A i \in 1 .. Len(pending[k]) :
             pending[k][i] \in Message /\ pending[k][i].kind \notin Ending
      BY <1>1, <1>2 DEF KeptEnds
    <3> QED
      BY <1>1, <1>2, <3>1, <3>2, <3>3
  <2>2. \A m \in W : Truthful(k, m)'
    BY <1>3 DEF Truthful, XLeft, Ending
  <2>3. \A m \in wire' : m.key = k => Truthful(k, m)'
    BY <1>3, <2>1, <2>2 DEF Truthful
  <2>4. \A i \in 1 .. Len(pending'[k]) : Truthful(k, pending[k][i])'
    BY <1>3, <2>1 DEF Truthful, buffer
  <2> QED
    BY <2>3, <2>4 DEF NoticesTrue, buffer
<1>7. EndsOnce(k)'
  <2>1. \A m \in WireEnds(k)' : m \in W /\ m.kind \in Ending
    BY <1>2 DEF WireEnds
  <2> QED
    BY <1>2, <2>1 DEF EndsOnce, books, buffer
<1>8. EndsTrue(k)'
  <2>1. /\ book[k].cancelled = 0 /\ book[k].status # "rejected"
        /\ book[k].status = "cancelled" => Remaining(book[k]) = 0
    BY <1>1, <1>2 DEF HasEnded, KeyInv, EndsTrue, Settled, OrderRecord
  <2> QED
    BY <1>2, <1>3, <2>1 DEF EndsTrue, Settled, books
<1>9. ASSUME BufferHolds PROVE Lossless(k)'
  <2>1. 1 .. xfilled[k] \subseteq UNION FillsOf(k)
    BY <1>1, <1>9 DEF Lossless
  <2>2. FillsOf(k) \subseteq FillsOf(k)'
    BY DEF FillsOf, WireFills, books, buffer
  <2>3. \A m \in W : m.kind = "fill" => m.lots \in FillsOf(k)'
    BY DEF FillsOf, WireFills
  <2>4. 1 .. n \subseteq (1 .. xfilled[k]) \cup ((xfilled[k] + 1) .. n)
    BY <1>1
  <2>5. 1 .. n \subseteq UNION (FillsOf(k)')
    BY <2>1, <2>2, <2>3, <2>4
  <2>6. (\E m \in W : m.kind \in Ending) => WireEnds(k)' # {}
    BY DEF WireEnds
  <2> QED
    BY <1>3, <2>5, <2>6 DEF Lossless
<1>10. EndInv
  BY DEF IInv
<1> QED
  BY <1>4, <1>5, <1>6, <1>7, <1>8, <1>9, <1>10, OneKey DEF KeyInv

LEMMA AcceptEnds ==
  ASSUME IInv, replaying = NoKey, NEW k \in Keys,
         NEW q \in 0 .. Qty[k], NEW s \in 0 .. q, XAccept(k, q, s)
  PROVE  EndInv'
<1> DEFINE F == {1 .. s, (s + 1) .. q} \ {{}}
           st == IF q = Qty[k] THEN "done" ELSE "live"
           W == {Ack(k)} \cup {Fill(k, f) : f \in F}
<1>1. Qty[k] \in Nat \ {0} /\ xfilled[k] = 0
  BY QtyAssumption DEF XAccept, IInv, CountInv, ExchangeOK
<1>2. /\ xs' = [xs EXCEPT ![k] = st] /\ xfilled' = [xfilled EXCEPT ![k] = q]
      /\ wire' = wire \cup W /\ resp[k] # "idle" /\ xs[k] = "none"
      /\ UNCHANGED <<resp, books, buffer, replaying>>
  BY DEF XAccept
<1>3. \A f \in F : f \in SUBSET Nat
  OBVIOUS
<1>4. \A i \in (xfilled[k] + 1) .. q : \E f \in F : i \in f
  <2>0. xfilled[k] + 1 = 1
    BY <1>1
  <2> SUFFICES ASSUME NEW i \in 1 .. q PROVE \E f \in F : i \in f
    BY <2>0
  <2>1. i \in 1 .. s \/ i \in (s + 1) .. q
    BY <1>1
  <2> QED
    BY <2>1
<1> HIDE DEF F
<1>5. \A m \in W : /\ m \in Message /\ m.key = k /\ m.kind \in {"ack", "fill"}
                   /\ m.kind = "fill" => m.lots \in F
  BY <1>3 DEF Ack, Fill, Message, Kinds
<1>6. \A f \in F : \E m \in W : m.kind = "fill" /\ m.lots = f
  <2>1. \A f \in F : Fill(k, f) \in W /\ Fill(k, f).kind = "fill" /\ Fill(k, f).lots = f
    BY DEF Fill
  <2> QED
    BY <2>1
<1> HIDE DEF W
<1>7. \A i \in (xfilled[k] + 1) .. q : \E m \in W : m.kind = "fill" /\ i \in m.lots
  BY <1>4, <1>6
<1>8. \A m \in W : m.kind \notin Ending /\ m.kind # "reject" /\ m.kind # "cancel"
  BY <1>5 DEF Ending
<1>9. st \in {"live", "done"} /\ q \in Nat /\ (st = "live" => q < Qty[k])
      /\ (st = "done" => q = Qty[k])
  BY <1>1
<1> HIDE DEF st
<1>10. Says(k, st, q, W)
  BY <1>2, <1>5, <1>7, <1>8, <1>9 DEF Says
<1> QED
  BY <1>2, <1>10, ExchangeEnds

LEMMA MoreFilledEnds ==
  ASSUME IInv, replaying = NoKey, NEW k \in Keys, NEW q \in 1 .. Qty[k],
         XFill(k, q)
  PROVE  EndInv'
<1> DEFINE n == xfilled[k] + q
           f == (xfilled[k] + 1) .. n
           st == IF q = XLeft(k) THEN "done" ELSE "live"
           W == {Fill(k, f)}
<1>1. Qty[k] \in Nat \ {0} /\ xfilled[k] \in Nat /\ xfilled[k] <= Qty[k]
  BY KeyFacts
<1>2. /\ xs' = [xs EXCEPT ![k] = st] /\ xfilled' = [xfilled EXCEPT ![k] = n]
      /\ wire' = wire \cup W /\ xs[k] = "live"
      /\ UNCHANGED <<resp, books, buffer, replaying>>
  BY DEF XFill, IInv, CountInv, TypeOK
<1>3. resp[k] # "idle"
  BY <1>2 DEF IInv, EndInv, CallOK
<1>4. n \in Nat /\ (st = "live" => n < Qty[k]) /\ (st = "done" => n = Qty[k])
      /\ st \in {"live", "done"}
  BY <1>1 DEF XFill, XLeft
<1>5. \A m \in W : m \in Message /\ m.key = k /\ m.kind = "fill" /\ m.lots = f
  <2>1. f \in SUBSET Nat
    <3> HIDE DEF n
    <3> QED
      BY <1>1, <1>4
  <2> HIDE DEF f
  <2>2. /\ Fill(k, f) \in Message /\ Fill(k, f).key = k
        /\ Fill(k, f).kind = "fill" /\ Fill(k, f).lots = f
    BY <2>1 DEF Fill, Message, Kinds
  <2> QED
    BY <2>2
<1>6. W # {}
  OBVIOUS
<1> HIDE DEF W
<1>7. \A i \in (xfilled[k] + 1) .. n : \E m \in W : m.kind = "fill" /\ i \in m.lots
  BY <1>5, <1>6
<1>8. \A m \in W : m.kind \notin Ending /\ m.kind # "reject" /\ m.kind # "cancel"
                   /\ m.kind \in {"ack", "fill"}
  BY <1>5 DEF Ending
<1> HIDE DEF st, f
<1>9. Says(k, st, n, W)
  <2> HIDE DEF n
  <2> QED
    BY <1>4, <1>5, <1>7, <1>8 DEF Says
<1> HIDE DEF n
<1> QED
  BY <1>2, <1>3, <1>9, ExchangeEnds

(* The exchange ends, or refuses, an order, and sends at most one notice.  *)
LEMMA LastWordEnds ==
  ASSUME IInv, replaying = NoKey, NEW k \in Keys, NEW notify \in BOOLEAN,
         XRefuse(k, notify) \/ XCancel(k) \/ XReject(k)
  PROVE  EndInv'
<1>1. /\ Qty[k] \in Nat \ {0} /\ xfilled[k] \in Nat /\ xfilled[k] <= Qty[k]
      /\ KeyInv(k)
  BY KeyFacts
<1>2. xfilled' = [xfilled EXCEPT ![k] = xfilled[k]]
  BY DEF XRefuse, XCancel, XReject, IInv, CountInv, TypeOK
<1>3. \A i \in (xfilled[k] + 1) .. xfilled[k] : FALSE
  BY <1>1
<1>4. CASE XRefuse(k, notify)
  <2> DEFINE W == IF notify THEN {Reject(k)} ELSE {}
  <2>1. /\ xs' = [xs EXCEPT ![k] = "refused"] /\ wire' = wire \cup W
        /\ resp[k] # "idle" /\ xs[k] = "none"
        /\ UNCHANGED <<resp, books, buffer, replaying>>
    BY <1>4 DEF XRefuse
  <2>2. \A m \in W : m \in Message /\ m.key = k /\ m.kind = "reject" /\ m = Reject(k)
    BY DEF Reject, Message, Kinds
  <2>3. xfilled[k] = 0
    BY <2>1 DEF IInv, CountInv, ExchangeOK
  <2> HIDE DEF W
  <2>4. Says(k, "refused", xfilled[k], W)
    BY <1>1, <1>3, <2>1, <2>2, <2>3 DEF Says
  <2> QED
    BY <1>2, <2>1, <2>4, ExchangeEnds
<1>5. CASE XCancel(k)
  <2> DEFINE W == {Cancel(k, XLeft(k))}
  <2>1. /\ xs' = [xs EXCEPT ![k] = "done"] /\ wire' = wire \cup W
        /\ xs[k] = "live"
        /\ UNCHANGED <<resp, books, buffer, replaying>>
    BY <1>5 DEF XCancel
  <2>2. resp[k] # "idle" /\ xfilled[k] < Qty[k]
    BY <1>1, <2>1 DEF KeyInv, CallOK, EndsTrue
  <2>3. /\ \A m \in W : /\ m \in Message /\ m.key = k /\ m.kind = "cancel"
                        /\ m.qty = Qty[k] - xfilled[k] /\ m.qty > 0
                        /\ m = Cancel(k, XLeft(k))
        /\ \E m \in W : m.kind \in Ending
    <3>1. Qty[k] - xfilled[k] \in Nat /\ Qty[k] - xfilled[k] > 0
      BY <1>1, <2>2
    <3> QED
      BY <3>1 DEF Cancel, XLeft, Message, Kinds, Ending
  <2> HIDE DEF W
  <2>4. Says(k, "done", xfilled[k], W)
    BY <1>1, <1>3, <2>1, <2>2, <2>3 DEF Says
  <2> QED
    BY <1>2, <2>1, <2>2, <2>4, ExchangeEnds
<1>6. CASE XReject(k)
  <2> DEFINE W == {Reject(k)}
  <2>1. /\ xs' = [xs EXCEPT ![k] = "done"] /\ wire' = wire \cup W
        /\ xs[k] = "live" /\ xfilled[k] = 0
        /\ UNCHANGED <<resp, books, buffer, replaying>>
    BY <1>6 DEF XReject
  <2>2. resp[k] # "idle"
    BY <1>1, <2>1 DEF KeyInv, CallOK
  <2>3. /\ \A m \in W : m \in Message /\ m.key = k /\ m.kind = "reject" /\ m = Reject(k)
        /\ \E m \in W : m.kind \in Ending
    BY DEF Reject, Message, Kinds, Ending
  <2> HIDE DEF W
  <2>4. Says(k, "done", xfilled[k], W)
    BY <1>1, <1>3, <2>1, <2>2, <2>3 DEF Says
  <2> QED
    BY <1>2, <2>1, <2>2, <2>4, ExchangeEnds
<1> QED
  BY <1>4, <1>5, <1>6

-----------------------------------------------------------------------------
(* The calls.                                                              *)

(* A call that is made, fails or is given up.                              *)
LEMMA CallEnds ==
  ASSUME IInv, replaying = NoKey, NEW k \in Keys, NEW r \in {"wait", "held", "gone"},
         resp[k] # "done", resp' = [resp EXCEPT ![k] = r],
         UNCHANGED <<exchange, wire, books, buffer, replaying>>
  PROVE  EndInv'
<1>1. KeyInv(k) /\ (BufferHolds => Lossless(k)) /\ EndInv
  BY KeyFacts DEF IInv
<1>2. resp'[k] = r /\ \A j \in Keys \ {k} : resp'[j] = resp[j]
  BY DEF IInv, CountInv, TypeOK
<1>3. \A j \in Keys \ {k} : Still(j)
  BY <1>2 DEF Still, exchange, books, buffer
<1>4. CallOK(k)'
  BY <1>1, <1>2 DEF KeyInv, CallOK, exchange, books, buffer
<1>5. NoticesTrue(k)' /\ EndsOnce(k)' /\ EndsTrue(k)'
  BY <1>1 DEF KeyInv, NoticesTrue, Truthful, XLeft, EndsOnce, WireEnds, EndsTrue,
     exchange, books, buffer
<1>6. BufferHolds => Lossless(k)'
  BY <1>1 DEF Lossless, FillsOf, WireFills, WireEnds, exchange, books, buffer
<1> QED
  BY <1>1, <1>2, <1>3, <1>4, <1>5, <1>6, OneKey DEF KeyInv

(* An order of the exchange is tracked, and the notices kept of it are     *)
(* about to be replayed.                                                   *)
Tracks(k, r) ==
  /\ replaying = NoKey /\ xs[k] \in {"live", "done"} /\ r # "idle"
  /\ tracked' = tracked \cup {k}
  /\ resp' = [resp EXCEPT ![k] = r]
  /\ replaying' = IF pending'[k] = <<>> THEN NoKey ELSE k
  /\ UNCHANGED <<exchange, rank>>
  /\ \A j \in Keys \ {k} : book'[j] = book[j] /\ pending'[j] = pending[j]
  /\ \A m \in wire \cup wire' : m.key # k => m \in wire /\ m \in wire'

LEMMA TracksEnds ==
  ASSUME IInv, NEW k \in Keys, NEW r, Tracks(k, r),
         NoticesTrue(k)', EndsOnce(k)', EndsTrue(k)',
         BufferHolds => Lossless(k)'
  PROVE  EndInv'
<1> USE DEF Tracks
<1>1. KeyInv(k) /\ EndInv
  BY KeyFacts DEF IInv
<1>2. resp'[k] = r /\ \A j \in Keys \ {k} : resp'[j] = resp[j]
  BY DEF IInv, CountInv, TypeOK
<1>3. \A j \in Keys \ {k} : Still(j)
  BY <1>2 DEF Still, exchange
<1>4. CallOK(k)'
  BY <1>1, <1>2 DEF KeyInv, CallOK, exchange
<1> QED
  BY <1>1, <1>2, <1>3, <1>4, OneKey DEF KeyInv

(* The broker's answer, and the late lookup that finds the order: the book *)
(* entry is as it was.                                                     *)
LEMMA TrackAnewEnds ==
  ASSUME IInv, NEW k \in Keys, Tracks(k, "done"), book' = book,
         UNCHANGED <<wire, pending>>
  PROVE  EndInv'
<1>1. KeyInv(k) /\ (BufferHolds => Lossless(k))
  BY KeyFacts
<1>2. NoticesTrue(k)' /\ EndsOnce(k)' /\ EndsTrue(k)'
  BY <1>1 DEF KeyInv, NoticesTrue, Truthful, XLeft, EndsOnce, WireEnds, EndsTrue,
     exchange, Tracks
<1>3. BufferHolds => Lossless(k)'
  BY <1>1 DEF Lossless, FillsOf, WireFills, WireEnds, exchange, Tracks
<1> QED
  BY <1>2, <1>3, TracksEnds

LEMMA RespondLsEnds ==
  ASSUME IInv, replaying = NoKey, NEW k \in Keys, RespondLs(k)
  PROVE  EndInv'
<1>1. k \notin tracked
  BY DEF RespondLs, IInv, CountInv, LsTracked
<1>2. book' = book
  BY <1>1 DEF RespondLs, IInv, CountInv, BookOK, TypeOK
<1>3. Tracks(k, "done") /\ UNCHANGED <<wire, pending>>
  BY <1>2 DEF RespondLs, StartReplay, Tracks, buffer
<1> QED
  BY <1>2, <1>3, TrackAnewEnds

LEMMA RecheckEnds ==
  ASSUME IInv, replaying = NoKey, NEW k \in Keys, RecheckFinds(k)
  PROVE  EndInv'
<1>1. CASE k \notin tracked
  <2>1. book' = book
    <3>1. book[k] = NewOrder(Qty[k]) /\ book \in [Keys -> OrderRecord]
      BY <1>1 DEF IInv, CountInv, BookOK, TypeOK
    <3>2. book' = [book EXCEPT ![k] = NewOrder(Qty[k])]
      BY <1>1 DEF RecheckFinds
    <3> HIDE DEF NewOrder
    <3> QED
      BY <3>1, <3>2
  <2>2. Tracks(k, "done") /\ UNCHANGED <<wire, pending>>
    BY <1>1, <2>1 DEF RecheckFinds, StartReplay, Tracks, buffer
  <2> QED
    BY <2>1, <2>2, TrackAnewEnds
<1>2. CASE k \in tracked
  <2>1. pending[k] = <<>>
    BY <1>2, KeysAssumption DEF IInv, EndInv, CallOK
  <2>2. book' = book /\ Tracks(k, "done") /\ UNCHANGED <<wire, pending>>
    BY <1>2, <2>1 DEF RecheckFinds, Tracks, buffer
  <2> QED
    BY <2>2, TrackAnewEnds
<1> QED
  BY <1>1, <1>2

LEMMA RespondHlEnds ==
  ASSUME IInv, replaying = NoKey, NEW k \in Keys, NEW q \in {0, xfirst[k]},
         RespondHl(k, q)
  PROVE  EndInv'
<1> DEFINE o == book[k]
           p == Adopted(k, q)
<1>1. /\ KeyInv(k) /\ (BufferHolds => Lossless(k))
      /\ o \in OrderRecord /\ xfilled[k] \in Nat /\ q \in Nat
      /\ Sound(o, xfilled[k]) /\ q <= xfilled[k] /\ o.qty = Qty[k]
  BY KeyFacts DEF IInv, CountInv, TypeOK, ExchangeOK
<1>2. p = IF q > o.filled THEN AfterPlaceFill(o, q - o.filled) ELSE o
  BY DEF Adopted, IInv, CountInv, BookOK
<1>3. Settled(o, xfilled[k])
  BY <1>1 DEF KeyInv, EndsTrue
<1>4. SameEnd(o, p, xfilled[k]) /\ p.seen = o.seen
  <2>1. CASE q > o.filled
    <3>1. q - o.filled \in Nat /\ o.filled + (q - o.filled) <= xfilled[k]
      BY <1>1, <2>1 DEF OrderRecord
    <3> HIDE DEF o
    <3> QED
      BY <3>1, <2>1, <1>1, <1>2, <1>3, PlaceFillEnds, PlaceFillSound
  <2>2. CASE ~(q > o.filled)
    BY <2>2, <1>2, <1>3 DEF SameEnd
  <2> QED
    BY <2>1, <2>2
<1>5. book'[k] = p /\ \A j \in Keys \ {k} : book'[j] = book[j]
  BY DEF RespondHl, SetOrder, IInv, CountInv, TypeOK
<1> HIDE DEF p
<1>6. HasEnded(p) <=> HasEnded(o)
  BY <1>4 DEF SameEnd, HasEnded
<1>7. UNCHANGED <<exchange, wire, pending, rank>> /\ Tracks(k, "done")
  BY <1>5 DEF RespondHl, StartReplay, Tracks, buffer
<1>8. NoticesTrue(k)'
  BY <1>1, <1>7 DEF KeyInv, NoticesTrue, Truthful, XLeft, exchange
<1>9. WireEnds(k)' = WireEnds(k) /\ WireFills(k)' = WireFills(k)
  BY <1>7 DEF WireEnds, WireFills
<1>10. EndsOnce(k)' /\ EndsTrue(k)'
  BY <1>1, <1>4, <1>5, <1>6, <1>7, <1>9 DEF KeyInv, EndsOnce, EndsTrue, SameEnd, exchange
<1>11. BufferHolds => Lossless(k)'
  <2>1. FillsOf(k)' = FillsOf(k)
    BY <1>4, <1>5, <1>7, <1>9 DEF FillsOf
  <2> QED
    BY <2>1, <1>1, <1>5, <1>6, <1>7, <1>9 DEF Lossless, exchange
<1> QED
  BY <1>7, <1>8, <1>10, <1>11, TracksEnds

-----------------------------------------------------------------------------
(* The notices.                                                            *)

(* A notice leaves the wire; one of an end is its order's only one.        *)
LEMMA ConsumedEnds ==
  ASSUME IInv, NEW m, NEW again \in BOOLEAN, Consume(m, again)
  PROVE  /\ m \in Message /\ m.key \in Keys /\ m \in wire /\ Truthful(m.key, m)
         /\ \A e \in wire \cup wire' : e.key # m.key => e \in wire /\ e \in wire'
         /\ \A e \in wire : e \in wire' \/ e = m
         /\ \A e \in wire' : e \in wire
         /\ m.kind \in Ending => WireEnds(m.key)' = {} /\ WireEnds(m.key) # {}
         /\ m.kind \notin Ending => WireEnds(m.key)' = WireEnds(m.key)
         /\ WireFills(m.key) \subseteq WireFills(m.key)' \cup
              (IF m.kind = "fill" THEN {m.lots} ELSE {})
<1>1. m \in wire /\ m \in Message /\ m.key \in Keys
  BY DEF Consume, IInv, CountInv, TypeOK, Message
<1>2. /\ wire' = wire \/ wire' = wire \ {m}
      /\ m.kind # "fill" => wire' = wire \ {m}
  BY DEF Consume
<1>3. Truthful(m.key, m)
  BY <1>1 DEF IInv, EndInv, NoticesTrue
<1>4. m.kind \in Ending => WireEnds(m.key)' = {} /\ WireEnds(m.key) # {}
  <2> SUFFICES ASSUME m.kind \in Ending
               PROVE  WireEnds(m.key)' = {} /\ WireEnds(m.key) # {}
    OBVIOUS
  <2>1. m \in WireEnds(m.key)
    BY <1>1 DEF WireEnds
  <2>2. \A e \in WireEnds(m.key) : e = m
    BY <1>1, <2>1 DEF IInv, EndInv, EndsOnce
  <2>3. wire' = wire \ {m}
    BY <1>2 DEF Ending
  <2>4. WireEnds(m.key)' \subseteq WireEnds(m.key) /\ m \notin WireEnds(m.key)'
    BY <2>3 DEF WireEnds
  <2> QED
    BY <2>1, <2>2, <2>4
<1>5. m.kind \notin Ending => WireEnds(m.key)' = WireEnds(m.key)
  BY <1>2 DEF WireEnds
<1>6. WireFills(m.key) \subseteq WireFills(m.key)' \cup
        (IF m.kind = "fill" THEN {m.lots} ELSE {})
  BY <1>2 DEF WireFills
<1> QED
  BY <1>1, <1>2, <1>3, <1>4, <1>5, <1>6

(* A notice that is true, and the only one of an end, meets its order.     *)
Meets(k, m) ==
  /\ m \in Message /\ Truthful(k, m)
  /\ m.kind \in Ending => ~HasEnded(book[k])
  /\ m.kind = "fill" => m.lots \in FillsOf(k)

LEMMA MeetsEnds ==
  ASSUME IInv, NEW k \in tracked, k \in Keys, NEW m, Meets(k, m),
         SetOrder(k, AfterEvent(book[k], m)), UNCHANGED exchange
  PROVE  /\ book'[k] = AfterEvent(book[k], m)
         /\ \A j \in Keys \ {k} : book'[j] = book[j]
         /\ HasEnded(book'[k]) <=> (HasEnded(book[k]) \/ m.kind \in Ending)
         /\ ~IsOpen(book[k]) => ~IsOpen(book'[k])
         /\ book[k].seen \subseteq book'[k].seen
         /\ m.kind = "fill" => m.lots \in book'[k].seen
         /\ EndsTrue(k)'
<1> DEFINE o == book[k]
           p == AfterEvent(o, m)
<1>1. /\ o \in OrderRecord /\ xfilled[k] \in Nat /\ Qty[k] \in Nat \ {0}
      /\ Sound(o, xfilled[k]) /\ xfilled[k] <= o.qty /\ o.qty = Qty[k] /\ o.qty > 0
      /\ KeyInv(k)
  BY KeyFacts
<1>2. Settled(o, xfilled[k])
  BY <1>1 DEF KeyInv, EndsTrue
<1>3. /\ m \in Message
      /\ m.kind = "fill" => m.lots \subseteq 1 .. xfilled[k]
      /\ m.kind \in Ending => ~HasEnded(o)
      /\ m.kind = "cancel" => m.qty = o.qty - xfilled[k] /\ m.qty > 0
      /\ m.kind = "reject" => xfilled[k] = 0
  BY <1>1 DEF Meets, Truthful, XLeft, IInv, CountInv, FillsApart
<1>4. book'[k] = p /\ \A j \in Keys \ {k} : book'[j] = book[j]
  BY DEF SetOrder, IInv, CountInv, TypeOK
<1> HIDE DEF o, p
<1>5. /\ Settled(p, xfilled[k])
      /\ HasEnded(p) <=> (HasEnded(o) \/ m.kind \in Ending)
      /\ ~IsOpen(o) => ~IsOpen(p)
      /\ o.seen \subseteq p.seen
      /\ m.kind = "fill" => m.lots \in p.seen
  BY <1>1, <1>2, <1>3, EventEnds DEF p
<1>6. HasEnded(p) => xs[k] = "done"
  <2>1. m.kind \in Ending => xs[k] \in {"done", "refused"}
    BY DEF Meets, Truthful, Ending
  <2>2. xs[k] \in {"live", "done"}
    BY <1>1 DEF KeyInv, CallOK
  <2> QED
    BY <1>1, <1>5, <2>1, <2>2 DEF KeyInv, EndsTrue, o
<1>7. EndsTrue(k)'
  <2>1. /\ xs'[k] = xs[k] /\ xfilled'[k] = xfilled[k]
        /\ xs[k] = "live" => xfilled[k] < Qty[k]
        /\ xs[k] = "refused" => xfilled[k] = 0
    BY <1>1 DEF KeyInv, EndsTrue, exchange
  <2> QED
    BY <1>4, <1>5, <1>6, <2>1 DEF EndsTrue
<1> QED
  BY <1>4, <1>5, <1>7 DEF o, p

LEMMA DeliverTrackedEnds ==
  ASSUME IInv, replaying = NoKey, NEW m, NEW again \in BOOLEAN,
         DeliverTracked(m, again)
  PROVE  EndInv'
<1> DEFINE k == m.key
<1>1. /\ Consume(m, again) /\ k \in tracked /\ k \in Keys
      /\ SetOrder(k, AfterEvent(book[k], m))
      /\ UNCHANGED <<exchange, resp, tracked, pending, rank, replaying>>
  BY DEF DeliverTracked, buffer, IInv, CountInv, TypeOK
<1>2. /\ m \in Message /\ m \in wire /\ Truthful(k, m)
      /\ \A e \in wire \cup wire' : e.key # k => e \in wire /\ e \in wire'
      /\ \A e \in wire' : e \in wire
      /\ m.kind \in Ending => WireEnds(k)' = {} /\ WireEnds(k) # {}
      /\ m.kind \notin Ending => WireEnds(k)' = WireEnds(k)
      /\ WireFills(k) \subseteq WireFills(k)' \cup
           (IF m.kind = "fill" THEN {m.lots} ELSE {})
  BY <1>1, ConsumedEnds
<1> HIDE DEF k
<1>3. KeyInv(k) /\ (BufferHolds => Lossless(k))
  BY <1>1, KeyFacts
<1>4. Meets(k, m)
  <2>1. m.kind \in Ending => ~HasEnded(book[k])
    BY <1>2, <1>3 DEF KeyInv, EndsOnce
  <2>2. m.kind = "fill" => m.lots \in FillsOf(k)
    BY <1>2 DEF FillsOf, WireFills, k
  <2> QED
    BY <1>2, <2>1, <2>2 DEF Meets
<1>5. /\ \A j \in Keys \ {k} : book'[j] = book[j]
      /\ HasEnded(book'[k]) <=> (HasEnded(book[k]) \/ m.kind \in Ending)
      /\ book[k].seen \subseteq book'[k].seen
      /\ m.kind = "fill" => m.lots \in book'[k].seen
      /\ EndsTrue(k)'
  BY <1>1, <1>4, MeetsEnds
<1>6. ASSUME NEW j \in Keys \ {k} PROVE Still(j)
  BY <1>1, <1>2, <1>5 DEF Still, exchange
<1>7. CallOK(k)'
  BY <1>1, <1>3 DEF KeyInv, CallOK, exchange
<1>8. NoticesTrue(k)'
  BY <1>1, <1>2, <1>3 DEF KeyInv, NoticesTrue, Truthful, XLeft, exchange
<1>9. EndsOnce(k)'
  BY <1>1, <1>2, <1>3, <1>5 DEF KeyInv, EndsOnce
<1>10. ASSUME BufferHolds PROVE Lossless(k)'
  <2>1. FillsOf(k) \subseteq FillsOf(k)'
    BY <1>1, <1>2, <1>5 DEF FillsOf
  <2>2. Lossless(k)
    BY <1>3, <1>10
  <2> QED
    BY <1>1, <1>2, <1>5, <2>1, <2>2 DEF Lossless, exchange
<1> QED
  BY <1>1, <1>5, <1>6, <1>7, <1>8, <1>9, <1>10, OneKey DEF KeyInv, IInv

LEMMA ReplayEnds ==
  ASSUME IInv, Replay
  PROVE  EndInv'
<1>0. PICK k \in Keys : k = replaying
  BY DEF Replay, IInv, CountInv, TypeOK
<1> DEFINE s == pending[k]
           m == Head(s)
<1>1. k \in Keys /\ k \in tracked /\ s # <<>>
  BY <1>0 DEF Replay, IInv, CountInv, ReplayOK
<1>2. /\ SetOrder(k, AfterEvent(book[k], m))
      /\ pending' = [pending EXCEPT ![k] = Tail(s)]
      /\ rank' = RankWithout(k)
      /\ replaying' = IF Tail(s) = <<>> THEN NoKey ELSE k
      /\ UNCHANGED <<exchange, wire, resp, tracked>>
  BY <1>0 DEF Replay
<1>3. s \in Seq(Message) /\ KeyInv(k) /\ (BufferHolds => Lossless(k))
  BY <1>1, KeyFacts
<1>4. /\ m \in Message /\ Tail(s) \in Seq(Message)
      /\ m.kind = "fill" => m.lots \in KeptFills(s)
  BY <1>1, <1>3, TailKept
<1>5. /\ KeptFills(s) \subseteq KeptFills(Tail(s)) \cup
              (IF m.kind = "fill" THEN {m.lots} ELSE {})
      /\ \A i \in KeptEnds(Tail(s)) : i + 1 \in KeptEnds(s)
      /\ \A i \in KeptEnds(s) : i = 1 \/ i - 1 \in KeptEnds(Tail(s))
      /\ m = s[1] /\ 1 \in 1 .. Len(s)
      /\ \A i \in 1 .. Len(Tail(s)) : i + 1 \in 1 .. Len(s) /\ Tail(s)[i] = s[i + 1]
  BY <1>1, <1>3, TailEnds
<1>6. pending'[k] = Tail(s) /\ \A j \in Keys \ {k} : pending'[j] = pending[j]
  BY <1>1, <1>2 DEF IInv, CountInv, TypeOK
<1> HIDE DEF m
<1>7. Meets(k, m)
  <2>1. m.kind \in Ending => 1 \in KeptEnds(s)
    BY <1>5 DEF KeptEnds
  <2>2. m.kind \in Ending => ~HasEnded(book[k])
    BY <1>3, <2>1 DEF KeyInv, EndsOnce
  <2>3. Truthful(k, m)
    BY <1>3, <1>5 DEF KeyInv, NoticesTrue
  <2>4. m.kind = "fill" => m.lots \in FillsOf(k)
    BY <1>4 DEF FillsOf
  <2> QED
    BY <1>4, <2>2, <2>3, <2>4 DEF Meets
<1>8. /\ \A j \in Keys \ {k} : book'[j] = book[j]
      /\ HasEnded(book'[k]) <=> (HasEnded(book[k]) \/ m.kind \in Ending)
      /\ book[k].seen \subseteq book'[k].seen
      /\ m.kind = "fill" => m.lots \in book'[k].seen
      /\ EndsTrue(k)'
  BY <1>1, <1>2, <1>7, MeetsEnds
<1>9. \A j \in Keys : rank'[j] > 0 => rank[j] > 0
  <2>1. rank \in [Keys -> Nat]
    BY DEF IInv, CountInv, TypeOK
  <2>2. \A j \in Keys : rank'[j] \in {0, rank[j]} \/ rank[j] > rank[k]
    BY <1>1, <1>2 DEF RankWithout
  <2> QED
    BY <1>1, <2>1, <2>2
<1>10. ASSUME NEW j \in Keys \ {k} PROVE Still(j)
  BY <1>2, <1>6, <1>8, <1>9 DEF Still, exchange
<1>11. CallOK(k)'
  BY <1>1, <1>2, <1>3, <1>6, <1>9 DEF KeyInv, CallOK, exchange
<1>12. WireEnds(k)' = WireEnds(k) /\ WireFills(k)' = WireFills(k)
  BY <1>2 DEF WireEnds, WireFills
<1>13. NoticesTrue(k)'
  <2>1. \A e \in wire' : e.key = k => Truthful(k, e)'
    BY <1>2, <1>3 DEF KeyInv, NoticesTrue, Truthful, XLeft, exchange
  <2>2. \A i \in 1 .. Len(Tail(s)) : Truthful(k, Tail(s)[i])
    BY <1>3, <1>5 DEF KeyInv, NoticesTrue
  <2>3. \A i \in 1 .. Len(pending'[k]) : Truthful(k, pending[k][i])'
    BY <1>2, <1>6, <2>2 DEF Truthful, XLeft, exchange
  <2> QED
    BY <2>1, <2>3 DEF NoticesTrue
<1>14. EndsOnce(k)'
  <2>1. /\ \A i, j \in KeptEnds(s) : i = j
        /\ WireEnds(k) # {} => KeptEnds(s) = {} /\ ~HasEnded(book[k])
        /\ KeptEnds(s) # {} => ~HasEnded(book[k])
        /\ \A e, f \in WireEnds(k) : e = f
    BY <1>3 DEF KeyInv, EndsOnce
  <2>2. \A i \in KeptEnds(Tail(s)) : i \in Nat /\ i # 0
    BY DEF KeptEnds
  <2>3. \A i, j \in KeptEnds(Tail(s)) : i = j
    BY <1>5, <2>1, <2>2
  <2>4. m.kind \in Ending => 1 \in KeptEnds(s)
    BY <1>5 DEF KeptEnds
  <2>5. m.kind \in Ending => KeptEnds(Tail(s)) = {} /\ WireEnds(k) = {}
    <3>1. SUFFICES ASSUME m.kind \in Ending, NEW i \in KeptEnds(Tail(s)) PROVE FALSE
      BY <2>1, <2>4
    <3>2. i + 1 = 1
      BY <1>5, <2>1, <2>4, <3>1
    <3> QED
      BY <2>2, <3>1, <3>2
  <2>6. KeptEnds(Tail(s)) # {} => KeptEnds(s) # {}
    BY <1>5
  <2> QED
    BY <1>6, <1>8, <1>12, <2>1, <2>3, <2>5, <2>6 DEF EndsOnce
<1>15. ASSUME BufferHolds PROVE Lossless(k)'
  <2>1. FillsOf(k) \subseteq FillsOf(k)'
    BY <1>5, <1>6, <1>8, <1>12 DEF FillsOf
  <2>2. KeptEnds(s) # {} => KeptEnds(Tail(s)) # {} \/ m.kind \in Ending
    BY <1>5 DEF KeptEnds
  <2>3. Lossless(k)
    BY <1>3, <1>15
  <2> QED
    BY <1>2, <1>6, <1>8, <1>12, <2>1, <2>2, <2>3 DEF Lossless, exchange
<1>16. resp'[k] = resp[k] /\ EndInv /\ replaying \in {NoKey, k}
  BY <1>0, <1>2 DEF IInv
<1> QED
  BY <1>1, <1>8, <1>10, <1>11, <1>13, <1>14, <1>15, <1>16, OneKey DEF KeyInv

(* While the buffer holds there is room for the notices of one more order. *)
LEMMA NoEviction ==
  ASSUME IInv, BufferHolds, NEW k \in Keys, xs[k] # "none"
  PROVE  Evicted(k) = {}
<1> DEFINE S == {j \in Keys : resp[j] # "idle"}
<1>1. CASE rank[k] = 0
  <2>1. k \in S /\ Buffered \subseteq S
    BY DEF IInv, EndInv, CallOK, Buffered
  <2>2. k \notin Buffered
    BY <1>1 DEF Buffered
  <2>3. IsFiniteSet(S) /\ IsFiniteSet(S \ {k})
    BY KeysAssumption, FS_Subset
  <2>4. Cardinality(S \ {k}) = Cardinality(S) - 1
    BY <2>1, <2>3, FS_RemoveElement
  <2>5. Cardinality(Buffered) <= Cardinality(S \ {k})
    <3>1. Buffered \in SUBSET (S \ {k})
      BY <2>1, <2>2
    <3> QED
      BY <2>3, <3>1, FS_Subset
  <2>6. /\ Cardinality(S) \in Nat /\ Cardinality(Buffered) \in Nat
        /\ Cardinality(S) <= PendingCap
    <3>1. IsFiniteSet(Buffered)
      BY <2>1, <2>3, FS_Subset
    <3> QED
      BY <2>3, <3>1, FS_CardinalityType DEF BufferHolds
  <2>7. ~(Cardinality(Buffered) >= PendingCap)
    BY <2>4, <2>5, <2>6, CapAssumption
  <2> QED
    BY <2>7 DEF Evicted
<1>2. CASE rank[k] # 0
  BY <1>2 DEF Evicted
<1> QED
  BY <1>1, <1>2

(* A notice goes to the end of what is kept for its order; other orders    *)
(* keep theirs, or lose it when the buffer does not hold.                  *)
LEMMA BufferEnds ==
  ASSUME IInv, NEW m \in Message, xs[m.key] # "none", BufferEvent(m)
  PROVE  /\ \A j \in Keys \ {m.key} :
              /\ pending'[j] = pending[j] \/ (~BufferHolds /\ pending'[j] = <<>>)
              /\ rank'[j] > 0 => rank[j] > 0
         /\ \E t \in {pending[m.key], <<>>} :
              /\ pending'[m.key] = Append(t, m)
              /\ BufferHolds => t = pending[m.key]
<1> DEFINE gone == Evicted(m.key)
           kept == [k \in Keys |-> IF k \in gone THEN <<>> ELSE pending[k]]
           down == [k \in Keys |-> IF gone = {} \/ rank[k] = 0 THEN rank[k]
                                   ELSE rank[k] - 1]
<1>1. m.key \in Keys
  BY DEF Message
<1>2. BufferHolds => gone = {}
  BY <1>1, NoEviction
<1> HIDE DEF gone
<1>3. pending' = [kept EXCEPT ![m.key] = Append(@, m)]
  BY DEF BufferEvent, gone
<1>4. rank' = [down EXCEPT ![m.key] = IF rank[m.key] > 0 THEN @
                                      ELSE Cardinality(Buffered \ gone) + 1]
  BY DEF BufferEvent, gone
<1>5. ASSUME NEW j \in Keys \ {m.key}
      PROVE  /\ pending'[j] = pending[j] \/ (~BufferHolds /\ pending'[j] = <<>>)
             /\ rank'[j] > 0 => rank[j] > 0
  <2>1. pending'[j] = kept[j]
    BY <1>1, <1>3
  <2>2. rank'[j] = down[j]
    BY <1>1, <1>4
  <2>3. rank[j] \in Nat
    BY DEF IInv, CountInv, TypeOK
  <2> QED
    BY <1>2, <2>1, <2>2, <2>3
<1>6. pending'[m.key] = Append(kept[m.key], m)
  BY <1>1, <1>3
<1>7. /\ kept[m.key] \in {pending[m.key], <<>>}
      /\ BufferHolds => kept[m.key] = pending[m.key]
  BY <1>1, <1>2
<1> QED
  BY <1>5, <1>6, <1>7

(* A notice of order k comes to be kept after t, which is all that was     *)
(* kept of k, or nothing.                                                  *)
Keeps(k, m, t) ==
  /\ m \in Message /\ m.key = k /\ Truthful(k, m)
  /\ t \in {pending[k], <<>>} /\ (BufferHolds => t = pending[k])
  /\ pending'[k] = Append(t, m)
  /\ xs'[k] = xs[k] /\ xfilled'[k] = xfilled[k] /\ book'[k] = book[k]

LEMMA KeepsEnds ==
  ASSUME IInv, NEW k \in Keys, NEW m, NEW t, NEW again \in BOOLEAN,
         Consume(m, again), Keeps(k, m, t)
  PROVE  /\ NoticesTrue(k)' /\ EndsOnce(k)' /\ EndsTrue(k)'
         /\ BufferHolds => Lossless(k)'
<1> USE DEF Keeps
<1>1. KeyInv(k) /\ (BufferHolds => Lossless(k)) /\ pending[k] \in Seq(Message)
  BY KeyFacts
<1>2. /\ \A e \in wire' : e \in wire
      /\ m.kind \in Ending => WireEnds(k)' = {} /\ WireEnds(k) # {}
      /\ m.kind \notin Ending => WireEnds(k)' = WireEnds(k)
      /\ WireFills(k) \subseteq WireFills(k)' \cup
           (IF m.kind = "fill" THEN {m.lots} ELSE {})
  BY ConsumedEnds
<1>3. t \in Seq(Message)
  BY <1>1, EmptySeq
<1>4. /\ KeptFills(t) \subseteq KeptFills(Append(t, m))
      /\ m.kind = "fill" => m.lots \in KeptFills(Append(t, m))
      /\ KeptEnds(Append(t, m))
           = KeptEnds(t) \cup (IF m.kind \in Ending THEN {Len(t) + 1} ELSE {})
      /\ \A i \in 1 .. Len(Append(t, m)) :
           Append(t, m)[i] = m \/ (i \in 1 .. Len(t) /\ Append(t, m)[i] = t[i])
  BY <1>3, AppendEnds
<1>5. KeptEnds(t) \subseteq KeptEnds(pending[k])
      /\ \A i \in 1 .. Len(t) : i \in 1 .. Len(pending[k]) /\ t[i] = pending[k][i]
  <2>1. KeptEnds(<<>>) = {} /\ 1 .. Len(<<>>) = {}
    BY DEF KeptEnds
  <2> QED
    BY <2>1
<1>6. NoticesTrue(k)'
  <2>1. \A e \in wire' : e.key = k => Truthful(k, e)'
    BY <1>1, <1>2 DEF KeyInv, NoticesTrue, Truthful, XLeft
  <2>2. \A i \in 1 .. Len(Append(t, m)) : Truthful(k, Append(t, m)[i])
    BY <1>1, <1>4, <1>5 DEF KeyInv, NoticesTrue
  <2>3. \A i \in 1 .. Len(pending'[k]) : Truthful(k, pending[k][i])'
    BY <2>2 DEF Truthful, XLeft
  <2> QED
    BY <2>1, <2>3 DEF NoticesTrue
<1>7. EndsOnce(k)'
  <2>1. /\ \A i, j \in KeptEnds(pending[k]) : i = j
        /\ WireEnds(k) # {} => KeptEnds(pending[k]) = {} /\ ~HasEnded(book[k])
        /\ KeptEnds(pending[k]) # {} => ~HasEnded(book[k])
        /\ \A e, f \in WireEnds(k) : e = f
    BY <1>1 DEF KeyInv, EndsOnce
  <2>2. m.kind \in Ending => KeptEnds(t) = {}
    BY <1>2, <1>5, <2>1
  <2>3. \A i, j \in KeptEnds(pending'[k]) : i = j
    BY <1>4, <1>5, <2>1, <2>2
  <2> QED
    BY <1>2, <1>4, <1>5, <2>1, <2>2, <2>3 DEF EndsOnce
<1>8. EndsTrue(k)'
  BY <1>1 DEF KeyInv, EndsTrue
<1>9. ASSUME BufferHolds PROVE Lossless(k)'
  <2>1. FillsOf(k) \subseteq FillsOf(k)'
    BY <1>2, <1>4, <1>9 DEF FillsOf
  <2>2. WireEnds(k) # {} \/ KeptEnds(pending[k]) # {} =>
          WireEnds(k)' # {} \/ KeptEnds(pending[k])' # {}
    BY <1>2, <1>4, <1>9
  <2>3. Lossless(k)
    BY <1>1, <1>9
  <2> QED
    BY <2>1, <2>2, <2>3 DEF Lossless
<1> QED
  BY <1>6, <1>7, <1>8, <1>9

LEMMA IdentifyEnds ==
  ASSUME IInv, replaying = NoKey, NEW m, IdentifyHl(m)
  PROVE  EndInv'
<1> DEFINE k == m.key
           r == IF resp[k] = "held" THEN "done" ELSE resp[k]
<1>1. /\ Identifiable(k) /\ m.kind \in {"ack", "cancel"} /\ Consume(m, FALSE)
      /\ tracked' = tracked \cup {k}
      /\ book' = [book EXCEPT ![k] = NewOrder(Qty[k])]
      /\ pending' = IF m.kind = "cancel"
                    THEN [pending EXCEPT ![k] = Append(@, m)] ELSE pending
      /\ replaying' = IF pending'[k] = <<>> THEN NoKey ELSE k
      /\ UNCHANGED <<exchange, told, rank>>
      /\ resp' = [resp EXCEPT ![k] = r]
  BY DEF IdentifyHl
<1>2. /\ m \in Message /\ k \in Keys /\ Truthful(k, m)
      /\ \A e \in wire \cup wire' : e.key # k => e \in wire /\ e \in wire'
      /\ \A e \in wire' : e \in wire
      /\ m.kind \notin Ending => WireEnds(k)' = WireEnds(k)
      /\ WireFills(k) \subseteq WireFills(k)' \cup
           (IF m.kind = "fill" THEN {m.lots} ELSE {})
  BY <1>1, ConsumedEnds
<1>3. k \notin tracked /\ r # "idle"
  BY <1>1 DEF Identifiable
<1> HIDE DEF k, r
<1>4. book' = book
  <2>1. book[k] = NewOrder(Qty[k]) /\ book \in [Keys -> OrderRecord]
    BY <1>2, <1>3 DEF IInv, CountInv, BookOK, TypeOK
  <2> QED
    BY <1>1, <2>1
<1>5. xs[k] \in {"live", "done"}
  BY <1>1, <1>2 DEF Truthful
<1>6. pending \in [Keys -> Seq(Message)]
  BY DEF IInv, CountInv, TypeOK
<1>7. Tracks(k, r)
  <2>1. \A j \in Keys \ {k} : pending'[j] = pending[j]
    BY <1>1, <1>2, <1>6
  <2> QED
    BY <1>1, <1>2, <1>3, <1>4, <1>5, <2>1 DEF Tracks
<1>8. /\ NoticesTrue(k)' /\ EndsOnce(k)' /\ EndsTrue(k)'
      /\ BufferHolds => Lossless(k)'
  <2>1. CASE m.kind = "cancel"
    <3>1. pending'[k] = Append(pending[k], m)
      BY <1>1, <1>2, <1>6, <2>1
    <3>2. Keeps(k, m, pending[k])
      BY <1>1, <1>2, <1>4, <3>1 DEF Keeps, exchange, k
    <3> QED
      BY <1>1, <1>2, <3>2, KeepsEnds
  <2>2. CASE m.kind = "ack"
    <3>1. KeyInv(k) /\ (BufferHolds => Lossless(k))
      BY <1>2, KeyFacts
    <3>2. UNCHANGED <<exchange, pending, book>> /\ WireEnds(k)' = WireEnds(k)
          /\ WireFills(k) \subseteq WireFills(k)'
      BY <1>1, <1>2, <1>4, <2>2 DEF Ending
    <3>3. NoticesTrue(k)'
      BY <1>2, <3>1, <3>2 DEF KeyInv, NoticesTrue, Truthful, XLeft, exchange
    <3>4. EndsOnce(k)' /\ EndsTrue(k)'
      BY <3>1, <3>2 DEF KeyInv, EndsOnce, EndsTrue, exchange
    <3>5. BufferHolds => Lossless(k)'
      <4>1. FillsOf(k) \subseteq FillsOf(k)'
        BY <3>2 DEF FillsOf
      <4> QED
        BY <3>1, <3>2, <4>1 DEF Lossless, exchange
    <3> QED
      BY <3>3, <3>4, <3>5
  <2> QED
    BY <1>1, <2>1, <2>2
<1> QED
  BY <1>2, <1>7, <1>8, TracksEnds

LEMMA DeliverUntrackedEnds ==
  ASSUME IInv, replaying = NoKey, NEW m, NEW again \in BOOLEAN,
         DeliverUntracked(m, again)
  PROVE  EndInv'
<1> DEFINE k == m.key
<1>1. /\ Consume(m, again) /\ k \notin tracked
      /\ BufferEvent(m) \/ (m.kind = "ack" /\ UNCHANGED buffer)
      /\ UNCHANGED <<exchange, books, replaying>>
      /\ resp' = resp \/ (resp[k] = "held" /\ resp' = [resp EXCEPT ![k] = "gone"])
  BY DEF DeliverUntracked
<1>2. /\ m \in Message /\ m \in wire /\ k \in Keys /\ Truthful(k, m)
      /\ \A e \in wire \cup wire' : e.key # k => e \in wire /\ e \in wire'
      /\ \A e \in wire' : e \in wire
      /\ m.kind \notin Ending => WireEnds(k)' = WireEnds(k)
      /\ WireFills(k) \subseteq WireFills(k)' \cup
           (IF m.kind = "fill" THEN {m.lots} ELSE {})
  BY <1>1, ConsumedEnds
<1>3. xs[k] # "none"
  BY <1>2 DEF Truthful, Message, Kinds
<1>4. /\ \A j \in Keys \ {k} : resp'[j] = resp[j]
      /\ resp'[k] = resp[k] \/ resp'[k] = "gone"
  BY <1>1 DEF IInv, CountInv, TypeOK
<1>5. KeyInv(k) /\ (BufferHolds => Lossless(k))
  BY <1>2, KeyFacts
<1>6. CallOK(k)'
  BY <1>1, <1>3, <1>4, <1>5 DEF KeyInv, CallOK, exchange, books
<1>7. CASE BufferEvent(m)
  <2>1. /\ \A j \in Keys \ {k} :
              /\ pending'[j] = pending[j] \/ (~BufferHolds /\ pending'[j] = <<>>)
              /\ rank'[j] > 0 => rank[j] > 0
        /\ \E t \in {pending[k], <<>>} :
              /\ pending'[k] = Append(t, m)
              /\ BufferHolds => t = pending[k]
    BY <1>2, <1>3, <1>7, BufferEnds
  <2>2. ASSUME NEW j \in Keys \ {k} PROVE Still(j)
    BY <1>1, <1>2, <1>4, <2>1 DEF Still, exchange, books
  <2>3. PICK t \in {pending[k], <<>>} :
          pending'[k] = Append(t, m) /\ (BufferHolds => t = pending[k])
    BY <2>1
  <2>4. Keeps(k, m, t)
    BY <1>1, <1>2, <2>3 DEF Keeps, exchange, books
  <2>5. /\ NoticesTrue(k)' /\ EndsOnce(k)' /\ EndsTrue(k)'
        /\ BufferHolds => Lossless(k)'
    BY <1>1, <1>2, <2>4, KeepsEnds
  <2> QED
    BY <1>2, <1>4, <1>6, <2>2, <2>5, OneKey DEF KeyInv, IInv
<1>8. CASE m.kind = "ack" /\ UNCHANGED buffer
  <2>1. ASSUME NEW j \in Keys \ {k} PROVE Still(j)
    BY <1>1, <1>2, <1>4, <1>8 DEF Still, exchange, books, buffer
  <2>2. UNCHANGED <<exchange, pending, book>> /\ WireEnds(k)' = WireEnds(k)
        /\ WireFills(k) \subseteq WireFills(k)'
    BY <1>1, <1>2, <1>8 DEF Ending, books, buffer
  <2>3. NoticesTrue(k)'
    BY <1>2, <1>5, <2>2 DEF KeyInv, NoticesTrue, Truthful, XLeft, exchange
  <2>4. EndsOnce(k)' /\ EndsTrue(k)'
    BY <1>5, <2>2 DEF KeyInv, EndsOnce, EndsTrue, exchange
  <2>5. BufferHolds => Lossless(k)'
    <3>1. FillsOf(k) \subseteq FillsOf(k)'
      BY <2>2 DEF FillsOf
    <3> QED
      BY <1>5, <2>2, <3>1 DEF Lossless, exchange
  <2> QED
    BY <1>2, <1>4, <1>6, <2>1, <2>3, <2>4, <2>5, OneKey DEF KeyInv, IInv
<1> QED
  BY <1>1, <1>7, <1>8

-----------------------------------------------------------------------------
(* The invariant.                                                          *)

LEMMA EndInit == Init => EndInv
<1> SUFFICES ASSUME Init PROVE EndInv
  OBVIOUS
<1>1. CountInv
  BY InitInv
<1> USE DEF Init
<1>2. ASSUME NEW k \in Keys PROVE KeyInv(k) /\ Lossless(k)
  <2>1. /\ xs[k] = "none" /\ resp[k] = "idle" /\ xfilled[k] = 0 /\ rank[k] = 0
        /\ wire = {} /\ tracked = {} /\ pending[k] = <<>>
        /\ book[k] = NewOrder(Qty[k])
    OBVIOUS
  <2>2. /\ book[k].cancelled = 0 /\ book[k].status = "new" /\ book[k].qty = Qty[k]
    BY <2>1 DEF NewOrder
  <2>3. KeptEnds(pending[k]) = {} /\ WireEnds(k) = {}
    BY <2>1 DEF KeptEnds, WireEnds
  <2>4. ~HasEnded(book[k]) /\ Settled(book[k], xfilled[k])
    BY <2>2 DEF HasEnded, Settled
  <2>5. CallOK(k) /\ NoticesTrue(k)
    BY <2>1 DEF CallOK, NoticesTrue
  <2>6. EndsOnce(k) /\ EndsTrue(k)
    BY <2>1, <2>3, <2>4 DEF EndsOnce, EndsTrue
  <2>7. Lossless(k)
    BY <2>1 DEF Lossless
  <2> QED
    BY <2>5, <2>6, <2>7 DEF KeyInv
<1> QED
  BY <1>2 DEF EndInv, KeyInv

LEMMA EndStep ==
  ASSUME IInv, [Next]_vars
  PROVE  EndInv'
<1>1. CASE Replay
  BY <1>1, ReplayEnds
<1>2. CASE replaying = NoKey /\ Step
  <2>1. ASSUME NEW k \in Keys, Exchange(k) PROVE EndInv'
    BY <1>2, <2>1, AcceptEnds, MoreFilledEnds, LastWordEnds DEF Exchange
  <2>2. ASSUME NEW k \in Keys,
               Place(k) \/ PlaceFails(k) \/ RecheckGivesUp(k)
        PROVE  EndInv'
    <3>1. PICK r \in {"wait", "held", "gone"} :
             /\ resp[k] # "done" /\ resp' = [resp EXCEPT ![k] = r]
             /\ UNCHANGED <<exchange, wire, books, buffer, replaying>>
      BY <2>2 DEF Place, PlaceFails, RecheckGivesUp
    <3> QED
      BY <1>2, <3>1, CallEnds
  <2>3. ASSUME NEW k \in Keys, RespondLs(k) PROVE EndInv'
    BY <1>2, <2>3, RespondLsEnds
  <2>4. ASSUME NEW k \in Keys, NEW q \in {0, xfirst[k]}, RespondHl(k, q)
        PROVE  EndInv'
    BY <1>2, <2>4, RespondHlEnds
  <2>5. ASSUME NEW k \in Keys, RecheckFinds(k) PROVE EndInv'
    BY <1>2, <2>5, RecheckEnds
  <2>6. ASSUME NEW m \in wire, NEW again \in BOOLEAN, Deliver(m, again)
        PROVE  EndInv'
    BY <1>2, <2>6, DeliverTrackedEnds, IdentifyEnds, DeliverUntrackedEnds
       DEF Deliver
  <2> QED
    BY <1>2, <2>1, <2>2, <2>3, <2>4, <2>5, <2>6 DEF Step, Respond, Recheck
<1>3. CASE UNCHANGED vars
  <2>1. ASSUME NEW k \in Keys
        PROVE  KeyInv(k)' /\ (BufferHolds => Lossless(k)')
    <3>1. KeyInv(k) /\ (BufferHolds => Lossless(k))
      BY KeyFacts
    <3>2. /\ WireEnds(k)' = WireEnds(k) /\ FillsOf(k)' = FillsOf(k)
      BY <1>3 DEF vars, WireEnds, FillsOf, WireFills
    <3>3. CallOK(k)' /\ NoticesTrue(k)' /\ EndsOnce(k)' /\ EndsTrue(k)'
      BY <1>3, <3>1, <3>2 DEF vars, KeyInv, CallOK, NoticesTrue, Truthful, XLeft,
         EndsOnce, EndsTrue
    <3>4. BufferHolds => Lossless(k)'
      BY <1>3, <3>1, <3>2 DEF vars, Lossless
    <3> QED
      BY <3>3, <3>4 DEF KeyInv
  <2>2. BufferHolds' => BufferHolds
    BY <1>3 DEF vars, BufferHolds
  <2> QED
    BY <2>1, <2>2 DEF EndInv, KeyInv
<1> QED
  BY <1>1, <1>2, <1>3 DEF Next

(* The order book, the exchange, the notices under way and the buffer of   *)
(* early ones always agree: each lot is counted once, each end is met      *)
(* once, and no notice is lost while the buffer holds (order_book.py       *)
(* on_fill, on_cancel, on_reject, _buffer_event, replay_pending;           *)
(* bootstrap.py place, _adopt_hl_order, _identify_hl_order).               *)
THEOREM Soundness == Spec => []IInv
<1>1. Init => IInv
  BY InitInv, EndInit DEF IInv
<1>2. IInv /\ [Next]_vars => IInv'
  BY StepInv, EndStep DEF IInv
<1> QED
  BY <1>1, <1>2, PTL DEF Spec

-----------------------------------------------------------------------------
(* What follows of the book.                                               *)

LEMMA SettledWhenClosed ==
  ASSUME IInv
  PROVE  ClosedIsSettled
<1> SUFFICES ASSUME NEW k \in tracked, ~IsOpen(book[k])
             PROVE  xs[k] = "done" /\ book[k].filled = xfilled[k]
  BY DEF ClosedIsSettled
<1>1. k \in Keys
  BY DEF IInv, CountInv, TypeOK
<1>2. /\ book[k] \in OrderRecord /\ xfilled[k] \in Nat /\ Qty[k] \in Nat \ {0}
      /\ xfilled[k] <= book[k].qty /\ book[k].qty = Qty[k]
      /\ Sound(book[k], xfilled[k]) /\ KeyInv(k)
  BY <1>1, KeyFacts
<1>3. Settled(book[k], xfilled[k])
  BY <1>2 DEF KeyInv, EndsTrue
<1>4. book[k].filled = xfilled[k]
  BY <1>2, <1>3, ClosedCounts
<1>5. xs[k] \in {"live", "done"}
  BY <1>2 DEF KeyInv, CallOK
<1>6. ASSUME xs[k] = "live" PROVE FALSE
  <2>1. xfilled[k] < Qty[k] /\ ~HasEnded(book[k])
    BY <1>2, <1>6 DEF KeyInv, EndsTrue
  <2>2. book[k].cancelled = 0 /\ book[k].status # "rejected"
    BY <1>2, <2>1 DEF HasEnded, OrderRecord
  <2>3. book[k].status \in {"filled", "cancelled"}
    BY <1>2, <2>2 DEF OrderRecord, IsOpen, OpenStatus, ClosedStatus
  <2>4. book[k].qty <= book[k].filled
    BY <1>2, <1>3, <2>2, <2>3 DEF Sound, Shape, Settled, Remaining, OrderRecord
  <2> QED
    BY <1>2, <1>4, <2>1, <2>4
<1> QED
  BY <1>4, <1>5, <1>6

(* An order is closed in the book only when the exchange has ended it and  *)
(* all that it executed is counted (order_book.py on_cancel, on_fill).     *)
THEOREM ClosedSettled == Spec => []ClosedIsSettled
<1>1. IInv => ClosedIsSettled
  BY SettledWhenClosed
<1> QED
  BY <1>1, Soundness, PTL

(* While the exchange works an order the book has it open, with as much    *)
(* remaining as is live or more: a cancel of the book's remaining quantity *)
(* (bootstrap.py cancel, amend_price) leaves nothing alive.                *)
THEOREM CancelCovers == Spec => []CancelCoversLive
<1>1. ASSUME IInv, NEW k \in tracked, xs[k] = "live"
      PROVE  IsOpen(book[k]) /\ Remaining(book[k]) >= XLeft(k)
  <2>1. k \in Keys
    BY <1>1 DEF IInv, CountInv, TypeOK
  <2>2. /\ book[k] \in OrderRecord /\ xfilled[k] \in Nat /\ Qty[k] \in Nat \ {0}
        /\ book[k].qty = Qty[k] /\ Sound(book[k], xfilled[k]) /\ KeyInv(k)
        /\ xfilled[k] <= Qty[k]
    BY <1>1, <2>1, KeyFacts
  <2>3. IsOpen(book[k])
    BY <1>1, SettledWhenClosed DEF ClosedIsSettled
  <2>4. book[k].cancelled = 0 /\ book[k].filled <= xfilled[k]
    BY <1>1, <2>2 DEF KeyInv, EndsTrue, HasEnded, OrderRecord, Sound
  <2>5. Remaining(book[k]) >= XLeft(k)
    BY <2>2, <2>4 DEF Remaining, XLeft, OrderRecord
  <2> QED
    BY <2>3, <2>5
<1>2. IInv => CancelCoversLive
  BY <1>1 DEF CancelCoversLive
<1> QED
  BY <1>2, Soundness, PTL

(* An order left open by a cancel that covered less than the book's        *)
(* remaining quantity waits for exactly the executed lots that it has not  *)
(* counted (order_book.py on_cancel).                                      *)
THEOREM WaitsExactly == Spec => []WaitsForExecuted
<1>1. ASSUME IInv, NEW k \in tracked, IsOpen(book[k]), book[k].cancelled > 0
      PROVE  xs[k] = "done" /\ Remaining(book[k]) = xfilled[k] - book[k].filled
  <2>1. k \in Keys
    BY <1>1 DEF IInv, CountInv, TypeOK
  <2>2. /\ book[k] \in OrderRecord /\ xfilled[k] \in Nat /\ Qty[k] \in Nat \ {0}
        /\ book[k].qty = Qty[k] /\ Sound(book[k], xfilled[k]) /\ KeyInv(k)
        /\ xfilled[k] <= Qty[k]
    BY <1>1, <2>1, KeyFacts
  <2>3. xs[k] = "done" /\ book[k].cancelled = Qty[k] - xfilled[k]
    BY <1>1, <2>2 DEF KeyInv, EndsTrue, HasEnded, Settled
  <2>4. book[k].filled + book[k].cancelled < book[k].qty
    BY <1>1, <2>2 DEF Sound, Shape
  <2>5. Remaining(book[k]) = xfilled[k] - book[k].filled
    BY <2>2, <2>3, <2>4 DEF Remaining, OrderRecord
  <2> QED
    BY <2>3, <2>5
<1>2. IInv => WaitsForExecuted
  BY <1>1 DEF WaitsForExecuted
<1> QED
  BY <1>2, Soundness, PTL

(* Once nothing of an answered order is under way, the book agrees with    *)
(* the exchange on what was executed and on whether the order is alive,    *)
(* and the engines were told (order_book.py replay_pending; bootstrap.py   *)
(* place) - as long as the buffer has room for every order placed.         *)
THEOREM QuietExact == Spec => []QuietIsExact
<1>1. ASSUME IInv, NEW k \in Keys, Quiet(k), BufferHolds
      PROVE  /\ k \in tracked
             /\ book[k].filled = xfilled[k] /\ told[k] = xfilled[k]
             /\ IsOpen(book[k]) <=> xs[k] = "live"
  <2>1. /\ book[k] \in OrderRecord /\ xfilled[k] \in Nat /\ Qty[k] \in Nat \ {0}
        /\ book[k].qty = Qty[k] /\ Sound(book[k], xfilled[k])
        /\ xfilled[k] <= Qty[k] /\ KeyInv(k) /\ Lossless(k)
    BY <1>1, KeyFacts
  <2>2. k \in tracked /\ xs[k] \in {"live", "done"} /\ pending[k] = <<>>
    BY <1>1, <2>1, KeysAssumption DEF Quiet, KeyInv, CallOK
  <2>3. KeptEnds(pending[k]) = {} /\ KeptFills(pending[k]) = {}
    BY <2>2 DEF KeptEnds, KeptFills
  <2>4. WireEnds(k) = {} /\ WireFills(k) \subseteq book[k].seen
    BY <1>1 DEF Quiet, WireEnds, WireFills, Ending
  <2>5. FillsOf(k) = book[k].seen
    BY <2>3, <2>4 DEF FillsOf
  <2>6. UNION book[k].seen = 1 .. xfilled[k]
    BY <2>1, <2>5 DEF Lossless, Sound
  <2>7. SeenLots(book[k]) = xfilled[k]
    <3>1. Cardinality(1 .. xfilled[k]) = xfilled[k]
      BY <2>1, FS_Interval
    <3> QED
      BY <2>6, <3>1 DEF SeenLots
  <2>8. book[k].filled = xfilled[k]
    <3>1. /\ book[k].filled = SeenLots(book[k]) + book[k].prov
          /\ book[k].filled <= xfilled[k]
      BY <2>1 DEF Sound
    <3>2. book[k].prov \in Nat
      BY <2>1 DEF OrderRecord
    <3> QED
      BY <2>1, <2>7, <3>1, <3>2
  <2>9. told[k] = book[k].filled
    BY <1>1 DEF IInv, CountInv, BookOK
  <2>10. xs[k] = "live" => IsOpen(book[k])
    BY <1>1, <2>2, SettledWhenClosed DEF ClosedIsSettled
  <2>11. ASSUME xs[k] = "done", IsOpen(book[k]) PROVE FALSE
    <3>1. book[k].filled + book[k].cancelled < book[k].qty
      BY <2>1, <2>11 DEF Sound, Shape
    <3>2. HasEnded(book[k])
      BY <2>1, <2>3, <2>4, <2>8, <2>11, <3>1 DEF Lossless, OrderRecord
    <3>3. book[k].status # "rejected"
      BY <2>11 DEF IsOpen, OpenStatus
    <3>4. book[k].cancelled = Qty[k] - xfilled[k]
      BY <2>1, <3>2, <3>3 DEF HasEnded, KeyInv, EndsTrue, Settled
    <3> QED
      BY <2>1, <2>8, <3>1, <3>4
  <2> QED
    BY <2>2, <2>8, <2>9, <2>10, <2>11
<1>2. IInv => QuietIsExact
  BY <1>1 DEF QuietIsExact
<1> QED
  BY <1>2, Soundness, PTL

-----------------------------------------------------------------------------
(* What a step does to the book, and the ledger that the book implements.  *)

(* A step that turns to order k: it is tracked, counts no less, and stays  *)
(* closed if it was.                                                       *)
Turns(k) ==
  /\ UNCHANGED exchange
  /\ tracked' = tracked \cup {k}
  /\ \A j \in Keys \ {k} : book'[j] = book[j]
  /\ ~IsOpen(book[k]) => ~IsOpen(book'[k])
  /\ book[k].filled <= book'[k].filled

(* What a notice does to the quantity filled.                              *)
LEMMA MeetsCounts ==
  ASSUME IInv, NEW k \in tracked, k \in Keys, NEW m, Meets(k, m),
         SetOrder(k, AfterEvent(book[k], m)), UNCHANGED <<exchange, tracked>>
  PROVE  Turns(k)
<1>1. /\ \A j \in Keys \ {k} : book'[j] = book[j]
      /\ ~IsOpen(book[k]) => ~IsOpen(book'[k])
      /\ book'[k] = AfterEvent(book[k], m)
  BY MeetsEnds
<1>2. book[k].filled <= AfterEvent(book[k], m).filled
  <2>1. CountInv /\ m \in Message /\ (m.kind = "fill" => m.lots \in FillsOf(k))
    BY DEF IInv, Meets
  <2>2. Handled(book[k], AfterEvent(book[k], m), xfilled[k], m.lots)
    BY <2>1, EventHandled
  <2> QED
    BY <2>2 DEF Handled
<1> QED
  BY <1>1, <1>2 DEF Turns

LEMMA BookMoves ==
  ASSUME IInv, [Next]_vars
  PROVE  \/ UNCHANGED books
         \/ \E k \in Keys : Turns(k)
<1>1. CASE Replay
  <2>1. PICK k \in Keys : k = replaying
    BY <1>1 DEF Replay, IInv, CountInv, TypeOK
  <2> DEFINE m == Head(pending[k])
  <2>2. /\ k \in tracked /\ pending[k] # <<>>
        /\ SetOrder(k, AfterEvent(book[k], m))
        /\ UNCHANGED <<exchange, tracked>>
    BY <1>1, <2>1 DEF Replay, IInv, CountInv, ReplayOK
  <2>3. pending[k] \in Seq(Message) /\ KeyInv(k)
    BY KeyFacts
  <2>4. m \in Message /\ (m.kind = "fill" => m.lots \in KeptFills(pending[k]))
    BY <2>2, <2>3, TailKept
  <2>5. m = pending[k][1] /\ 1 \in 1 .. Len(pending[k])
    BY <2>2, <2>3, TailEnds
  <2> HIDE DEF m
  <2>6. Meets(k, m)
    <3>1. m.kind \in Ending => 1 \in KeptEnds(pending[k])
      BY <2>5 DEF KeptEnds
    <3> QED
      BY <2>3, <2>4, <2>5, <3>1 DEF Meets, KeyInv, EndsOnce, NoticesTrue, FillsOf
  <2> QED
    BY <2>2, <2>6, MeetsCounts
<1>2. CASE replaying = NoKey /\ Step
  <2>1. ASSUME NEW k \in Keys,
               Exchange(k) \/ Place(k) \/ PlaceFails(k) \/ RecheckGivesUp(k)
        PROVE  UNCHANGED books
    BY <2>1 DEF Exchange, XAccept, XRefuse, XFill, XCancel, XReject, Place,
       PlaceFails, RecheckGivesUp
  <2>2. ASSUME NEW k \in Keys, RespondLs(k) \/ RecheckFinds(k)
        PROVE  UNCHANGED books \/ Turns(k)
    <3>1. CASE k \notin tracked
      <4>1. book[k] = NewOrder(Qty[k]) /\ book \in [Keys -> OrderRecord]
        BY <3>1 DEF IInv, CountInv, BookOK, TypeOK
      <4>2. /\ book' = [book EXCEPT ![k] = NewOrder(Qty[k])]
            /\ tracked' = tracked \cup {k} /\ UNCHANGED exchange
        BY <2>2, <3>1 DEF RespondLs, RecheckFinds
      <4>3. book' = book
        BY <4>1, <4>2
      <4>4. book[k].filled <= book[k].filled
        BY <4>1 DEF OrderRecord
      <4> QED
        BY <4>2, <4>3, <4>4 DEF Turns
    <3>2. CASE k \in tracked
      <4>1. RecheckFinds(k)
        BY <2>2, <3>2 DEF RespondLs, IInv, CountInv, LsTracked
      <4> QED
        BY <3>2, <4>1 DEF RecheckFinds, books
    <3> QED
      BY <3>1, <3>2
  <2>3. ASSUME NEW k \in Keys, NEW q \in {0, xfirst[k]}, RespondHl(k, q)
        PROVE  Turns(k)
    <3> DEFINE o == book[k]
               p == Adopted(k, q)
    <3>1. /\ o \in OrderRecord /\ xfilled[k] \in Nat /\ q \in Nat /\ KeyInv(k)
          /\ Sound(o, xfilled[k]) /\ q <= xfilled[k]
      BY KeyFacts DEF IInv, CountInv, TypeOK, ExchangeOK
    <3>2. p = IF q > o.filled THEN AfterPlaceFill(o, q - o.filled) ELSE o
      BY DEF Adopted, IInv, CountInv, BookOK
    <3>3. Settled(o, xfilled[k])
      BY <3>1 DEF KeyInv, EndsTrue
    <3>4. (~IsOpen(o) => ~IsOpen(p)) /\ o.filled <= p.filled
      <4>1. CASE q > o.filled
        <5>1. q - o.filled \in Nat /\ o.filled + (q - o.filled) <= xfilled[k]
          BY <3>1, <4>1 DEF OrderRecord
        <5> HIDE DEF o
        <5>2. SameEnd(o, p, xfilled[k])
          BY <5>1, <4>1, <3>1, <3>2, <3>3, PlaceFillEnds
        <5>3. Handled(o, p, xfilled[k], {})
          BY <5>1, <4>1, <3>1, <3>2, PlaceFillSound
        <5> QED
          BY <5>2, <5>3 DEF SameEnd, Handled
      <4>2. CASE ~(q > o.filled)
        BY <4>2, <3>1, <3>2 DEF OrderRecord
      <4> QED
        BY <4>1, <4>2
    <3>5. book'[k] = p /\ \A j \in Keys \ {k} : book'[j] = book[j]
      BY <2>3 DEF RespondHl, SetOrder, IInv, CountInv, TypeOK
    <3> HIDE DEF p
    <3> QED
      BY <2>3, <3>4, <3>5 DEF RespondHl, Turns
  <2>4. ASSUME NEW m \in wire, NEW again \in BOOLEAN, Deliver(m, again)
        PROVE  UNCHANGED books \/ \E k \in Keys : Turns(k)
    <3>1. CASE DeliverTracked(m, again)
      <4> DEFINE k == m.key
      <4>1. /\ Consume(m, again) /\ k \in tracked /\ k \in Keys
            /\ SetOrder(k, AfterEvent(book[k], m))
            /\ UNCHANGED <<exchange, tracked>>
        BY <3>1 DEF DeliverTracked, IInv, CountInv, TypeOK
      <4>2. /\ m \in Message /\ Truthful(k, m)
            /\ m.kind \in Ending => WireEnds(k) # {}
        BY <4>1, ConsumedEnds
      <4>3. KeyInv(k)
        BY <4>1, KeyFacts
      <4>4. m.kind = "fill" => m.lots \in FillsOf(k)
        BY DEF FillsOf, WireFills
      <4> HIDE DEF k
      <4>5. Meets(k, m)
        BY <4>2, <4>3, <4>4 DEF Meets, KeyInv, EndsOnce
      <4> QED
        BY <4>1, <4>5, MeetsCounts
    <3>2. CASE IdentifyHl(m)
      <4>1. /\ m.key \notin tracked /\ m.key \in Keys
            /\ book' = [book EXCEPT ![m.key] = NewOrder(Qty[m.key])]
            /\ tracked' = tracked \cup {m.key} /\ UNCHANGED exchange
        BY <3>2 DEF IdentifyHl, Identifiable, Keys
      <4>2. book[m.key] = NewOrder(Qty[m.key]) /\ book \in [Keys -> OrderRecord]
        BY <4>1 DEF IInv, CountInv, BookOK, TypeOK
      <4>3. book' = book
        BY <4>1, <4>2
      <4>4. book[m.key].filled <= book[m.key].filled
        BY <4>1, <4>2 DEF OrderRecord
      <4>5. Turns(m.key)
        BY <4>1, <4>3, <4>4 DEF Turns
      <4> QED
        BY <4>1, <4>5
    <3>3. CASE DeliverUntracked(m, again)
      BY <3>3 DEF DeliverUntracked
    <3> QED
      BY <2>4, <3>1, <3>2, <3>3 DEF Deliver
  <2> QED
    BY <1>2, <2>1, <2>2, <2>3, <2>4 DEF Step, Respond, Recheck
<1>3. CASE UNCHANGED vars
  BY <1>3 DEF vars, books
<1> QED
  BY <1>1, <1>2, <1>3 DEF Next

(* No tracked order is forgotten, nothing counted is uncounted, and a      *)
(* closed order is never reopened (order_book.py, every handler).          *)
THEOREM OnlyGrows == Spec => BookOnlyGrows
<1>1. ASSUME IInv, [Next]_vars
      PROVE  [\A k \in tracked :
                /\ k \in tracked'
                /\ book[k].filled <= book'[k].filled
                /\ ~IsOpen(book[k]) => ~IsOpen(book'[k])]_vars
  <2>1. tracked \subseteq Keys /\ \A k \in Keys : book[k] \in OrderRecord
    BY <1>1 DEF IInv, CountInv, TypeOK
  <2>2. CASE UNCHANGED books
    BY <2>1, <2>2 DEF books, OrderRecord
  <2>3. ASSUME NEW j \in Keys, Turns(j)
        PROVE  \A k \in tracked :
                 /\ k \in tracked'
                 /\ book[k].filled <= book'[k].filled
                 /\ ~IsOpen(book[k]) => ~IsOpen(book'[k])
    BY <2>1, <2>3 DEF Turns, OrderRecord
  <2> QED
    BY <1>1, <2>2, <2>3, BookMoves
<1> QED
  BY <1>1, Soundness, PTL DEF Spec, BookOnlyGrows

-----------------------------------------------------------------------------
(* The refinement: each step of the flow is a step of the ledger, or none. *)

(* The exchange executes more of an order that it has not ended.           *)
LEMMA ExchangeExecutes ==
  ASSUME IInv, NEW k \in Keys, Exchange(k)
  PROVE  Ledger!Next
<1> DEFINE ended == {j \in Keys : xs[j] = "done"}
           closed == {j \in tracked : ~IsOpen(book[j])}
<1>1. /\ xs \in [Keys -> {"none", "live", "done", "refused"}]
      /\ xfilled \in [Keys -> Nat] /\ Qty[k] \in Nat \ {0}
      /\ xfilled[k] \in Nat /\ xfilled[k] <= Qty[k]
      /\ xs[k] = "none" => xfilled[k] = 0
  BY QtyAssumption DEF IInv, CountInv, TypeOK, ExchangeOK
<1>2. PICK st \in {"live", "done", "refused"}, n \in xfilled[k] .. Qty[k] :
        /\ xs' = [xs EXCEPT ![k] = st]
        /\ xfilled' = [xfilled EXCEPT ![k] = n]
        /\ xs[k] \in {"none", "live"}
        /\ UNCHANGED books
  <2>1. ASSUME NEW q \in 0 .. Qty[k], NEW s \in 0 .. q, XAccept(k, q, s)
        PROVE  \E st \in {"live", "done", "refused"}, n \in xfilled[k] .. Qty[k] :
                 /\ xs' = [xs EXCEPT ![k] = st]
                 /\ xfilled' = [xfilled EXCEPT ![k] = n]
                 /\ xs[k] \in {"none", "live"}
                 /\ UNCHANGED books
    <3>1. q \in xfilled[k] .. Qty[k]
      BY <1>1, <2>1 DEF XAccept
    <3> QED
      BY <2>1, <3>1 DEF XAccept
  <2>2. ASSUME NEW q \in 1 .. Qty[k], XFill(k, q)
        PROVE  \E st \in {"live", "done", "refused"}, n \in xfilled[k] .. Qty[k] :
                 /\ xs' = [xs EXCEPT ![k] = st]
                 /\ xfilled' = [xfilled EXCEPT ![k] = n]
                 /\ xs[k] \in {"none", "live"}
                 /\ UNCHANGED books
    <3>1. xfilled[k] + q \in xfilled[k] .. Qty[k]
      BY <1>1, <2>2 DEF XFill, XLeft
    <3> QED
      BY <1>1, <2>2, <3>1 DEF XFill
  <2>3. ASSUME NEW notify \in BOOLEAN, XRefuse(k, notify) \/ XCancel(k) \/ XReject(k)
        PROVE  \E st \in {"live", "done", "refused"}, n \in xfilled[k] .. Qty[k] :
                 /\ xs' = [xs EXCEPT ![k] = st]
                 /\ xfilled' = [xfilled EXCEPT ![k] = n]
                 /\ xs[k] \in {"none", "live"}
                 /\ UNCHANGED books
    <3>1. xfilled[k] \in xfilled[k] .. Qty[k]
      BY <1>1
    <3>2. xfilled' = [xfilled EXCEPT ![k] = xfilled[k]]
      BY <1>1, <2>3 DEF XRefuse, XCancel, XReject
    <3> QED
      BY <2>3, <3>1, <3>2 DEF XRefuse, XCancel, XReject
  <2> QED
    BY <2>1, <2>2, <2>3 DEF Exchange
<1>3. k \notin ended
  BY <1>2
<1>4. ended' \in {ended, ended \cup {k}}
  <2>1. xs'[k] = st /\ \A j \in Keys \ {k} : xs'[j] = xs[j]
    BY <1>1, <1>2
  <2>2. CASE st = "done"
    BY <2>1, <2>2
  <2>3. CASE st # "done"
    BY <1>3, <2>1, <2>3
  <2> QED
    BY <2>2, <2>3
<1>5. told' = told /\ closed' = closed
  BY <1>2 DEF books
<1> HIDE DEF ended, closed
<1>6. Ledger!Execute(k)
  BY <1>2, <1>3, <1>4, <1>5 DEF Ledger!Execute, ended, closed
<1> QED
  BY <1>6 DEF Ledger!Next

(* The book counts more of an order that it has not closed.                *)
LEMMA BookCounts ==
  ASSUME IInv, IInv', NEW k \in Keys, Turns(k)
  PROVE  Ledger!Next \/ UNCHANGED Ledger!vars
<1> DEFINE ended == {j \in Keys : xs[j] = "done"}
           closed == {j \in tracked : ~IsOpen(book[j])}
<1>1. /\ told \in [Keys -> Nat] /\ told' \in [Keys -> Nat]
      /\ \A j \in Keys : told[j] = book[j].filled /\ told'[j] = book'[j].filled
      /\ told'[k] <= xfilled'[k] /\ tracked \subseteq Keys
  BY DEF IInv, CountInv, TypeOK, BookOK, Sound
<1>2. /\ xs' = xs /\ xfilled' = xfilled /\ ended' = ended
      /\ xfilled \in [Keys -> Nat]
  BY DEF Turns, exchange, IInv, CountInv, TypeOK
<1>3. told' = [told EXCEPT ![k] = told'[k]]
  <2>1. \A j \in Keys \ {k} : told'[j] = told[j]
    BY <1>1 DEF Turns
  <2> QED
    BY <1>1, <2>1
<1>4. closed' = closed \/ (closed' = closed \cup {k} /\ k \in tracked'
                                                    /\ ~IsOpen(book'[k]))
  <2>1. \A j \in Keys \ {k} : j \in closed' <=> j \in closed
    BY DEF Turns
  <2>2. k \in closed => k \in closed'
    BY DEF Turns
  <2> QED
    BY <1>1, <2>1, <2>2 DEF Turns
<1>5. k \in tracked' /\ ~IsOpen(book'[k]) => k \in ended /\ told'[k] = xfilled[k]
  <2>1. ClosedIsSettled'
    BY SettledWhenClosed, PTL
  <2> QED
    BY <1>1, <1>2, <2>1 DEF ClosedIsSettled
<1>6. CASE k \in closed
  <2>1. told[k] = xfilled[k] /\ closed' = closed
    BY <1>1, <1>4, <1>6, SettledWhenClosed DEF ClosedIsSettled
  <2>2. told'[k] = told[k]
    BY <1>1, <1>5, <1>6, <2>1 DEF Turns
  <2>3. told' = told
    BY <1>1, <1>3, <2>2
  <2> HIDE DEF ended, closed
  <2> QED
    BY <1>2, <2>1, <2>3 DEF Ledger!vars, ended, closed
<1>7. CASE k \notin closed
  <2>1. told'[k] \in told[k] .. xfilled[k]
    BY <1>1, <1>2 DEF Turns
  <2> HIDE DEF ended, closed
  <2>2. Ledger!Count(k)
    BY <1>2, <1>3, <1>4, <1>5, <1>7, <2>1 DEF Ledger!Count, ended, closed
  <2> QED
    BY <2>2 DEF Ledger!Next
<1> QED
  BY <1>6, <1>7

(* The order book implements the ledger it promises (order_book.py,        *)
(* bootstrap.py place and its identification): a lot is announced after    *)
(* its execution and once, and an order is closed when the exchange has    *)
(* ended it and all of it is announced.                                    *)
THEOREM BookIsLedger == Spec => LedgerSpec
<1>1. Init => Ledger!Init
  BY DEF Init, Ledger!Init
<1>2. ASSUME IInv, IInv', [Next]_vars PROVE [Ledger!Next]_(Ledger!vars)
  <2>1. CASE \E k \in Keys : Exchange(k)
    BY <1>2, <2>1, ExchangeExecutes
  <2>2. CASE \E k \in Keys : Turns(k)
    BY <1>2, <2>2, BookCounts
  <2>3. CASE UNCHANGED <<exchange, books>>
    BY <2>3 DEF Ledger!vars, exchange, books
  <2>4. UNCHANGED books => UNCHANGED <<exchange, books>> \/ \E k \in Keys : Exchange(k)
    <3>1. CASE Replay
      BY <3>1 DEF Replay
    <3>2. CASE replaying = NoKey /\ Step
      BY <3>2 DEF Step, Respond, Recheck, RespondLs, RespondHl, RecheckFinds,
         RecheckGivesUp, Place, PlaceFails, Deliver, DeliverTracked, IdentifyHl,
         DeliverUntracked
    <3>3. CASE UNCHANGED vars
      BY <3>3 DEF vars, exchange
    <3> QED
      BY <1>2, <3>1, <3>2, <3>3 DEF Next
  <2> QED
    BY <1>2, <2>1, <2>2, <2>3, <2>4, BookMoves
<1> QED
  BY <1>1, <1>2, Soundness, PTL DEF Spec, LedgerSpec, Ledger!Spec

-----------------------------------------------------------------------------
(***************************************************************************)
(* OrderResync.                                                            *)
(***************************************************************************)
(* What every handler of an order keeps: its shape, what it has counted,   *)
(* and that it is closed.                                                  *)
Grown(o, p) ==
  /\ p \in OrderRecord /\ Shape(p) /\ p.qty = o.qty
  /\ o.filled <= p.filled
  /\ ~IsOpen(o) => ~IsOpen(p)

LEMMA SameGrown ==
  ASSUME NEW o \in OrderRecord, Shape(o), NEW p \in OrderRecord, Shape(p),
         p.qty = o.qty, p.filled = o.filled, ~IsOpen(o) => p.status = o.status
  PROVE  Grown(o, p)
BY DEF Grown, OrderRecord, IsOpen

(* Recounting an order that differs from a well formed one in quantities.  *)
LEMMA RecountGrown ==
  ASSUME NEW o \in OrderRecord, Shape(o), NEW c \in OrderRecord,
         c.qty = o.qty, c.status = o.status, c.assumed = o.assumed,
         o.filled <= c.filled
  PROVE  /\ Grown(o, Recount(c))
         /\ Recount(c) = [c EXCEPT !.status = Recount(c).status]
         /\ Recount(c).status \in OpenStatus \cup ClosedStatus
<1>1. ~c.assumed /\ (c.status = "filled" => c.qty <= c.filled)
  BY DEF Shape, OrderRecord
<1> DEFINE p == Recount(c)
<1>2. /\ p \in OrderRecord /\ Shape(p) /\ p = [c EXCEPT !.status = p.status]
      /\ ~IsOpen(c) => p = c
  BY <1>1, RecountShape
<1>3. ~IsOpen(o) => ~IsOpen(p)
  BY <1>2 DEF IsOpen
<1> HIDE DEF p
<1>4. p.qty = o.qty /\ p.filled = c.filled /\ p.status \in OpenStatus \cup ClosedStatus
  BY <1>2 DEF OrderRecord
<1>5. Grown(o, p)
  BY <1>2, <1>3, <1>4 DEF Grown
<1> QED
  BY <1>2, <1>4, <1>5 DEF p

LEMMA FillGrown ==
  ASSUME NEW o \in OrderRecord, Shape(o), NEW f \in SUBSET Nat, IsFiniteSet(f)
  PROVE  Grown(o, AfterFill(o, f))
<1> DEFINE n == Note(o, f)
           ab == Absorbed(o, f)
           r == Rest(o, f)
<1>1. ab \in Nat /\ r \in Nat /\ ab <= o.prov
  BY FS_CardinalityType DEF Absorbed, Rest, OrderRecord
<1>2. /\ n \in OrderRecord /\ n.qty = o.qty /\ n.status = o.status
      /\ n.filled = o.filled /\ n.assumed = o.assumed /\ n.cancelled = o.cancelled
  <2>1. o.seen \cup {f} \in SUBSET (SUBSET Nat) /\ o.prov - ab \in Nat
    <3> HIDE DEF n, ab, r
    <3>1. o.prov \in Nat /\ o.seen \in SUBSET (SUBSET Nat)
      BY DEF OrderRecord
    <3>2. o.seen \cup {f} \in SUBSET (SUBSET Nat)
      BY <3>1
    <3>3. o.prov - ab \in Nat
      BY <1>1, <3>1
    <3> QED
      BY <3>2, <3>3
  <2>2. n = [o EXCEPT !.seen = @ \cup {f}, !.prov = @ - ab]
    BY DEF Note
  <2> HIDE DEF n, ab
  <2> QED
    BY <2>1, <2>2 DEF OrderRecord
<1>3. Shape(n)
  BY <1>2 DEF Shape, IsOpen
<1>4. Reclaim(n, r) = n
  BY <1>2 DEF Reclaim, Shape
<1>5. AfterFill(o, f) \in {o, n, Recount([n EXCEPT !.filled = @ + r])}
  BY <1>4 DEF AfterFill, ApplyFill
<1> HIDE DEF n, r
<1>6. Grown(o, o) /\ Grown(o, n)
  BY <1>2, <1>3, SameGrown
<1>7. Grown(o, Recount([n EXCEPT !.filled = @ + r]))
  <2> DEFINE c == [n EXCEPT !.filled = @ + r]
  <2>1. /\ c \in OrderRecord /\ c.qty = o.qty /\ c.status = o.status
        /\ c.assumed = o.assumed /\ o.filled <= c.filled
    BY <1>1, <1>2 DEF OrderRecord, r
  <2> HIDE DEF c
  <2>2. Grown(o, Recount(c))
    BY <2>1, RecountGrown
  <2> QED
    BY <2>2 DEF c
<1> QED
  BY <1>5, <1>6, <1>7

LEMMA CancelGrown ==
  ASSUME NEW o \in OrderRecord, Shape(o), NEW q \in Nat
  PROVE  Grown(o, AfterCancel(o, q))
<1> DEFINE d == IF q >= Remaining(o) THEN Remaining(o) ELSE q
           c == [o EXCEPT !.cancelled = @ + d]
<1>1. d \in Nat
  BY DEF Remaining, OrderRecord
<1>2. AfterCancel(o, q) \in {o, Recount(c)}
  BY DEF AfterCancel
<1> HIDE DEF d
<1>3. /\ c \in OrderRecord /\ c.qty = o.qty /\ c.status = o.status
      /\ c.assumed = o.assumed /\ o.filled <= c.filled
  BY <1>1 DEF OrderRecord
<1> HIDE DEF c
<1>4. Grown(o, Recount(c))
  BY <1>3, RecountGrown
<1> QED
  BY <1>2, <1>4, SameGrown

LEMMA PlaceFillGrown ==
  ASSUME NEW o \in OrderRecord, Shape(o), NEW q \in Nat
  PROVE  Grown(o, AfterPlaceFill(o, q))
<1> DEFINE a == PlaceApplied(o, q)
           c == [o EXCEPT !.filled = @ + a]
           p == Recount(c)
           r == [p EXCEPT !.prov = @ + a]
<1>1. a \in Nat
  BY DEF PlaceApplied, Remaining, OrderRecord
<1>2. AfterPlaceFill(o, q) \in {o, r}
  BY DEF AfterPlaceFill, ApplyFill
<1> HIDE DEF a
<1>3. /\ c \in OrderRecord /\ c.qty = o.qty /\ c.status = o.status
      /\ c.assumed = o.assumed /\ o.filled <= c.filled
  BY <1>1 DEF OrderRecord
<1> HIDE DEF c
<1>4. Grown(o, p)
  BY <1>3, RecountGrown
<1> HIDE DEF p
<1>5. /\ r \in OrderRecord /\ r.qty = p.qty /\ r.status = p.status
      /\ r.filled = p.filled /\ r.cancelled = p.cancelled /\ r.assumed = p.assumed
  BY <1>1, <1>4 DEF Grown, OrderRecord
<1> HIDE DEF r
<1>6. Grown(o, r)
  BY <1>4, <1>5 DEF Grown, Shape, IsOpen
<1> QED
  BY <1>2, <1>6, SameGrown

(* A notice, whatever it is.                                               *)
LEMMA EventGrown ==
  ASSUME NEW o \in OrderRecord, Shape(o), NEW m \in Message, IsFiniteSet(m.lots)
  PROVE  Grown(o, AfterEvent(o, m))
<1>1. /\ m.kind \in Kinds /\ m.lots \in SUBSET Nat /\ m.qty \in Nat
      /\ m.key \in LsKeys \cup HlKeys
  BY DEF Message, Keys
<1>2. Grown(o, AfterAck(o)) /\ Grown(o, AfterReject(o)) /\ Grown(o, o)
  <2>1. /\ AfterAck(o) \in OrderRecord /\ AfterAck(o).qty = o.qty
        /\ AfterAck(o).filled = o.filled /\ Shape(AfterAck(o))
        /\ ~IsOpen(o) => AfterAck(o).status = o.status
    BY DEF AfterAck, OrderRecord, OpenStatus, ClosedStatus, Shape, IsOpen
  <2>2. /\ AfterReject(o) \in OrderRecord /\ AfterReject(o).qty = o.qty
        /\ AfterReject(o).filled = o.filled /\ Shape(AfterReject(o))
        /\ ~IsOpen(o) => AfterReject(o).status = o.status
    BY DEF AfterReject, OrderRecord, OpenStatus, ClosedStatus, Shape, IsOpen
  <2> QED
    BY <2>1, <2>2, SameGrown
<1>3. Grown(o, AfterFill(o, m.lots)) /\ Grown(o, AfterCancel(o, m.qty))
  BY <1>1, FillGrown, CancelGrown
<1>4. AfterEvent(o, m) \in {AfterAck(o), o, AfterFill(o, m.lots),
                             AfterCancel(o, m.qty), AfterReject(o)}
  BY <1>1 DEF AfterEvent, Kinds
<1> QED
  BY <1>2, <1>3, <1>4

(* A row of the open orders, whatever it says.                             *)
LEMMA MergeGrown ==
  ASSUME NEW o \in OrderRecord, Shape(o), NEW n \in Nat
  PROVE  Grown(o, MergeSnapshot(o, n))
<1> DEFINE c == [o EXCEPT !.filled = n]
           a == [o EXCEPT !.status = "accepted"]
<1>1. CASE IsOpen(o) /\ n > o.filled
  <2>1. MergeSnapshot(o, n) = Recount(c)
    BY <1>1 DEF MergeSnapshot
  <2>2. /\ c \in OrderRecord /\ c.qty = o.qty /\ c.status = o.status
        /\ c.assumed = o.assumed /\ o.filled <= c.filled
    BY <1>1 DEF OrderRecord
  <2> HIDE DEF c
  <2> QED
    BY <2>1, <2>2, RecountGrown
<1>2. CASE IsOpen(o) /\ ~(n > o.filled)
  <2>1. MergeSnapshot(o, n) \in {o, a}
    BY <1>2 DEF MergeSnapshot
  <2>2. /\ a \in OrderRecord /\ a.qty = o.qty /\ a.filled = o.filled /\ Shape(a)
    BY <1>2 DEF OrderRecord, OpenStatus, Shape, IsOpen
  <2> HIDE DEF a
  <2> QED
    BY <1>2, <2>1, <2>2, SameGrown
<1>3. CASE ~IsOpen(o)
  BY <1>3, SameGrown DEF MergeSnapshot
<1> QED
  BY <1>1, <1>2, <1>3

(* An order that comes in from a row: open, with lots left.                *)
LEMMA RowShape ==
  ASSUME NEW k \in Keys, NEW n \in Nat, n < Qty[k]
  PROVE  RowOrder(k, n) \in OrderRecord /\ Shape(RowOrder(k, n))
         /\ RowOrder(k, n).qty = Qty[k]
<1>1. Qty[k] \in Nat
  BY QtyAssumption
<1> DEFINE st == IF n > 0 THEN "partial" ELSE "accepted"
           o == NewOrder(Qty[k])
           r == RowOrder(k, n)
<1>2. /\ o \in OrderRecord /\ o.qty = Qty[k] /\ o.cancelled = 0 /\ ~o.assumed
      /\ r = [o EXCEPT !.filled = n, !.status = st]
  BY <1>1 DEF RowOrder, NewOrder, OrderRecord, OpenStatus
<1>3. st \in OpenStatus /\ st # "filled"
  BY DEF OpenStatus
<1> HIDE DEF st, o, r
<1>4. /\ r.status = st /\ r.qty = Qty[k] /\ r.filled = n /\ r.cancelled = 0
      /\ ~r.assumed /\ r \in OrderRecord
  <2>1. st \in OpenStatus \cup ClosedStatus
    BY <1>3
  <2> QED
    BY <1>2, <2>1 DEF OrderRecord
<1>5. Shape(r)
  BY <1>1, <1>3, <1>4 DEF Shape
<1> QED
  BY <1>4, <1>5 DEF r

-----------------------------------------------------------------------------
(* A step of the order flow, with nothing of IInv but FlowKept.            *)

(* What such a step does to what a refresh looks at.                       *)
Moves ==
  /\ tracked \subseteq tracked'
  /\ \A k \in Keys : xs[k] \in {"live", "done"} => xs'[k] \in {"live", "done"}
  /\ \A k \in Keys : xs[k] = "done" => xs'[k] = "done"
  /\ \A k \in tracked \ JustTracked : Grown(book[k], book'[k])

LEMMA KeptFacts ==
  ASSUME FlowKept, NEW k \in Keys
  PROVE  /\ Kept(k) /\ book[k] \in OrderRecord /\ Grown(book[k], book[k])
         /\ xs[k] \in {"none", "live", "done", "refused"}
         /\ Qty[k] \in Nat \ {0} /\ xfilled[k] \in Nat /\ xfirst[k] \in Nat
         /\ told[k] \in Nat /\ pending[k] \in Seq(Message) /\ FiniteLots(pending[k])
         /\ NewOrder(Qty[k]) \in OrderRecord /\ Shape(NewOrder(Qty[k]))
         /\ NewOrder(Qty[k]).qty = Qty[k] /\ NewOrder(Qty[k]).filled = 0
<1>1. /\ Kept(k) /\ book[k] \in OrderRecord
      /\ xs[k] \in {"none", "live", "done", "refused"}
      /\ Qty[k] \in Nat \ {0} /\ xfilled[k] \in Nat /\ xfirst[k] \in Nat
      /\ told[k] \in Nat /\ pending[k] \in Seq(Message) /\ FiniteLots(pending[k])
  BY QtyAssumption DEF FlowKept, TypeOK, Noticed
<1>2. Grown(book[k], book[k])
  BY <1>1, SameGrown DEF Kept
<1>3. /\ NewOrder(Qty[k]) \in OrderRecord /\ Shape(NewOrder(Qty[k]))
      /\ NewOrder(Qty[k]).qty = Qty[k] /\ NewOrder(Qty[k]).filled = 0
  BY <1>1, NewOrderSound DEF Sound, NewOrder
<1> QED
  BY <1>1, <1>2, <1>3

LEMMA Notices ==
  ASSUME NEW k \in Keys
  PROVE  /\ \A f \in SUBSET Nat :
              /\ Fill(k, f) \in Message /\ Fill(k, f).key = k
              /\ Fill(k, f).kind = "fill"
              /\ IsFiniteSet(f) => IsFiniteSet(Fill(k, f).lots)
         /\ \A q \in Nat : /\ Cancel(k, q) \in Message /\ Cancel(k, q).key = k
                           /\ IsFiniteSet(Cancel(k, q).lots)
         /\ Ack(k) \in Message /\ Ack(k).key = k /\ IsFiniteSet(Ack(k).lots)
         /\ Reject(k) \in Message /\ Reject(k).key = k /\ IsFiniteSet(Reject(k).lots)
         /\ Reject(k).kind = "reject"
BY FS_EmptySet DEF Fill, Cancel, Ack, Reject, Message, Kinds

(* The exchange takes order k, executes it, ends it or refuses it.         *)
Takes(k, st, n, W) ==
  /\ xs[k] \in {"none", "live"} /\ n \in Nat
  /\ st \in {"live", "done"} \/ (st = "refused" /\ xs[k] = "none")
  /\ st = "live" => n < Qty[k]
  /\ \A m \in W : /\ m \in Message /\ m.key = k /\ IsFiniteSet(m.lots)
                  /\ m.kind \in {"ack", "cancel"} => st \in {"live", "done"}
  /\ xs' = [xs EXCEPT ![k] = st]
  /\ xfilled' = [xfilled EXCEPT ![k] = n]
  /\ xfirst' \in [Keys -> Nat]
  /\ wire' = wire \cup W
  /\ UNCHANGED <<repeats, resp, books, buffer, replaying>>

LEMMA TakesMoves ==
  ASSUME FlowKept, NEW k \in Keys, NEW st, NEW n, NEW W, Takes(k, st, n, W)
  PROVE  FlowKept' /\ Moves
<1> USE DEF Takes
<1>1. TypeOK'
  <2>1. TypeOK
    BY DEF FlowKept
  <2> QED
    BY <2>1 DEF TypeOK, books, buffer
<1>2. ReplayOK'
  BY DEF FlowKept, ReplayOK, books, buffer
<1>3. \A j \in Keys : /\ xs'[j] = IF j = k THEN st ELSE xs[j]
                      /\ xfilled'[j] = IF j = k THEN n ELSE xfilled[j]
  BY DEF FlowKept, TypeOK
<1>4. ASSUME NEW j \in Keys PROVE Kept(j)'
  <2>1. Kept(j) /\ book' = book /\ tracked' = tracked
    BY KeptFacts DEF books
  <2>2. Kept(k)
    BY KeptFacts
  <2> QED
    BY <1>3, <2>1, <2>2 DEF Kept
<1>5. \A j \in Keys : /\ xs[j] \in {"live", "done"} => xs'[j] \in {"live", "done"}
                      /\ xs[j] = "done" => xs'[j] = "done"
  BY <1>3
<1>6. Noticed'
  <2>1. \A m \in wire : m.key \in Keys
    BY DEF FlowKept, TypeOK, Message
  <2>2. Noticed /\ pending' = pending
    BY DEF FlowKept, buffer
  <2> QED
    BY <1>3, <1>5, <2>1, <2>2 DEF Noticed
<1>7. \A j \in tracked \ JustTracked : Grown(book[j], book'[j])
  <2>1. tracked \subseteq Keys /\ book' = book
    BY DEF FlowKept, TypeOK, books
  <2> QED
    BY <2>1, KeptFacts
<1> QED
  BY <1>1, <1>2, <1>4, <1>5, <1>6, <1>7 DEF FlowKept, Moves, books

LEMMA ExchangeMoves ==
  ASSUME FlowKept, replaying = NoKey, NEW k \in Keys, Exchange(k)
  PROVE  FlowKept' /\ Moves
<1>1. /\ xs[k] \in {"none", "live", "done", "refused"} /\ Qty[k] \in Nat
      /\ xfilled[k] \in Nat /\ xfirst \in [Keys -> Nat] /\ xfilled \in [Keys -> Nat]
      /\ xs[k] = "none" => xfilled[k] = 0
      /\ xs[k] = "live" => xfilled[k] < Qty[k]
  BY KeptFacts DEF FlowKept, TypeOK, Kept
<1>2. ASSUME NEW q \in 0 .. Qty[k], NEW s \in 0 .. q, XAccept(k, q, s)
      PROVE  FlowKept' /\ Moves
  <2> DEFINE F == {1 .. s, (s + 1) .. q} \ {{}}
             st == IF q = Qty[k] THEN "done" ELSE "live"
             W == {Ack(k)} \cup {Fill(k, f) : f \in F}
  <2>1. st \in {"live", "done"} /\ (st = "live" => q < Qty[k]) /\ q \in Nat
    BY <1>1
  <2>2. \A f \in F : f \in SUBSET Nat /\ IsFiniteSet(f)
    <3>1. IsFiniteSet(1 .. s) /\ IsFiniteSet((s + 1) .. q)
      BY FS_Interval
    <3> QED
      BY <3>1
  <2>3. /\ xs[k] = "none"
        /\ xs' = [xs EXCEPT ![k] = st]
        /\ xfilled' = [xfilled EXCEPT ![k] = q]
        /\ xfirst' \in [Keys -> Nat]
        /\ wire' = wire \cup W
        /\ UNCHANGED <<repeats, resp, books, buffer, replaying>>
    BY <1>1, <1>2 DEF XAccept
  <2> HIDE DEF F, st
  <2>4. \A m \in W : m \in Message /\ m.key = k /\ IsFiniteSet(m.lots)
    BY <2>2, Notices
  <2> HIDE DEF W
  <2>5. Takes(k, st, q, W)
    BY <2>1, <2>3, <2>4 DEF Takes
  <2> QED
    BY <2>5, TakesMoves
<1>3. ASSUME NEW notify \in BOOLEAN, XRefuse(k, notify)
      PROVE  FlowKept' /\ Moves
  <2> DEFINE W == IF notify THEN {Reject(k)} ELSE {}
  <2>1. /\ xs[k] = "none" /\ xs' = [xs EXCEPT ![k] = "refused"]
        /\ wire' = wire \cup W
        /\ xfilled' = [xfilled EXCEPT ![k] = xfilled[k]]
        /\ xfirst' \in [Keys -> Nat]
        /\ UNCHANGED <<repeats, resp, books, buffer, replaying>>
    BY <1>1, <1>3 DEF XRefuse
  <2>2. \A m \in W : m \in Message /\ m.key = k /\ IsFiniteSet(m.lots) /\ m.kind = "reject"
    BY Notices
  <2> HIDE DEF W
  <2>3. Takes(k, "refused", xfilled[k], W)
    BY <1>1, <2>1, <2>2 DEF Takes
  <2> QED
    BY <2>3, TakesMoves
<1>4. ASSUME NEW q \in 1 .. Qty[k], XFill(k, q)
      PROVE  FlowKept' /\ Moves
  <2> DEFINE f == (xfilled[k] + 1) .. (xfilled[k] + q)
             st == IF q = XLeft(k) THEN "done" ELSE "live"
             n == xfilled[k] + q
             W == {Fill(k, f)}
  <2>1. st \in {"live", "done"} /\ (st = "live" => n < Qty[k]) /\ n \in Nat
    BY <1>1, <1>4 DEF XFill, XLeft
  <2>2. f \in SUBSET Nat /\ IsFiniteSet(f)
    <3>1. \A i, j \in Nat : IsFiniteSet(i .. j) /\ i .. j \in SUBSET Nat
      BY FS_Interval
    <3>2. xfilled[k] + 1 \in Nat /\ xfilled[k] + q \in Nat
      BY <1>1
    <3> QED
      BY <3>1, <3>2
  <2>3. /\ xs[k] = "live"
        /\ xs' = [xs EXCEPT ![k] = st]
        /\ xfilled' = [xfilled EXCEPT ![k] = n]
        /\ xfirst' \in [Keys -> Nat]
        /\ wire' = wire \cup W
        /\ UNCHANGED <<repeats, resp, books, buffer, replaying>>
    BY <1>1, <1>4 DEF XFill
  <2> HIDE DEF f, st, n
  <2>4. \A m \in W : m \in Message /\ m.key = k /\ IsFiniteSet(m.lots)
    BY <2>2, Notices
  <2> HIDE DEF W
  <2>5. Takes(k, st, n, W)
    BY <2>1, <2>3, <2>4 DEF Takes
  <2> QED
    BY <2>5, TakesMoves
<1>5. ASSUME XCancel(k) \/ XReject(k)
      PROVE  FlowKept' /\ Moves
  <2>1. XLeft(k) \in Nat \/ xs[k] # "live"
    BY <1>1 DEF XLeft
  <2>2. PICK m \in {Cancel(k, XLeft(k)), Reject(k)} : wire' = wire \cup {m}
    BY <1>5 DEF XCancel, XReject
  <2>3. /\ xs[k] = "live" /\ xs' = [xs EXCEPT ![k] = "done"]
        /\ xfilled' = [xfilled EXCEPT ![k] = xfilled[k]]
        /\ xfirst' \in [Keys -> Nat]
        /\ UNCHANGED <<repeats, resp, books, buffer, replaying>>
    BY <1>1, <1>5 DEF XCancel, XReject
  <2>4. m \in Message /\ m.key = k /\ IsFiniteSet(m.lots)
    BY <2>1, <2>2, <2>3, Notices
  <2>5. Takes(k, "done", xfilled[k], {m})
    BY <1>1, <2>2, <2>3, <2>4 DEF Takes
  <2> QED
    BY <2>5, TakesMoves
<1> QED
  BY <1>2, <1>3, <1>4, <1>5 DEF Exchange

(* Steps at the exchange's back: what must be kept of the order k they are *)
(* about, which is p afterwards.                                           *)
Puts(k, p) ==
  /\ p \in OrderRecord /\ Shape(p) /\ p.qty = Qty[k]
  /\ xs[k] \in {"live", "done"}
  /\ k \in JustTracked \/ Grown(book[k], p)
  /\ tracked' = tracked \cup {k}
  /\ book' = [book EXCEPT ![k] = p]
  /\ told' \in [Keys -> Nat]
  /\ wire' \subseteq wire /\ repeats' \in Nat
  /\ resp' \in [Keys -> {"idle", "wait", "held", "done", "gone"}]
  /\ pending' \in [Keys -> Seq(Message)]
  /\ \A j \in Keys : FiniteLots(pending'[j])
  /\ rank' \in [Keys -> Nat]
  /\ replaying' = NoKey \/ (replaying' = k /\ pending'[k] # <<>>)
  /\ UNCHANGED exchange

LEMMA PutsMoves ==
  ASSUME FlowKept, NEW k \in Keys, NEW p, Puts(k, p)
  PROVE  FlowKept' /\ Moves
<1> USE DEF Puts
<1>1. TypeOK'
  <2>1. TypeOK
    BY DEF FlowKept
  <2> QED
    BY <2>1 DEF TypeOK, exchange
<1>2. ReplayOK'
  BY DEF ReplayOK
<1>3. \A j \in Keys : book'[j] = IF j = k THEN p ELSE book[j]
  BY DEF FlowKept, TypeOK
<1>4. ASSUME NEW j \in Keys PROVE Kept(j)'
  <2>1. Kept(j) /\ Kept(k)
    BY KeptFacts
  <2> QED
    BY <1>3, <2>1 DEF Kept, exchange
<1>5. Noticed'
  BY DEF Noticed, FlowKept, exchange
<1>6. \A j \in tracked \ JustTracked : Grown(book[j], book'[j])
  <2>1. tracked \subseteq Keys
    BY DEF FlowKept, TypeOK
  <2> QED
    BY <1>3, <2>1, KeptFacts
<1> QED
  BY <1>1, <1>2, <1>4, <1>5, <1>6 DEF FlowKept, Moves, exchange

(* Steps that leave the book as it is.                                     *)
LEMMA BookStaysMoves ==
  ASSUME FlowKept, wire' \subseteq wire, repeats' \in Nat,
         resp' \in [Keys -> {"idle", "wait", "held", "done", "gone"}],
         pending' \in [Keys -> Seq(Message)], rank' \in [Keys -> Nat],
         \A j \in Keys : FiniteLots(pending'[j]),
         replaying' = NoKey \/ UNCHANGED <<pending, replaying>>,
         UNCHANGED <<exchange, books>>
  PROVE  FlowKept' /\ Moves
<1>1. TypeOK'
  BY DEF FlowKept, TypeOK, exchange, books
<1>2. ReplayOK'
  BY DEF FlowKept, ReplayOK, books
<1>3. \A j \in Keys : Kept(j)'
  BY DEF FlowKept, Kept, exchange, books
<1>4. Noticed'
  BY DEF Noticed, FlowKept, exchange
<1>5. \A j \in tracked \ JustTracked : Grown(book[j], book'[j])
  <2>1. tracked \subseteq Keys /\ book' = book
    BY DEF FlowKept, TypeOK, books
  <2> QED
    BY <2>1, KeptFacts
<1> QED
  BY <1>1, <1>2, <1>3, <1>4, <1>5 DEF FlowKept, Moves, exchange, books

(* Announcing what an order that has grown counts anew.                    *)
LEMMA SetOrderTypes ==
  ASSUME FlowKept, NEW k \in Keys, NEW p, Grown(book[k], p), SetOrder(k, p)
  PROVE  /\ told' \in [Keys -> Nat]
         /\ book' = [book EXCEPT ![k] = p]
         /\ p \in OrderRecord /\ Shape(p) /\ p.qty = Qty[k]
<1>1. /\ book' = [book EXCEPT ![k] = p]
      /\ told' = [told EXCEPT ![k] = @ + (p.filled - book[k].filled)]
  BY DEF SetOrder
<1>2. /\ book[k] \in OrderRecord /\ p \in OrderRecord /\ book[k].filled <= p.filled
      /\ Shape(p) /\ p.qty = Qty[k] /\ told \in [Keys -> Nat]
  BY KeptFacts DEF Grown, Kept, FlowKept, TypeOK
<1>3. p.filled - book[k].filled \in Nat
  BY <1>2 DEF OrderRecord
<1> QED
  BY <1>1, <1>2, <1>3

LEMMA Consumed ==
  ASSUME FlowKept, NEW m, NEW again \in BOOLEAN, Consume(m, again)
  PROVE  /\ m \in Message /\ m.key \in Keys /\ IsFiniteSet(m.lots)
         /\ m.kind \in {"ack", "cancel"} => xs[m.key] \in {"live", "done"}
         /\ wire' \subseteq wire /\ repeats' \in Nat
<1>1. m \in wire /\ m \in Message
  BY DEF Consume, FlowKept, TypeOK
<1>2. IsFiniteSet(m.lots) /\ (m.kind \in {"ack", "cancel"} => xs[m.key] \in {"live", "done"})
  BY <1>1 DEF FlowKept, Noticed
<1>3. wire' \subseteq wire /\ repeats' \in Nat
  BY DEF Consume, FlowKept, TypeOK
<1> QED
  BY <1>1, <1>2, <1>3 DEF Message

LEMMA FiniteAppend ==
  ASSUME NEW c \in Seq(Message), FiniteLots(c), NEW m \in Message, IsFiniteSet(m.lots)
  PROVE  FiniteLots(Append(c, m)) /\ Append(c, m) \in Seq(Message) /\ Append(c, m) # <<>>
<1>1. /\ Append(c, m) \in Seq(Message) /\ Len(Append(c, m)) = Len(c) + 1
      /\ \A i \in 1 .. Len(c) : Append(c, m)[i] = c[i]
      /\ Append(c, m)[Len(c) + 1] = m
  OBVIOUS
<1>2. \A i \in 1 .. Len(c) + 1 : i \in 1 .. Len(c) \/ i = Len(c) + 1
  BY LenProperties
<1>3. Append(c, m) # <<>>
  BY AppendKept
<1> QED
  BY <1>1, <1>2, <1>3 DEF FiniteLots

LEMMA FiniteTail ==
  ASSUME NEW c \in Seq(Message), FiniteLots(c), c # <<>>
  PROVE  /\ FiniteLots(Tail(c)) /\ Tail(c) \in Seq(Message)
         /\ Head(c) \in Message /\ IsFiniteSet(Head(c).lots)
<1>1. /\ Head(c) \in Message /\ Tail(c) \in Seq(Message)
      /\ Len(Tail(c)) = Len(c) - 1
      /\ \A i \in 1 .. Len(Tail(c)) : Tail(c)[i] = c[i + 1]
  BY HeadTailProperties
<1>2. Len(c) \in Nat /\ Len(c) > 0
  BY EmptySeq
<1>3. \A i \in 1 .. Len(Tail(c)) : i + 1 \in 1 .. Len(c)
  BY <1>1, <1>2
<1>4. Head(c) = c[1] /\ 1 \in 1 .. Len(c)
  BY <1>2
<1> QED
  BY <1>1, <1>3, <1>4 DEF FiniteLots

LEMMA DeliverTrackedMoves ==
  ASSUME FlowKept, replaying = NoKey, NEW m, NEW again \in BOOLEAN,
         DeliverTracked(m, again)
  PROVE  FlowKept' /\ Moves
<1>1. /\ m.key \in tracked /\ Consume(m, again)
      /\ SetOrder(m.key, AfterEvent(book[m.key], m))
      /\ UNCHANGED <<exchange, resp, tracked, buffer, replaying>>
  BY DEF DeliverTracked
<1>2. /\ m \in Message /\ m.key \in Keys /\ IsFiniteSet(m.lots)
      /\ wire' \subseteq wire /\ repeats' \in Nat
  BY <1>1, Consumed
<1>3. PICK k \in Keys : k = m.key
  BY <1>2
<1>4. PICK p : p = AfterEvent(book[k], m)
  OBVIOUS
<1>5. Kept(k) /\ book[k] \in OrderRecord
  BY KeptFacts
<1>6. Grown(book[k], p)
  BY <1>2, <1>4, <1>5, EventGrown DEF Kept
<1>7. /\ told' \in [Keys -> Nat] /\ book' = [book EXCEPT ![k] = p]
      /\ p \in OrderRecord /\ Shape(p) /\ p.qty = Qty[k]
  BY <1>1, <1>3, <1>4, <1>6, SetOrderTypes
<1>8. /\ xs[k] \in {"live", "done"} /\ tracked' = tracked \cup {k}
      /\ replaying' = NoKey
  BY <1>1, <1>3, <1>5 DEF Kept
<1>9. /\ resp' \in [Keys -> {"idle", "wait", "held", "done", "gone"}]
      /\ pending' \in [Keys -> Seq(Message)] /\ rank' \in [Keys -> Nat]
      /\ \A j \in Keys : FiniteLots(pending'[j])
  BY <1>1 DEF buffer, FlowKept, TypeOK, Noticed
<1>10. Puts(k, p)
  BY <1>1, <1>2, <1>6, <1>7, <1>8, <1>9 DEF Puts
<1> QED
  BY <1>10, PutsMoves

LEMMA ReplayMoves ==
  ASSUME FlowKept, Replay
  PROVE  FlowKept' /\ Moves
<1>1. replaying \in Keys /\ replaying \in tracked /\ pending[replaying] # <<>>
  BY DEF Replay, FlowKept, ReplayOK, TypeOK
<1>2. PICK k \in Keys : k = replaying
  BY <1>1
<1>3. PICK m : m = Head(pending[k])
  OBVIOUS
<1>4. PICK p : p = AfterEvent(book[k], m)
  OBVIOUS
<1>5. /\ SetOrder(k, p) /\ pending' = [pending EXCEPT ![k] = Tail(@)]
      /\ rank' = RankWithout(k)
      /\ replaying' = IF Tail(pending[k]) = <<>> THEN NoKey ELSE k
      /\ UNCHANGED <<exchange, wire, repeats, resp, tracked>>
  BY <1>2, <1>3, <1>4 DEF Replay
<1>6. Kept(k) /\ book[k] \in OrderRecord /\ pending[k] \in Seq(Message) /\ FiniteLots(pending[k])
  BY KeptFacts
<1>7. /\ FiniteLots(Tail(pending[k])) /\ Tail(pending[k]) \in Seq(Message)
      /\ m \in Message /\ IsFiniteSet(m.lots)
  BY <1>1, <1>2, <1>3, <1>6, FiniteTail
<1>8. Grown(book[k], p)
  BY <1>4, <1>6, <1>7, EventGrown DEF Kept
<1>9. /\ told' \in [Keys -> Nat] /\ book' = [book EXCEPT ![k] = p]
      /\ p \in OrderRecord /\ Shape(p) /\ p.qty = Qty[k]
  BY <1>5, <1>8, SetOrderTypes
<1>10. /\ pending' \in [Keys -> Seq(Message)]
       /\ \A j \in Keys : FiniteLots(pending'[j])
       /\ pending'[k] = Tail(pending[k])
  BY <1>5, <1>7 DEF FlowKept, TypeOK, Noticed
<1>11. rank' \in [Keys -> Nat]
  <2>1. rank \in [Keys -> Nat]
    BY DEF FlowKept, TypeOK
  <2>2. \A j \in Keys : rank[k] > 0 /\ rank[j] > rank[k] => rank[j] - 1 \in Nat
    BY <2>1
  <2> QED
    BY <1>5, <2>1, <2>2 DEF RankWithout
<1>12. /\ xs[k] \in {"live", "done"} /\ tracked' = tracked \cup {k}
       /\ wire' \subseteq wire /\ repeats' \in Nat
       /\ resp' \in [Keys -> {"idle", "wait", "held", "done", "gone"}]
       /\ replaying' = NoKey \/ (replaying' = k /\ pending'[k] # <<>>)
  BY <1>1, <1>2, <1>5, <1>6, <1>10 DEF Kept, FlowKept, TypeOK
<1>13. Puts(k, p)
  BY <1>5, <1>8, <1>9, <1>10, <1>11, <1>12 DEF Puts
<1> QED
  BY <1>13, PutsMoves

(* Tracking order k from scratch; its first answer may be late.            *)
LEMMA TrackMoves ==
  ASSUME FlowKept, NEW k \in Keys, k \notin tracked \/ k \in JustTracked,
         xs[k] \in {"live", "done"},
         tracked' = tracked \cup {k},
         book' = [book EXCEPT ![k] = NewOrder(Qty[k])],
         resp' \in [Keys -> {"idle", "wait", "held", "done", "gone"}],
         wire' \subseteq wire, repeats' \in Nat,
         pending' \in [Keys -> Seq(Message)],
         \A j \in Keys : FiniteLots(pending'[j]),
         replaying' = IF pending'[k] = <<>> THEN NoKey ELSE k,
         UNCHANGED <<exchange, told, rank>>
  PROVE  FlowKept' /\ Moves
<1>1. PICK p : p = NewOrder(Qty[k])
  OBVIOUS
<1>2. p \in OrderRecord /\ Shape(p) /\ p.qty = Qty[k]
  BY <1>1, KeptFacts
<1>3. k \in JustTracked \/ Grown(book[k], p)
  BY <1>1, KeptFacts DEF Kept
<1>4. told' \in [Keys -> Nat] /\ rank' \in [Keys -> Nat]
  BY DEF FlowKept, TypeOK
<1>5. Puts(k, p)
  BY <1>1, <1>2, <1>3, <1>4 DEF Puts
<1> QED
  BY <1>5, PutsMoves

LEMMA IdentifyMoves ==
  ASSUME FlowKept, replaying = NoKey, NEW m, IdentifyHl(m)
  PROVE  FlowKept' /\ Moves
<1>1. /\ Identifiable(m.key) /\ m.kind \in {"ack", "cancel"} /\ Consume(m, FALSE)
  BY DEF IdentifyHl
<1>2. /\ m \in Message /\ m.key \in Keys /\ IsFiniteSet(m.lots)
      /\ xs[m.key] \in {"live", "done"} /\ wire' \subseteq wire /\ repeats' \in Nat
  BY <1>1, Consumed
<1>3. PICK k \in Keys : k = m.key
  BY <1>2
<1>4. /\ k \notin tracked /\ tracked' = tracked \cup {k}
      /\ book' = [book EXCEPT ![k] = NewOrder(Qty[k])]
      /\ resp' = [resp EXCEPT ![k] = IF @ = "held" THEN "done" ELSE @]
      /\ pending' \in {pending, [pending EXCEPT ![k] = Append(@, m)]}
      /\ replaying' = IF pending'[k] = <<>> THEN NoKey ELSE k
      /\ UNCHANGED <<exchange, told, rank>>
  BY <1>1, <1>3 DEF IdentifyHl, Identifiable
<1>5. pending[k] \in Seq(Message) /\ FiniteLots(pending[k])
  BY KeptFacts
<1>6. FiniteLots(Append(pending[k], m)) /\ Append(pending[k], m) \in Seq(Message)
  BY <1>2, <1>5, FiniteAppend
<1>7. /\ pending' \in [Keys -> Seq(Message)]
      /\ \A j \in Keys : FiniteLots(pending'[j])
  BY <1>4, <1>6 DEF FlowKept, TypeOK, Noticed
<1>8. resp' \in [Keys -> {"idle", "wait", "held", "done", "gone"}]
  BY <1>4 DEF FlowKept, TypeOK
<1> QED
  BY <1>2, <1>3, <1>4, <1>7, <1>8, TrackMoves

LEMMA DeliverUntrackedMoves ==
  ASSUME FlowKept, replaying = NoKey, NEW m, NEW again \in BOOLEAN,
         DeliverUntracked(m, again)
  PROVE  FlowKept' /\ Moves
<1>1. /\ Consume(m, again)
      /\ BufferEvent(m) \/ UNCHANGED buffer
      /\ UNCHANGED <<exchange, books, replaying>>
      /\ resp' \in {resp, [resp EXCEPT ![m.key] = "gone"]}
  BY DEF DeliverUntracked
<1>2. /\ m \in Message /\ m.key \in Keys /\ IsFiniteSet(m.lots)
      /\ wire' \subseteq wire /\ repeats' \in Nat
  BY <1>1, Consumed
<1>3. TypeOK
  BY DEF FlowKept
<1>4. pending' \in [Keys -> Seq(Message)] /\ rank' \in [Keys -> Nat]
  BY <1>1, <1>2, <1>3, BufferKeeps DEF TypeOK, buffer
<1>5. ASSUME NEW j \in Keys PROVE FiniteLots(pending'[j])
  <2>1. pending[j] \in Seq(Message) /\ FiniteLots(pending[j]) /\ FiniteLots(<<>>)
    BY KeptFacts DEF FiniteLots
  <2>2. CASE UNCHANGED buffer
    BY <2>1, <2>2 DEF buffer
  <2>3. CASE BufferEvent(m)
    <3> DEFINE gone == Evicted(m.key)
               kept == [k \in Keys |-> IF k \in gone THEN <<>> ELSE pending[k]]
    <3>1. pending' = [kept EXCEPT ![m.key] = Append(@, m)]
      BY <2>3 DEF BufferEvent
    <3>2. kept[j] \in {<<>>, pending[j]} /\ kept[j] \in Seq(Message)
      BY <2>1, EmptySeq
    <3>3. FiniteLots(kept[j])
      BY <2>1, <3>2
    <3>4. FiniteLots(Append(kept[j], m))
      BY <1>2, <3>2, <3>3, FiniteAppend
    <3>5. pending'[j] \in {kept[j], Append(kept[j], m)}
      BY <3>1
    <3> QED
      BY <3>3, <3>4, <3>5
  <2> QED
    BY <1>1, <2>2, <2>3
<1>6. resp' \in [Keys -> {"idle", "wait", "held", "done", "gone"}]
  BY <1>1, <1>3 DEF TypeOK
<1> QED
  BY <1>1, <1>2, <1>4, <1>5, <1>6, BookStaysMoves

(* The broker's answer tracks whatever the book has under the number anew. *)
LEMMA RespondLsMoves ==
  ASSUME FlowKept, replaying = NoKey, NEW k \in Keys, RespondLs(k)
  PROVE  FlowKept' /\ Moves
<1>1. /\ k \in LsKeys /\ resp[k] = "wait" /\ xs[k] \in {"live", "done"}
      /\ resp' = [resp EXCEPT ![k] = "done"]
      /\ tracked' = tracked \cup {k}
      /\ book' = [book EXCEPT ![k] = NewOrder(Qty[k])]
      /\ StartReplay(k)
      /\ UNCHANGED <<exchange, wire, repeats, told, buffer>>
  BY DEF RespondLs
<1>2. /\ resp' \in [Keys -> {"idle", "wait", "held", "done", "gone"}]
      /\ resp'[k] = "done"
  BY <1>1 DEF FlowKept, TypeOK
<1>3. k \in JustTracked
  BY <1>1, <1>2 DEF JustTracked
<1>4. /\ pending' = pending /\ rank' = rank /\ wire' \subseteq wire
      /\ pending' \in [Keys -> Seq(Message)] /\ repeats' \in Nat
      /\ \A j \in Keys : FiniteLots(pending'[j])
      /\ replaying' = IF pending'[k] = <<>> THEN NoKey ELSE k
  BY <1>1 DEF buffer, StartReplay, FlowKept, TypeOK, Noticed
<1> QED
  BY <1>1, <1>2, <1>3, <1>4, TrackMoves

LEMMA RecheckFindsMoves ==
  ASSUME FlowKept, replaying = NoKey, NEW k \in Keys, RecheckFinds(k)
  PROVE  FlowKept' /\ Moves
<1>1. /\ xs[k] \in {"live", "done"} /\ resp' = [resp EXCEPT ![k] = "done"]
      /\ UNCHANGED <<exchange, wire, repeats, told, buffer>>
  BY DEF RecheckFinds
<1>2. resp' \in [Keys -> {"idle", "wait", "held", "done", "gone"}]
  BY <1>1 DEF FlowKept, TypeOK
<1>3. /\ pending' = pending /\ rank' = rank /\ wire' \subseteq wire
      /\ pending' \in [Keys -> Seq(Message)] /\ rank' \in [Keys -> Nat]
      /\ repeats' \in Nat
      /\ \A j \in Keys : FiniteLots(pending'[j])
  BY <1>1 DEF buffer, FlowKept, TypeOK, Noticed
<1>4. CASE k \in tracked
  <2>1. UNCHANGED <<tracked, book, replaying>>
    BY <1>4 DEF RecheckFinds
  <2> QED
    BY <1>1, <1>2, <1>3, <2>1, BookStaysMoves DEF books
<1>5. CASE k \notin tracked
  <2>1. /\ tracked' = tracked \cup {k}
        /\ book' = [book EXCEPT ![k] = NewOrder(Qty[k])]
        /\ replaying' = IF pending'[k] = <<>> THEN NoKey ELSE k
    BY <1>3, <1>5 DEF RecheckFinds, StartReplay
  <2> QED
    BY <1>1, <1>2, <1>3, <1>5, <2>1, TrackMoves
<1> QED
  BY <1>4, <1>5

LEMMA RespondHlMoves ==
  ASSUME FlowKept, replaying = NoKey, NEW k \in Keys, NEW q \in {0, xfirst[k]},
         RespondHl(k, q)
  PROVE  FlowKept' /\ Moves
<1>1. /\ xs[k] \in {"live", "done"}
      /\ resp' = [resp EXCEPT ![k] = "done"]
      /\ tracked' = tracked \cup {k}
      /\ SetOrder(k, Adopted(k, q))
      /\ StartReplay(k)
      /\ UNCHANGED <<exchange, wire, repeats, buffer>>
  BY DEF RespondHl
<1>2. Kept(k) /\ book[k] \in OrderRecord /\ q \in Nat /\ Grown(book[k], book[k])
  BY KeptFacts
<1>3. Adopted(k, q) = IF q > book[k].filled
                      THEN AfterPlaceFill(book[k], q - book[k].filled)
                      ELSE book[k]
  BY <1>2 DEF Adopted, Kept
<1>4. PICK p : p = Adopted(k, q)
  OBVIOUS
<1>5. Grown(book[k], p)
  <2>1. CASE q > book[k].filled
    <3>1. q - book[k].filled \in Nat /\ Shape(book[k])
      BY <1>2, <2>1 DEF OrderRecord, Kept
    <3> QED
      BY <3>1, <2>1, <1>2, <1>3, <1>4, PlaceFillGrown
  <2>2. CASE ~(q > book[k].filled)
    BY <2>2, <1>2, <1>3, <1>4
  <2> QED
    BY <2>1, <2>2
<1>6. /\ told' \in [Keys -> Nat] /\ book' = [book EXCEPT ![k] = p]
      /\ p \in OrderRecord /\ Shape(p) /\ p.qty = Qty[k]
  BY <1>1, <1>4, <1>5, SetOrderTypes
<1>7. /\ pending' = pending /\ wire' \subseteq wire
      /\ pending' \in [Keys -> Seq(Message)] /\ rank' \in [Keys -> Nat]
      /\ repeats' \in Nat
      /\ \A j \in Keys : FiniteLots(pending'[j])
      /\ replaying' = NoKey \/ (replaying' = k /\ pending'[k] # <<>>)
      /\ resp' \in [Keys -> {"idle", "wait", "held", "done", "gone"}]
  BY <1>1 DEF buffer, FlowKept, TypeOK, Noticed, StartReplay
<1>8. Puts(k, p)
  BY <1>1, <1>5, <1>6, <1>7 DEF Puts
<1> QED
  BY <1>8, PutsMoves

LEMMA FlowMoves ==
  ASSUME FlowKept, [Next]_vars
  PROVE  FlowKept' /\ Moves
<1>1. CASE Replay
  BY <1>1, ReplayMoves
<1>2. CASE replaying = NoKey /\ Step
  <2>1. ASSUME NEW k \in Keys, Exchange(k) PROVE FlowKept' /\ Moves
    BY <1>2, <2>1, ExchangeMoves
  <2>2. ASSUME NEW k \in Keys,
               Place(k) \/ PlaceFails(k) \/ RecheckGivesUp(k)
        PROVE  FlowKept' /\ Moves
    <3>1. /\ resp' \in [Keys -> {"idle", "wait", "held", "done", "gone"}]
          /\ UNCHANGED <<exchange, wire, repeats, books, buffer, replaying>>
      BY <2>2 DEF Place, PlaceFails, RecheckGivesUp, FlowKept, TypeOK
    <3>2. /\ pending' \in [Keys -> Seq(Message)] /\ rank' \in [Keys -> Nat]
          /\ repeats' \in Nat /\ wire' \subseteq wire
          /\ \A j \in Keys : FiniteLots(pending'[j])
          /\ UNCHANGED <<pending, replaying>>
      BY <3>1 DEF buffer, FlowKept, TypeOK, Noticed
    <3> QED
      BY <3>1, <3>2, BookStaysMoves
  <2>3. ASSUME NEW k \in Keys, RespondLs(k) PROVE FlowKept' /\ Moves
    BY <1>2, <2>3, RespondLsMoves
  <2>4. ASSUME NEW k \in Keys, NEW q \in {0, xfirst[k]}, RespondHl(k, q)
        PROVE  FlowKept' /\ Moves
    BY <1>2, <2>4, RespondHlMoves
  <2>5. ASSUME NEW k \in Keys, RecheckFinds(k) PROVE FlowKept' /\ Moves
    BY <1>2, <2>5, RecheckFindsMoves
  <2>6. ASSUME NEW m \in wire, NEW again \in BOOLEAN, Deliver(m, again)
        PROVE  FlowKept' /\ Moves
    <3>1. CASE DeliverTracked(m, again)
      BY <1>2, <3>1, DeliverTrackedMoves
    <3>2. CASE IdentifyHl(m)
      BY <1>2, <3>2, IdentifyMoves
    <3>3. CASE DeliverUntracked(m, again)
      BY <1>2, <3>3, DeliverUntrackedMoves
    <3> QED
      BY <2>6, <3>1, <3>2, <3>3 DEF Deliver
  <2> QED
    BY <1>2, <2>1, <2>2, <2>3, <2>4, <2>5, <2>6 DEF Step, Respond, Recheck
<1>3. CASE UNCHANGED vars
  <2>1. /\ pending' \in [Keys -> Seq(Message)] /\ rank' \in [Keys -> Nat]
        /\ repeats' \in Nat /\ wire' \subseteq wire
        /\ resp' \in [Keys -> {"idle", "wait", "held", "done", "gone"}]
        /\ \A j \in Keys : FiniteLots(pending'[j])
        /\ UNCHANGED <<pending, replaying>> /\ UNCHANGED <<exchange, books>>
    BY <1>3 DEF vars, exchange, books, FlowKept, TypeOK, Noticed
  <2> QED
    BY <2>1, BookStaysMoves
<1> QED
  BY <1>1, <1>2, <1>3 DEF Next

-----------------------------------------------------------------------------
(* The inductive invariant, action by action.                              *)

LEMMA InitRIInv == RInit => RIInv
<1> SUFFICES ASSUME RInit PROVE RIInv
  OBVIOUS
<1>1. TypeOK /\ ReplayOK
  BY InitInv DEF RInit, CountInv
<1>2. ASSUME NEW k \in Keys PROVE Kept(k)
  <2>1. /\ book[k] = NewOrder(Qty[k]) /\ tracked = {} /\ xs[k] = "none"
        /\ xfilled[k] = 0 /\ Qty[k] \in Nat \ {0}
    BY QtyAssumption DEF RInit, Init
  <2>2. Shape(NewOrder(Qty[k])) /\ NewOrder(Qty[k]).qty = Qty[k]
    BY <2>1, NewOrderSound DEF Sound, NewOrder
  <2> QED
    BY <2>1, <2>2 DEF Kept
<1>3. Noticed
  <2>1. FiniteLots(<<>>)
    BY DEF FiniteLots
  <2> QED
    BY <2>1 DEF RInit, Init, Noticed
<1>4. SnapType /\ RowsTrue /\ aged \subseteq tracked
  BY DEF RInit, NoRefresh, SnapType, RowsTrue
<1> QED
  BY <1>1, <1>2, <1>3, <1>4 DEF RIInv, FlowKept

(* What a step that is not a refresh's keeps of the rows.                  *)
LEMMA RowsStay ==
  ASSUME RIInv, Moves, tracked' \subseteq Keys, SnapType',
         snap'.stage = snap.stage, snap'.live = snap.live, snap'.scope = snap.scope,
         snap'.rows = snap.rows, snap'.ok = snap.ok, snap'.grown = snap.grown,
         snap.stage = "read" => aged' \subseteq aged
  PROVE  RowsTrue'
<1>1. snap.live \subseteq Keys /\ aged \subseteq Keys
  BY DEF RIInv, SnapType, FlowKept, TypeOK
<1>2. RowsTrue
  BY DEF RIInv
<1>3. \A k \in snap'.live : xs'[k] \in {"live", "done"} /\ snap'.rows[k] < Qty[k]
  BY <1>1, <1>2 DEF RowsTrue, Moves
<1>4. snap'.stage = "read" /\ snap'.ok =>
        \A k \in (aged' \cap snap'.scope) \ (snap'.live \cup snap'.grown) : xs'[k] = "done"
  BY <1>1, <1>2 DEF RowsTrue, Moves
<1> QED
  BY <1>2, <1>3, <1>4 DEF RowsTrue

LEMMA FlowInv ==
  ASSUME RIInv, Flow
  PROVE  RIInv'
<1>1. FlowKept /\ SnapType /\ aged \subseteq tracked
  BY DEF RIInv
<1>2. FlowKept' /\ Moves
  BY <1>1, FlowMoves DEF Flow
<1>3. PICK b \in BOOLEAN : snap' = [snap EXCEPT !.dirty = b]
  <2>1. snap.dirty \in BOOLEAN
    BY <1>1 DEF SnapType
  <2>2. snap' = NotesFills(snap)
    BY DEF Flow
  <2> QED
    BY <2>1, <2>2 DEF NotesFills
<1>4. /\ SnapType' /\ snap'.stage = snap.stage /\ snap'.live = snap.live
      /\ snap'.scope = snap.scope /\ snap'.rows = snap.rows /\ snap'.ok = snap.ok
      /\ snap'.grown = snap.grown
  BY <1>1, <1>3 DEF SnapType
<1>5. aged' \subseteq aged /\ aged' \subseteq tracked'
  BY <1>1, <1>2 DEF Flow, Moves
<1>6. tracked' \subseteq Keys
  BY <1>2 DEF FlowKept, TypeOK
<1>7. RowsTrue'
  BY <1>2, <1>4, <1>5, <1>6, RowsStay
<1> QED
  BY <1>2, <1>4, <1>5, <1>7 DEF RIInv

(* A lost notice and the passing of time: the order flow stands still.     *)
LEMMA LoseInv ==
  ASSUME RIInv, NEW m, Lose(m)
  PROVE  RIInv'
<1>1. FlowKept /\ SnapType /\ RowsTrue /\ aged \subseteq tracked
  BY DEF RIInv
<1>2. /\ wire' \subseteq wire
      /\ UNCHANGED <<exchange, repeats, resp, books, buffer, replaying, snap, aged>>
  BY DEF Lose
<1>3. TypeOK' /\ ReplayOK'
  BY <1>1, <1>2 DEF FlowKept, TypeOK, ReplayOK, exchange, books, buffer
<1>4. (\A k \in Keys : Kept(k)') /\ Noticed'
  BY <1>1, <1>2 DEF FlowKept, Kept, Noticed, exchange, books, buffer
<1>5. SnapType' /\ RowsTrue' /\ aged' \subseteq tracked'
  BY <1>1, <1>2 DEF SnapType, RowsTrue, exchange, books
<1> QED
  BY <1>3, <1>4, <1>5 DEF RIInv, FlowKept

LEMMA FlowStill ==
  ASSUME FlowKept, UNCHANGED vars
  PROVE  FlowKept'
BY FlowMoves

LEMMA AgeInv ==
  ASSUME RIInv, NEW k \in Keys, Age(k)
  PROVE  RIInv'
<1> DEFINE g == IF snap.stage = "read" THEN snap.grown \cup {k} ELSE snap.grown
<1>1. /\ k \in tracked /\ aged' = aged \cup {k} /\ UNCHANGED vars
      /\ snap' = [snap EXCEPT !.grown = g]
  BY DEF Age
<1>2. FlowKept'
  BY <1>1, FlowStill DEF RIInv
<1>3. SnapType /\ RowsTrue /\ aged \subseteq tracked
  BY DEF RIInv
<1>4. g \in SUBSET Keys
  BY <1>3 DEF SnapType
<1>5. /\ SnapType' /\ snap'.stage = snap.stage /\ snap'.live = snap.live
      /\ snap'.scope = snap.scope /\ snap'.rows = snap.rows /\ snap'.ok = snap.ok
      /\ snap'.grown = g
  <2> HIDE DEF g
  <2> QED
    BY <1>1, <1>3, <1>4 DEF SnapType
<1>6. RowsTrue' /\ aged' \subseteq tracked'
  BY <1>1, <1>3, <1>5 DEF RowsTrue, vars, exchange, books
<1> QED
  BY <1>2, <1>5, <1>6 DEF RIInv

LEMMA NoRefreshTyped ==
  /\ NoRefresh \in [stage : {"idle", "asked", "read"}, scope : SUBSET Keys,
                    live : SUBSET Keys, rows : [Keys -> Nat],
                    ok : BOOLEAN, dirty : BOOLEAN, retry : BOOLEAN,
                    grown : SUBSET Keys]
  /\ NoRefresh.stage = "idle" /\ NoRefresh.live = {} /\ ~NoRefresh.ok
BY DEF NoRefresh

(* Nobody has read anything yet.                                           *)
LEMMA EmptyRows ==
  ASSUME snap'.live = {}, ~snap'.ok
  PROVE  RowsTrue'
BY DEF RowsTrue

LEMMA AskInv ==
  ASSUME RIInv, NEW scope \in {HlKeys, LsKeys}, Ask(scope)
  PROVE  RIInv'
<1>1. /\ snap' = [NoRefresh EXCEPT !.stage = "asked", !.scope = scope]
      /\ UNCHANGED <<vars, aged>>
  BY DEF Ask
<1>2. scope \in SUBSET Keys
  BY DEF Keys
<1>3. SnapType' /\ snap'.live = {} /\ ~snap'.ok
  BY <1>1, <1>2, NoRefreshTyped DEF SnapType
<1>4. FlowKept'
  BY <1>1, FlowStill DEF RIInv
<1>5. RowsTrue'
  BY <1>3, EmptyRows
<1> QED
  BY <1>1, <1>3, <1>4, <1>5 DEF RIInv, vars

(* The exchange answers what is true now: an order without a row, tracked  *)
(* before, is none that it has not taken yet.                              *)
LEMMA ReadInv ==
  ASSUME RIInv, Read
  PROVE  RIInv'
<1>1. /\ snap' = [snap EXCEPT !.stage = "read", !.rows = xfilled, !.ok = TRUE,
                              !.live = {k \in snap.scope : xs[k] = "live"}]
      /\ UNCHANGED <<vars, aged>>
  BY DEF Read
<1>2. /\ SnapType /\ FlowKept /\ xfilled \in [Keys -> Nat] /\ aged \subseteq tracked
      /\ tracked \subseteq Keys
  BY DEF RIInv, FlowKept, TypeOK
<1>3. PICK L \in SUBSET Keys : L = {k \in snap.scope : xs[k] = "live"}
  BY <1>2 DEF SnapType
<1>4. /\ SnapType' /\ snap'.stage = "read" /\ snap'.live = L
      /\ snap'.scope = snap.scope /\ snap'.rows = xfilled
  BY <1>1, <1>2, <1>3 DEF SnapType
<1>5. FlowKept'
  BY <1>1, <1>2, FlowStill
<1>6. \A k \in L : xs[k] \in {"live", "done"} /\ xfilled[k] < Qty[k]
  BY <1>2, <1>3, KeptFacts DEF Kept
<1>7. \A k \in (aged \cap snap.scope) \ L : xs[k] = "done"
  BY <1>2, <1>3, KeptFacts DEF Kept
<1>8. RowsTrue'
  BY <1>1, <1>4, <1>6, <1>7 DEF RowsTrue, vars
<1> QED
  BY <1>1, <1>2, <1>4, <1>5, <1>8 DEF RIInv, vars

LEMMA ReadFailsInv ==
  ASSUME RIInv, ReadFails
  PROVE  RIInv'
<1>1. /\ snap.stage = "asked" /\ UNCHANGED <<vars, aged>>
      /\ snap' \in {[snap EXCEPT !.stage = "read"], NoRefresh}
  BY DEF ReadFails
<1>2. SnapType /\ RowsTrue /\ FlowKept /\ aged \subseteq tracked
  BY DEF RIInv
<1>3. snap.live = {} /\ ~snap.ok
  BY <1>1, <1>2 DEF RowsTrue
<1>4. FlowKept'
  BY <1>1, <1>2, FlowStill
<1>5. CASE snap' = NoRefresh
  <2>1. SnapType' /\ snap'.live = {} /\ ~snap'.ok
    BY <1>5, NoRefreshTyped DEF SnapType
  <2> QED
    BY <1>1, <1>2, <1>4, <2>1, EmptyRows DEF RIInv, vars
<1>6. CASE snap' = [snap EXCEPT !.stage = "read"]
  <2>1. SnapType' /\ snap'.live = {} /\ snap'.ok = snap.ok
    BY <1>2, <1>3, <1>6 DEF SnapType
  <2>3. RowsTrue'
    BY <1>3, <2>1, EmptyRows
  <2> QED
    BY <1>1, <1>2, <1>4, <2>1, <2>3 DEF RIInv, vars
<1> QED
  BY <1>1, <1>5, <1>6

(* A ghost waits for nothing, and has ended unless it grew old meanwhile.  *)
LEMMA GhostsEnded ==
  ASSUME RIInv, snap.stage = "read", NEW k \in Gone
  PROVE  /\ k \in Keys /\ k \in tracked /\ ~Waiting(book[k])
         /\ k \notin snap.grown => xs[k] = "done"
<1>1. /\ k \in tracked /\ k \in (aged \cap snap.scope) \ snap.live /\ snap.ok
      /\ ~Waiting(book[k])
  BY DEF Gone
<1> QED
  BY <1>1 DEF RIInv, RowsTrue, FlowKept, TypeOK

(* What the answer makes of the book, order by order.                      *)
LEMMA Applied ==
  ASSUME RIInv, Apply, NEW k \in Keys
  PROVE  /\ k \in tracked' <=> (k \in tracked /\ k \notin Gone) \/ k \in snap.live
         /\ k \in Gone => book'[k] = NewOrder(Qty[k])
         /\ k \notin Gone /\ k \in snap.live /\ k \notin tracked =>
              book'[k] = RowOrder(k, snap.rows[k])
         /\ k \notin Gone /\ k \in snap.live /\ k \in tracked =>
              /\ book'[k] = MergeSnapshot(book[k], snap.rows[k])
              /\ told'[k] = told[k] + (book'[k].filled - book[k].filled)
         /\ k \notin Gone /\ k \notin snap.live => book'[k] = book[k]
         /\ ~(k \in snap.live /\ k \in tracked) => told'[k] = told[k]
<1> DEFINE added == snap.live \ tracked
           known == snap.live \cap tracked
<1>1. /\ tracked' = (tracked \ Gone) \cup added
      /\ book' = [j \in Keys |->
                    CASE j \in Gone  -> NewOrder(Qty[j])
                      [] j \in added -> RowOrder(j, snap.rows[j])
                      [] j \in known -> Merged(j)
                      [] OTHER       -> book[j]]
      /\ told' = [j \in Keys |->
                    IF j \in known THEN told[j] + (book'[j].filled - book[j].filled)
                    ELSE told[j]]
  BY DEF Apply
<1>2. Gone \cap snap.live = {}
  BY DEF Gone
<1>3. book'[k] = CASE k \in Gone  -> NewOrder(Qty[k])
                   [] k \in added -> RowOrder(k, snap.rows[k])
                   [] k \in known -> Merged(k)
                   [] OTHER       -> book[k]
  BY <1>1
<1>4. told'[k] = IF k \in known THEN told[k] + (book'[k].filled - book[k].filled)
                 ELSE told[k]
  BY <1>1
<1>5. Gone \subseteq tracked
  BY DEF Gone
<1> QED
  BY <1>1, <1>2, <1>3, <1>4, <1>5 DEF Merged

(* A tracked order stays well formed under its row, and a new one is.      *)
LEMMA AppliedOrder ==
  ASSUME RIInv, Apply, NEW k \in Keys
  PROVE  /\ book'[k] \in OrderRecord /\ Shape(book'[k]) /\ book'[k].qty = Qty[k]
         /\ k \in tracked \ Gone => Grown(book[k], book'[k])
         /\ k \notin tracked' => book'[k] = NewOrder(Qty[k])
         /\ k \in tracked' => xs[k] \in {"live", "done"}
         /\ told'[k] \in Nat
<1>1. /\ FlowKept /\ SnapType /\ RowsTrue
  BY DEF RIInv
<1>2. /\ Kept(k) /\ book[k] \in OrderRecord /\ told[k] \in Nat
      /\ Grown(book[k], book[k])
      /\ NewOrder(Qty[k]) \in OrderRecord /\ Shape(NewOrder(Qty[k]))
      /\ NewOrder(Qty[k]).qty = Qty[k]
  BY <1>1, KeptFacts
<1>3. snap.rows[k] \in Nat
  BY <1>1 DEF SnapType
<1>4. k \in snap.live => xs[k] \in {"live", "done"} /\ snap.rows[k] < Qty[k]
  BY <1>1 DEF RowsTrue
<1>5. CASE k \in Gone
  <2>1. k \in tracked /\ k \notin snap.live
    BY <1>5 DEF Gone
  <2> QED
    BY <1>2, <1>5, <2>1, Applied
<1>6. CASE k \notin Gone /\ k \in snap.live /\ k \notin tracked
  <2>1. book'[k] = RowOrder(k, snap.rows[k]) /\ k \in tracked' /\ told'[k] = told[k]
    BY <1>6, Applied
  <2> QED
    BY <1>2, <1>3, <1>4, <1>6, <2>1, RowShape
<1>7. CASE k \notin Gone /\ k \in snap.live /\ k \in tracked
  <2>1. /\ book'[k] = MergeSnapshot(book[k], snap.rows[k]) /\ k \in tracked'
        /\ told'[k] = told[k] + (book'[k].filled - book[k].filled)
    BY <1>7, Applied
  <2>2. Grown(book[k], book'[k])
    BY <1>2, <1>3, <2>1, MergeGrown DEF Kept
  <2>3. told'[k] \in Nat
    BY <1>2, <2>1, <2>2 DEF Grown, OrderRecord
  <2> QED
    BY <1>2, <1>4, <1>7, <2>1, <2>2, <2>3 DEF Grown, Kept
<1>8. CASE k \notin Gone /\ k \notin snap.live
  <2>1. book'[k] = book[k] /\ told'[k] = told[k] /\ (k \in tracked' <=> k \in tracked)
    BY <1>8, Applied
  <2> QED
    BY <1>2, <2>1 DEF Kept
<1> QED
  BY <1>5, <1>6, <1>7, <1>8

LEMMA ApplyInv ==
  ASSUME RIInv, Apply
  PROVE  RIInv'
<1>1. /\ FlowKept /\ SnapType /\ RowsTrue /\ aged \subseteq tracked
  BY DEF RIInv
<1>2. /\ replaying = NoKey
      /\ tracked' = (tracked \ Gone) \cup (snap.live \ tracked)
      /\ aged' = (aged \ Gone) \cup (snap.live \ tracked)
      /\ UNCHANGED <<exchange, wire, repeats, resp, buffer, replaying>>
  BY DEF Apply
<1>3. book' \in [Keys -> OrderRecord] /\ told' \in [Keys -> Nat]
  <2>1. book' = [k \in Keys |-> book'[k]] /\ told' = [k \in Keys |-> told'[k]]
    BY DEF Apply
  <2> QED
    BY <2>1, AppliedOrder
<1>4. TypeOK'
  <2>1. tracked' \subseteq Keys
    BY <1>1, <1>2 DEF FlowKept, TypeOK, SnapType
  <2> QED
    BY <1>1, <1>2, <1>3, <2>1 DEF FlowKept, TypeOK, exchange, buffer
<1>5. ReplayOK'
  BY <1>2 DEF ReplayOK
<1>6. ASSUME NEW k \in Keys PROVE Kept(k)'
  <2>1. Kept(k) /\ xs' = xs /\ xfilled' = xfilled
    BY <1>1, <1>2, KeptFacts DEF exchange
  <2> QED
    BY <2>1, AppliedOrder DEF Kept
<1>7. Noticed'
  BY <1>1, <1>2 DEF FlowKept, Noticed, exchange, buffer
<1>8. SnapType' /\ snap'.live = {} /\ ~snap'.ok
  <2>1. PICK C \in SUBSET Keys : C = snap.scope
    BY <1>1 DEF SnapType
  <2>2. snap' \in {NoRefresh, [NoRefresh EXCEPT !.stage = "asked", !.scope = C,
                                                !.retry = TRUE]}
    BY <2>1 DEF Apply
  <2> QED
    BY <2>2, NoRefreshTyped DEF SnapType
<1>9. RowsTrue'
  BY <1>8, EmptyRows
<1> QED
  BY <1>1, <1>2, <1>4, <1>5, <1>6, <1>7, <1>8, <1>9 DEF RIInv, FlowKept

LEMMA NextRIInv ==
  ASSUME RIInv, [RNext]_rvars
  PROVE  RIInv'
<1>1. CASE Flow
  BY <1>1, FlowInv
<1>2. CASE Refresh
  BY <1>2, AskInv, ReadInv, ReadFailsInv, ApplyInv DEF Refresh
<1>3. CASE \E m \in wire : Lose(m)
  BY <1>3, LoseInv
<1>4. CASE \E k \in Keys : Age(k)
  BY <1>4, AgeInv
<1>5. CASE UNCHANGED rvars
  <2>1. UNCHANGED vars /\ snap' = snap /\ aged' = aged
    BY <1>5 DEF rvars
  <2>2. FlowKept'
    BY <2>1, FlowStill DEF RIInv
  <2>3. SnapType' /\ RowsTrue' /\ aged' \subseteq tracked'
    BY <2>1 DEF RIInv, SnapType, RowsTrue, vars
  <2> QED
    BY <2>2, <2>3 DEF RIInv
<1> QED
  BY <1>1, <1>2, <1>3, <1>4, <1>5 DEF RNext

-----------------------------------------------------------------------------
(* The theorems.                                                           *)

(* Under refreshes and losses the order flow keeps its shape, the rows of  *)
(* a refresh are of orders the exchange has taken, and an order without a  *)
(* row that was old at the read has ended (load_snapshot, the grace).      *)
THEOREM ResyncSound == RSpec => []RIInv
<1>1. RInit => RIInv
  BY InitRIInv
<1>2. RIInv /\ [RNext]_rvars => RIInv'
  BY NextRIInv
<1> QED
  BY <1>1, <1>2, PTL DEF RSpec

(* What one step does to the tracked orders.                               *)
LEMMA StepKeeps ==
  ASSUME RIInv, [RNext]_rvars
  PROVE  \/ tracked \subseteq tracked' /\ \A k \in tracked \ JustTracked : Grown(book[k], book'[k])
         \/ Apply
<1>1. FlowKept /\ tracked \subseteq Keys
  BY DEF RIInv, FlowKept, TypeOK
<1>2. CASE Flow
  <2>1. Moves
    BY <1>1, <1>2, FlowMoves DEF Flow
  <2> QED
    BY <2>1 DEF Moves
<1>3. CASE UNCHANGED books
  BY <1>1, <1>3, KeptFacts DEF books
<1>4. UNCHANGED books \/ Flow \/ Apply
  BY DEF RNext, Refresh, Ask, Read, ReadFails, Lose, Age, rvars, vars, books
<1> QED
  BY <1>2, <1>3, <1>4

(* No refresh forgets an order that the exchange still works, however its  *)
(* query, its answer, the order's acceptance and its tracking fall, unless *)
(* the order outgrew the grace while the answer waited to be applied       *)
(* (refresh_snapshot, load_snapshot).                                      *)
THEOREM LiveSurvives == RSpec => LiveSurvivesResync
<1>1. ASSUME RIInv, [RNext]_rvars
      PROVE  [\A k \in tracked \ snap.grown : xs[k] = "live" => k \in tracked']_rvars
  <2>1. CASE Apply
    <3>1. ASSUME NEW k \in tracked \ snap.grown, xs[k] = "live" PROVE k \in tracked'
      <4>1. snap.stage = "read" /\ k \in Keys
        BY <1>1, <2>1 DEF Apply, RIInv, FlowKept, TypeOK
      <4>2. k \notin Gone
        BY <1>1, <3>1, <4>1, GhostsEnded
      <4> QED
        BY <1>1, <2>1, <3>1, <4>1, <4>2, Applied
    <3> QED
      BY <3>1
  <2> QED
    BY <1>1, <2>1, StepKeeps
<1> QED
  BY <1>1, ResyncSound, PTL DEF RSpec, LiveSurvivesResync

(* Nor one whose cancel was told and whose executed lots are still to be   *)
(* announced, though its exchange no longer lists it (load_snapshot).      *)
THEOREM WaitingSurvives == RSpec => WaitingSurvivesResync
<1>1. ASSUME RIInv, [RNext]_rvars
      PROVE  [\A k \in tracked :
                IsOpen(book[k]) /\ book[k].cancelled > 0 => k \in tracked']_rvars
  <2>1. CASE Apply
    <3>1. ASSUME NEW k \in tracked, IsOpen(book[k]), book[k].cancelled > 0
          PROVE  k \in tracked'
      <4>1. snap.stage = "read" /\ k \in Keys /\ FlowKept
        BY <1>1, <2>1 DEF Apply, RIInv, FlowKept, TypeOK
      <4>2. Shape(book[k]) /\ book[k] \in OrderRecord
        BY <4>1, KeptFacts DEF Kept
      <4>3. Waiting(book[k])
        BY <3>1, <4>2 DEF Waiting, Remaining, Shape, OrderRecord
      <4>4. k \notin Gone
        BY <4>3 DEF Gone
      <4> QED
        BY <1>1, <2>1, <3>1, <4>1, <4>4, Applied
    <3> QED
      BY <3>1
  <2> QED
    BY <1>1, <2>1, StepKeeps
<1> QED
  BY <1>1, ResyncSound, PTL DEF RSpec, WaitingSurvivesResync

(* A row read before a fill or a cancel was told does not undo it, nor     *)
(* does any other step but the broker's own late answer                    *)
(* (_merge_snapshot_order, track).                                         *)
THEOREM StaleRowsHarmless == RSpec => StaleRowsUndoNothing
<1>1. ASSUME RIInv, [RNext]_rvars
      PROVE  [\A k \in (tracked \cap tracked') \ JustTracked :
                /\ book[k].filled <= book'[k].filled
                /\ ~IsOpen(book[k]) => ~IsOpen(book'[k])]_rvars
  <2>1. CASE Apply
    <3>1. ASSUME NEW k \in tracked \cap tracked' PROVE Grown(book[k], book'[k])
      <4>1. k \in Keys
        BY <1>1 DEF RIInv, FlowKept, TypeOK
      <4>2. k \notin Gone
        <5>1. Gone \cap snap.live = {}
          BY DEF Gone
        <5> QED
          BY <1>1, <2>1, <3>1, <4>1, <5>1, Applied
      <4> QED
        BY <1>1, <2>1, <3>1, <4>1, <4>2, AppliedOrder
    <3> QED
      BY <3>1 DEF Grown
  <2> QED
    BY <1>1, <2>1, StepKeeps DEF Grown
<1> QED
  BY <1>1, ResyncSound, PTL DEF RSpec, StaleRowsUndoNothing

=============================================================================
