--------------------------- MODULE Trading_proofs ---------------------------
(***************************************************************************)
(* Proofs about the strategies beside Auto-M, as MCTrading puts them and   *)
(* Auto-M's windows side by side: for any rows, tiers, orders, prices,     *)
(* messages, windows and sets.  Each part has an inductive invariant of    *)
(* its own; that of the windows is in SetScreen_proofs.                    *)
(***************************************************************************)
EXTENDS MCTrading, SetScreen_proofs, WellFoundedInduction

-----------------------------------------------------------------------------
(* Numbers.                                                                *)

(* Some numbers have a least one.                                          *)
LEMMA LeastNumber ==
  ASSUME NEW S \in SUBSET Nat, S # {} PROVE \E n \in S : \A m \in S : n <= m
<1> DEFINE R == OpToRel(<, Nat)
<1> HIDE DEF R
<1>1. PICK x \in S : \A y \in S : ~ (<<y, x>> \in R)
  BY WFMin, NatLessThanWellFounded DEF R
<1>2. \A y \in S : ~ (y < x)
  BY <1>1 DEF R, OpToRel
<1> QED BY <1>2

(* A set of numbers up to N with the first one, and with each the next     *)
(* one, has all of them: the least one missing would follow another.       *)
LEMMA AllNumbers ==
  ASSUME NEW N \in Nat, NEW S, 0 \in S,
         \A n \in 0 .. N : n \in S /\ n < N => n + 1 \in S
  PROVE  \A n \in 0 .. N : n \in S
<1> SUFFICES ASSUME NEW m \in 0 .. N, m \notin S PROVE FALSE
  OBVIOUS
<1> DEFINE Out == {n \in 0 .. N : n \notin S}
<1>1. Out \in SUBSET Nat /\ Out # {}
  OBVIOUS
<1> HIDE DEF Out
<1>2. PICK x \in Out : \A y \in Out : x <= y
  BY <1>1, LeastNumber
<1>3. x \in 0 .. N /\ x \notin S /\ x # 0
  BY <1>2 DEF Out
<1>4. x - 1 \in 0 .. N /\ x - 1 < N /\ ~(x <= x - 1)
  BY <1>3
<1>5. x - 1 \in S
  BY <1>2, <1>4 DEF Out
<1>6. (x - 1) + 1 \in S
  BY <1>4, <1>5
<1> QED BY <1>3, <1>6

-----------------------------------------------------------------------------
(***************************************************************************)
(* The closing auction: its two tasks, and the tally of fills.             *)
(***************************************************************************)
TasksInv ==
  /\ ls = [for |-> ls.for, started |-> ls.started, done |-> ls.done, task |-> ls.task,
           turn |-> ls.turn]
  /\ fx = [for |-> fx.for, run |-> fx.run, started |-> fx.started, done |-> fx.done,
           task |-> fx.task, left |-> fx.left, net |-> fx.net, sent |-> fx.sent]
  /\ {ls.started, ls.done, fx.started, fx.done} \subseteq BOOLEAN
  /\ ls.done => ls.started /\ ls.task = "none"
  /\ ls.task # "none" => ls.started
  /\ fx.done => fx.started /\ fx.task = "none"
  /\ fx.task # "none" => fx.started

(* The row whose order is on its way is the next one, and has been fired;  *)
(* a number that was returned is that of a row of the day.                 *)
States == {"none", "fired", "skipped", "placed", "failed"}
PlacingInv ==
  /\ rows \in [Rows -> [st : States, id : Nat, px : Prices \cup {0}]]
  /\ ls.turn \subseteq Rows /\ on \subseteq Rows
  /\ ls.task \in {"sent", "accepted"} => ls.turn # {} /\ rows[NextRow].st = "fired"
  /\ answered \subseteq KnownIds

(* What was told is in the tally, unless its order was not known yet.      *)
TallyInv ==
  /\ ord \in Seq([row : Rows, done : Nat]) /\ Len(ord) <= MaxOrd
  /\ notices \subseteq [id : DOMAIN ord, lot : Nat]
  /\ fills \in [Ids -> Nat] /\ heard \in [Ids -> Nat] /\ again = 0
  /\ \A k \in Ids \ early : fills[k] = heard[k]

LEMMA NextIsDue ==
  ASSUME ls.turn \subseteq Rows, ls.turn # {}
  PROVE  NextRow \in ls.turn
<1>1. Rows \subseteq Nat
  BY RowsAssumption DEF Rows
<1>2. \E r \in ls.turn : \A s \in ls.turn : r <= s
  BY <1>1, LeastNumber
<1> QED BY <1>2 DEF NextRow, Min

LEMMA AuInitInv == AuInit => TasksInv /\ PlacingInv /\ TallyInv
<1> SUFFICES ASSUME AuInit PROVE TasksInv /\ PlacingInv /\ TallyInv
  OBVIOUS
<1>1. TasksInv
  BY DEF AuInit, TasksInv
<1>2. PlacingInv
  BY DEF AuInit, PlacingInv, NoRow, States
<1>3. NoFills \in [Ids -> Nat]
  BY DEF NoFills
<1>4. TallyInv
  BY <1>3, AuBoundsAssumption DEF AuInit, TallyInv
<1> QED BY <1>1, <1>2, <1>4

(* A tick starts a task that has ended, and winds back one that is done.   *)
LEMMA TasksStep ==
  ASSUME TasksInv, [AuNext]_auVars
  PROVE  /\ TasksInv'
         /\ ls'.task = "spawned" => ls.task \in {"none", "spawned"}
         /\ fx'.task = "spawned" => fx.task \in {"none", "spawned"}
<1> DEFINE Goal == /\ TasksInv'
                   /\ ls'.task = "spawned" => ls.task \in {"none", "spawned"}
                   /\ fx'.task = "spawned" => fx.task \in {"none", "spawned"}
<1>1. CASE UNCHANGED <<ls, fx>>
  BY <1>1 DEF TasksInv
<1>2. CASE Tick
  <2>1. /\ ls' = ls \/ (ls.done /\ ls' = [ls EXCEPT !.started = FALSE, !.done = FALSE])
              \/ (~ls.started /\ ls' = [ls EXCEPT !.started = TRUE, !.for = lsAt, !.task = "spawned"])
    BY <1>2 DEF Tick, TickLs, Moved
  <2>2. fx' = fx \/ (fx.done /\ fx' = [fx EXCEPT !.started = FALSE, !.done = FALSE, !.sent = << >>])
          \/ (~fx.started /\ fx' = [fx EXCEPT !.started = TRUE, !.for = fxAt, !.task = "spawned"])
    BY <1>2 DEF Tick, TickFx, Moved
  <2> QED BY <2>1, <2>2 DEF TasksInv
<1>3. CASE ListRows
  BY <1>3 DEF ListRows, TasksInv
<1>4. ASSUME NEW px, NEW exp, Turn(px, exp) PROVE Goal
  BY <1>4 DEF Turn, TurnOver, TasksInv
<1>5. CASE BrokerAccepts \/ RowPlaced \/ RowFails
  BY <1>5 DEF BrokerAccepts, RowPlaced, RowFails, TurnOver, TasksInv
<1>6. CASE LsEnds
  BY <1>6 DEF LsEnds, TasksInv
<1>7. ASSUME NEW exp, FxPlan(exp) PROVE Goal
  <2>1. PICK net, parts : 
          fx' = IF parts = << >> THEN FxFinish([fx EXCEPT !.net = net, !.left = parts, !.task = "send"])
                ELSE [fx EXCEPT !.net = net, !.left = parts, !.task = "send"]
    BY <1>7 DEF FxPlan
  <2> QED BY <1>7, <2>1 DEF FxPlan, FxFinish, TasksInv
<1>8. CASE FxSend
  <2>1. PICK s, l : s = Append(fx.sent, Head(fx.left)) /\ l = Tail(fx.left)
    OBVIOUS
  <2>2. [fx EXCEPT !.sent = Append(@, Head(fx.left)), !.left = Tail(@)]
          = [fx EXCEPT !.sent = s, !.left = l]
    BY <2>1
  <2>3. PICK f : f = [fx EXCEPT !.sent = s, !.left = l]
    OBVIOUS
  <2>4. fx' = IF f.left = << >> THEN FxFinish(f) ELSE f
    BY <1>8, <2>2, <2>3 DEF FxSend
  <2>5. fx' = FxFinish(f) \/ fx' = f
    BY <2>4
  <2> QED BY <1>8, <2>3, <2>5 DEF FxSend, FxFinish, TasksInv
<1>9. CASE RowsOff \/ RunFx \/ RunOff
  BY <1>9 DEF RowsOff, RunFx, RunOff, TasksInv
<1>10. CASE UNCHANGED auVars
  BY <1>1, <1>10 DEF auVars
<1>11. ASSUME NEW r \in Rows, RowsOn(r) \/ TestOrder(r) PROVE Goal
  BY <1>1, <1>11 DEF RowsOn, TestOrder
<1>12. ASSUME NEW t \in Moments, SetTime(t) PROVE Goal
  BY <1>1, <1>12 DEF SetTime
<1>13. CASE RunHl \/ Clock
  BY <1>1, <1>13 DEF RunHl, Clock
<1>14. CASE HlStep
  BY <1>1, <1>14 DEF HlStep, HlFire, HlPlaced
<1>15. ASSUME NEW k \in DOMAIN ord, BrokerFills(k) PROVE Goal
  BY <1>1, <1>15 DEF BrokerFills
<1>16. ASSUME NEW m \in notices, NEW repeat \in BOOLEAN, OnFill(m, repeat) PROVE Goal
  BY <1>1, <1>16 DEF OnFill
<1> QED BY <1>2, <1>3, <1>4, <1>5, <1>6, <1>7, <1>8, <1>9, <1>10, <1>11, <1>12, <1>13, <1>14,
           <1>15, <1>16 DEF AuNext, AuctionCommand, LsStep, FxStep

(* The known numbers do not change with a row that has none.               *)
LEMMA SameKnown ==
  ASSUME NEW r \in Rows, rows \in [Rows -> [st : States, id : Nat, px : Prices \cup {0}]],
         NEW new, new.st # "placed", rows[r].st # "placed",
         rows' = [rows EXCEPT ![r] = new], past' = past
  PROVE  KnownIds' = KnownIds
<1>1. PlacedRows' = PlacedRows
  BY DEF PlacedRows
<1>2. \A s \in PlacedRows : rows'[s].id = rows[s].id
  BY DEF PlacedRows
<1> QED BY <1>1, <1>2 DEF KnownIds

LEMMA PlacingStep ==
  ASSUME TasksInv, PlacingInv, ord \in Seq([row : Rows, done : Nat]), [AuNext]_auVars
  PROVE  PlacingInv'
<1>1. CASE UNCHANGED <<rows, ls, on, past, answered>>
  BY <1>1 DEF PlacingInv, NextRow, KnownIds, PlacedRows
<1>2. ASSUME NEW r \in Rows, RowsOn(r) PROVE PlacingInv'
  BY <1>2 DEF RowsOn, broker, PlacingInv, NextRow, KnownIds, PlacedRows
<1>3. CASE RowsOff \/ LsEnds
  <2>1. UNCHANGED <<rows, past, answered>> /\ on' = {} /\ ls'.turn = ls.turn
        /\ (ls'.task = ls.task \/ ls'.task = "none")
    BY <1>3 DEF RowsOff, LsEnds, broker, TasksInv
  <2>2. KnownIds' = KnownIds /\ NextRow' = NextRow
    BY <2>1 DEF NextRow, KnownIds, PlacedRows
  <2> QED BY <2>1, <2>2 DEF PlacingInv
<1>4. CASE Tick
  <2>1. CASE UNCHANGED <<rows, past>> /\ ls'.turn = ls.turn /\ (ls'.task = ls.task \/ ls'.task = "spawned")
    BY <1>4, <2>1 DEF Tick, setVars, broker, PlacingInv, NextRow, KnownIds, PlacedRows
  <2>2. CASE /\ ls.done /\ ls' = [ls EXCEPT !.started = FALSE, !.done = FALSE]
             /\ past' = past \cup {rows[r].id : r \in PlacedRows}
             /\ rows' = [r \in Rows |-> NoRow]
    <3>1. ls'.task = "none" /\ ls'.turn = ls.turn
      BY <2>2 DEF TasksInv
    <3>2. rows' \in [Rows -> [st : States, id : Nat, px : Prices \cup {0}]]
      BY <2>2 DEF NoRow, States
    <3>3. KnownIds \subseteq KnownIds'
      BY <2>2 DEF KnownIds
    <3>4. on' = on /\ answered' = answered
      BY <1>4 DEF Tick, setVars, broker
    <3> QED BY <3>1, <3>2, <3>3, <3>4 DEF PlacingInv
  <2> QED BY <1>4, <2>1, <2>2 DEF Tick, TickLs, Moved, TasksInv
<1>5. CASE ListRows
  BY <1>5 DEF ListRows, setVars, broker, PlacingInv, TasksInv, KnownIds, PlacedRows
<1>6. ASSUME NEW px \in Prices, NEW exp, Turn(px, exp) PROVE PlacingInv'
  <2> PICK r : r = NextRow
    OBVIOUS
  <2>1. r \in ls.turn /\ r \in Rows /\ ls.task = "turn"
    BY <1>6, NextIsDue DEF Turn, PlacingInv
  <2>2. UNCHANGED <<on, past, answered>>
    BY <1>6 DEF Turn, setVars, broker
  <2>3. CASE rows' = rows /\ ls' = [ls EXCEPT !.turn = @ \ {r}]
    BY <2>1, <2>2, <2>3 DEF PlacingInv, TasksInv, KnownIds, PlacedRows
  <2>4. CASE rows[r].st = "none" /\ ~(rows' = rows /\ ls' = [ls EXCEPT !.turn = @ \ {r}])
    <3>1. PICK new \in [st : {"fired", "skipped"}, id : {0}, px : Prices \cup {0}] :
            /\ rows' = [rows EXCEPT ![r] = new]
            /\ \/ ls' = [ls EXCEPT !.turn = @ \ {r}]
               \/ new.st = "fired" /\ ls' = [ls EXCEPT !.task = "sent"]
      <4>1. PICK fires \in BOOLEAN :
              /\ rows' = [rows EXCEPT ![r] = [st |-> IF fires THEN "fired" ELSE "skipped", id |-> 0,
                                              px |-> IF fires THEN px ELSE 0]]
              /\ IF fires THEN ls' = [ls EXCEPT !.task = "sent"] ELSE ls' = [ls EXCEPT !.turn = @ \ {r}]
        BY <1>6, <2>4 DEF Turn, TurnOver
      <4> DEFINE new == [st |-> IF fires THEN "fired" ELSE "skipped", id |-> 0,
                         px |-> IF fires THEN px ELSE 0]
      <4>2. new \in [st : {"fired", "skipped"}, id : {0}, px : Prices \cup {0}]
        BY <1>6
      <4>3. fires => new.st = "fired"
        OBVIOUS
      <4> QED BY <4>1, <4>2, <4>3
    <3>2. KnownIds' = KnownIds
      BY <2>1, <2>2, <2>4, <3>1, SameKnown DEF PlacingInv
    <3>3. rows' \in [Rows -> [st : States, id : Nat, px : Prices \cup {0}]]
      BY <2>1, <3>1 DEF PlacingInv, States
    <3>4. rows'[r] = new
      BY <2>1, <3>1 DEF PlacingInv
    <3>5. CASE ls' = [ls EXCEPT !.turn = @ \ {r}]
      BY <2>1, <2>2, <3>2, <3>3, <3>5 DEF PlacingInv, TasksInv
    <3>6. CASE new.st = "fired" /\ ls' = [ls EXCEPT !.task = "sent"]
      <4>1. ls'.turn = ls.turn
        BY <3>6 DEF TasksInv
      <4>2. NextRow' = r
        BY <4>1 DEF NextRow
      <4> QED BY <2>1, <2>2, <3>2, <3>3, <3>4, <3>6, <4>1, <4>2 DEF PlacingInv
    <3> QED BY <3>1, <3>5, <3>6
  <2> QED BY <1>6, <2>3, <2>4 DEF Turn, TurnOver
<1>7. CASE BrokerAccepts
  <2>1. ls'.turn = ls.turn /\ ls.task = "sent"
    BY <1>7 DEF BrokerAccepts, TasksInv
  <2> QED BY <1>7, <2>1 DEF BrokerAccepts, setVars, PlacingInv, NextRow, KnownIds, PlacedRows
<1>8. CASE RowPlaced
  <2> PICK r, n : r = NextRow /\ n = Len(ord)
    OBVIOUS
  <2>1. r \in ls.turn /\ r \in Rows /\ rows[r].st = "fired" /\ n \in Nat
    BY <1>8, NextIsDue DEF RowPlaced, PlacingInv
  <2>2. rows' = [rows EXCEPT ![r].st = "placed", ![r].id = n]
    BY <1>8 DEF RowPlaced
  <2>3. /\ ls'.task = "turn" /\ ls'.turn = ls.turn \ {r}
        /\ on' = on /\ past' = past /\ answered' = answered \cup {n}
    BY <1>8 DEF RowPlaced, TurnOver, TasksInv, setVars
  <2>4. /\ rows' \in [Rows -> [st : States, id : Nat, px : Prices \cup {0}]]
        /\ rows'[r].st = "placed" /\ rows'[r].id = n
        /\ \A s \in Rows \ {r} : rows'[s] = rows[s]
    BY <2>1, <2>2 DEF PlacingInv, States
  <2>5. PlacedRows' = PlacedRows \cup {r}
    BY <2>1, <2>4 DEF PlacedRows
  <2>6. KnownIds \cup {n} \subseteq KnownIds'
    <3>1. \A s \in PlacedRows : rows'[s].id = rows[s].id
      BY <2>1, <2>4 DEF PlacedRows
    <3> QED BY <2>3, <2>4, <2>5, <3>1 DEF KnownIds
  <2> QED BY <2>3, <2>4, <2>6 DEF PlacingInv
<1>9. CASE RowFails
  <2> PICK r : r = NextRow
    OBVIOUS
  <2>1. r \in ls.turn /\ r \in Rows /\ rows[r].st = "fired"
    BY <1>9, NextIsDue DEF RowFails, PlacingInv
  <2>2. PICK new : new = [NoRow EXCEPT !.st = "failed"] /\ rows' = [rows EXCEPT ![r] = new]
    BY <1>9 DEF RowFails
  <2>3. new.st = "failed" /\ new \in [st : States, id : Nat, px : Prices \cup {0}]
    BY <2>2 DEF NoRow, States
  <2>4. /\ ls'.task = "turn" /\ ls'.turn = ls.turn \ {r}
        /\ on' = on /\ past' = past /\ answered' = answered
    BY <1>9 DEF RowFails, TurnOver, TasksInv, setVars, broker
  <2>5. KnownIds' = KnownIds
    BY <2>1, <2>2, <2>3, <2>4, SameKnown DEF PlacingInv
  <2> QED BY <2>1, <2>2, <2>3, <2>4, <2>5 DEF PlacingInv
<1>10. ASSUME NEW r \in Rows, TestOrder(r) PROVE PlacingInv'
  <2>1. PICK k : past' = past \cup {k} /\ answered' = answered \cup {k}
    BY <1>10 DEF TestOrder
  <2> QED BY <1>10, <2>1 DEF TestOrder, setVars, PlacingInv, NextRow, KnownIds, PlacedRows
<1>11. CASE UNCHANGED auVars
  BY <1>1, <1>11 DEF auVars, setVars, broker
<1>12. ASSUME NEW t \in Moments, SetTime(t) PROVE PlacingInv'
  BY <1>1, <1>12 DEF SetTime, broker
<1>13. CASE RunFx \/ RunOff \/ RunHl \/ Clock
  BY <1>1, <1>13 DEF RunFx, RunOff, RunHl, Clock, setVars, broker
<1>14. CASE FxStep \/ HlStep
  BY <1>1, <1>14 DEF FxStep, FxPlan, FxSend, HlStep, HlFire, HlPlaced, setVars, broker
<1>15. ASSUME NEW k \in DOMAIN ord, BrokerFills(k) PROVE PlacingInv'
  BY <1>1, <1>15 DEF BrokerFills, setVars
<1>16. ASSUME NEW m \in notices, NEW repeat \in BOOLEAN, OnFill(m, repeat) PROVE PlacingInv'
  BY <1>1, <1>16 DEF OnFill, setVars
<1> QED BY <1>2, <1>3, <1>4, <1>5, <1>6, <1>7, <1>8, <1>9, <1>10, <1>11, <1>12, <1>13, <1>14,
           <1>15, <1>16 DEF AuNext, AuctionCommand, LsStep

-----------------------------------------------------------------------------
LEMMA TallyStep ==
  ASSUME PlacingInv, TallyInv, AuRepeats = 0, [AuNext]_auVars
  PROVE  TallyInv'
<1>1. CASE UNCHANGED <<ord, notices, fills, heard, early, again>>
  BY <1>1 DEF TallyInv
<1>2. CASE RunHl
  <2>1. \/ UNCHANGED <<fills, heard>>
        \/ fills' = NoFills /\ heard' = NoFills
    BY <1>2 DEF RunHl
  <2>2. NoFills \in [Ids -> Nat]
    BY DEF NoFills
  <2> QED BY <1>2, <2>1, <2>2 DEF RunHl, broker, TallyInv
<1>3. CASE BrokerAccepts
  <2>1. NextRow \in Rows
    BY <1>3, NextIsDue DEF BrokerAccepts, PlacingInv
  <2>2. PICK o \in [row : Rows, done : Nat] : ord' = Append(ord, o)
    BY <1>3, <2>1 DEF BrokerAccepts
  <2>3. ord' \in Seq([row : Rows, done : Nat]) /\ Len(ord') <= MaxOrd /\ DOMAIN ord \subseteq DOMAIN ord'
    BY <1>3, <2>2, AuBoundsAssumption DEF BrokerAccepts, TallyInv
  <2> QED BY <1>3, <2>3 DEF BrokerAccepts, hedged, TallyInv
<1>4. ASSUME NEW k \in DOMAIN ord, BrokerFills(k) PROVE TallyInv'
  <2>1. ord[k] \in [row : Rows, done : Nat]
    <3>1. PICK R : R = [row : Rows, done : Nat]
      OBVIOUS
    <3>2. PICK s : s = ord /\ s \in Seq(R) /\ k \in DOMAIN s
      BY <3>1 DEF TallyInv
    <3>3. s[k] \in R
      BY <3>2
    <3> QED BY <3>1, <3>2, <3>3
  <2>2. PICK o \in [row : Rows, done : Nat] : ord' = [ord EXCEPT ![k] = o]
    <3>1. [ord[k] EXCEPT !.done = @ + 1] \in [row : Rows, done : Nat]
      BY <2>1
    <3> QED BY <1>4, <3>1 DEF BrokerFills
  <2>3. ord' \in Seq([row : Rows, done : Nat]) /\ Len(ord') = Len(ord) /\ DOMAIN ord' = DOMAIN ord
    BY <2>2 DEF TallyInv
  <2>4. notices' \subseteq [id : DOMAIN ord, lot : Nat]
    BY <1>4, <2>1 DEF BrokerFills, Lot, TallyInv
  <2> QED BY <1>4, <2>3, <2>4 DEF BrokerFills, hedged, TallyInv
<1>5. ASSUME NEW m \in notices, NEW repeat \in BOOLEAN, OnFill(m, repeat) PROVE TallyInv'
  <2>1. ~repeat /\ m.id \in DOMAIN ord /\ m.id \in Ids
    BY <1>5, AuBoundsAssumption DEF OnFill, TallyInv, Ids
  <2>2. PICK k : k = m.id
    OBVIOUS
  <2>3. /\ heard' = [heard EXCEPT ![k] = @ + 1] /\ notices' \subseteq notices
        /\ early' = IF k \in answered THEN early ELSE early \cup {k}
        /\ IF k \in KnownIds THEN fills' = [fills EXCEPT ![k] = @ + 1] ELSE fills' = fills
        /\ ord' = ord /\ again' = 0
    BY <1>5, <2>1, <2>2 DEF OnFill, TallyInv
  <2>4. k \in Ids /\ (k \in KnownIds \/ k \notin answered)
    BY <2>1, <2>2 DEF PlacingInv
  <2>5. fills \in [Ids -> Nat] /\ heard \in [Ids -> Nat] /\ \A i \in Ids \ early : fills[i] = heard[i]
    BY DEF TallyInv
  <2>6. fills' \in [Ids -> Nat] /\ heard' \in [Ids -> Nat]
    BY <2>3, <2>4, <2>5
  <2>7. \A i \in Ids \ early' : fills'[i] = heard'[i]
    <3>1. CASE k \in KnownIds
      BY <2>3, <2>4, <2>5, <3>1
    <3>2. CASE k \notin KnownIds
      BY <2>3, <2>4, <2>5, <3>2
    <3> QED BY <3>1, <3>2
  <2> QED BY <2>3, <2>6, <2>7 DEF TallyInv
<1>6. ASSUME NEW r \in Rows, TestOrder(r) PROVE TallyInv'
  <2>1. QtyOf[r] \in Nat
    BY RowsAssumption
  <2>2. PICK k, n, o : /\ k = Len(ord) + 1 /\ n = QtyOf[r] /\ o = [row |-> r, done |-> n]
    OBVIOUS
  <2>3. /\ ord' = Append(ord, o) /\ Len(ord) < MaxOrd
        /\ fills' = [fills EXCEPT ![k] = n] /\ heard' = [heard EXCEPT ![k] = n]
        /\ UNCHANGED <<notices, early, again>>
    BY <1>6, <2>2 DEF TestOrder
  <2>4. k \in Ids /\ n \in Nat /\ o \in [row : Rows, done : Nat]
    BY <2>1, <2>2, <2>3, AuBoundsAssumption DEF Ids, TallyInv
  <2>5. ord' \in Seq([row : Rows, done : Nat]) /\ Len(ord') <= MaxOrd /\ DOMAIN ord \subseteq DOMAIN ord'
    BY <2>3, <2>4, AuBoundsAssumption DEF TallyInv
  <2> QED BY <2>3, <2>4, <2>5 DEF TallyInv
<1>7. CASE UNCHANGED auVars
  BY <1>1, <1>7 DEF auVars, broker, hedged
<1>8. ASSUME NEW r \in Rows, RowsOn(r) PROVE TallyInv'
  BY <1>1, <1>8 DEF RowsOn, broker, hedged
<1>9. ASSUME NEW t \in Moments, SetTime(t) PROVE TallyInv'
  BY <1>1, <1>9 DEF SetTime, broker, hedged
<1>10. CASE RowsOff \/ RunFx \/ RunOff \/ Tick \/ Clock
  BY <1>1, <1>10 DEF RowsOff, RunFx, RunOff, Tick, Clock, broker, hedged
<1>11. CASE LsStep
  BY <1>1, <1>11 DEF LsStep, ListRows, RowPlaced, RowFails, LsEnds, Turn, broker, hedged
<1>12. CASE FxStep \/ HlStep
  BY <1>1, <1>12 DEF FxStep, FxPlan, FxSend, HlStep, HlFire, HlPlaced, broker, hedged
<1> QED BY <1>2, <1>3, <1>4, <1>5, <1>6, <1>7, <1>8, <1>9, <1>10, <1>11, <1>12 DEF AuNext, AuctionCommand

LEMMA ToldIsTallied == TallyInv => KnownFillsAreTallied
BY AuBoundsAssumption DEF TallyInv, KnownFillsAreTallied, Ids

-----------------------------------------------------------------------------
(***************************************************************************)
(* The broker's notices of the markets.                                    *)
(***************************************************************************)
PhaseWords == {"phase", "unknown"}
WordsOf(s, m, kinds) == {i \in DOMAIN s : s[i][1] = m /\ Kind(m, s[i][2]) \in kinds}
IsLast(s, m, i) == \A j \in WordsOf(s, m, PhaseWords) : j <= i
HaltedBy(s, m) == \E i \in WordsOf(s, m, {"halt"}) : \A j \in WordsOf(s, m, {"resume"}) : j < i

(* A market's halt, and its phase once one was told, are those of the words *)
(* so far; the futures market has none before its first.                   *)
MarketRight(s, ph, ha, m) ==
  /\ ha[m] = HaltedBy(s, m)
  /\ WordsOf(s, m, PhaseWords) # {} =>
       \E i \in WordsOf(s, m, PhaseWords) : IsLast(s, m, i) /\ ph[m] = PhaseSaid(s[i][2])
  /\ WordsOf(s, m, PhaseWords) = {} /\ m = "5" => ph[m] = "none"
SessionRight(s, ph, ha) ==
  /\ s \in Seq(Markets \X JifCodes)
  /\ ph \in [Markets -> {"none", "pre_open", "regular", "dead"}] /\ ha \in [Markets -> BOOLEAN]
  /\ \A m \in Markets : MarketRight(s, ph, ha, m)
SessionInv == SessionRight(said, mPhase, mHalt)

LEMMA PhaseIsSaid == ASSUME NEW c PROVE PhaseSaid(c) \in {"pre_open", "regular", "dead"}
BY DEF PhaseSaid, PhaseCode

LEMMA KindsOfWords ==
  ASSUME NEW m, NEW c PROVE Kind(m, c) \in {"phase", "halt", "resume", "info", "unknown"}
BY DEF Kind

(* One more word.                                                          *)
LEMMA OneMore ==
  ASSUME NEW s \in Seq(Markets \X JifCodes), NEW m \in Markets, NEW c \in JifCodes,
         NEW t, t = Append(s, <<m, c>>)
  PROVE  /\ t \in Seq(Markets \X JifCodes) /\ Len(s) \in Nat
         /\ DOMAIN t = DOMAIN s \cup {Len(s) + 1} /\ Len(s) + 1 \notin DOMAIN s
         /\ t[Len(s) + 1] = <<m, c>> /\ \A i \in DOMAIN s : t[i] = s[i] /\ i \in Nat /\ i <= Len(s)
<1>1. t \in Seq(Markets \X JifCodes) /\ Len(t) = Len(s) + 1 /\ Len(s) \in Nat
  OBVIOUS
<1> QED BY <1>1

LEMMA OneMoreWord ==
  ASSUME NEW s, NEW t, NEW n, NEW m, NEW c, NEW kinds, NEW q,
         DOMAIN t = DOMAIN s \cup {n}, n \notin DOMAIN s, t[n] = <<m, c>>,
         \A i \in DOMAIN s : t[i] = s[i]
  PROVE  /\ q = m /\ Kind(m, c) \in kinds => WordsOf(t, q, kinds) = WordsOf(s, q, kinds) \cup {n}
         /\ ~(q = m /\ Kind(m, c) \in kinds) => WordsOf(t, q, kinds) = WordsOf(s, q, kinds)
BY DEF WordsOf

LEMMA SaidStep ==
  ASSUME NEW s, NEW ph, NEW ha, SessionRight(s, ph, ha), NEW m \in Markets, NEW c \in JifCodes,
         NEW ph2, NEW ha2,
         ph2 = IF Kind(m, c) \in PhaseWords THEN [ph EXCEPT ![m] = PhaseSaid(c)] ELSE ph,
         ha2 = [ha EXCEPT ![m] = (Kind(m, c) = "halt" \/ (@ /\ Kind(m, c) # "resume"))]
  PROVE  SessionRight(Append(s, <<m, c>>), ph2, ha2)
<1> PICK t : t = Append(s, <<m, c>>)
  OBVIOUS
<1>1. s \in Seq(Markets \X JifCodes) /\ Len(s) \in Nat
  BY DEF SessionRight
<1> PICK n : n = Len(s) + 1
  OBVIOUS
<1>2. /\ t \in Seq(Markets \X JifCodes) /\ n \in Nat
      /\ DOMAIN t = DOMAIN s \cup {n} /\ n \notin DOMAIN s
      /\ t[n] = <<m, c>> /\ \A i \in DOMAIN s : t[i] = s[i] /\ i \in Nat /\ i < n
  BY <1>1, OneMore
<1>a. n \in Nat
  BY <1>2
<1>b. \A i \in DOMAIN s : i \in Nat /\ i < n
  BY <1>2
<1>c. DOMAIN t = DOMAIN s \cup {n} /\ n \notin DOMAIN s /\ t[n] = <<m, c>> /\ \A i \in DOMAIN s : t[i] = s[i]
  BY <1>2
<1>3. ASSUME NEW q, NEW kinds
      PROVE  /\ q = m /\ Kind(m, c) \in kinds => WordsOf(t, q, kinds) = WordsOf(s, q, kinds) \cup {n}
             /\ ~(q = m /\ Kind(m, c) \in kinds) => WordsOf(t, q, kinds) = WordsOf(s, q, kinds)
  BY ONLY <1>c, OneMoreWord
<1>4. ASSUME NEW q, q # m \/ Kind(m, c) # "halt"
      PROVE  WordsOf(t, q, {"halt"}) = WordsOf(s, q, {"halt"})
  BY <1>3, <1>4
<1>5. ASSUME NEW q, q # m \/ Kind(m, c) # "resume"
      PROVE  WordsOf(t, q, {"resume"}) = WordsOf(s, q, {"resume"})
  BY <1>3, <1>5
<1>6. \A q \in Markets : /\ WordsOf(s, q, PhaseWords) \subseteq DOMAIN s
                         /\ WordsOf(s, q, {"halt"}) \subseteq DOMAIN s
                         /\ WordsOf(s, q, {"resume"}) \subseteq DOMAIN s
  BY DEF WordsOf
<1>7. /\ ph2 \in [Markets -> {"none", "pre_open", "regular", "dead"}] /\ ha2 \in [Markets -> BOOLEAN]
  BY PhaseIsSaid DEF SessionRight
<1>8. ASSUME NEW q \in Markets PROVE ha2[q] = HaltedBy(t, q)
  <2>1. ha[q] = HaltedBy(s, q) /\ ha[q] \in BOOLEAN
    BY DEF SessionRight, MarketRight
  <2>2. CASE q # m \/ Kind(m, c) \notin {"halt", "resume"}
    <3>1. ha2[q] = ha[q]
      BY <2>1, <2>2 DEF SessionRight
    <3> QED BY <2>1, <2>2, <3>1, <1>4, <1>5 DEF HaltedBy
  <2>3. CASE q = m /\ Kind(m, c) = "halt"
    <3>1. ha2[q] = TRUE
      BY <2>3 DEF SessionRight
    <3>2. \A j \in WordsOf(t, q, {"resume"}) : j < n
      BY <1>a, <1>b, <1>5, <1>6, <2>3
    <3>3. n \in WordsOf(t, q, {"halt"})
      BY <1>3, <2>3
    <3> QED BY <3>1, <3>2, <3>3 DEF HaltedBy
  <2>4. CASE q = m /\ Kind(m, c) = "resume"
    <3>1. ha2[q] = FALSE
      BY <2>4 DEF SessionRight
    <3>2. \A i \in WordsOf(t, q, {"halt"}) : ~(n < i)
      BY <1>a, <1>b, <1>4, <1>6, <2>4
    <3>3. n \in WordsOf(t, q, {"resume"})
      BY <1>3, <2>4
    <3> QED BY <3>1, <3>2, <3>3 DEF HaltedBy
  <2> QED BY <2>2, <2>3, <2>4
<1>9. ASSUME NEW q \in Markets
      PROVE  /\ WordsOf(t, q, PhaseWords) # {} =>
                  \E i \in WordsOf(t, q, PhaseWords) : IsLast(t, q, i) /\ ph2[q] = PhaseSaid(t[i][2])
             /\ WordsOf(t, q, PhaseWords) = {} /\ q = "5" => ph2[q] = "none"
  <2>1. CASE q = m /\ Kind(m, c) \in PhaseWords
    <3>1. n \in WordsOf(t, q, PhaseWords)
      BY <1>3, <2>1
    <3>2. IsLast(t, q, n)
      <4>1. \A j \in WordsOf(s, q, PhaseWords) : j <= n
        BY <1>a, <1>b, <1>6
      <4>2. WordsOf(t, q, PhaseWords) = WordsOf(s, q, PhaseWords) \cup {n}
        BY <1>3, <2>1
      <4> QED BY <1>a, <4>1, <4>2 DEF IsLast
    <3>3. ph2[q] = PhaseSaid(t[n][2])
      BY <1>2, <2>1 DEF SessionRight
    <3> QED BY <3>1, <3>2, <3>3
  <2>2. CASE ~(q = m /\ Kind(m, c) \in PhaseWords)
    <3>1. ph2[q] = ph[q] /\ WordsOf(t, q, PhaseWords) = WordsOf(s, q, PhaseWords)
      BY <1>3, <2>2 DEF SessionRight
    <3>2. \A i \in WordsOf(s, q, PhaseWords) : t[i] = s[i]
      BY <1>a, <1>b, <1>6
    <3>3. MarketRight(s, ph, ha, q)
      BY DEF SessionRight
    <3> QED BY <3>1, <3>2, <3>3 DEF IsLast, MarketRight
  <2> QED BY <2>1, <2>2
<1>10. \A q \in Markets : MarketRight(t, ph2, ha2, q)
  BY <1>8, <1>9 DEF MarketRight
<1> QED BY <1>2, <1>7, <1>10 DEF SessionRight

LEMMA SessionInitInv == SessionInit => SessionInv
BY DEF SessionInit, SessionInv, SessionRight, MarketRight, HaltedBy, WordsOf, Markets

LEMMA JifStep ==
  ASSUME SessionInv, NEW m \in Markets, NEW c \in JifCodes, Jif(m, c) PROVE SessionInv'
<1>1. said' = Append(said, <<m, c>>)
  BY DEF Jif
<1>2. SessionRight(Append(said, <<m, c>>), mPhase', mHalt')
  BY SaidStep DEF Jif, SessionInv, PhaseWords
<1> QED BY <1>1, <1>2 DEF SessionInv

LEMMA SeedStep ==
  ASSUME SessionInv, NEW p \in {"regular", "pre_open"}, SeedPhase(p) PROVE SessionInv'
<1>1. said' = said /\ mHalt' = mHalt /\ said = << >>
  BY DEF SeedPhase
<1>2. mPhase' \in [Markets -> {"none", "pre_open", "regular", "dead"}] /\ mPhase'["5"] = mPhase["5"]
  BY DEF SeedPhase, SessionInv, SessionRight, Markets
<1>3. \A m \in Markets : WordsOf(said, m, PhaseWords) = {}
  BY <1>1 DEF WordsOf
<1>4. \A m \in Markets : MarketRight(said, mPhase', mHalt, m)
  BY <1>2, <1>3 DEF SessionInv, SessionRight, MarketRight
<1>5. SessionRight(said, mPhase', mHalt)
  BY <1>2, <1>4 DEF SessionInv, SessionRight
<1> QED BY <1>1, <1>5 DEF SessionInv

LEMMA SessionIsAsSaid == SessionInv => OpenAsSaid
<1> SUFFICES ASSUME SessionInv, PhaseTold("1"), NEW m \in Markets
             PROVE  IsTradeable(m) <=> (SaidOpen(IF PhaseTold(m) THEN m ELSE "1") /\ ~SaidHalted(m))
  BY DEF OpenAsSaid
<1>1. mHalt[m] = SaidHalted(m)
  BY DEF SessionInv, SessionRight, MarketRight, HaltedBy, WordsOf, SaidHalted, Words
<1>2. ASSUME NEW q \in Markets, PhaseTold(q)
      PROVE  mPhase[q] # "none" /\ (SaidOpen(q) <=> mPhase[q] # "dead")
  <2>1. WordsOf(said, q, PhaseWords) = Words(q, {"phase", "unknown"})
    BY DEF WordsOf, Words, PhaseWords
  <2>2. PICK i \in WordsOf(said, q, PhaseWords) :
          IsLast(said, q, i) /\ mPhase[q] = PhaseSaid(said[i][2])
    BY <1>2, <2>1 DEF PhaseTold, SessionInv, SessionRight, MarketRight
  <2>3. WordsOf(said, q, PhaseWords) \subseteq Nat
    BY DEF WordsOf, SessionInv, SessionRight
  <2>4. i = LastWord(q, {"phase", "unknown"})
    BY <2>1, <2>2, <2>3 DEF LastWord, IsLast
  <2> QED BY <1>2, <2>2, <2>4, PhaseIsSaid DEF SaidOpen
<1>3. "1" \in Markets
  BY DEF Markets
<1>4. CASE PhaseTold(m)
  BY <1>1, <1>2, <1>4 DEF IsTradeable, PhaseFor
<1>5. CASE ~PhaseTold(m)
  <2>1. m = "5" /\ mPhase[m] = "none"
    BY <1>5 DEF Markets, PhaseTold, WordsOf, Words, PhaseWords, SessionInv, SessionRight, MarketRight
  <2> QED BY <1>1, <1>2, <1>3, <1>5, <2>1 DEF IsTradeable, PhaseFor
<1> QED BY <1>4, <1>5

-----------------------------------------------------------------------------
(***************************************************************************)
(* The rehearsed sets.                                                     *)
(***************************************************************************)
Blocks2 == {"entry", "exit"}
LowestOf(s, w) == IF s = "T" THEN 0 ELSE 0 - w
RehearsedSet == [running : BOOLEAN, target : Nat, fired : Int, ready : BOOLEAN]

RehearsalInv ==
  /\ screen \in {"T", "M"} /\ perQty \in [Blocks2 -> Nat]
  /\ maxPos \in Nat /\ widest \in Nat /\ maxPos <= widest
  /\ sets \in [SetIds -> RehearsedSet] /\ ordered \in [SetIds -> Nat]
  /\ position \in Int /\ LowestOf(screen, widest) <= position /\ position <= widest
  /\ \A k \in SetIds : sets[k].fired <= ordered[k] /\ sets[k].target <= ordered[k]

(* What one round has done so far.                                         *)
Judged == [fired : [SetIds -> Int], went : SUBSET SetIds, position : Int]
RoundRight(acc) ==
  /\ acc \in Judged
  /\ LowestOf(screen, widest) <= acc.position /\ acc.position <= widest
  /\ \A k \in SetIds : acc.fired[k] <= ordered[k]

LEMMA SetIdsAreOfBlocks == \A k \in SetIds : k \in Blocks2 \X Nat
BY ScAssumption DEF SetIds, ToSet, Blocks2

(* One set's order stays within the position's limits and its own target.  *)
LEMMA JudgeOne ==
  ASSUME RehearsalInv, NEW acc, RoundRight(acc), NEW k \in SetIds, NEW hot
  PROVE  RoundRight(JudgeSet(acc, k, hot))
<1> PICK q : q = PlanQty(k, acc.fired[k], acc.position)
  OBVIOUS
<1>1. acc.fired \in [SetIds -> Int] /\ acc.fired[k] \in Int /\ acc.position \in Int /\ acc.went \subseteq SetIds
  BY DEF RoundRight, Judged
<1>2. k[1] \in Blocks2 /\ perQty[k[1]] \in Nat /\ sets[k].target \in Nat
  BY SetIdsAreOfBlocks DEF RehearsalInv, RehearsedSet
<1>3. q > 0 => /\ q \in Int /\ acc.fired[k] + q <= ordered[k]
               /\ k[1] = "entry" => acc.position + q <= widest
               /\ k[1] # "entry" => LowestOf(screen, widest) <= acc.position - q
  <2>1. Room(k[1], acc.position) \in Int
    BY <1>1, <1>2 DEF Room, RehearsalInv
  <2>2. q > 0 => /\ q \in Int /\ q <= Room(k[1], acc.position)
                 /\ q <= sets[k].target - acc.fired[k]
    BY <1>1, <1>2, <2>1 DEF PlanQty, Least
  <2>3. q > 0 => acc.fired[k] + q <= ordered[k]
    BY <1>1, <1>2, <2>2 DEF RehearsalInv
  <2>4. k[1] = "entry" => Room(k[1], acc.position) = maxPos - acc.position
    BY DEF Room
  <2>5. k[1] # "entry" => Room(k[1], acc.position) = IF screen = "M" THEN maxPos + acc.position
                                                     ELSE acc.position
    BY <1>2 DEF Room, Blocks2
  <2> QED BY <1>1, <2>2, <2>3, <2>4, <2>5 DEF RehearsalInv, LowestOf
<1>4. CASE JudgeSet(acc, k, hot) = acc
  BY <1>4
<1>5. CASE q > 0 /\ JudgeSet(acc, k, hot)
             = [fired |-> [acc.fired EXCEPT ![k] = @ + q], went |-> acc.went \cup {k},
                position |-> acc.position + (IF k[1] = "entry" THEN q ELSE 0 - q)]
  <2> PICK new : new = JudgeSet(acc, k, hot)
    OBVIOUS
  <2>1. new.fired = [acc.fired EXCEPT ![k] = @ + q] /\ new.went = acc.went \cup {k}
        /\ new.position = acc.position + (IF k[1] = "entry" THEN q ELSE 0 - q)
    BY <1>5
  <2>2. new.fired \in [SetIds -> Int] /\ new.position \in Int /\ new.went \subseteq SetIds
    BY <1>1, <1>3, <1>5, <2>1
  <2>3. new \in Judged
    BY <1>5, <2>2 DEF Judged
  <2>4. \A i \in SetIds : new.fired[i] <= ordered[i]
    BY <1>1, <1>3, <1>5, <2>1 DEF RoundRight
  <2>5. LowestOf(screen, widest) <= new.position /\ new.position <= widest
    <3>1. widest \in Int /\ LowestOf(screen, widest) \in Int
      BY DEF RehearsalInv, LowestOf
    <3>2. LowestOf(screen, widest) <= acc.position /\ acc.position <= widest
      BY DEF RoundRight
    <3>3. CASE k[1] = "entry"
      BY <1>1, <1>3, <1>5, <2>1, <3>1, <3>2, <3>3
    <3>4. CASE k[1] # "entry"
      BY <1>1, <1>3, <1>5, <2>1, <3>1, <3>2, <3>4
    <3> QED BY <3>3, <3>4
  <2> QED BY <2>3, <2>4, <2>5 DEF RoundRight
<1> QED BY <1>4, <1>5 DEF JudgeSet

(* The sets are judged one after the other: the round is what is left      *)
(* after the last.                                                         *)
BeforeRound == [fired |-> [k \in SetIds |-> sets[k].fired], went |-> {}, position |-> position]
Rounds(n, hot, g) ==
  g = [i \in 0 .. n |-> IF i = 0 THEN BeforeRound ELSE JudgeSet(g[i - 1], ScSets[i], hot)]

LEMMA RoundsExist ==
  ASSUME NEW hot, NEW N \in Nat PROVE \A n \in 0 .. N : \E g : Rounds(n, hot, g)
<1> DEFINE S == {n \in 0 .. N : \E g : Rounds(n, hot, g)}
<1>1. 0 \in S
  <2>1. Rounds(0, hot, [i \in 0 .. 0 |-> BeforeRound])
    BY DEF Rounds
  <2> QED BY <2>1
<1>2. ASSUME NEW n \in 0 .. N, n \in S, n < N PROVE n + 1 \in S
  <2>1. PICK g : Rounds(n, hot, g)
    BY <1>2
  <2>2. PICK new : new = JudgeSet(g[n], ScSets[n + 1], hot)
    OBVIOUS
  <2>3. PICK h : h = [i \in 0 .. n + 1 |-> IF i = n + 1 THEN new ELSE g[i]]
    OBVIOUS
  <2>4. \A i \in 0 .. n + 1 : h[i] = IF i = 0 THEN BeforeRound ELSE JudgeSet(h[i - 1], ScSets[i], hot)
    <3>1. h[n + 1] = JudgeSet(h[n], ScSets[n + 1], hot) /\ n + 1 # 0
      BY <2>2, <2>3
    <3>2. \A i \in 0 .. n : h[i] = g[i]
      BY <2>3
    <3>3. \A i \in 0 .. n : g[i] = IF i = 0 THEN BeforeRound ELSE JudgeSet(g[i - 1], ScSets[i], hot)
      BY <2>1 DEF Rounds
    <3>4. \A i \in 0 .. n : i # 0 => i - 1 \in 0 .. n
      OBVIOUS
    <3>5. ASSUME NEW i \in 0 .. n
          PROVE  h[i] = IF i = 0 THEN BeforeRound ELSE JudgeSet(h[i - 1], ScSets[i], hot)
      BY <3>2, <3>3, <3>4
    <3>6. \A i \in 0 .. n + 1 : i \in 0 .. n \/ i = n + 1
      OBVIOUS
    <3>7. (n + 1) - 1 = n
      OBVIOUS
    <3> QED BY <3>1, <3>5, <3>6, <3>7
  <2>5. Rounds(n + 1, hot, h)
    BY <2>3, <2>4 DEF Rounds
  <2> QED BY <1>2, <2>5
<1> HIDE DEF S
<1>3. \A n \in 0 .. N : n \in S
  BY <1>1, <1>2, AllNumbers
<1> QED BY <1>3 DEF S

LEMMA RoundIsRight ==
  ASSUME RehearsalInv, NEW hot PROVE RoundRight(Round(hot))
<1> PICK N : N = Len(ScSets)
  OBVIOUS
<1>1. N \in Nat /\ \A i \in 1 .. N : ScSets[i] \in SetIds
  BY ScAssumption DEF SetIds, ToSet
<1>2. PICK g : Rounds(N, hot, g) /\ Round(hot) = g[N]
  <2>1. \E g : Rounds(N, hot, g)
    <3>1. N \in 0 .. N
      BY <1>1
    <3> QED BY <1>1, <3>1, RoundsExist
  <2>2. Round(hot) = (CHOOSE g : Rounds(N, hot, g))[N]
    BY DEF Round, Rounds, BeforeRound
  <2> QED BY <2>1, <2>2
<1> DEFINE S == {n \in 0 .. N : RoundRight(g[n])}
<1>3. 0 \in S
  <2>1. g[0] = BeforeRound
    BY <1>1, <1>2 DEF Rounds
  <2>2. RoundRight(BeforeRound)
    BY DEF BeforeRound, RoundRight, Judged, RehearsalInv, RehearsedSet
  <2> QED BY <1>1, <2>1, <2>2
<1>4. ASSUME NEW n \in 0 .. N, n \in S, n < N PROVE n + 1 \in S
  <2>1. n + 1 \in 1 .. N /\ n + 1 \in 0 .. N /\ n + 1 # 0 /\ (n + 1) - 1 = n
    BY <1>1, <1>4
  <2>2. g[n + 1] = JudgeSet(g[n], ScSets[n + 1], hot)
    BY <1>2, <2>1 DEF Rounds
  <2>3. RoundRight(JudgeSet(g[n], ScSets[n + 1], hot))
    BY <1>1, <1>4, <2>1, JudgeOne
  <2> QED BY <2>1, <2>2, <2>3
<1> HIDE DEF S
<1>5. \A n \in 0 .. N : n \in S
  BY <1>1, <1>3, <1>4, AllNumbers
<1> QED BY <1>1, <1>2, <1>5 DEF S

-----------------------------------------------------------------------------
LEMMA RehearsalInitInv == ScInit => SessionInv /\ RehearsalInv
<1>1. ScInit => SessionInv
  BY SessionInitInv DEF ScInit
<1>2. ScInit => RehearsalInv
  BY DEF ScInit, RehearsalInv, Blocks2, LowestOf, RehearsedSet, NewSet
<1> QED BY <1>1, <1>2

LEMMA RehearsalStep ==
  ASSUME RehearsalInv, ScNext \/ UNCHANGED rehearsalVars PROVE RehearsalInv'
<1>1. CASE UNCHANGED rehearsalVars
  BY <1>1 DEF rehearsalVars, RehearsalInv
<1>2. ASSUME NEW hot, ScTick(hot) PROVE RehearsalInv'
  <2> PICK r : r = Round(hot)
    OBVIOUS
  <2>1. RoundRight(r)
    BY RoundIsRight
  <2>2. /\ position' = r.position
        /\ sets' = [k \in SetIds |-> [sets[k] EXCEPT !.fired = r.fired[k], !.ready = @ /\ k \notin r.went]]
        /\ UNCHANGED <<screen, perQty, maxPos, widest, ordered>>
    BY <1>2 DEF ScTick
  <2>3. r.position \in Int /\ r.fired \in [SetIds -> Int]
    BY <2>1 DEF RoundRight, Judged
  <2>4. ASSUME NEW k \in SetIds
        PROVE  /\ [sets[k] EXCEPT !.fired = r.fired[k], !.ready = @ /\ k \notin r.went] \in RehearsedSet
               /\ sets'[k].fired = r.fired[k] /\ sets'[k].target = sets[k].target
    <3>1. sets[k] \in RehearsedSet
      BY DEF RehearsalInv
    <3> QED BY <2>2, <2>3, <3>1 DEF RehearsedSet
  <2>5. sets' \in [SetIds -> RehearsedSet]
    BY <2>2, <2>4
  <2> QED BY <2>1, <2>2, <2>3, <2>4, <2>5 DEF RehearsalInv, RoundRight
<1>3. ASSUME NEW k \in SetIds, NEW b \in BOOLEAN, DelayOver(k) \/ RunSet(k, b) PROVE RehearsalInv'
  <2>1. PICK s \in RehearsedSet : /\ sets' = [sets EXCEPT ![k] = s]
                               /\ s.fired = sets[k].fired /\ s.target = sets[k].target
    <3>1. sets[k] \in RehearsedSet
      BY DEF RehearsalInv
    <3> PICK d, o : d = [sets[k] EXCEPT !.ready = TRUE] /\ o = [sets[k] EXCEPT !.running = b]
      OBVIOUS
    <3>2. {d, o} \subseteq RehearsedSet /\ d.fired = sets[k].fired /\ d.target = sets[k].target
          /\ o.fired = sets[k].fired /\ o.target = sets[k].target
      BY <3>1 DEF RehearsedSet
    <3>3. sets' = [sets EXCEPT ![k] = d] \/ sets' = [sets EXCEPT ![k] = o]
      BY <1>3 DEF DelayOver, RunSet
    <3> QED BY <3>2, <3>3
  <2>2. UNCHANGED <<screen, perQty, maxPos, position, widest, ordered>>
    BY <1>3 DEF DelayOver, RunSet
  <2> QED BY <2>1, <2>2 DEF RehearsalInv
<1>4. ASSUME NEW k \in SetIds, ResetFired(k) PROVE RehearsalInv'
  <2>1. sets[k] \in RehearsedSet
    BY DEF RehearsalInv
  <2>2. PICK s : s = [sets[k] EXCEPT !.fired = 0]
    OBVIOUS
  <2>3. s \in RehearsedSet /\ s.fired = 0 /\ s.target = sets[k].target /\ sets[k].target \in Nat
    BY <2>1, <2>2 DEF RehearsedSet
  <2>4. sets' = [sets EXCEPT ![k] = s] /\ ordered' = [ordered EXCEPT ![k] = sets[k].target]
        /\ UNCHANGED <<screen, perQty, maxPos, position, widest>>
    BY <1>4, <2>2 DEF ResetFired
  <2> QED BY <2>3, <2>4 DEF RehearsalInv
<1>5. ASSUME NEW k \in SetIds, NEW n \in ScQtys, SetTarget(k, n) PROVE RehearsalInv'
  <2>1. sets[k] \in RehearsedSet /\ n \in Nat
    BY ScAssumption DEF RehearsalInv
  <2>2. PICK s : s = [sets[k] EXCEPT !.target = n]
    OBVIOUS
  <2>3. s \in RehearsedSet /\ s.fired = sets[k].fired /\ s.target = n
    BY <2>1, <2>2 DEF RehearsedSet
  <2>4. sets' = [sets EXCEPT ![k] = s] /\ ordered' = [ordered EXCEPT ![k] = IF n > @ THEN n ELSE @]
        /\ UNCHANGED <<screen, perQty, maxPos, position, widest>>
    BY <1>5, <2>2 DEF SetTarget
  <2>5. sets[k].fired \in Int /\ ordered[k] \in Nat /\ sets[k].fired <= ordered[k]
    BY <2>1 DEF RehearsalInv, RehearsedSet
  <2>6. ordered' \in [SetIds -> Nat] /\ n <= ordered'[k] /\ sets[k].fired <= ordered'[k]
    BY <2>1, <2>4, <2>5 DEF RehearsalInv
  <2> QED BY <2>3, <2>4, <2>6 DEF RehearsalInv
<1>6. ASSUME NEW b \in Blocks2, NEW n \in ScQtys, PerQty(b, n) PROVE RehearsalInv'
  BY <1>6, ScAssumption DEF PerQty, RehearsalInv
<1>7. ASSUME NEW n \in ScQtys, MaxPosition(n) PROVE RehearsalInv'
  <2>1. n \in Nat /\ widest \in Nat /\ widest' = (IF n > widest THEN n ELSE widest) /\ maxPos' = n
    BY <1>7, ScAssumption DEF MaxPosition, RehearsalInv
  <2>2. widest' \in Nat /\ widest <= widest' /\ n <= widest'
    BY <2>1
  <2>3. LowestOf(screen, widest') <= LowestOf(screen, widest) /\ LowestOf(screen, widest) \in Int
        /\ LowestOf(screen, widest') \in Int
    BY <2>1, <2>2 DEF LowestOf
  <2> QED BY <1>7, <2>1, <2>2, <2>3 DEF MaxPosition, RehearsalInv
<1>8. CASE UseScreen
  <2>1. LowestOf("M", widest) <= LowestOf(screen, widest) /\ LowestOf(screen, widest) \in Int
        /\ LowestOf("M", widest) \in Int
    BY DEF LowestOf, RehearsalInv
  <2> QED BY <1>8, <2>1 DEF UseScreen, RehearsalInv
<1>9. CASE Hours
  BY <1>1, <1>9 DEF Hours, RehearsalInv
<1>10. CASE Shutdown
  <2>1. ASSUME NEW k \in SetIds
        PROVE  /\ [sets[k] EXCEPT !.running = FALSE] \in RehearsedSet
               /\ sets'[k].fired = sets[k].fired /\ sets'[k].target = sets[k].target
    <3>1. sets[k] \in RehearsedSet
      BY DEF RehearsalInv
    <3> QED BY <1>10, <3>1 DEF Shutdown, RehearsedSet
  <2>2. sets' \in [SetIds -> RehearsedSet]
    BY <1>10, <2>1 DEF Shutdown
  <2> QED BY <1>10, <2>1, <2>2 DEF Shutdown, RehearsalInv
<1> QED BY <1>1, <1>2, <1>3, <1>4, <1>5, <1>6, <1>7, <1>8, <1>9, <1>10 DEF ScNext, ApplyCommand, Blocks2

LEMMA PositionIsKept == RehearsalInv => PositionKept
BY DEF RehearsalInv, PositionKept, LowestOf

LEMMA SessionStep ==
  ASSUME SessionInv, ScNext PROVE SessionInv'
<1>1. CASE UNCHANGED sessionVars
  BY <1>1 DEF sessionVars, SessionInv
<1>2. ASSUME NEW hot, ScTick(hot) PROVE UNCHANGED sessionVars
  BY <1>2 DEF ScTick
<1> QED BY <1>1, <1>2, JifStep, SeedStep DEF ScNext, ApplyCommand, DelayOver, ResetFired, RunSet, SetTarget, PerQty,
             MaxPosition, UseScreen, Shutdown, Hours, ScCommand

-----------------------------------------------------------------------------
(***************************************************************************)
(* What was told is kept.                                                  *)
(***************************************************************************)
mcVars == <<part, auVars, amVars, nxVars, faVars, pgVars, scVars, tgVars, ssVars>>

(* What a step of the run is to each strategy: its own, or none.           *)
LEMMA StepsOfTheRun ==
  ASSUME [MCNext]_mcVars
  PROVE  /\ [AuNext]_auVars /\ [SsNext]_ssVars
         /\ ScNext \/ UNCHANGED rehearsalVars
         /\ ScNext \/ UNCHANGED sessionVars \/ \E m \in Markets, c \in JifCodes : Jif(m, c)
<1>1. CASE UNCHANGED mcVars
  BY <1>1 DEF mcVars, scVars
<1>2. CASE Closing(AuNext)
  BY <1>2 DEF Closing, scVars
<1>3. CASE Notices(\E m \in Markets, c \in JifCodes : Jif(m, c))
  BY <1>3 DEF Notices
<1>4. CASE Rehearsing(ScNext)
  BY <1>4 DEF Rehearsing
<1>5. CASE Showing(SsNext)
  BY <1>5 DEF Showing, scVars
<1>6. CASE Amending(AmNext) \/ Opening(NxNext) \/ FxHedging(FaNext) \/ Pegging(PgNext) \/ Chatting(TgNext)
  BY <1>6 DEF Amending, Opening, FxHedging, Pegging, Chatting, scVars
<1> QED BY <1>1, <1>2, <1>3, <1>4, <1>5, <1>6 DEF MCNext

ToldInv == TasksInv /\ PlacingInv /\ TallyInv /\ SessionInv /\ RehearsalInv

LEMMA ToldInitInv == MCInit => ToldInv
BY AuInitInv, RehearsalInitInv DEF MCInit, ToldInv

LEMMA ToldStep ==
  ASSUME AuRepeats = 0, ToldInv, [MCNext]_mcVars PROVE ToldInv'
<1>1. TasksInv'
  BY StepsOfTheRun, TasksStep DEF ToldInv
<1>2. PlacingInv'
  BY StepsOfTheRun, PlacingStep DEF ToldInv, TallyInv
<1>3. TallyInv'
  BY StepsOfTheRun, TallyStep DEF ToldInv
<1>4. SessionInv'
  <2>1. CASE UNCHANGED sessionVars
    BY <2>1 DEF sessionVars, ToldInv, SessionInv
  <2> QED BY <2>1, StepsOfTheRun, SessionStep, JifStep DEF ToldInv
<1>5. RehearsalInv'
  BY StepsOfTheRun, RehearsalStep DEF ToldInv
<1> QED BY <1>1, <1>2, <1>3, <1>4, <1>5 DEF ToldInv

(* Where the broker tells of a lot once: every known fill is in the closing *)
(* auction's tally (_on_fill), the halts and phases are those of the        *)
(* notices (session.py), and the virtual position is within its limits      *)
(* (_judge_set) - for any rows, prices, sets, commands and notices.         *)
THEOREM TradingKeepsWhatIsTold ==
  ASSUME AuRepeats = 0 PROVE MCSpec => []NothingToldIsLost
<1>1. MCInit => ToldInv
  BY ToldInitInv
<1>2. ToldInv /\ [MCNext]_mcVars => ToldInv'
  BY ToldStep
<1>3. ToldInv => NothingToldIsLost
  BY ToldIsTallied, SessionIsAsSaid, PositionIsKept DEF ToldInv, NothingToldIsLost
<1>4. MCSpec => MCInit /\ [][MCNext]_mcVars
  BY DEF MCSpec, mcVars
<1> QED BY <1>1, <1>2, <1>3, <1>4, PTL

-----------------------------------------------------------------------------
(***************************************************************************)
(* The closing auction: no lot is hedged twice.                            *)
(***************************************************************************)
(* What was hedged, what waits in this round to be, and what is still on   *)
(* its way are different lots of an order.                                 *)
OnTheWay(k) == {m \in notices : m.id = k}
Unhedged(k) == IF hl.done THEN 0 ELSE fills[k]
HlIs(h) == h = [run |-> h.run, done |-> h.done, task |-> h.task, net |-> h.net, out |-> h.out]
HedgeInv ==
  /\ HlIs(hl)
  /\ hl.done \in BOOLEAN /\ (hl.task = "gather" => ~hl.done)
  /\ counted \in [Ids -> Nat] /\ IsFiniteSet(notices)
  /\ \A k \in Ids \ DOMAIN ord : counted[k] = 0 /\ fills[k] = 0
  /\ \A k \in DOMAIN ord : counted[k] + Unhedged(k) + Cardinality(OnTheWay(k)) <= ord[k].done

LEMMA HedgeInitInv == AuInit => HedgeInv
<1> SUFFICES ASSUME AuInit PROVE HedgeInv
  OBVIOUS
<1>1. NoFills \in [Ids -> Nat] /\ \A k \in Ids : NoFills[k] = 0
  BY DEF NoFills
<1>2. IsFiniteSet(notices)
  BY FS_EmptySet DEF AuInit
<1>3. DOMAIN ord = {}
  BY DEF AuInit
<1> QED BY <1>1, <1>2, <1>3 DEF AuInit, HedgeInv, HlIs

LEMMA OrdersKnown ==
  ASSUME TallyInv, NEW k \in DOMAIN ord
  PROVE  ord[k] \in [row : Rows, done : Nat] /\ k \in Ids /\ Len(ord) \in Nat
<1>1. PICK R : R = [row : Rows, done : Nat]
  OBVIOUS
<1>2. PICK s : s = ord /\ s \in Seq(R) /\ k \in DOMAIN s /\ Len(s) <= MaxOrd
  BY <1>1 DEF TallyInv
<1>3. s[k] \in R /\ Len(s) \in Nat /\ k \in 1 .. Len(s)
  BY <1>2
<1> QED BY <1>1, <1>2, <1>3, AuBoundsAssumption DEF Ids

LEMMA WayIsFinite ==
  ASSUME IsFiniteSet(notices), NEW k
  PROVE  IsFiniteSet(OnTheWay(k)) /\ Cardinality(OnTheWay(k)) \in Nat
<1>1. OnTheWay(k) \subseteq notices
  BY DEF OnTheWay
<1> QED BY <1>1, FS_Subset, FS_CardinalityType

(* A step that tells nothing and hedges nothing.                           *)
LEMMA HedgeStays ==
  ASSUME HedgeInv, UNCHANGED <<fills, counted, ord, notices>>,
         HlIs(hl'),
         hl'.done = hl.done, hl'.task = "gather" => hl.task = "gather"
  PROVE  HedgeInv'
BY DEF HedgeInv, HlIs, Unhedged, OnTheWay

LEMMA GatheringKeeps ==
  ASSUME HedgeInv
  PROVE  /\ HlIs(Gathering)
         /\ Gathering.done = hl.done /\ (Gathering.task = "gather" => ~hl.done)
BY DEF HedgeInv, HlIs, Gathering

(* One more order.                                                         *)
OrdersGrow(new, o) ==
  /\ DOMAIN ord' = DOMAIN ord \cup {new} /\ new \in Ids \ DOMAIN ord
  /\ ord'[new] = o /\ \A k \in DOMAIN ord : ord'[k] = ord[k]

LEMMA AppendedOrder ==
  ASSUME TallyInv, NEW o \in [row : Rows, done : Nat], ord' = Append(ord, o), Len(ord) < MaxOrd
  PROVE  OrdersGrow(Len(ord) + 1, o)
<1> PICK new : new = Len(ord) + 1
  OBVIOUS
<1>1. PICK s, R : s = ord /\ R = [row : Rows, done : Nat] /\ s \in Seq(R) /\ o \in R
  BY DEF TallyInv
<1>2. PICK t : t = Append(s, o)
  OBVIOUS
<1>3. Len(s) \in Nat /\ new = Len(s) + 1 /\ new \in 1 .. MaxOrd
  BY <1>1, AuBoundsAssumption
<1>4. /\ DOMAIN t = DOMAIN s \cup {new} /\ new \notin DOMAIN s
      /\ t[new] = o /\ \A k \in DOMAIN s : t[k] = s[k]
  BY <1>1, <1>2, <1>3
<1> QED BY <1>1, <1>2, <1>3, <1>4 DEF Ids, OrdersGrow

(* Of it n lots are told and wait for their hedge.                         *)
LEMMA OneMoreOrder ==
  ASSUME TallyInv, HedgeInv, NEW new, NEW o, OrdersGrow(new, o), NEW n \in Nat, o.done \in Nat, n <= o.done,
         HlIs(hl'), hl'.done = hl.done, hl'.task = "gather" => ~hl.done,
         UNCHANGED <<counted, notices>>, fills' = [fills EXCEPT ![new] = n]
  PROVE  HedgeInv'
<1>1. /\ DOMAIN ord' = DOMAIN ord \cup {new} /\ new \notin DOMAIN ord /\ new \in Ids
      /\ ord'[new] = o /\ \A k \in DOMAIN ord : ord'[k] = ord[k]
  BY DEF OrdersGrow
<1>2. fills \in [Ids -> Nat] /\ fills'[new] = n /\ \A k \in Ids \ {new} : fills'[k] = fills[k]
  BY <1>1 DEF TallyInv
<1>3. \A k \in Ids \ DOMAIN ord' : counted'[k] = 0 /\ fills'[k] = 0
  BY <1>1, <1>2 DEF HedgeInv, HlIs
<1>4. ASSUME NEW k \in DOMAIN ord
      PROVE  counted'[k] + Unhedged(k)' + Cardinality(OnTheWay(k)') <= ord'[k].done
  <2>1. k \in Ids /\ k # new
    BY <1>1, OrdersKnown
  <2>2. Unhedged(k)' = Unhedged(k) /\ OnTheWay(k)' = OnTheWay(k)
    BY <1>2, <2>1 DEF Unhedged, OnTheWay
  <2>3. counted[k] + Unhedged(k) + Cardinality(OnTheWay(k)) <= ord[k].done
    BY DEF HedgeInv, HlIs
  <2> QED BY <1>1, <2>2, <2>3
<1>5. counted'[new] + Unhedged(new)' + Cardinality(OnTheWay(new)') <= ord'[new].done
  <2>1. OnTheWay(new)' = {}
    BY <1>1 DEF OnTheWay, TallyInv
  <2>2. counted'[new] = 0 /\ (Unhedged(new)' = n \/ Unhedged(new)' = 0)
    BY <1>1, <1>2 DEF HedgeInv, HlIs, Unhedged
  <2>3. Cardinality({}) = 0
    BY FS_EmptySet
  <2> QED BY <1>1, <2>1, <2>2, <2>3
<1> QED BY <1>1, <1>3, <1>4, <1>5 DEF HedgeInv, HlIs

LEMMA HedgeStep ==
  ASSUME PlacingInv, TallyInv, HedgeInv, AuRepeats = 0, [AuNext]_auVars
  PROVE  HedgeInv'
<1>1. CASE UNCHANGED <<hl, fills, counted, ord, notices>>
  BY <1>1 DEF HedgeInv, HlIs, Unhedged, OnTheWay
<1>2. CASE RowsOff \/ RunOff
  <2>1. UNCHANGED <<fills, counted, ord, notices>>
    BY <1>2 DEF RowsOff, RunOff, hedged, broker
  <2>2. hl' = hl \/ hl' = [hl EXCEPT !.run = FALSE]
    BY <1>2 DEF RowsOff, RunOff
  <2> QED BY <1>1, <2>1, <2>2, HedgeStays DEF HedgeInv, HlIs
<1>3. CASE RunHl
  <2>1. hl' = [hl EXCEPT !.run = TRUE, !.done = FALSE] /\ UNCHANGED <<counted, ord, notices>>
    BY <1>3 DEF RunHl, broker
  <2>2. \/ ~hl.done /\ fills' = fills
        \/ hl.done /\ fills' = NoFills
    BY <1>3 DEF RunHl, HedgeInv, HlIs
  <2>3. ~hl'.done /\ HlIs(hl')
    BY <2>1 DEF HedgeInv, HlIs
  <2>4. \A k \in Ids : Unhedged(k)' = Unhedged(k) /\ OnTheWay(k)' = OnTheWay(k)
    BY <2>1, <2>2, <2>3 DEF Unhedged, OnTheWay, NoFills
  <2>5. \A k \in Ids \ DOMAIN ord : fills'[k] = 0
    BY <2>2 DEF HedgeInv, HlIs, NoFills
  <2>6. DOMAIN ord \subseteq Ids
    BY OrdersKnown
  <2> QED BY <2>1, <2>3, <2>4, <2>5, <2>6 DEF HedgeInv, HlIs
<1>4. CASE BrokerAccepts
  <2>1. NextRow \in Rows
    BY <1>4, NextIsDue DEF BrokerAccepts, PlacingInv
  <2>2. PICK o \in [row : Rows, done : Nat] : ord' = Append(ord, o) /\ o.done = 0
    BY <1>4, <2>1 DEF BrokerAccepts
  <2>3. UNCHANGED <<hl, fills, counted, notices>> /\ Len(ord) < MaxOrd
    BY <1>4 DEF BrokerAccepts, hedged
  <2>4. PICK new : new = Len(ord) + 1
    OBVIOUS
  <2>5. OrdersGrow(new, o)
    BY <2>2, <2>3, <2>4, AppendedOrder
  <2>6. fills' = [fills EXCEPT ![new] = 0]
    <3>1. fills[new] = 0 /\ fills \in [Ids -> Nat]
      BY <2>5 DEF HedgeInv, HlIs, TallyInv, OrdersGrow
    <3> QED BY <2>3, <3>1
  <2>7. HlIs(hl') /\ hl'.done = hl.done /\ (hl'.task = "gather" => ~hl.done)
    BY <2>3 DEF HedgeInv, HlIs
  <2>8. o.done \in Nat /\ 0 \in Nat /\ 0 <= o.done
    BY <2>2
  <2> QED BY <2>3, <2>5, <2>6, <2>7, <2>8, OneMoreOrder
<1>5. ASSUME NEW r \in Rows, TestOrder(r) PROVE HedgeInv'
  <2>1. QtyOf[r] \in Nat
    BY RowsAssumption
  <2>0. PICK new : new = Len(ord) + 1
    OBVIOUS
  <2>2. PICK n \in Nat, o \in [row : Rows, done : Nat] :
          o.done = n /\ ord' = Append(ord, o) /\ fills' = [fills EXCEPT ![new] = n]
    BY <1>5, <2>0, <2>1 DEF TestOrder
  <2>3. UNCHANGED <<counted, notices>> /\ Len(ord) < MaxOrd /\ hl' = Gathering
    BY <1>5 DEF TestOrder
  <2>4. OrdersGrow(new, o)
    BY <2>0, <2>2, <2>3, AppendedOrder
  <2>5. HlIs(hl') /\ hl'.done = hl.done /\ (hl'.task = "gather" => ~hl.done)
    BY <2>3, GatheringKeeps DEF HlIs
  <2>6. o.done \in Nat /\ n <= o.done
    BY <2>2
  <2> QED BY <2>0, <2>2, <2>3, <2>4, <2>5, <2>6, OneMoreOrder
<1>6. ASSUME NEW k \in DOMAIN ord, BrokerFills(k) PROVE HedgeInv'
  <2>1. ord[k] \in [row : Rows, done : Nat] /\ k \in Ids
    BY OrdersKnown
  <2>2. PICK o, m : /\ o = [ord[k] EXCEPT !.done = @ + 1] /\ ord' = [ord EXCEPT ![k] = o]
                    /\ m = Lot(k, ord[k].done + 1) /\ notices' = notices \cup {m}
    BY <1>6 DEF BrokerFills
  <2>3. o.done = ord[k].done + 1 /\ m.id = k
    BY <2>1, <2>2 DEF Lot
  <2>4. UNCHANGED <<hl, fills, counted>>
    BY <1>6 DEF BrokerFills, hedged
  <2>5. DOMAIN ord' = DOMAIN ord /\ ord'[k] = o /\ \A i \in DOMAIN ord \ {k} : ord'[i] = ord[i]
    <3>1. PICK R, s : R = [row : Rows, done : Nat] /\ s = ord /\ s \in Seq(R)
      BY DEF TallyInv
    <3>2. s = [i \in DOMAIN s |-> s[i]]
      BY <3>1
    <3> QED BY <2>2, <3>1, <3>2
  <2>6. IsFiniteSet(notices')
    BY <2>2, FS_AddElement DEF HedgeInv, HlIs
  <2>7. ASSUME NEW i \in DOMAIN ord
        PROVE  counted'[i] + Unhedged(i)' + Cardinality(OnTheWay(i)') <= ord'[i].done
    <3>1. counted[i] + Unhedged(i) + Cardinality(OnTheWay(i)) <= ord[i].done /\ Unhedged(i)' = Unhedged(i)
      BY <2>4 DEF HedgeInv, HlIs, Unhedged
    <3>2. CASE i = k
      <4>1. OnTheWay(i)' = OnTheWay(i) \cup {m}
        BY <2>2, <2>3, <3>2 DEF OnTheWay
      <4>2. IsFiniteSet(OnTheWay(i)) /\ Cardinality(OnTheWay(i)) \in Nat
        BY WayIsFinite DEF HedgeInv, HlIs
      <4>3. \/ Cardinality(OnTheWay(i)') = Cardinality(OnTheWay(i)) + 1
            \/ Cardinality(OnTheWay(i)') = Cardinality(OnTheWay(i))
        BY <4>1, <4>2, FS_AddElement
      <4>4. counted[i] \in Nat /\ Unhedged(i) \in Nat /\ ord[i].done \in Nat /\ ord'[i].done = ord[i].done + 1
        BY <2>1, <2>3, <2>5, <3>2 DEF HedgeInv, HlIs, Unhedged, TallyInv
      <4> QED BY <2>4, <3>1, <4>2, <4>3, <4>4
    <3>3. CASE i # k
      <4>1. OnTheWay(i)' = OnTheWay(i)
        BY <2>2, <2>3, <3>3 DEF OnTheWay
      <4> QED BY <2>4, <2>5, <3>1, <3>3, <4>1
    <3> QED BY <3>2, <3>3
  <2> QED BY <2>4, <2>5, <2>6, <2>7 DEF HedgeInv, HlIs
<1>7. ASSUME NEW m \in notices, NEW repeat \in BOOLEAN, OnFill(m, repeat) PROVE HedgeInv'
  <2> PICK k : k = m.id
    OBVIOUS
  <2>1. ~repeat /\ k \in DOMAIN ord /\ k \in Ids
    BY <1>7, AuBoundsAssumption, OrdersKnown DEF OnFill, TallyInv
  <2>2. notices' = notices \ {m} /\ UNCHANGED <<counted, ord>>
    BY <1>7, <2>1 DEF OnFill
  <2>3. \/ fills' = [fills EXCEPT ![k] = @ + 1] /\ hl' = Gathering
        \/ UNCHANGED <<fills, hl>>
    BY <1>7 DEF OnFill
  <2>4. /\ HlIs(hl')
        /\ hl'.done = hl.done /\ (hl'.task = "gather" => ~hl.done)
    BY <2>3, GatheringKeeps DEF HedgeInv, HlIs
  <2>5. IsFiniteSet(notices')
    BY <2>2, FS_RemoveElement DEF HedgeInv, HlIs
  <2>6. fills \in [Ids -> Nat] /\ (fills'[k] = fills[k] + 1 \/ fills'[k] = fills[k])
        /\ \A i \in Ids \ {k} : fills'[i] = fills[i]
    BY <2>1, <2>3 DEF TallyInv
  <2>7. ASSUME NEW i \in DOMAIN ord
        PROVE  counted'[i] + Unhedged(i)' + Cardinality(OnTheWay(i)') <= ord'[i].done
    <3>1. counted[i] + Unhedged(i) + Cardinality(OnTheWay(i)) <= ord[i].done /\ i \in Ids
      BY OrdersKnown DEF HedgeInv, HlIs
    <3>2. CASE i = k
      <4>1. OnTheWay(i)' = OnTheWay(i) \ {m} /\ m \in OnTheWay(i)
        BY <2>2, <3>2 DEF OnTheWay
      <4>2. IsFiniteSet(OnTheWay(i)) /\ Cardinality(OnTheWay(i)) \in Nat
        BY WayIsFinite DEF HedgeInv, HlIs
      <4>3. Cardinality(OnTheWay(i)') = Cardinality(OnTheWay(i)) - 1
        BY <4>1, <4>2, FS_RemoveElement
      <4>4. Unhedged(i)' = Unhedged(i) \/ Unhedged(i)' = Unhedged(i) + 1
        BY <2>4, <2>6, <3>2 DEF Unhedged
      <4>5. counted[i] \in Nat /\ Unhedged(i) \in Nat /\ ord[i].done \in Nat
        BY <3>1, OrdersKnown DEF HedgeInv, HlIs, Unhedged, TallyInv
      <4> QED BY <2>2, <3>1, <4>2, <4>3, <4>4, <4>5
    <3>3. CASE i # k
      <4>1. OnTheWay(i)' = OnTheWay(i) /\ Unhedged(i)' = Unhedged(i)
        BY <2>2, <2>4, <2>6, <3>1, <3>3 DEF OnTheWay, Unhedged
      <4> QED BY <2>2, <3>1, <4>1
    <3> QED BY <3>2, <3>3
  <2>8. \A i \in Ids \ DOMAIN ord : fills'[i] = 0
    BY <2>1, <2>6 DEF HedgeInv, HlIs
  <2> QED BY <2>2, <2>4, <2>5, <2>7, <2>8 DEF HedgeInv, HlIs
<1>8. ASSUME NEW quoted \in BOOLEAN, HlFire(quoted) PROVE HedgeInv'
  <2>1. UNCHANGED <<fills, ord, notices>> /\ ~hl.done
    BY <1>8 DEF HlFire, broker, HedgeInv, HlIs
  <2>2. PICK task, net, out : hl' = [hl EXCEPT !.done = TRUE, !.task = task, !.net = net, !.out = out]
                              /\ task \in {"placing", "none"}
    BY <1>8 DEF HlFire
  <2>3. counted' = counted \/ counted' = [k \in Ids |-> counted[k] + fills[k]]
    BY <1>8 DEF HlFire
  <2>4. /\ HlIs(hl')
        /\ hl'.done = TRUE /\ hl'.task # "gather"
    BY <2>2 DEF HedgeInv, HlIs
  <2>5. counted' \in [Ids -> Nat] /\ \A k \in Ids \ DOMAIN ord : counted'[k] = 0
    BY <2>3 DEF HedgeInv, HlIs, TallyInv
  <2>6. ASSUME NEW i \in DOMAIN ord
        PROVE  counted'[i] + Unhedged(i)' + Cardinality(OnTheWay(i)') <= ord'[i].done
    <3>1. counted[i] + fills[i] + Cardinality(OnTheWay(i)) <= ord[i].done /\ i \in Ids
      BY <2>1, OrdersKnown DEF HedgeInv, HlIs, Unhedged
    <3>2. Unhedged(i)' = 0 /\ OnTheWay(i)' = OnTheWay(i)
      BY <2>1, <2>4 DEF Unhedged, OnTheWay
    <3>3. Cardinality(OnTheWay(i)) \in Nat /\ counted[i] \in Nat /\ fills[i] \in Nat /\ ord[i].done \in Nat
      BY <3>1, WayIsFinite, OrdersKnown DEF HedgeInv, HlIs, TallyInv
    <3>4. counted'[i] = counted[i] \/ counted'[i] = counted[i] + fills[i]
      BY <2>3, <3>1
    <3> QED BY <2>1, <3>1, <3>2, <3>3, <3>4
  <2> QED BY <2>1, <2>4, <2>5, <2>6 DEF HedgeInv, HlIs
<1>9. ASSUME NEW raised \in BOOLEAN, HlPlaced(raised) PROVE HedgeInv'
  <2>1. UNCHANGED <<fills, counted, ord, notices>>
    BY <1>9 DEF HlPlaced, hedged, broker
  <2>2. PICK run : hl' = [hl EXCEPT !.task = "none", !.run = run]
    BY <1>9 DEF HlPlaced
  <2> QED BY <2>1, <2>2, HedgeStays DEF HedgeInv, HlIs
<1>10. CASE UNCHANGED auVars
  BY <1>1, <1>10 DEF auVars, broker, hedged
<1>11. ASSUME NEW r \in Rows, RowsOn(r) PROVE HedgeInv'
  BY <1>1, <1>11 DEF RowsOn, broker, hedged
<1>12. ASSUME NEW t \in Moments, SetTime(t) PROVE HedgeInv'
  BY <1>1, <1>12 DEF SetTime, broker, hedged
<1>13. CASE RunFx \/ Tick \/ Clock
  BY <1>1, <1>13 DEF RunFx, Tick, Clock, broker, hedged
<1>14. CASE LsStep
  BY <1>1, <1>14 DEF LsStep, ListRows, RowPlaced, RowFails, LsEnds, Turn, broker, hedged
<1>15. CASE FxStep
  BY <1>1, <1>15 DEF FxStep, FxPlan, FxSend, broker, hedged
<1> QED BY <1>2, <1>3, <1>4, <1>5, <1>6, <1>7, <1>8, <1>9, <1>10, <1>11, <1>12, <1>13, <1>14, <1>15
        DEF AuNext, AuctionCommand, HlStep

LEMMA LotsAreHedgedOnce ==
  ASSUME TallyInv, HedgeInv PROVE NoLotHedgedTwice
<1> SUFFICES ASSUME NEW k \in DOMAIN ord PROVE counted[k] <= ord[k].done
  BY DEF NoLotHedgedTwice
<1>1. counted[k] + Unhedged(k) + Cardinality(OnTheWay(k)) <= ord[k].done
  BY DEF HedgeInv, HlIs
<1>2. counted[k] \in Nat /\ Unhedged(k) \in Nat /\ Cardinality(OnTheWay(k)) \in Nat /\ ord[k].done \in Nat
  BY OrdersKnown, WayIsFinite DEF HedgeInv, HlIs, TallyInv, Unhedged
<1> QED BY <1>1, <1>2

-----------------------------------------------------------------------------
(***************************************************************************)
(* Amending a Hyperliquid order of the closing auction.                    *)
(***************************************************************************)
HlOrders == [qty : Nat, filled : Nat, told : Nat, live : BOOLEAN, open : BOOLEAN, cancelled : Int]

(* An order is told of what it has filled, and is closed in the book only  *)
(* when it is gone from the exchange.                                      *)
OrderRight(o) ==
  /\ o.told <= o.filled /\ o.filled <= o.qty
  /\ o.live => o.filled < o.qty /\ o.open
  /\ o.open => o.cancelled = 0

AmendRecord == [at : {"none", "cancel", "confirm", "place"}, left : Int]
ChainInv ==
  /\ chain \in Seq(HlOrders) /\ Len(chain) > 0
  /\ \A k \in DOMAIN chain : OrderRight(chain[k]) /\ (chain[k].live => k = Len(chain))
AmendInv ==
  /\ ChainInv /\ amend \in AmendRecord
  /\ amend.at = "place" => ~Latest(chain).live /\ amend.left > 0

LEMMA ChainOrder ==
  ASSUME ChainInv, NEW k \in DOMAIN chain
  PROVE  chain[k] \in HlOrders /\ OrderRight(chain[k]) /\ (chain[k].live => k = Len(chain))
<1>1. PICK s, R : s = chain /\ R = HlOrders /\ s \in Seq(R) /\ k \in DOMAIN s
  BY DEF ChainInv
<1>2. s[k] \in R
  BY <1>1
<1> QED BY <1>1, <1>2 DEF ChainInv

LEMMA LastOrder ==
  ASSUME ChainInv
  PROVE  /\ Len(chain) \in DOMAIN chain
         /\ Latest(chain) \in HlOrders /\ OrderRight(Latest(chain))
<1>1. PICK s, R : s = chain /\ R = HlOrders /\ s \in Seq(R) /\ Len(s) > 0
  BY DEF ChainInv
<1>2. Len(s) \in DOMAIN s
  BY <1>1
<1> QED BY <1>1, <1>2, ChainOrder DEF Latest

LEMMA NewOrderIsRight ==
  ASSUME NEW n \in Nat \ {0}
  PROVE  NewOrder(n) \in HlOrders /\ OrderRight(NewOrder(n)) /\ NewOrder(n).live
BY DEF NewOrder, HlOrders, OrderRight

(* One of the orders changes, and does not come to life.                   *)
LEMMA OrderChanges ==
  ASSUME ChainInv, NEW k \in DOMAIN chain, NEW o \in HlOrders, OrderRight(o),
         o.live => chain[k].live, chain' = [chain EXCEPT ![k] = o]
  PROVE  ChainInv' /\ (Latest(chain)'.live => Latest(chain).live)
<1>1. PICK s, t, R : s = chain /\ t = chain' /\ R = HlOrders /\ s \in Seq(R) /\ Len(s) > 0 /\ o \in R
  BY DEF ChainInv
<1>2. t = [s EXCEPT ![k] = o] /\ k \in DOMAIN s
  BY <1>1
<1>3. t \in Seq(R) /\ Len(t) = Len(s) /\ DOMAIN t = DOMAIN s /\ t[k] = o
      /\ (\A i \in DOMAIN s \ {k} : t[i] = s[i]) /\ Len(s) \in DOMAIN s
  BY <1>1, <1>2
<1>4. \A i \in DOMAIN t : OrderRight(t[i]) /\ (t[i].live => s[i].live)
  BY <1>1, <1>3, ChainOrder
<1> QED BY <1>1, <1>3, <1>4 DEF ChainInv, Latest

(* A new one is added where the last is gone.                              *)
LEMMA OrderAdded ==
  ASSUME ChainInv, ~Latest(chain).live, NEW n \in Nat \ {0}, chain' = Append(chain, NewOrder(n))
  PROVE  ChainInv'
<1> PICK o : o = NewOrder(n)
  OBVIOUS
<1>1. PICK s, t, R : s = chain /\ t = chain' /\ R = HlOrders /\ s \in Seq(R) /\ o \in R
  BY NewOrderIsRight DEF ChainInv
<1>2. t = Append(s, o)
  BY <1>1
<1>3. t \in Seq(R) /\ Len(t) = Len(s) + 1 /\ Len(s) \in Nat /\ DOMAIN t = DOMAIN s \cup {Len(t)}
      /\ t[Len(t)] = o /\ (\A i \in DOMAIN s : t[i] = s[i])
  BY <1>1, <1>2
<1>4. \A i \in DOMAIN s : OrderRight(s[i]) /\ ~s[i].live
  BY <1>1, ChainOrder DEF Latest
<1>5. \A i \in DOMAIN t : OrderRight(t[i]) /\ (t[i].live => i = Len(t))
  BY <1>3, <1>4, NewOrderIsRight
<1> QED BY <1>1, <1>3, <1>5 DEF ChainInv

LEMMA TakenOff ==
  ASSUME ChainInv, chain' = TakeOff(chain)
  PROVE  ChainInv' /\ ~Latest(chain)'.live
<1>1. PICK k : k = Len(chain)
  OBVIOUS
<1>2. PICK o : o = [chain[k] EXCEPT !.live = FALSE]
  OBVIOUS
<1>3. k \in DOMAIN chain /\ chain[k] \in HlOrders /\ OrderRight(chain[k])
  BY <1>1, LastOrder, ChainOrder
<1>4. o \in HlOrders /\ OrderRight(o) /\ ~o.live
  BY <1>2, <1>3 DEF HlOrders, OrderRight
<1>5. chain' = [chain EXCEPT ![k] = o]
  BY <1>1, <1>2 DEF TakeOff
<1>6. ChainInv'
  BY <1>3, <1>4, <1>5, OrderChanges
<1>7. Latest(chain)' = o
  <2>1. PICK s, R : s = chain /\ R = HlOrders /\ s \in Seq(R) /\ o \in R
    BY <1>4 DEF ChainInv
  <2>2. Len([s EXCEPT ![k] = o]) = k /\ [s EXCEPT ![k] = o][k] = o
    BY <1>1, <1>3, <2>1
  <2> QED BY <1>5, <2>1, <2>2 DEF Latest
<1> QED BY <1>4, <1>6, <1>7

LEMMA AmendInitInv == AmInit => AmendInv
<1> SUFFICES ASSUME AmInit PROVE AmendInv
  OBVIOUS
<1> PICK o : o = NewOrder(AmQty)
  OBVIOUS
<1>1. o \in HlOrders /\ OrderRight(o)
  BY NewOrderIsRight, AmendAssumption
<1>2. chain = <<o>>
  BY DEF AmInit
<1>3. <<o>> \in Seq(HlOrders) /\ Len(<<o>>) = 1 /\ DOMAIN <<o>> = {1} /\ <<o>>[1] = o
  <2>1. PICK R : R = HlOrders
    OBVIOUS
  <2>2. o \in R
    BY <1>1, <2>1
  <2>3. <<o>> \in Seq(R)
    BY <2>2
  <2> QED BY <2>1, <2>3
<1>4. ChainInv
  BY <1>1, <1>2, <1>3 DEF ChainInv
<1> QED BY <1>4 DEF AmInit, AmendInv, AmendRecord, Idle

LEMMA AmendStep ==
  ASSUME AmendInv, [AmNext]_amVars PROVE AmendInv'
<1> USE DEF AmendInv
<1>1. ASSUME NEW k \in DOMAIN chain, HlFills(k) \/ BookHears(k) \/ BookHearsCancel(k) PROVE AmendInv'
  <2> PICK c : c = chain[k]
    OBVIOUS
  <2>1. c \in HlOrders /\ OrderRight(c)
    BY ChainOrder
  <2>2. PICK o \in HlOrders : OrderRight(o) /\ (o.live => c.live) /\ chain' = [chain EXCEPT ![k] = o]
    <3>1. CASE HlFills(k)
      <4>1. PICK n, b : n = c.filled + 1 /\ b = (n < c.qty)
        OBVIOUS
      <4>9. b \in BOOLEAN /\ (b => n < c.qty)
        <5>1. n \in Int /\ c.qty \in Int
          BY <2>1, <4>1 DEF HlOrders
        <5>2. b \in BOOLEAN
          BY <4>1, <5>1
        <5>3. b => n < c.qty
          BY <4>1, Zenon
        <5> QED BY <5>2, <5>3
      <4>2. PICK o : o = [c EXCEPT !.filled = n, !.live = b]
        OBVIOUS
      <4>3. chain' = [chain EXCEPT ![k] = o] /\ c.live /\ c.filled < c.qty
        BY <3>1, <4>1, <4>2 DEF HlFills
      <4>4. n \in Nat
        BY <2>1, <4>1 DEF HlOrders
      <4>5. o \in HlOrders
        BY <2>1, <4>2, <4>4, <4>9 DEF HlOrders
      <4>6. /\ o.told = c.told /\ o.filled = n /\ o.qty = c.qty /\ o.live = b
            /\ o.open = c.open /\ o.cancelled = c.cancelled
        BY <2>1, <4>2 DEF HlOrders
      <4>7. c.filled \in Nat /\ c.told \in Nat /\ c.qty \in Nat
        BY <2>1 DEF HlOrders
      <4>8. OrderRight(o)
        BY <2>1, <4>1, <4>3, <4>6, <4>7, <4>9 DEF OrderRight
      <4> QED BY <4>3, <4>5, <4>8
    <3>2. CASE BookHears(k)
      <4>1. PICK n, b, g : /\ n = c.told + 1 /\ b = (c.open /\ n + c.cancelled < c.qty)
                           /\ g = IF ~c.open THEN c.cancelled - 1 ELSE c.cancelled
        OBVIOUS
      <4>10. b \in BOOLEAN /\ (b <=> c.open /\ n + c.cancelled < c.qty)
        BY <4>1
      <4>2. PICK o : o = [c EXCEPT !.told = n, !.open = b, !.cancelled = g]
        OBVIOUS
      <4>3. chain' = [chain EXCEPT ![k] = o] /\ c.told < c.filled
        BY <3>2, <4>1, <4>2 DEF BookHears
      <4>9. n \in Nat /\ g \in Int
        BY <2>1, <4>1 DEF HlOrders
      <4>4. o \in HlOrders
        BY <2>1, <4>2, <4>9, <4>10 DEF HlOrders
      <4>5. /\ o.told = n /\ o.filled = c.filled /\ o.qty = c.qty /\ o.live = c.live
            /\ o.open = b /\ o.cancelled = g
        BY <2>1, <4>2 DEF HlOrders
      <4>6. c.filled \in Nat /\ c.told \in Nat /\ c.qty \in Nat /\ c.cancelled \in Int
            /\ c.open \in BOOLEAN /\ c.live \in BOOLEAN
        BY <2>1 DEF HlOrders
      <4>7. OrderRight(o)
        BY <2>1, <4>1, <4>3, <4>5, <4>6, <4>10 DEF OrderRight
      <4> QED BY <4>3, <4>4, <4>5, <4>7
    <3>3. CASE BookHearsCancel(k)
      <4>4. PICK n : n = Left(c)
        OBVIOUS
      <4>5. n \in Int
        BY <2>1, <4>4 DEF Left, HlOrders
      <4>1. PICK o : o = [c EXCEPT !.open = FALSE, !.cancelled = n]
        OBVIOUS
      <4>2. chain' = [chain EXCEPT ![k] = o] /\ ~c.live
        BY <3>3, <4>1, <4>4 DEF BookHearsCancel
      <4>3. o \in HlOrders /\ OrderRight(o) /\ ~o.live
        BY <2>1, <4>1, <4>2, <4>5 DEF HlOrders, OrderRight
      <4> QED BY <4>2, <4>3
    <3> QED BY <1>1, <3>1, <3>2, <3>3
  <2>3. ChainInv' /\ (Latest(chain)'.live => Latest(chain).live)
    BY <2>2, OrderChanges
  <2> QED BY <1>1, <2>3 DEF HlFills, BookHears, BookHearsCancel
<1>2. CASE AmendAsked \/ ConfirmTimesOut
  <2>1. Left(Latest(chain)) \in Int
    BY LastOrder DEF Left, HlOrders
  <2>2. amend' \in AmendRecord /\ amend'.at # "place" /\ chain' = chain
    BY <1>2, <2>1 DEF AmendAsked, ConfirmTimesOut, Idle, AmendRecord
  <2> QED BY <2>2 DEF ChainInv
<1>3. CASE CancelTaken
  <2>1. amend' \in AmendRecord /\ amend'.at # "place"
    BY <1>3 DEF CancelTaken, AmendRecord
  <2> QED BY <1>3, <2>1, TakenOff DEF CancelTaken
<1>4. CASE CancelRefused
  <2>1. amend' \in AmendRecord /\ amend'.at # "place"
    BY <1>4 DEF CancelRefused, AmendRecord, Idle
  <2>2. CASE chain' = chain
    BY <2>1, <2>2 DEF ChainInv
  <2> QED BY <1>4, <2>1, <2>2, TakenOff DEF CancelRefused
<1>5. CASE Confirmed
  <2>1. Left(Latest(chain)) \in Int /\ ~Latest(chain).live
    BY <1>5, LastOrder DEF Confirmed, Left, HlOrders, OrderRight
  <2>2. amend' \in AmendRecord /\ (amend'.at = "place" => amend'.left > 0) /\ chain' = chain
    BY <1>5, <2>1 DEF Confirmed, ToPlace, AmendRecord, Idle
  <2> QED BY <2>1, <2>2 DEF ChainInv
<1>6. CASE Replaced \/ NotReplaced
  <2>1. amend' \in AmendRecord /\ amend'.at # "place" /\ amend.left \in Nat \ {0} /\ ~Latest(chain).live
    BY <1>6 DEF Replaced, NotReplaced, AmendRecord, Idle
  <2>2. CASE chain' = chain
    BY <2>1, <2>2 DEF ChainInv
  <2>3. CASE chain' = Append(chain, NewOrder(amend.left))
    BY <2>1, <2>3, OrderAdded
  <2> QED BY <1>6, <2>2, <2>3 DEF Replaced, NotReplaced
<1>7. ASSUME NEW taken \in BOOLEAN, CancelAsked(taken) PROVE AmendInv'
  <2>1. amend' = amend /\ amend.at # "place"
    BY <1>7 DEF CancelAsked
  <2>2. CASE chain' = chain
    BY <2>1, <2>2 DEF ChainInv
  <2> QED BY <1>7, <2>1, <2>2, TakenOff DEF CancelAsked
<1>8. CASE UNCHANGED amVars
  BY <1>8 DEF amVars, ChainInv
<1> QED BY <1>1, <1>2, <1>3, <1>4, <1>5, <1>6, <1>7, <1>8 DEF AmNext

LEMMA OnlyTheLastWorks == AmendInv => OneWorkingOrder
BY DEF AmendInv, ChainInv, OneWorkingOrder

-----------------------------------------------------------------------------
(***************************************************************************)
(* The currency hedge of the call auctions.                                *)
(***************************************************************************)
FxHedgesOf == [src : FaTargets, side : {"buy", "sell"},
               lots : {HedgeQty(FaLots[o]) : o \in FaTargets}, start : Nat]
FxRows == [h : FxHedgesOf, status : {"accepted", "failed"}]

(* A hedge is of this start or an older one; those of this start are of    *)
(* orders it remembers.                                                    *)
Remembered(h) == h.start <= faStarts /\ (h.start = faStarts => h.src \in faSeen)
FxInv ==
  /\ faStarts \in Nat /\ fxHedges \in Seq(FxRows) /\ faTasks \subseteq FxHedgesOf
  /\ \A h \in faTasks : Remembered(h)
  /\ \A i \in DOMAIN fxHedges : Remembered(fxHedges[i].h)
  /\ OneHedgePerStart

LEMMA FxInitInv == FaInit => FxInv
<1> SUFFICES ASSUME FaInit PROVE FxInv
  OBVIOUS
<1>1. fxHedges \in Seq(FxRows) /\ DOMAIN fxHedges = {}
  BY DEF FaInit
<1> QED BY <1>1 DEF FaInit, FxInv, OneHedgePerStart

LEMMA FxRow ==
  ASSUME FxInv, NEW i \in DOMAIN fxHedges PROVE fxHedges[i] \in FxRows /\ fxHedges[i].h \in FxHedgesOf
<1>1. PICK s, R : s = fxHedges /\ R = FxRows /\ s \in Seq(R) /\ i \in DOMAIN s
  BY DEF FxInv
<1>2. s[i] \in R
  BY <1>1
<1> QED BY <1>1, <1>2 DEF FxRows

(* What a placement puts in front of the list.                             *)
LEMMA InFront ==
  ASSUME NEW R, NEW s \in Seq(R), NEW x \in R, NEW t, t = <<x>> \o s
  PROVE  /\ t \in Seq(R) /\ DOMAIN t = 1 .. Len(s) + 1 /\ DOMAIN s = 1 .. Len(s) /\ Len(s) \in Nat
         /\ t[1] = x /\ \A i \in DOMAIN t \ {1} : i - 1 \in DOMAIN s /\ t[i] = s[i - 1]
OBVIOUS

LEMMA FxDecided ==
  ASSUME FxInv, NEW n, Decide(n), faStarts' = faStarts, fxHedges' = fxHedges PROVE FxInv'
<1>1. CASE UNCHANGED <<faSeen, faTasks>>
  BY <1>1 DEF FxInv, OneHedgePerStart, Remembered
<1>2. CASE Relevant(n)
  <2> PICK h : h = Hedge(n.o)
    OBVIOUS
  <2>1. h \in FxHedgesOf /\ h.start = faStarts /\ h.src = n.o
    BY <1>2 DEF FxInv, Relevant, Hedge, FxHedgesOf, HedgeSide
  <2>2. faSeen' = faSeen \cup {n.o} /\ faTasks' \subseteq faTasks \cup {h} /\ n.o \notin faSeen
    BY <1>2 DEF Decide, Relevant
  <2>3. \A i \in DOMAIN fxHedges : fxHedges[i].h # h
    BY <2>1, <2>2 DEF FxInv, Remembered
  <2>4. OneHedgePerStart'
    BY <2>2, <2>3 DEF FxInv, OneHedgePerStart
  <2>5. \A g \in faTasks' : Remembered(g)'
    BY <2>1, <2>2 DEF FxInv, Remembered
  <2>6. \A i \in DOMAIN fxHedges : Remembered(fxHedges[i].h)'
    BY <2>2 DEF FxInv, Remembered
  <2> QED BY <2>1, <2>2, <2>4, <2>5, <2>6 DEF FxInv
<1> QED BY <1>1, <1>2 DEF Decide

LEMMA FxPlaced ==
  ASSUME FxInv, NEW h \in faTasks, PlaceFxHedge(h) PROVE FxInv'
<1>1. PICK x : x \in FxRows /\ x.h = h /\ fxHedges' = <<x>> \o fxHedges
  <2>1. PICK st \in {"accepted", "failed"} : fxHedges' = <<[h |-> h, status |-> st]>> \o fxHedges
    BY DEF PlaceFxHedge
  <2>2. [h |-> h, status |-> st] \in FxRows /\ [h |-> h, status |-> st].h = h
    BY DEF FxInv, FxRows
  <2> QED BY <2>1, <2>2
<1>2. PICK s, t, R : s = fxHedges /\ t = fxHedges' /\ R = FxRows /\ s \in Seq(R) /\ x \in R /\ t = <<x>> \o s
  BY <1>1 DEF FxInv
<1>3. /\ t \in Seq(R) /\ DOMAIN t = 1 .. Len(s) + 1 /\ DOMAIN s = 1 .. Len(s) /\ Len(s) \in Nat
      /\ t[1] = x /\ \A i \in DOMAIN t \ {1} : i - 1 \in DOMAIN s /\ t[i] = s[i - 1]
  BY <1>2, InFront
<1>4. faTasks' = faTasks \ {h} /\ faStarts' = faStarts /\ faSeen' = faSeen
  BY DEF PlaceFxHedge, fxCoreVars
<1>5. \A i \in DOMAIN s : s[i].h \notin faTasks /\ s[i].h # h /\ Remembered(s[i].h)
  BY <1>2 DEF FxInv, OneHedgePerStart
<1>6. \A i \in DOMAIN t : t[i].h \notin faTasks' /\ Remembered(t[i].h)'
  BY <1>1, <1>3, <1>4, <1>5 DEF FxInv, Remembered
<1>7. \A i, j \in DOMAIN t : t[i].h = t[j].h => i = j
  <2>0. \A i \in DOMAIN t : i \in Int
    BY <1>3
  <2>1. \A i \in DOMAIN t : t[i].h = t[1].h => i = 1
    BY <1>1, <1>3, <1>5
  <2>2. \A i, j \in DOMAIN t \ {1} : t[i].h = t[j].h => i - 1 = j - 1
    BY <1>2, <1>3 DEF FxInv, OneHedgePerStart
  <2> QED BY <2>0, <2>1, <2>2
<1>8. OneHedgePerStart'
  BY <1>2, <1>6, <1>7 DEF OneHedgePerStart
<1>9. fxHedges' \in Seq(FxRows)
  BY <1>2, <1>3
<1> QED BY <1>2, <1>4, <1>6, <1>8, <1>9 DEF FxInv, Remembered

LEMMA FxHedgeStep == ASSUME FxInv, [FaNext]_faVars PROVE FxInv'
<1>1. ASSUME NEW n, NEW twice, ApplyEvent(n, twice) PROVE FxInv'
  BY <1>1, FxDecided DEF ApplyEvent
<1>2. ASSUME NEW h \in faTasks, PlaceFxHedge(h) PROVE FxInv'
  BY <1>2, FxPlaced
<1>3. CASE Command
  <2>1. faTasks' = faTasks /\ fxHedges' = fxHedges
    BY <1>3 DEF Command
  <2>2. OneHedgePerStart'
    BY <2>1 DEF FxInv, OneHedgePerStart
  <2>3. CASE UNCHANGED <<faStarts, faSeen>>
    BY <2>1, <2>2, <2>3 DEF FxInv, Remembered
  <2>4. CASE faStarts' = faStarts + 1
    <3>1. \A h \in FxHedgesOf : Remembered(h) => Remembered(h)'
      BY <2>4 DEF FxInv, Remembered, FxHedgesOf
    <3> QED BY <2>1, <2>2, <2>4, <3>1, FxRow DEF FxInv
  <2> QED BY <1>3, <2>3, <2>4 DEF Command
<1>4. CASE UNCHANGED <<fxCoreVars, faTasks, fxHedges>>
  BY <1>4 DEF FxInv, Remembered, OneHedgePerStart, fxCoreVars
<1>5. CASE UNCHANGED faVars
  BY <1>4, <1>5 DEF faVars, fxCoreVars
<1>6. CASE \E o \in FaOrders, kind \in {"new", "amend"} : Order(o, kind)
  BY <1>4, <1>6 DEF Order
<1>7. CASE \E w \in FaWindows : DoRun(w) \/ DoApply(w)
  BY <1>4, <1>7 DEF DoRun, DoApply, Outside
<1>8. CASE FaTime \/ ArmBox \/ DoStop \/ Poll
  BY <1>4, <1>8 DEF FaTime, ArmBox, DoStop, Poll, Outside
<1> QED BY <1>1, <1>2, <1>3, <1>5, <1>6, <1>7, <1>8 DEF FaNext

-----------------------------------------------------------------------------
(***************************************************************************)
(* The order that follows the quote.                                       *)
(***************************************************************************)
PegCtls == [venue : {"ls", "hl"}, side : {"buy", "sell"}, qty : Nat \ {0}, order : Nat,
            price : PegPrices \cup {0}, pending : BOOLEAN, stalled : BOOLEAN,
            at : {"rest", "again", "place", "cancel", "amend"}, goal : PegPrices \cup {0}, on : Nat]
PegRows == [by : Nat, side : {"buy", "sell"}, qty : Nat \ {0}, filled : Nat, told : Nat, live : BOOLEAN]

RowRight(o) == o.told <= o.filled /\ (o.live => o.filled < o.qty)
RowsRight(p, cs) ==
  p \in Seq(PegRows) /\ \A n \in DOMAIN p : RowRight(p[n]) /\ p[n].by \in cs
LiveIn(p, c) == {n \in DOMAIN p : p[n].by = c /\ p[n].live}

(* A controller k whose live orders are the set alive: it never has two,   *)
(* and none when it places.  While its box is on, it knows the one it has. *)
CtlRight(k, alive, isOn) ==
  /\ \A m, n \in alive : m = n
  /\ k.at = "place" => alive = {}
  /\ k.at \in {"cancel", "amend"} => alive \subseteq {k.on} /\ k.on # 0
  /\ k.at \in {"place", "cancel", "amend"} => k.goal # 0
  /\ isOn => /\ ~k.stalled /\ (k.order = 0 <=> k.price = 0)
             /\ k.at \in {"rest", "again"} => alive \subseteq {k.order}
             /\ k.at = "place" => k.order = 0
             /\ k.at \in {"cancel", "amend"} => k.order = k.on
CtlKnows(k, p) == k.order \in DOMAIN p \cup {0} /\ k.on \in DOMAIN p \cup {0}

PegInv ==
  /\ ctl \in Seq(PegCtls) /\ active \in Nat \cap (DOMAIN ctl \cup {0}) /\ level \in PegPrices \cup {0}
  /\ RowsRight(pegs, DOMAIN ctl)
  /\ \A c \in DOMAIN ctl : CtlRight(ctl[c], LiveIn(pegs, c), active = c) /\ CtlKnows(ctl[c], pegs)
  /\ \A w \in stops : w[1] \in DOMAIN ctl /\ w[1] # active

LEMMA PegCtl == ASSUME PegInv, NEW c \in DOMAIN ctl PROVE ctl[c] \in PegCtls
<1>1. PICK s, R : s = ctl /\ R = PegCtls /\ s \in Seq(R) /\ c \in DOMAIN s
  BY DEF PegInv
<1>2. s[c] \in R
  BY <1>1
<1> QED BY <1>1, <1>2

LEMMA PegRow ==
  ASSUME NEW p, NEW cs, RowsRight(p, cs), NEW n \in DOMAIN p PROVE p[n] \in PegRows /\ RowRight(p[n])
<1>1. PICK R : R = PegRows /\ p \in Seq(R)
  BY DEF RowsRight
<1>2. p[n] \in R
  BY <1>1
<1> QED BY <1>1, <1>2 DEF RowsRight

(* Fewer live orders, or a box that is off now: as right as before.        *)
LEMMA StillRight ==
  ASSUME NEW k, NEW a, NEW b, NEW x \in BOOLEAN, NEW y \in BOOLEAN,
         CtlRight(k, a, x), b \subseteq a, y => x
  PROVE  CtlRight(k, b, y)
BY DEF CtlRight

(* One row of the broker changes and comes not to life.                    *)
LEMMA RowChanges ==
  ASSUME NEW p, NEW cs, RowsRight(p, cs), NEW n \in DOMAIN p, NEW o \in PegRows,
         RowRight(o), o.by = p[n].by, o.live => p[n].live, NEW q, q = [p EXCEPT ![n] = o]
  PROVE  /\ RowsRight(q, cs) /\ DOMAIN q = DOMAIN p
         /\ \A c : LiveIn(q, c) \subseteq LiveIn(p, c)
         /\ ~o.live => \A c : n \notin LiveIn(q, c)
<1>1. PICK R : R = PegRows /\ p \in Seq(R) /\ o \in R
  BY DEF RowsRight
<1>2. q \in Seq(R) /\ DOMAIN q = DOMAIN p /\ q[n] = o /\ \A i \in DOMAIN p \ {n} : q[i] = p[i]
  BY <1>1
<1>3. RowsRight(q, cs)
  BY <1>1, <1>2 DEF RowsRight
<1> QED BY <1>2, <1>3 DEF LiveIn

LEMMA RowOff ==
  ASSUME NEW p, NEW cs, RowsRight(p, cs), NEW n \in DOMAIN p, NEW q, q = Off(n, p)
  PROVE  /\ RowsRight(q, cs) /\ DOMAIN q = DOMAIN p
         /\ \A c : LiveIn(q, c) \subseteq LiveIn(p, c) /\ n \notin LiveIn(q, c)
<1>1. PICK o : o = [p[n] EXCEPT !.live = FALSE]
  OBVIOUS
<1>0. p[n] \in PegRows /\ RowRight(p[n])
  BY PegRow
<1>2. o \in PegRows /\ RowRight(o) /\ ~o.live /\ o.by = p[n].by
  BY <1>0, <1>1 DEF PegRows, RowRight
<1>3. q = [p EXCEPT ![n] = o]
  BY <1>1 DEF Off
<1> QED BY <1>2, <1>3, RowChanges

(* A row is added.                                                         *)
NewRow(c, side, qty) == [by |-> c, side |-> side, qty |-> qty, filled |-> 0, told |-> 0, live |-> TRUE]
Adds(q, p, c, side, qty) == q = Append(p, NewRow(c, side, qty))
GrownBy(q, p, c) ==
  /\ DOMAIN q = DOMAIN p \cup {Len(q)} /\ Len(q) \in Nat \ {0} /\ Len(q) \notin DOMAIN p
  /\ LiveIn(q, c) = LiveIn(p, c) \cup {Len(q)}
  /\ \A d : d # c => LiveIn(q, d) = LiveIn(p, d)
LEMMA RowAdded ==
  ASSUME NEW p, NEW cs, cs \subseteq Nat, RowsRight(p, cs), NEW c \in cs, NEW side \in {"buy", "sell"},
         NEW qty \in Nat \ {0}, NEW q, Adds(q, p, c, side, qty)
  PROVE  RowsRight(q, cs) /\ GrownBy(q, p, c)
<1> PICK o : o = NewRow(c, side, qty)
  OBVIOUS
<1>1. o \in PegRows /\ RowRight(o) /\ o.by = c /\ o.live
  BY DEF NewRow, PegRows, RowRight
<1>2. PICK R : R = PegRows /\ p \in Seq(R) /\ o \in R
  BY <1>1 DEF RowsRight
<1>3. /\ q \in Seq(R) /\ DOMAIN q = DOMAIN p \cup {Len(q)} /\ Len(q) \in Nat \ {0}
      /\ Len(q) \notin DOMAIN p /\ q[Len(q)] = o /\ \A i \in DOMAIN p : q[i] = p[i]
  BY <1>2 DEF Adds
<1>4. RowsRight(q, cs)
  BY <1>1, <1>2, <1>3 DEF RowsRight
<1> QED BY <1>1, <1>3, <1>4 DEF LiveIn, GrownBy

(* A step of one controller.                                               *)
LEMMA CtlMoves ==
  ASSUME PegInv, NEW c \in DOMAIN ctl, NEW k \in PegCtls, ctl' = [ctl EXCEPT ![c] = k],
         RowsRight(pegs', DOMAIN ctl), DOMAIN pegs \subseteq DOMAIN pegs', active' \in {active, 0},
         CtlRight(k, LiveIn(pegs', c), active' = c), CtlKnows(k, pegs'),
         \A d \in DOMAIN ctl \ {c} : LiveIn(pegs', d) \subseteq LiveIn(pegs, d),
         stops' \subseteq stops, level' = level
  PROVE  PegInv'
<1>1. PICK s, t, R : s = ctl /\ t = ctl' /\ R = PegCtls /\ s \in Seq(R) /\ c \in DOMAIN s /\ k \in R
  BY DEF PegInv
<1>2. t = [s EXCEPT ![c] = k]
  BY <1>1
<1>3. t \in Seq(R) /\ DOMAIN t = DOMAIN s /\ t[c] = k /\ (\A d \in DOMAIN s \ {c} : t[d] = s[d])
      /\ DOMAIN s \subseteq Nat \ {0}
  BY <1>1, <1>2
<1>4. ASSUME NEW d \in DOMAIN ctl PROVE CtlRight(t[d], LiveIn(pegs', d), active' = d) /\ CtlKnows(t[d], pegs')
  <2>1. CASE d = c
    BY <1>3, <2>1
  <2>2. CASE d # c
    <3>1. PICK x, y : x = (active = d) /\ y = (active' = d)
      OBVIOUS
    <3>2. x \in BOOLEAN /\ y \in BOOLEAN /\ (y => x)
      BY <1>1, <1>3, <3>1
    <3>3. CtlRight(t[d], LiveIn(pegs, d), x) /\ CtlKnows(t[d], pegs)
      BY <1>1, <1>3, <2>2, <3>1 DEF PegInv
    <3>4. CtlRight(t[d], LiveIn(pegs', d), y)
      BY <2>2, <3>2, <3>3, StillRight
    <3> QED BY <3>1, <3>3, <3>4 DEF CtlKnows
  <2> QED BY <2>1, <2>2
<1>5. \A w \in stops' : w[1] \in DOMAIN ctl' /\ w[1] # active'
  <2>1. DOMAIN ctl' = DOMAIN ctl /\ 0 \notin DOMAIN ctl
    BY <1>1, <1>3
  <2>2. \A w \in stops' : w[1] \in DOMAIN ctl /\ w[1] # active
    BY DEF PegInv
  <2> QED BY <2>1, <2>2
<1>6. DOMAIN ctl' = DOMAIN ctl /\ ctl' \in Seq(PegCtls)
  BY <1>1, <1>3
<1>7. active' \in Nat \cap (DOMAIN ctl' \cup {0}) /\ level' \in PegPrices \cup {0}
  BY <1>6 DEF PegInv
<1>8. \A d \in DOMAIN ctl' : CtlRight(ctl'[d], LiveIn(pegs', d), active' = d) /\ CtlKnows(ctl'[d], pegs')
  BY <1>1, <1>4, <1>6
<1>9. RowsRight(pegs', DOMAIN ctl')
  BY <1>6
<1> QED BY <1>5, <1>6, <1>7, <1>8, <1>9 DEF PegInv

(* A step of the active controller begins.                                 *)
LEMMA FlippedRight ==
  ASSUME PegInv, NEW c \in DOMAIN ctl, active = c, ctl[c].at \in {"rest", "again"}
  PROVE  /\ Flipped(c) \in PegCtls /\ ~Flipped(c).stalled
         /\ (Flipped(c).order = 0 <=> Flipped(c).price = 0)
         /\ LiveIn(pegs, c) \subseteq {Flipped(c).order} /\ CtlKnows(Flipped(c), pegs)
<1> PICK k, L : k = ctl[c] /\ L = LiveIn(pegs, c)
  OBVIOUS
<1>1. k \in PegCtls /\ CtlRight(k, L, TRUE) /\ CtlKnows(k, pegs) /\ k.at \in {"rest", "again"}
  BY PegCtl DEF PegInv
<1>2. CASE WholeOrder(c)
  <2> PICK n, o : n = k.order /\ o = pegs[n]
    OBVIOUS
  <2>1. n \in DOMAIN pegs /\ o.told = o.qty
    BY <1>1, <1>2 DEF WholeOrder, CtlKnows
  <2>2. o \in PegRows /\ RowRight(o)
    BY <2>1, PegRow DEF PegInv
  <2>3. ~o.live /\ o.told \in Nat \ {0}
    BY <2>1, <2>2 DEF PegRows, RowRight
  <2>4. L = {}
    BY <1>1, <2>1, <2>3 DEF CtlRight, LiveIn
  <2>5. PICK s : s = OtherSide(k.side) /\ s \in {"buy", "sell"}
    BY DEF OtherSide
  <2>6. PICK q : q = o.told
    OBVIOUS
  <2>7. PICK f : f = [k EXCEPT !.side = s, !.qty = q, !.order = 0, !.price = 0]
    OBVIOUS
  <2>8. Flipped(c) = f
    BY <1>1, <1>2, <2>5, <2>6, <2>7 DEF Flipped, CtlRight
  <2>9. f \in PegCtls /\ f.order = 0 /\ f.price = 0 /\ f.stalled = k.stalled /\ f.on = k.on
    BY <1>1, <2>3, <2>5, <2>6, <2>7 DEF PegCtls
  <2> QED BY <1>1, <2>4, <2>8, <2>9 DEF CtlRight, CtlKnows
<1>3. CASE ~WholeOrder(c)
  <2>1. Flipped(c) = k
    BY <1>3 DEF Flipped
  <2> QED BY <1>1, <2>1 DEF CtlRight
<1> QED BY <1>2, <1>3

LEMMA BeganRight ==
  ASSUME PegInv, NEW c \in DOMAIN ctl, active = c, ctl[c].at \in {"rest", "again"}
  PROVE  Began(c) \in PegCtls /\ CtlRight(Began(c), LiveIn(pegs, c), TRUE) /\ CtlKnows(Began(c), pegs)
<1> PICK f, L : f = Flipped(c) /\ L = LiveIn(pegs, c)
  OBVIOUS
<1>1. f \in PegCtls /\ ~f.stalled /\ (f.order = 0 <=> f.price = 0) /\ L \subseteq {f.order} /\ CtlKnows(f, pegs)
  BY FlippedRight
<1>2. level \in PegPrices \cup {0}
  BY DEF PegInv
<1>3. PICK at : at = IF level = 0 \/ f.price = level THEN "rest"
                     ELSE IF f.price = 0 THEN "place" ELSE IF f.venue = "hl" THEN "cancel" ELSE "amend"
  OBVIOUS
<1>4. PICK k : k = [f EXCEPT !.pending = FALSE, !.goal = level, !.on = f.order, !.at = at]
  OBVIOUS
<1>5. Began(c) = k
  <2>1. PICK h : h = [f EXCEPT !.pending = FALSE, !.goal = level, !.on = f.order]
    OBVIOUS
  <2>2. ~h.stalled /\ h.price = f.price /\ h.venue = f.venue
    BY <1>1, <2>1 DEF PegCtls
  <2>3. k = [h EXCEPT !.at = at]
    BY <1>1, <1>4, <2>1 DEF PegCtls
  <2>4. Began(c) = IF level = 0 \/ h.price = level THEN [h EXCEPT !.at = "rest"]
          ELSE [h EXCEPT !.at = IF h.price = 0 THEN "place" ELSE IF h.venue = "hl" THEN "cancel" ELSE "amend"]
    BY <2>1, <2>2 DEF Began
  <2> QED BY <1>3, <2>2, <2>3, <2>4
<1>6. at \in {"rest", "place", "cancel", "amend"}
  BY <1>3
<1>7. /\ k \in PegCtls /\ k.at = at /\ k.goal = level /\ k.on = f.order /\ k.order = f.order
      /\ k.price = f.price /\ ~k.stalled
  BY <1>1, <1>2, <1>4, <1>6 DEF PegCtls
<1>8. CtlKnows(k, pegs)
  BY <1>1, <1>7 DEF CtlKnows
<1>9. CtlRight(k, L, TRUE)
  <2>1. 0 \notin L /\ \A m, n \in L : m = n
    <3>1. PICK s, R : s = pegs /\ s \in Seq(R)
      BY DEF PegInv, RowsRight
    <3>2. 0 \notin DOMAIN s
      BY <3>1
    <3> QED BY <1>1, <3>1, <3>2 DEF LiveIn
  <2>2. k.at = "place" => f.price = 0 /\ level # 0
    BY <1>3, <1>7
  <2>3. k.at \in {"cancel", "amend"} => f.price # 0 /\ level # 0
    BY <1>3, <1>7
  <2> QED BY <1>1, <1>7, <2>1, <2>2, <2>3 DEF CtlRight
<1> QED BY <1>5, <1>7, <1>8, <1>9

LEMMA WakeKeeps == ASSUME PegInv, NEW c \in DOMAIN ctl, Wake(c) \/ Again(c) PROVE PegInv'
<1> PICK k, L : k = ctl[c] /\ L = LiveIn(pegs, c)
  OBVIOUS
<1>1. k \in PegCtls /\ CtlRight(k, L, active = c) /\ CtlKnows(k, pegs) /\ RowsRight(pegs, DOMAIN ctl)
  BY PegCtl DEF PegInv
<1>2. pegs' = pegs /\ active' = active /\ stops' = stops /\ level' = level
  BY DEF Wake, Again
<1>3. PICK m : /\ ctl' = [ctl EXCEPT ![c] = m] /\ m \in PegCtls
               /\ CtlRight(m, L, active = c) /\ CtlKnows(m, pegs)
  <2>1. CASE active = c /\ k.at \in {"rest", "again"} /\ ctl' = [ctl EXCEPT ![c] = Began(c)]
    BY <2>1, BeganRight
  <2>2. CASE ctl' = [ctl EXCEPT ![c] = [k EXCEPT !.pending = TRUE]]
    <3> PICK m : m = [k EXCEPT !.pending = TRUE]
      OBVIOUS
    <3>1. m \in PegCtls /\ m.at = k.at /\ m.order = k.order /\ m.on = k.on /\ m.price = k.price
          /\ m.goal = k.goal /\ m.stalled = k.stalled
      BY <1>1 DEF PegCtls
    <3>2. CtlRight(m, L, active = c) /\ CtlKnows(m, pegs)
      BY <1>1, <3>1 DEF CtlRight, CtlKnows
    <3> QED BY <2>2, <3>1, <3>2
  <2>3. CASE active # c /\ ctl' = [ctl EXCEPT ![c] = [k EXCEPT !.at = "rest"]]
    <3> PICK m : m = [k EXCEPT !.at = "rest"]
      OBVIOUS
    <3>1. m \in PegCtls /\ m.at = "rest" /\ m.order = k.order /\ m.on = k.on
      BY <1>1 DEF PegCtls
    <3>2. CtlRight(m, L, active = c) /\ CtlKnows(m, pegs)
      BY <1>1, <2>3, <3>1 DEF CtlRight, CtlKnows
    <3> QED BY <2>3, <3>1, <3>2
  <2> QED BY <2>1, <2>2, <2>3 DEF Wake, Again
<1> QED BY <1>1, <1>2, <1>3, CtlMoves

(* What the outcomes of a request leave behind.  An answer that leaves the *)
(* controller as it is, and one that is not known:                         *)
RestedAt(k, at, pending) == [k EXCEPT !.pending = pending, !.at = at]
LEMMA RefusedKeeps ==
  ASSUME PegInv, NEW c \in DOMAIN ctl, ctl[c].at \in {"place", "cancel", "amend"}, Refused(c)
  PROVE  PegInv'
<1> PICK k, L : k = ctl[c] /\ L = LiveIn(pegs, c)
  OBVIOUS
<1>1. k \in PegCtls /\ CtlRight(k, L, active = c) /\ CtlKnows(k, pegs) /\ RowsRight(pegs, DOMAIN ctl)
      /\ k.at \in {"place", "cancel", "amend"}
  BY PegCtl DEF PegInv
<1>2. pegs' = pegs /\ active' = active /\ stops' = stops /\ level' = level
  BY DEF Refused
<1>3. PICK limited \in BOOLEAN : ctl' = [ctl EXCEPT ![c] = Rested([k EXCEPT !.pending = k.pending \/ limited])]
  <2>1. PICK limited \in BOOLEAN : ctl' = [ctl EXCEPT ![c] = Rested([ctl[c] EXCEPT !.pending = ctl[c].pending \/ limited])]
    BY DEF Refused
  <2> QED BY <2>1
<1>4. PICK b \in BOOLEAN : b = (k.pending \/ limited)
  BY <1>1 DEF PegCtls
<1>5. PICK h : h = [k EXCEPT !.pending = b]
  OBVIOUS
<1>6. PICK at : at = IF b THEN "again" ELSE "rest"
  OBVIOUS
<1>7. PICK m : m = [h EXCEPT !.at = at]
  OBVIOUS
<1>8. Rested([k EXCEPT !.pending = k.pending \/ limited]) = m
  <2>1. h.pending = b
    BY <1>1, <1>5 DEF PegCtls
  <2>2. Rested(h) = m
    BY <1>6, <1>7, <2>1 DEF Rested
  <2> QED BY <1>4, <1>5, <2>2
<1>9. /\ m \in PegCtls /\ m.at \in {"again", "rest"} /\ m.order = k.order /\ m.on = k.on
      /\ m.price = k.price /\ m.stalled = k.stalled
  BY <1>1, <1>5, <1>6, <1>7 DEF PegCtls
<1>10. CtlRight(m, L, active = c) /\ CtlKnows(m, pegs)
  BY <1>1, <1>9 DEF CtlRight, CtlKnows
<1> QED BY <1>1, <1>2, <1>3, <1>8, <1>9, <1>10, CtlMoves

LEMMA UnknownKeeps ==
  ASSUME PegInv, NEW c \in DOMAIN ctl, NEW after, Unknown(c, after), RowsRight(after, DOMAIN ctl),
         DOMAIN pegs \subseteq DOMAIN after, \A m, n \in LiveIn(after, c) : m = n,
         \A d \in DOMAIN ctl \ {c} : LiveIn(after, d) \subseteq LiveIn(pegs, d)
  PROVE  PegInv'
<1> PICK k, L : k = ctl[c] /\ L = LiveIn(pegs', c)
  OBVIOUS
<1>1. k \in PegCtls /\ CtlRight(k, LiveIn(pegs, c), active = c) /\ CtlKnows(k, pegs) /\ RowsRight(pegs, DOMAIN ctl)
  BY PegCtl DEF PegInv
<1>2. /\ RowsRight(pegs', DOMAIN ctl) /\ DOMAIN pegs \subseteq DOMAIN pegs'
      /\ (\A m, n \in L : m = n)
      /\ \A d \in DOMAIN ctl \ {c} : LiveIn(pegs', d) \subseteq LiveIn(pegs, d)
  BY <1>1 DEF Unknown, CtlRight
<1>3. active' \in {active, 0} /\ active' # c /\ stops' = stops /\ level' = level
  <2>1. c # 0
    <3>1. PICK s, R : s = ctl /\ s \in Seq(R) /\ c \in DOMAIN s
      BY DEF PegInv
    <3> QED BY <3>1
  <2> QED BY <2>1 DEF Unknown
<1>4. PICK m : m = [k EXCEPT !.stalled = TRUE, !.at = "rest"]
  OBVIOUS
<1>5. ctl' = [ctl EXCEPT ![c] = m]
  BY <1>1, <1>4 DEF Unknown, PegInv
<1>6. m \in PegCtls /\ m.at = "rest" /\ m.order = k.order /\ m.on = k.on
  BY <1>1, <1>4 DEF PegCtls
<1>7. CtlRight(m, L, active' = c) /\ CtlKnows(m, pegs')
  BY <1>1, <1>2, <1>3, <1>6 DEF CtlRight, CtlKnows
<1> QED BY <1>2, <1>3, <1>5, <1>6, <1>7, CtlMoves

LEMMA AnsweredKeeps ==
  ASSUME PegInv, NEW c \in DOMAIN ctl, NEW n \in Nat \ {0}, n \in DOMAIN pegs',
         ctl[c].at \in {"place", "cancel", "amend"},
         ctl' = [ctl EXCEPT ![c] = Rested([ctl[c] EXCEPT !.order = n, !.price = ctl[c].goal])],
         RowsRight(pegs', DOMAIN ctl), DOMAIN pegs \subseteq DOMAIN pegs', LiveIn(pegs', c) \subseteq {n},
         \A d \in DOMAIN ctl \ {c} : LiveIn(pegs', d) \subseteq LiveIn(pegs, d),
         UNCHANGED <<active, stops, level>>
  PROVE  PegInv'
<1> PICK k, L : k = ctl[c] /\ L = LiveIn(pegs', c)
  OBVIOUS
<1>1. k \in PegCtls /\ CtlRight(k, LiveIn(pegs, c), active = c) /\ CtlKnows(k, pegs)
  BY PegCtl DEF PegInv
<1>2. PICK h : h = [k EXCEPT !.order = n, !.price = k.goal]
  OBVIOUS
<1>3. h \in PegCtls /\ h.order = n /\ h.price = k.goal /\ h.on = k.on /\ h.stalled = k.stalled
  BY <1>1, <1>2 DEF PegCtls
<1>4. PICK at : at = IF h.pending THEN "again" ELSE "rest"
  OBVIOUS
<1>5. PICK m : m = [h EXCEPT !.at = at]
  OBVIOUS
<1>6. ctl' = [ctl EXCEPT ![c] = m]
  <2>1. ctl' = [ctl EXCEPT ![c] = Rested(h)]
    BY <1>2
  <2> QED BY <1>4, <1>5, <2>1 DEF Rested
<1>7. /\ m \in PegCtls /\ m.at \in {"again", "rest"} /\ m.order = n /\ m.on = k.on
      /\ m.price = k.goal /\ m.stalled = k.stalled
  BY <1>3, <1>4, <1>5 DEF PegCtls
<1>8. k.goal # 0
  BY <1>1 DEF CtlRight
<1>9. CtlRight(m, L, active = c) /\ CtlKnows(m, pegs')
  BY <1>1, <1>7, <1>8 DEF CtlRight, CtlKnows
<1> QED BY <1>6, <1>7, <1>9, CtlMoves

(* A new order of the controller, in a book that holds none of its others. *)
LEMMA PlacedRight ==
  ASSUME PegInv, NEW c \in DOMAIN ctl, NEW qty \in Nat \ {0}, NEW q, q = Placed(c, qty)
  PROVE  RowsRight(q, DOMAIN ctl) /\ GrownBy(q, pegs, c)
<1>1. PICK side : side = ctl[c].side /\ side \in {"buy", "sell"}
  BY PegCtl DEF PegCtls
<1>2. PICK cs : cs = DOMAIN ctl /\ cs \subseteq Nat /\ c \in cs /\ RowsRight(pegs, cs)
  <2>1. PICK s, R : s = ctl /\ s \in Seq(R)
    BY DEF PegInv
  <2>2. DOMAIN s \in SUBSET Nat
    BY <2>1
  <2> QED BY <2>1, <2>2 DEF PegInv
<1>3. Adds(q, pegs, c, side, qty)
  BY <1>1 DEF Placed, NewRow, Adds
<1>4. RowsRight(q, cs) /\ GrownBy(q, pegs, c)
  <2> HIDE DEF Placed
  <2> QED BY <1>1, <1>2, <1>3, RowAdded
<1> QED BY <1>2, <1>4

LEMMA PlaceKeeps == ASSUME PegInv, NEW c \in DOMAIN ctl, PlaceAnswer(c) PROVE PegInv'
<1> PICK q, k, qty : q = Placed(c, qty) /\ k = ctl[c] /\ qty = ctl[c].qty
  OBVIOUS
<1>1. k \in PegCtls /\ CtlRight(k, LiveIn(pegs, c), active = c) /\ k.at = "place"
  BY PegCtl DEF PegInv, PlaceAnswer
<1>2. qty \in Nat \ {0} /\ LiveIn(pegs, c) = {}
  BY <1>1 DEF PegCtls, CtlRight
<1>3. RowsRight(q, DOMAIN ctl) /\ GrownBy(q, pegs, c)
  BY <1>2, PlacedRight
<1>4. PICK n : n = Len(q)
  OBVIOUS
<1>5. CASE Refused(c)
  BY <1>1, <1>5, RefusedKeeps
<1>6. CASE Unknown(c, q)
  <2>1. DOMAIN pegs \subseteq DOMAIN q /\ \A m, l \in LiveIn(q, c) : m = l
    BY <1>2, <1>3 DEF GrownBy
  <2>2. \A d \in DOMAIN ctl \ {c} : LiveIn(q, d) \subseteq LiveIn(pegs, d)
    BY <1>3 DEF GrownBy
  <2> QED BY <1>3, <1>6, <2>1, <2>2, UnknownKeeps
<1>7. CASE /\ pegs' = q
           /\ ctl' = [ctl EXCEPT ![c] = Rested([ctl[c] EXCEPT !.order = n, !.price = ctl[c].goal])]
           /\ UNCHANGED <<active, stops, level>>
  <2>1. n \in DOMAIN pegs' /\ DOMAIN pegs \subseteq DOMAIN pegs' /\ LiveIn(pegs', c) \subseteq {n}
    BY <1>2, <1>3, <1>4, <1>7 DEF GrownBy
  <2>2. \A d \in DOMAIN ctl \ {c} : LiveIn(pegs', d) \subseteq LiveIn(pegs, d)
    BY <1>3, <1>7 DEF GrownBy
  <2>3. n \in Nat \ {0}
    BY <1>3, <1>4 DEF GrownBy
  <2> QED BY <1>1, <1>3, <1>7, <2>1, <2>2, <2>3, AnsweredKeeps
<1> QED BY <1>4, <1>5, <1>6, <1>7 DEF PlaceAnswer

LEMMA CancelKeeps == ASSUME PegInv, NEW c \in DOMAIN ctl, CancelAnswer(c) PROVE PegInv'
<1> PICK k, n : k = ctl[c] /\ n = k.on
  OBVIOUS
<1> PICK q : q = Off(n, pegs)
  OBVIOUS
<1>1. k \in PegCtls /\ CtlRight(k, LiveIn(pegs, c), active = c) /\ k.at = "cancel" /\ CtlKnows(k, pegs)
  BY PegCtl DEF PegInv, CancelAnswer
<1>2. n \in DOMAIN pegs /\ LiveIn(pegs, c) \subseteq {n}
  BY <1>1 DEF CtlRight, CtlKnows
<1>3. /\ RowsRight(q, DOMAIN ctl) /\ DOMAIN q = DOMAIN pegs
      /\ \A d : LiveIn(q, d) \subseteq LiveIn(pegs, d) /\ n \notin LiveIn(q, d)
  BY <1>2, RowOff DEF PegInv
<1>4. LiveIn(q, c) = {}
  BY <1>2, <1>3
<1>5. CASE Refused(c)
  BY <1>1, <1>5, RefusedKeeps
<1>6. CASE Unknown(c, q)
  BY <1>3, <1>4, <1>6, UnknownKeeps
<1>7. CASE /\ pegs' = q
           /\ ctl' = [ctl EXCEPT ![c].order = 0, ![c].price = 0, ![c].at = "place"]
           /\ UNCHANGED <<active, stops, level>>
  <2> PICK m : m = [k EXCEPT !.order = 0, !.price = 0, !.at = "place"]
    OBVIOUS
  <2>1. ctl' = [ctl EXCEPT ![c] = m]
    BY <1>7 DEF PegInv
  <2>2. /\ m \in PegCtls /\ m.order = 0 /\ m.price = 0 /\ m.at = "place" /\ m.on = k.on
        /\ m.goal = k.goal /\ m.stalled = k.stalled
    BY <1>1 DEF PegCtls
  <2>3. CtlRight(m, LiveIn(q, c), active = c) /\ CtlKnows(m, q)
    BY <1>1, <1>3, <1>4, <2>2 DEF CtlRight, CtlKnows
  <2> QED BY <1>3, <1>7, <2>1, <2>2, <2>3, CtlMoves
<1> QED BY <1>5, <1>6, <1>7 DEF CancelAnswer

LEMMA AmendKeeps == ASSUME PegInv, NEW c \in DOMAIN ctl, AmendAnswer(c) PROVE PegInv'
<1> PICK k, n : k = ctl[c] /\ n = k.on
  OBVIOUS
<1>1. k \in PegCtls /\ CtlRight(k, LiveIn(pegs, c), active = c) /\ k.at = "amend" /\ CtlKnows(k, pegs)
  BY PegCtl DEF PegInv, AmendAnswer
<1>2. CASE Refused(c)
  BY <1>1, <1>2, RefusedKeeps
<1>3. CASE pegs[n].live
  <2>1. n \in DOMAIN pegs /\ LiveIn(pegs, c) \subseteq {n}
    BY <1>1 DEF CtlRight, CtlKnows
  <2>2. PICK r : r = Remaining(n) /\ r \in Nat \ {0}
    <3>1. pegs[n] \in PegRows /\ RowRight(pegs[n])
      BY <2>1, PegRow DEF PegInv
    <3> QED BY <1>3, <3>1 DEF Remaining, PegRows, RowRight
  <2>3. PICK p, q : p = Placed(c, r) /\ q = Off(n, p)
    OBVIOUS
  <2>4. RowsRight(p, DOMAIN ctl) /\ GrownBy(p, pegs, c) /\ n \in DOMAIN p
    <3>1. RowsRight(p, DOMAIN ctl) /\ GrownBy(p, pegs, c)
      BY <2>2, <2>3, PlacedRight
    <3> QED BY <2>1, <3>1 DEF GrownBy
  <2>5. /\ RowsRight(q, DOMAIN ctl) /\ DOMAIN q = DOMAIN p
        /\ \A d : LiveIn(q, d) \subseteq LiveIn(p, d) /\ n \notin LiveIn(q, d)
    BY <2>3, <2>4, RowOff
  <2>6. PICK l : l = Len(p) /\ Len(q) = l
    <3>1. PICK a, b, R, S : a = p /\ b = q /\ a \in Seq(R) /\ b \in Seq(S)
      BY <2>4, <2>5 DEF RowsRight
    <3>2. Len(a) = Len(b)
      <4>1. 1 .. Len(a) = 1 .. Len(b) /\ Len(a) \in Nat /\ Len(b) \in Nat
        BY <2>5, <3>1
      <4> QED BY <4>1
    <3> QED BY <3>1, <3>2
  <2>7. LiveIn(q, c) \subseteq {l}
    BY <2>1, <2>4, <2>5, <2>6 DEF GrownBy
  <2>8. \A d \in DOMAIN ctl \ {c} : LiveIn(q, d) \subseteq LiveIn(pegs, d)
    BY <2>4, <2>5 DEF GrownBy
  <2>9. l \in DOMAIN q /\ l \in Nat \ {0} /\ DOMAIN pegs \subseteq DOMAIN q
    BY <2>4, <2>5, <2>6 DEF GrownBy
  <2>10. CASE Unknown(c, q)
    BY <2>5, <2>7, <2>8, <2>9, <2>10, UnknownKeeps
  <2>11. CASE /\ pegs' = q
              /\ ctl' = [ctl EXCEPT ![c] = Rested([ctl[c] EXCEPT !.order = l, !.price = ctl[c].goal])]
              /\ UNCHANGED <<active, stops, level>>
    BY <1>1, <2>5, <2>7, <2>8, <2>9, <2>11, AnsweredKeeps
  <2>12. \/ Unknown(c, q) \/ Refused(c)
         \/ /\ pegs' = q
            /\ ctl' = [ctl EXCEPT ![c] = Rested([ctl[c] EXCEPT !.order = Len(q), !.price = ctl[c].goal])]
            /\ UNCHANGED <<active, stops, level>>
    BY <2>2, <2>3 DEF AmendAnswer
  <2> QED BY <1>2, <2>6, <2>10, <2>11, <2>12
<1> QED BY <1>2, <1>3 DEF AmendAnswer

(* Only the broker's rows, or nothing of what PegInv is about, changes.    *)
LEMMA RowsMove ==
  ASSUME PegInv, UNCHANGED <<ctl, active, stops>>, level' \in PegPrices \cup {0},
         RowsRight(pegs', DOMAIN ctl), DOMAIN pegs' = DOMAIN pegs,
         \A c : LiveIn(pegs', c) \subseteq LiveIn(pegs, c)
  PROVE  PegInv'
<1>1. ASSUME NEW c \in DOMAIN ctl
      PROVE  CtlRight(ctl[c], LiveIn(pegs', c), active = c) /\ CtlKnows(ctl[c], pegs')
  <2>1. PICK x : x = (active = c) /\ x \in BOOLEAN
    OBVIOUS
  <2>2. CtlRight(ctl[c], LiveIn(pegs, c), x) /\ CtlKnows(ctl[c], pegs)
    BY <2>1 DEF PegInv
  <2>3. CtlRight(ctl[c], LiveIn(pegs', c), x)
    BY <2>1, <2>2, StillRight
  <2> QED BY <2>1, <2>2, <2>3 DEF CtlKnows
<1> QED BY <1>1 DEF PegInv

LEMMA FillKeeps == ASSUME PegInv, NEW n \in DOMAIN pegs, PegFill(n) \/ TellFills(n) PROVE PegInv'
<1> PICK o : o = pegs[n]
  OBVIOUS
<1>1. o \in PegRows /\ RowRight(o) /\ RowsRight(pegs, DOMAIN ctl)
  BY PegRow DEF PegInv
<1>2. PICK m : /\ pegs' = [pegs EXCEPT ![n] = m] /\ m \in PegRows /\ RowRight(m) /\ m.by = o.by
               /\ m.live => o.live
  <2>1. CASE PegFill(n)
    <3>1. PICK f, b : f = o.filled + 1 /\ b = (f < o.qty)
      OBVIOUS
    <3>2. f \in Int /\ o.qty \in Int /\ f \in Nat
      BY <1>1, <3>1 DEF PegRows
    <3>3. b \in BOOLEAN
      BY <3>1, <3>2
    <3>4. b => f < o.qty
      BY <3>1, Zenon
    <3>5. PICK m : m = [o EXCEPT !.filled = f, !.live = b]
      OBVIOUS
    <3>6. pegs' = [pegs EXCEPT ![n] = m] /\ o.live
      BY <2>1, <3>1, <3>5 DEF PegFill
    <3>7. m \in PegRows /\ m.filled = f /\ m.live = b /\ m.told = o.told /\ m.qty = o.qty /\ m.by = o.by
      BY <1>1, <3>2, <3>3, <3>5 DEF PegRows
    <3>8. RowRight(m)
      <4>1. o.told \in Nat /\ o.filled \in Nat /\ o.told <= o.filled
        BY <1>1 DEF PegRows, RowRight
      <4> QED BY <3>1, <3>4, <3>7, <4>1 DEF RowRight
    <3> QED BY <3>6, <3>7, <3>8
  <2>2. CASE TellFills(n)
    <3>1. PICK f : f = o.filled /\ f \in Nat
      BY <1>1 DEF PegRows
    <3>2. PICK m : m = [o EXCEPT !.told = f]
      OBVIOUS
    <3>3. pegs' = [pegs EXCEPT ![n] = m]
      BY <2>2, <3>1, <3>2 DEF TellFills
    <3>4. m \in PegRows /\ RowRight(m) /\ m.by = o.by /\ m.live = o.live
      BY <1>1, <3>1, <3>2 DEF PegRows, RowRight
    <3> QED BY <3>3, <3>4
  <2> QED BY <2>1, <2>2
<1>3. RowsRight(pegs', DOMAIN ctl) /\ DOMAIN pegs' = DOMAIN pegs
      /\ \A c : LiveIn(pegs', c) \subseteq LiveIn(pegs, c)
  BY <1>1, <1>2, RowChanges
<1>4. UNCHANGED <<ctl, active, stops, level>>
  BY DEF PegFill, TellFills
<1>5. level' \in PegPrices \cup {0}
  BY <1>4 DEF PegInv
<1> QED BY <1>3, <1>4, <1>5, RowsMove

LEMMA OnKeeps == ASSUME PegInv, NEW v \in {"ls", "hl"}, PegOn(v) PROVE PegInv'
<1> PICK k : k = NewCtl(v)
  OBVIOUS
<1>1. /\ k \in PegCtls /\ k.order = 0 /\ k.price = 0 /\ k.at = "rest" /\ k.on = 0 /\ ~k.stalled
  BY PegAssumption DEF NewCtl, PegCtls
<1>2. PICK s, t, R : s = ctl /\ t = ctl' /\ R = PegCtls /\ s \in Seq(R) /\ k \in R /\ t = Append(s, k)
  BY <1>1 DEF PegInv, PegOn
<1>3. /\ t \in Seq(R) /\ DOMAIN t = DOMAIN s \cup {Len(s) + 1} /\ Len(s) + 1 \notin DOMAIN s
      /\ t[Len(s) + 1] = k /\ (\A d \in DOMAIN s : t[d] = s[d]) /\ Len(s) \in Nat /\ 0 \notin DOMAIN s
  BY <1>2
<1>4. PICK n : n = Len(s) + 1
  OBVIOUS
<1>5. active = 0 /\ active' = n /\ pegs' = pegs /\ stops' = stops /\ level' = level
  BY <1>2, <1>4 DEF PegOn
<1>6. RowsRight(pegs, DOMAIN t) /\ LiveIn(pegs, n) = {}
  <2>1. RowsRight(pegs, DOMAIN s)
    BY <1>2 DEF PegInv
  <2> QED BY <1>3, <1>4, <2>1 DEF RowsRight, LiveIn
<1>7. ASSUME NEW d \in DOMAIN t
      PROVE  CtlRight(t[d], LiveIn(pegs, d), n = d) /\ CtlKnows(t[d], pegs)
  <2>1. CASE d = n
    <3>1. t[d] = k
      BY <1>3, <1>4, <2>1
    <3>2. CtlKnows(k, pegs)
      BY <1>1 DEF CtlKnows
    <3>3. CtlRight(k, {}, n = d)
      BY <1>1 DEF CtlRight
    <3> QED BY <1>6, <2>1, <3>1, <3>2, <3>3
  <2>2. CASE d # n
    <3>1. d \in DOMAIN s /\ t[d] = s[d] /\ d # 0
      BY <1>3, <1>4, <2>2
    <3>2. CtlRight(s[d], LiveIn(pegs, d), FALSE) /\ CtlKnows(s[d], pegs)
      BY <1>2, <1>5, <3>1 DEF PegInv
    <3>3. (n = d) = FALSE
      BY <2>2
    <3> QED BY <3>1, <3>2, <3>3
  <2> QED BY <2>1, <2>2
<1>8. \A w \in stops : w[1] \in DOMAIN t /\ w[1] # n
  <2>1. \A w \in stops : w[1] \in DOMAIN s
    BY <1>2 DEF PegInv
  <2> QED BY <1>3, <1>4, <2>1
<1>9. n \in Nat \cap (DOMAIN t \cup {0}) /\ level \in PegPrices \cup {0}
  BY <1>3, <1>4 DEF PegInv
<1> QED BY <1>2, <1>3, <1>5, <1>6, <1>7, <1>8, <1>9 DEF PegInv

LEMMA OffKeeps == ASSUME PegInv, PegOff PROVE PegInv'
<1>1. /\ active # 0 /\ active' = 0 /\ ctl' = ctl /\ pegs' = pegs /\ level' = level
      /\ stops' = stops \cup {<<active, 0>>}
  BY DEF PegOff
<1>2. 0 \notin DOMAIN ctl
  <2>1. PICK s, R : s = ctl /\ s \in Seq(R)
    BY DEF PegInv
  <2> QED BY <2>1
<1>3. ASSUME NEW c \in DOMAIN ctl
      PROVE  CtlRight(ctl[c], LiveIn(pegs, c), 0 = c) /\ CtlKnows(ctl[c], pegs)
  <2>1. PICK x, y : x = (active = c) /\ y = (0 = c) /\ x \in BOOLEAN /\ y \in BOOLEAN
    OBVIOUS
  <2>2. ~y
    BY <1>2, <2>1
  <2>3. CtlRight(ctl[c], LiveIn(pegs, c), x) /\ CtlKnows(ctl[c], pegs)
    BY <2>1 DEF PegInv
  <2>4. CtlRight(ctl[c], LiveIn(pegs, c), y)
    BY <2>1, <2>2, <2>3, StillRight
  <2> QED BY <2>1, <2>3, <2>4
<1>4. \A w \in stops' : w[1] \in DOMAIN ctl /\ w[1] # 0
  <2>1. active \in DOMAIN ctl
    BY <1>1 DEF PegInv
  <2> QED BY <1>1, <1>2, <2>1 DEF PegInv
<1> QED BY <1>1, <1>3, <1>4 DEF PegInv

LEMMA StopKeeps ==
  ASSUME PegInv, NEW c \in DOMAIN ctl, BeginStop(c) \/ \E n \in DOMAIN pegs : StopAnswer(c, n)
  PROVE  PegInv'
<1> PICK k, L : k = ctl[c] /\ L = LiveIn(pegs', c)
  OBVIOUS
<1>1. k \in PegCtls /\ CtlRight(k, LiveIn(pegs, c), active = c) /\ CtlKnows(k, pegs) /\ RowsRight(pegs, DOMAIN ctl)
  BY PegCtl DEF PegInv
<1>2. active # c /\ active' = active /\ level' = level
  <2>1. ASSUME NEW n, <<c, n>> \in stops PROVE active # c
    BY <2>1 DEF PegInv
  <2> QED BY <2>1 DEF BeginStop, StopAnswer
<1>3. /\ RowsRight(pegs', DOMAIN ctl) /\ DOMAIN pegs' = DOMAIN pegs
      /\ \A d : LiveIn(pegs', d) \subseteq LiveIn(pegs, d)
  <2>1. CASE pegs' = pegs
    BY <1>1, <2>1
  <2>2. ASSUME NEW n \in DOMAIN pegs, pegs' = Off(n, pegs)
        PROVE  /\ RowsRight(pegs', DOMAIN ctl) /\ DOMAIN pegs' = DOMAIN pegs
               /\ \A d : LiveIn(pegs', d) \subseteq LiveIn(pegs, d)
    BY <1>1, <2>2, RowOff
  <2> QED BY <2>1, <2>2 DEF BeginStop, StopAnswer
<1>4. \A w \in stops' : w[1] \in DOMAIN ctl /\ w[1] # active
  <2>0. PICK n : stops' \subseteq stops \cup {<<c, n>>}
    <3>1. CASE BeginStop(c)
      <4>1. stops' \subseteq stops \cup {<<c, ctl[c].order>>}
        BY <3>1 DEF BeginStop
      <4> QED BY <4>1
    <3>2. CASE \E n \in DOMAIN pegs : StopAnswer(c, n)
      BY <3>2 DEF StopAnswer
    <3> QED BY <3>1, <3>2
  <2>1. \A w \in stops' : w \in stops \/ w[1] = c
    BY <2>0
  <2> QED BY <1>2, <2>1 DEF PegInv
<1>5. PICK m : /\ m \in PegCtls /\ ctl' = [ctl EXCEPT ![c] = m] /\ CtlRight(m, L, active = c)
               /\ CtlKnows(m, pegs')
  <2>1. CtlRight(k, L, active = c)
    <3>1. PICK x : x = (active = c) /\ x \in BOOLEAN
      OBVIOUS
    <3>2. CtlRight(k, L, x)
      BY <1>1, <1>3, <3>1, StillRight
    <3> QED BY <3>1, <3>2
  <2>2. CASE ctl' = ctl
    <3>1. ctl' = [ctl EXCEPT ![c] = k]
      <4>1. PICK s, R : s = ctl /\ s \in Seq(R) /\ c \in DOMAIN s
        BY DEF PegInv
      <4>2. s = [s EXCEPT ![c] = s[c]]
        BY <4>1
      <4> QED BY <2>2, <4>1, <4>2
    <3> QED BY <1>1, <1>3, <2>1, <3>1 DEF CtlKnows
  <2>3. CASE ctl' = [ctl EXCEPT ![c].order = 0, ![c].price = 0]
    <3> PICK m : m = [k EXCEPT !.order = 0, !.price = 0]
      OBVIOUS
    <3>1. ctl' = [ctl EXCEPT ![c] = m]
      BY <2>3 DEF PegInv
    <3>2. /\ m \in PegCtls /\ m.order = 0 /\ m.at = k.at /\ m.on = k.on /\ m.goal = k.goal
      BY <1>1 DEF PegCtls
    <3>3. CtlRight(m, L, active = c)
      BY <1>2, <2>1, <3>2 DEF CtlRight
    <3>4. CtlKnows(m, pegs')
      BY <1>1, <1>3, <3>2 DEF CtlKnows
    <3> QED BY <3>1, <3>2, <3>3, <3>4
  <2> QED BY <2>2, <2>3 DEF BeginStop, StopAnswer
<1>6. PegInv'
  <2>1. PICK s, t, R : s = ctl /\ t = ctl' /\ R = PegCtls /\ s \in Seq(R) /\ c \in DOMAIN s /\ m \in R
    BY <1>5 DEF PegInv
  <2>2. t = [s EXCEPT ![c] = m]
    BY <1>5, <2>1
  <2>3. t \in Seq(R) /\ DOMAIN t = DOMAIN s /\ t[c] = m /\ (\A d \in DOMAIN s \ {c} : t[d] = s[d])
    BY <2>1, <2>2
  <2>4. ASSUME NEW d \in DOMAIN ctl PROVE CtlRight(t[d], LiveIn(pegs', d), active = d) /\ CtlKnows(t[d], pegs')
    <3>1. CASE d = c
      BY <1>5, <2>3, <3>1
    <3>2. CASE d # c
      <4>1. PICK x : x = (active = d) /\ x \in BOOLEAN
        OBVIOUS
      <4>2. CtlRight(t[d], LiveIn(pegs, d), x) /\ CtlKnows(t[d], pegs)
        BY <2>1, <2>3, <3>2, <4>1 DEF PegInv
      <4>3. CtlRight(t[d], LiveIn(pegs', d), x)
        BY <1>3, <4>1, <4>2, StillRight
      <4> QED BY <1>3, <4>1, <4>2, <4>3 DEF CtlKnows
    <3> QED BY <3>1, <3>2
  <2>5. \A d \in DOMAIN ctl' : CtlRight(ctl'[d], LiveIn(pegs', d), active' = d) /\ CtlKnows(ctl'[d], pegs')
    BY <1>2, <2>1, <2>3, <2>4
  <2>6. DOMAIN ctl' = DOMAIN ctl /\ ctl' \in Seq(PegCtls)
    BY <2>1, <2>3
  <2>7. \A w \in stops' : w[1] \in DOMAIN ctl' /\ w[1] # active'
    BY <1>2, <1>4, <2>6
  <2>8. RowsRight(pegs', DOMAIN ctl')
    BY <1>3, <2>6
  <2>9. active' \in Nat \cap (DOMAIN ctl' \cup {0}) /\ level' \in PegPrices \cup {0}
    BY <1>2, <2>6 DEF PegInv
  <2> QED BY <2>5, <2>6, <2>7, <2>8, <2>9 DEF PegInv
<1> QED BY <1>6

LEMMA PegInitInv == PgInit => PegInv
<1> SUFFICES ASSUME PgInit PROVE PegInv
  OBVIOUS
<1>1. ctl = << >> /\ active = 0 /\ pegs = << >> /\ stops = {} /\ level = 0
  BY DEF PgInit
<1>2. DOMAIN ctl = {} /\ DOMAIN pegs = {} /\ ctl \in Seq(PegCtls) /\ pegs \in Seq(PegRows)
  BY <1>1
<1> QED BY <1>1, <1>2 DEF PegInv, RowsRight

LEMMA PegStep == ASSUME PegInv, [PgNext]_pgVars PROVE PegInv'
<1>1. ASSUME NEW c \in DOMAIN ctl,
             \/ Wake(c) \/ Again(c) \/ PlaceAnswer(c) \/ CancelAnswer(c) \/ AmendAnswer(c) \/ BeginStop(c)
             \/ \E n \in DOMAIN pegs : StopAnswer(c, n)
      PROVE PegInv'
  BY <1>1, WakeKeeps, PlaceKeeps, CancelKeeps, AmendKeeps, StopKeeps
<1>2. ASSUME NEW n \in DOMAIN pegs, PegFill(n) \/ TellFills(n) PROVE PegInv'
  BY <1>2, FillKeeps
<1>3. ASSUME NEW v \in {"ls", "hl"}, PegOn(v) PROVE PegInv'
  BY <1>3, OnKeeps
<1>4. CASE PegOff
  BY <1>4, OffKeeps
<1>5. ASSUME NEW p \in PegPrices \cup {0}, SetLevel(p) PROVE PegInv'
  <2>1. RowsRight(pegs, DOMAIN ctl)
    BY DEF PegInv
  <2> QED BY <1>5, <2>1, RowsMove DEF SetLevel
<1>6. CASE UNCHANGED pgVars
  BY <1>6 DEF pgVars, PegInv
<1> QED BY <1>1, <1>2, <1>3, <1>4, <1>5, <1>6 DEF PgNext

LEMMA PegOrderOnce == PegInv => OnePegOrder
<1> SUFFICES ASSUME PegInv, NEW c \in DOMAIN ctl
             PROVE  /\ Cardinality(LiveOf(c)) <= 1
                    /\ active = c /\ ctl[c].at = "rest" => LiveOf(c) \subseteq {ctl[c].order}
  BY DEF OnePegOrder
<1>1. LiveOf(c) = LiveIn(pegs, c) /\ CtlRight(ctl[c], LiveIn(pegs, c), active = c)
  BY DEF PegInv, LiveOf, LiveIn
<1>2. LiveOf(c) = {} \/ \E n : LiveOf(c) = {n}
  BY <1>1 DEF CtlRight
<1>3. Cardinality(LiveOf(c)) <= 1
  <2>1. CASE LiveOf(c) = {}
    BY <2>1, FS_EmptySet
  <2>2. ASSUME NEW n, LiveOf(c) = {n} PROVE Cardinality(LiveOf(c)) <= 1
    <3>1. Cardinality({n}) = 1
      BY FS_Singleton, Zenon
    <3> QED BY <2>2, <3>1
  <2> QED BY <1>2, <2>1, <2>2
<1> QED BY <1>1, <1>3 DEF CtlRight

-----------------------------------------------------------------------------
(***************************************************************************)
(* The operator's messages.                                                *)
(***************************************************************************)
Numbers == 1 .. Len(inbox)
Done == ToSet(handled)

(* A poll that has been answered, a first one or a later one.              *)
PollRight ==
  /\ poll.got \subseteq Numbers
  /\ primed => \A g \in poll.got : offset <= g /\ since <= g
  /\ ~primed /\ poll.got = {} => \A u \in offline \cup Done : u < since
  /\ ~primed /\ poll.got # {} =>
       \E l \in Numbers : poll.got = {l} /\ \A u \in offline \cup Done : u <= l

TelegramInv ==
  /\ inbox \in Seq(TgKinds) /\ since \in Nat \ {0} /\ offset \in Nat
  /\ tgUp \in BOOLEAN /\ primed \in BOOLEAN /\ handled \in Seq(Nat)
  /\ offline \subseteq Numbers /\ Done \subseteq Numbers /\ queue \subseteq Numbers
  /\ poll = NoPoll \/ (tgUp /\ queue = {} /\ PollRight)
  /\ queue # {} => tgUp /\ primed
  /\ tgUp /\ primed => \A u \in offline \cup Done \cup queue : u < offset \/ u < since
  /\ \A u \in queue : inbox[u] = "own" /\ u \notin Done /\ u \notin offline
  /\ NothingOldNothingTwice

(* The least and the greatest of some numbers.                             *)
LEMMA LeastOf ==
  ASSUME NEW S, NEW n \in Nat, S \subseteq 1 .. n, S # {}
  PROVE  Min(S) \in S /\ \A x \in S : Min(S) <= x
<1>1. S \in SUBSET Nat
  OBVIOUS
<1>2. \E x \in S : \A y \in S : x <= y
  BY <1>1, LeastNumber
<1> QED BY <1>2 DEF Min

LEMMA GreatestOf ==
  ASSUME NEW S, NEW n \in Nat, S \subseteq 1 .. n, S # {}
  PROVE  Max(S) \in S /\ \A x \in S : x <= Max(S)
<1>1. PICK T : T = {y \in 1 .. n : \A x \in S : x <= y}
  OBVIOUS
<1>2. T \subseteq 1 .. n /\ T # {}
  <2>1. n \in T
    <3>1. PICK x : x \in S /\ x \in 1 .. n
      OBVIOUS
    <3>2. n \in 1 .. n
      BY <3>1
    <3>3. \A y \in S : y <= n
      OBVIOUS
    <3> QED BY <1>1, <3>2, <3>3
  <2> QED BY <1>1, <2>1
<1>3. PICK m : m \in T /\ \A x \in T : m <= x
  BY <1>2, LeastOf
<1>4. m \in S
  <2>1. SUFFICES ASSUME m \notin S PROVE FALSE
    OBVIOUS
  <2>2. m - 1 \in 1 .. n /\ \A x \in S : x <= m - 1
    <3>1. \A x \in S : x <= m /\ x # m /\ x \in 1 .. n
      BY <1>1, <1>3, <2>1
    <3>2. PICK x : x \in S
      OBVIOUS
    <3> QED BY <1>2, <1>3, <3>1, <3>2
  <2>3. m - 1 \in T /\ m \in Int
    BY <1>1, <1>2, <1>3, <2>2
  <2> QED BY <1>3, <2>3
<1>5. \A x \in S : x <= m
  BY <1>1, <1>3
<1>6. \E x \in S : \A y \in S : x >= y
  BY <1>2, <1>3, <1>4, <1>5
<1> QED BY <1>6 DEF Max

(* What is handled is of the numbers there are.                            *)
LEMMA DoneGrows ==
  ASSUME handled \in Seq(Nat), NEW n \in Nat, handled' = Append(handled, n)
  PROVE  /\ handled' \in Seq(Nat) /\ Done' = Done \cup {n}
         /\ IsInjective(handled) /\ n \notin Done => IsInjective(handled)'
<1>1. PICK s, t : s = handled /\ t = handled' /\ s \in Seq(Nat) /\ t = Append(s, n)
  OBVIOUS
<1>2. /\ t \in Seq(Nat) /\ DOMAIN t = DOMAIN s \cup {Len(s) + 1} /\ Len(s) + 1 \notin DOMAIN s
      /\ t[Len(s) + 1] = n /\ \A i \in DOMAIN s : t[i] = s[i]
  BY <1>1
<1>3. ToSet(s) = {s[i] : i \in DOMAIN s} /\ ToSet(t) = {t[i] : i \in DOMAIN t}
  BY DEF ToSet
<1>4. ToSet(t) = ToSet(s) \cup {n}
  BY <1>2, <1>3
<1>5. IsInjective(s) /\ n \notin ToSet(s) => IsInjective(t)
  BY <1>2, <1>3 DEF IsInjective
<1> QED BY <1>1, <1>2, <1>4, <1>5 DEF Done

(* A message more.                                                         *)
LEMMA InboxGrows ==
  ASSUME inbox \in Seq(TgKinds), NEW kind \in TgKinds, inbox' = Append(inbox, kind)
  PROVE  /\ inbox' \in Seq(TgKinds) /\ Numbers \subseteq Numbers' /\ Len(inbox) + 1 \in Numbers'
         /\ Len(inbox) + 1 \notin Numbers /\ \A u \in Numbers : inbox'[u] = inbox[u]
<1>1. PICK s, t, R : s = inbox /\ t = inbox' /\ R = TgKinds /\ s \in Seq(R) /\ kind \in R /\ t = Append(s, kind)
  OBVIOUS
<1>2. t \in Seq(R) /\ Len(t) = Len(s) + 1 /\ Len(s) \in Nat /\ \A u \in 1 .. Len(s) : t[u] = s[u]
  BY <1>1
<1> QED BY <1>1, <1>2 DEF Numbers

LEMMA Twice ==
  NothingOldNothingTwice <=> /\ IsInjective(handled) /\ \A u \in Done : inbox[u] = "own"
                             /\ Done \cap offline = {}
BY DEF NothingOldNothingTwice, Done, ToSet

LEMMA TelegramInitInv == TgInit => TelegramInv
<1> SUFFICES ASSUME TgInit PROVE TelegramInv
  OBVIOUS
<1>1. handled = << >> /\ inbox = << >> /\ poll = NoPoll /\ queue = {} /\ offline = {}
      /\ since = 1 /\ offset = 0 /\ ~tgUp /\ ~primed /\ tgUp \in BOOLEAN /\ primed \in BOOLEAN
  BY DEF TgInit, tgNone
<1>2. handled \in Seq(Nat) /\ inbox \in Seq(TgKinds) /\ Done = {} /\ IsInjective(handled)
  BY <1>1 DEF Done, ToSet, IsInjective
<1>3. NothingOldNothingTwice
  BY <1>1, <1>2, Twice
<1> QED BY <1>1, <1>2, <1>3 DEF TelegramInv

LEMMA TelegramStep == ASSUME TelegramInv, [TgNext]_tgVars PROVE TelegramInv'
<1> USE DEF TelegramInv
<1>a. /\ IsInjective(handled) /\ Done \cap offline = {} /\ \A u \in Done : inbox[u] = "own"
  BY Twice
<1>b. Len(inbox) \in Nat
  BY DEF TelegramInv
<1>c. handled' = handled => Done' = Done
  BY DEF Done
<1>d. inbox' = inbox => Numbers' = Numbers
  BY DEF Numbers
<1>1. ASSUME NEW kind \in TgKinds, TgWrite(kind) PROVE TelegramInv'
  <2>1. /\ inbox' \in Seq(TgKinds) /\ Numbers \subseteq Numbers' /\ Len(inbox) + 1 \in Numbers'
        /\ Len(inbox) + 1 \notin Numbers /\ \A u \in Numbers : inbox'[u] = inbox[u]
    BY <1>1, InboxGrows DEF TgWrite
  <2>2. PICK n : n = Len(inbox) + 1
    OBVIOUS
  <2>3. /\ offline' = (IF tgUp THEN offline ELSE offline \cup {n}) /\ handled' = handled /\ queue' = queue
        /\ poll' = poll /\ since' = since /\ offset' = offset /\ primed' = primed /\ tgUp' = tgUp
    BY <1>1, <2>2 DEF TgWrite
  <2>4. poll' = NoPoll \/ (tgUp' /\ queue' = {} /\ PollRight')
    <3>1. CASE tgUp
      BY <1>c, <2>1, <2>3, <3>1 DEF PollRight
    <3> QED BY <2>3, <3>1
  <2>5. NothingOldNothingTwice'
    <3>1. Done' \cap offline' = {}
      BY <1>a, <1>c, <2>1, <2>2, <2>3
    <3>2. \A u \in Done' : inbox'[u] = "own"
      BY <1>a, <1>c, <2>1, <2>3
    <3>3. IsInjective(handled)'
      BY <1>a, <2>3
    <3> QED BY <2>3, <3>1, <3>2, <3>3 DEF NothingOldNothingTwice, Done, ToSet
  <2>6. \A u \in queue' : inbox'[u] = "own" /\ u \notin Done' /\ u \notin offline'
    BY <1>c, <2>1, <2>2, <2>3
  <2>7. tgUp' /\ primed' => \A u \in offline' \cup Done' \cup queue' : u < offset' \/ u < since'
    BY <1>c, <2>3
  <2> QED BY <1>c, <2>1, <2>2, <2>3, <2>4, <2>5, <2>6, <2>7
<1>2. CASE TgStart \/ TgStop
  <2>1. /\ queue' = {} /\ poll' = NoPoll /\ inbox' = inbox /\ since' = since /\ handled' = handled
        /\ offline' = offline /\ offset' \in Nat /\ tgUp' \in BOOLEAN /\ primed' \in BOOLEAN
        /\ ~(tgUp' /\ primed')
    <3>1. CASE TgStart
      BY <3>1 DEF TgStart, tgNone
    <3>2. CASE TgStop
      <4>1. tgUp' = FALSE /\ offset' = offset /\ primed' = primed
        BY <3>2 DEF TgStop
      <4> QED BY <3>2, <4>1 DEF TgStop
    <3> QED BY <1>2, <3>1, <3>2
  <2>2. NothingOldNothingTwice'
    BY <2>1 DEF NothingOldNothingTwice
  <2> QED BY <1>c, <1>d, <2>1, <2>2
<1>3. CASE PollAnswered
  <2>1. /\ tgUp /\ queue = {} /\ poll' = [at |-> "answered", got |-> AskedFrom]
        /\ since' = (IF AskedFrom = {} THEN since ELSE Min(AskedFrom))
        /\ UNCHANGED <<inbox, tgUp, starts, offset, primed, queue, handled, offline>>
        /\ (~primed \/ AskedFrom # {})
    BY <1>3 DEF PollAnswered
  <2>2. PICK A : A = AskedFrom
    OBVIOUS
  <2>3. /\ A \subseteq since .. Len(inbox) /\ (primed => A = {u \in since .. Len(inbox) : u >= offset})
        /\ (~primed => A = {u \in since .. Len(inbox) : u = Len(inbox)})
    BY <2>2 DEF AskedFrom, Waiting
  <2>4. PICK n : n = Len(inbox) /\ n \in Nat /\ Numbers = 1 .. n
    BY <1>b DEF Numbers
  <2>5. A \subseteq 1 .. n
    BY <2>3, <2>4
  <2>6. since' \in Nat \ {0} /\ since <= since' /\ \A g \in A : since' <= g
    <3>1. CASE A = {}
      BY <2>1, <2>2, <3>1
    <3>2. CASE A # {}
      <4>1. Min(A) \in A /\ \A g \in A : Min(A) <= g
        BY <2>4, <2>5, <3>2, LeastOf
      <4> QED BY <2>1, <2>2, <2>3, <2>4, <2>5, <3>2, <4>1
    <3> QED BY <3>1, <3>2
  <2>7. poll'.got = A
    BY <2>1, <2>2
  <2>8. PollRight'
    <3>1. primed => \A g \in A : offset <= g /\ since' <= g
      BY <2>3, <2>4, <2>6
    <3>2. ~primed /\ A = {} => \A u \in offline \cup Done : u < since'
      <4>1. ~primed /\ A = {} => since > n
        BY <2>3, <2>4
      <4> QED BY <2>4, <2>6, <4>1
    <3>3. ~primed /\ A # {} => \E l \in Numbers : A = {l} /\ \A u \in offline \cup Done : u <= l
      <4>1. ~primed /\ A # {} => A = {n} /\ n \in Numbers
        BY <2>3, <2>4, <2>5
      <4> QED BY <2>4, <4>1
    <3> QED BY <1>c, <1>d, <2>1, <2>4, <2>5, <2>7, <3>1, <3>2, <3>3 DEF PollRight
  <2>9. NothingOldNothingTwice'
    BY <2>1 DEF NothingOldNothingTwice
  <2>10. tgUp' /\ primed' => \A u \in offline' \cup Done' \cup queue' : u < offset' \/ u < since'
    BY <1>c, <2>1, <2>4, <2>6
  <2> QED BY <1>c, <1>d, <2>1, <2>6, <2>8, <2>9, <2>10
<1>4. CASE PollLost
  <2>1. poll' = NoPoll /\ UNCHANGED <<inbox, since, tgUp, starts, offset, primed, queue, handled, offline>>
    BY <1>4 DEF PollLost
  <2>2. NothingOldNothingTwice'
    BY <2>1 DEF NothingOldNothingTwice
  <2> QED BY <1>c, <1>d, <2>1, <2>2
<1>5. CASE PollDone
  <2>1. /\ poll # NoPoll /\ poll' = NoPoll /\ primed' = TRUE
        /\ offset' = (IF poll.got = {} THEN offset ELSE Max(poll.got) + 1)
        /\ queue' = {u \in poll.got : primed /\ inbox[u] = "own"}
        /\ UNCHANGED <<inbox, since, tgUp, starts, handled, offline>>
    BY <1>5 DEF PollDone
  <2>2. PICK n, G : n = Len(inbox) /\ n \in Nat /\ Numbers = 1 .. n /\ G = poll.got
    BY <1>b DEF Numbers
  <2>3. tgUp /\ queue = {} /\ G \subseteq 1 .. n /\ PollRight
    BY <2>1, <2>2 DEF PollRight
  <2>4. /\ offset' \in Nat /\ (G = {} => offset' = offset) /\ (\A g \in G : g < offset')
        /\ (G # {} => \E g \in G : g < offset')
    <3>1. CASE G = {}
      BY <2>1, <2>2, <3>1
    <3>2. CASE G # {}
      <4>1. Max(G) \in G /\ \A g \in G : g <= Max(G)
        BY <2>2, <2>3, <3>2, GreatestOf
      <4>2. PICK m : m = Max(G) /\ m \in 1 .. n
        BY <2>3, <4>1
      <4> QED BY <2>1, <2>2, <2>3, <3>2, <4>1, <4>2
    <3> QED BY <3>1, <3>2
  <2>5. queue' \subseteq G /\ (queue' # {} => primed) /\ \A u \in queue' : inbox[u] = "own"
    BY <2>1, <2>2
  <2>6. \A u \in offline \cup Done : u < offset' \/ u < since
    <3>1. CASE primed
      <4>1. \A u \in offline \cup Done : u < offset \/ u < since
        BY <2>3, <3>1
      <4>2. G # {} => offset < offset'
        BY <2>2, <2>3, <2>4, <3>1 DEF PollRight
      <4> QED BY <2>2, <2>4, <4>1, <4>2
    <3>2. CASE ~primed /\ G = {}
      BY <2>2, <2>3, <3>2 DEF PollRight
    <3>3. CASE ~primed /\ G # {}
      <4>1. PICK l \in Numbers : G = {l} /\ \A u \in offline \cup Done : u <= l
        BY <2>2, <2>3, <3>3 DEF PollRight
      <4>2. l < offset'
        BY <2>4, <4>1
      <4> QED BY <2>2, <2>4, <4>1, <4>2
    <3> QED BY <3>1, <3>2, <3>3
  <2>7. \A u \in queue' : u \notin Done /\ u \notin offline
    <3> SUFFICES ASSUME NEW u \in queue' PROVE u \notin Done /\ u \notin offline
      OBVIOUS
    <3>1. primed /\ u \in G /\ u \in 1 .. n
      BY <2>3, <2>5
    <3>2. offset <= u /\ since <= u
      BY <2>2, <2>3, <3>1 DEF PollRight
    <3>3. \A v \in offline \cup Done : v < offset \/ v < since
      BY <2>3, <3>1
    <3> QED BY <2>2, <3>1, <3>2, <3>3
  <2>8. NothingOldNothingTwice'
    BY <2>1 DEF NothingOldNothingTwice
  <2>9. \A u \in offline' \cup Done' \cup queue' : u < offset' \/ u < since'
    BY <1>c, <2>1, <2>4, <2>5, <2>6
  <2>10. queue' \subseteq Numbers' /\ Numbers' = Numbers /\ tgUp'
    BY <1>d, <2>1, <2>2, <2>3, <2>5
  <2> QED BY <1>c, <2>1, <2>4, <2>5, <2>7, <2>8, <2>9, <2>10
<1>6. CASE Handle
  <2>1. PICK n : n = Min(queue) /\ n \in queue
    BY <1>6, <1>b, LeastOf DEF Handle, Numbers
  <2>2. /\ handled' = Append(handled, n) /\ queue' = queue \ {n}
        /\ UNCHANGED <<inbox, since, tgUp, starts, offset, primed, poll, offline>>
    BY <1>6, <2>1 DEF Handle
  <2>3. n \in Numbers /\ n \in Nat /\ n \notin Done /\ n \notin offline /\ inbox[n] = "own"
    BY <1>b, <2>1 DEF Numbers
  <2>4. handled' \in Seq(Nat) /\ Done' = Done \cup {n} /\ IsInjective(handled)'
    BY <1>a, <2>2, <2>3, DoneGrows
  <2>5. poll = NoPoll
    BY <2>1
  <2>6. NothingOldNothingTwice'
    <3>1. Done' \cap offline' = {} /\ \A u \in Done' : inbox'[u] = "own"
      BY <1>a, <2>2, <2>3, <2>4
    <3> QED BY <2>4, <3>1 DEF NothingOldNothingTwice, Done, ToSet
  <2>7. \A u \in queue' : inbox'[u] = "own" /\ u \notin Done' /\ u \notin offline'
    BY <2>2, <2>4
  <2>8. tgUp' /\ primed' => \A u \in offline' \cup Done' \cup queue' : u < offset' \/ u < since'
    BY <2>1, <2>2, <2>4
  <2> QED BY <1>d, <2>2, <2>3, <2>4, <2>5, <2>6, <2>7, <2>8
<1>7. CASE UNCHANGED tgVars
  <2>1. UNCHANGED <<poll, inbox, since, tgUp, starts, offset, primed, queue, handled, offline>>
    BY <1>7 DEF tgVars
  <2>2. NothingOldNothingTwice'
    BY <2>1 DEF NothingOldNothingTwice
  <2> QED BY <1>c, <1>d, <2>1, <2>2 DEF PollRight
<1> QED BY <1>1, <1>2, <1>3, <1>4, <1>5, <1>6, <1>7 DEF TgNext

-----------------------------------------------------------------------------
(***************************************************************************)
(* The openings of NXT: a tier is ordered once.                            *)
(***************************************************************************)
NxOrders == [tier : Tiers, day : Nat, done : Nat, answered : BOOLEAN]
Batches == [day : Nat, tiers : SUBSET Tiers, at : {"spawned", "sent"}, ids : SUBSET Nat]

OrdersTyped == orders \in Seq(NxOrders) /\ Len(orders) <= MaxNxOrders
FiredOnce ==
  /\ OrdersTyped /\ days \in Nat /\ batches \subseteq Batches
  /\ \A j \in DOMAIN orders : orders[j].day <= days /\ (orders[j].day = days => orders[j].tier \in day.fired)
  /\ \A b \in batches : b.day <= days /\ (b.day = days => b.tiers \subseteq day.fired)
  /\ \A b \in batches, j \in DOMAIN orders :
       b.at = "spawned" /\ orders[j].day = b.day => orders[j].tier \notin b.tiers
  /\ TierFiresOnce

LEMMA NxOrder == ASSUME OrdersTyped, NEW k \in DOMAIN orders PROVE orders[k] \in NxOrders
<1>1. PICK s, R : s = orders /\ R = NxOrders /\ s \in Seq(R) /\ k \in DOMAIN s
  BY DEF OrdersTyped
<1>2. s[k] \in R
  BY <1>1
<1> QED BY <1>1, <1>2

(* A judgement takes only tiers that have not been taken on the day, and   *)
(* takes them before it goes on.                                           *)
Takes(d0, go) ==
  /\ go \subseteq Tiers \ d0.fired /\ day'.fired = d0.fired \cup go
  /\ \/ go = {} /\ batches' = batches
     \/ batches' = batches \cup {[day |-> days, tiers |-> go, at |-> "spawned", ids |-> {}]}

LEMMA FiredAfter ==
  ASSUME NEW d, NEW lvl
  PROVE  AfterEnd(Captured(d, lvl)).fired = d.fired /\ AfterEnd(d).fired = d.fired
BY DEF AfterEnd, Captured

LEMMA EvaluateTakes ==
  ASSUME usable \subseteq Tiers, NEW d0, NEW met, NEW lvl, Evaluate(d0, met, lvl)
  PROVE  \E go : Takes(d0, go)
<1> PICK d : d = AfterEnd(Captured(d0, lvl))
  OBVIOUS
<1> PICK go : go = {t \in Judge(d, met) : ~Blocked(d, lvl, BlockOf(t))}
  OBVIOUS
<1>1. d.fired = d0.fired
  BY FiredAfter
<1>2. go \subseteq Tiers \ d0.fired
  BY <1>1 DEF Judge
<1>3. \/ batches' = batches /\ day' = d
      \/ batches' = batches \cup {[day |-> days, tiers |-> go, at |-> "spawned", ids |-> {}]}
         /\ day' = [d EXCEPT !.fired = @ \cup go]
  BY DEF Evaluate
<1>4. CASE batches' = batches /\ day' = d
  BY <1>1, <1>4 DEF Takes
<1>5. CASE batches' = batches \cup {[day |-> days, tiers |-> go, at |-> "spawned", ids |-> {}]}
           /\ day' = [d EXCEPT !.fired = @ \cup go]
  <2>1. day'.fired = d0.fired \cup go
    BY <1>1, <1>5
  <2> QED BY <1>2, <1>5, <2>1 DEF Takes
<1> QED BY <1>3, <1>4, <1>5

LEMMA TakesKeeps ==
  ASSUME FiredOnce, NEW go, Takes(day, go), orders' = orders, days' = days PROVE FiredOnce'
<1>1. go \subseteq Tiers \ day.fired /\ day'.fired = day.fired \cup go
  BY DEF Takes
<1>2. CASE batches' = batches
  BY <1>1, <1>2 DEF FiredOnce, OrdersTyped, TierFiresOnce
<1>3. CASE batches' = batches \cup {[day |-> days, tiers |-> go, at |-> "spawned", ids |-> {}]}
  <2> PICK b : b = [day |-> days, tiers |-> go, at |-> "spawned", ids |-> {}]
    OBVIOUS
  <2>1. b \in Batches /\ b.day = days /\ b.tiers = go /\ batches' = batches \cup {b}
    BY <1>1, <1>3 DEF FiredOnce, Batches
  <2>2. \A j \in DOMAIN orders : orders[j].day = days => orders[j].tier \notin go
    BY <1>1 DEF FiredOnce
  <2>3. \A c \in batches : c.day = days => c.tiers \cap go = {}
    BY <1>1 DEF FiredOnce
  <2>4. TierFiresOnce'
    <3>1. \A j, k \in DOMAIN orders :
            orders[j].tier = orders[k].tier /\ orders[j].day = orders[k].day => j = k
      BY DEF FiredOnce, TierFiresOnce
    <3>2. \A a, c \in batches : a # c /\ a.day = c.day => a.tiers \cap c.tiers = {}
      BY DEF FiredOnce, TierFiresOnce
    <3>3. \A a, c \in batches' : a # c /\ a.day = c.day => a.tiers \cap c.tiers = {}
      <4> SUFFICES ASSUME NEW a \in batches', NEW c \in batches', a # c, a.day = c.day
                   PROVE  a.tiers \cap c.tiers = {}
        OBVIOUS
      <4>1. CASE a = b
        BY <2>1, <2>3, <4>1
      <4>2. CASE c = b
        BY <2>1, <2>3, <4>2
      <4>3. CASE a # b /\ c # b
        BY <2>1, <3>2, <4>3
      <4> QED BY <4>1, <4>2, <4>3
    <3> QED BY <3>1, <3>3 DEF TierFiresOnce
  <2>5. \A c \in batches' : c.day <= days /\ (c.day = days => c.tiers \subseteq day'.fired)
    BY <1>1, <2>1 DEF FiredOnce
  <2>6. \A c \in batches', j \in DOMAIN orders :
          c.at = "spawned" /\ orders[j].day = c.day => orders[j].tier \notin c.tiers
    BY <2>1, <2>2 DEF FiredOnce
  <2>7. \A j \in DOMAIN orders : orders[j].day <= days /\ (orders[j].day = days => orders[j].tier \in day'.fired)
    BY <1>1 DEF FiredOnce
  <2> QED BY <2>1, <2>4, <2>5, <2>6, <2>7 DEF FiredOnce, OrdersTyped
<1> QED BY <1>2, <1>3 DEF Takes

(* Nothing is ordered, and no order is of another tier or day.             *)
SameOrders ==
  /\ OrdersTyped' /\ DOMAIN orders' = DOMAIN orders
  /\ \A j \in DOMAIN orders : orders'[j].tier = orders[j].tier /\ orders'[j].day = orders[j].day

LEMMA NothingFires ==
  ASSUME FiredOnce, SameOrders, batches' \subseteq batches,
         \/ days' = days /\ day'.fired = day.fired
         \/ days' = days + 1 /\ day' = Fresh
  PROVE  FiredOnce'
<1>1. days' \in Nat /\ \A n \in Nat : n <= days => n <= days' /\ (n = days' => n = days /\ day'.fired = day.fired)
  BY DEF FiredOnce
<1>2. \A j \in DOMAIN orders : orders[j].day \in Nat
  BY NxOrder DEF FiredOnce, NxOrders
<1>3. \A b \in batches : b.day \in Nat
  BY DEF FiredOnce, Batches
<1>4. \A j \in DOMAIN orders' :
        orders'[j].day <= days' /\ (orders'[j].day = days' => orders'[j].tier \in day'.fired)
  BY <1>1, <1>2 DEF FiredOnce, SameOrders
<1>5. \A b \in batches' : b.day <= days' /\ (b.day = days' => b.tiers \subseteq day'.fired)
  BY <1>1, <1>3 DEF FiredOnce
<1>6. TierFiresOnce'
  BY DEF FiredOnce, TierFiresOnce, SameOrders
<1>7. \A b \in batches', j \in DOMAIN orders' :
       b.at = "spawned" /\ orders'[j].day = b.day => orders'[j].tier \notin b.tiers
  BY DEF FiredOnce, SameOrders
<1> QED BY <1>1, <1>4, <1>5, <1>6, <1>7 DEF FiredOnce, SameOrders

(* A finite set is put in a row: each of its members once.                 *)
LEMMA InARow ==
  ASSUME NEW S, IsFiniteSet(S)
  PROVE  /\ SetToSeq(S) \in [1 .. Cardinality(S) -> S] /\ IsInjective(SetToSeq(S))
         /\ Cardinality(S) \in Nat
<1>1. ExistsBijection(1 .. Cardinality(S), S) /\ Cardinality(S) \in Nat
  BY FS_CardinalityType
<1>2. \E f \in [1 .. Cardinality(S) -> S] : IsInjective(f)
  BY <1>1 DEF ExistsBijection, Bijection, Injection
<1> QED BY <1>1, <1>2 DEF SetToSeq

(* Orders are added, in a row that is put behind the others.               *)
RowBehindOf(t, s, m, l, n) ==
  /\ Len(t) = l + n /\ l = Len(s) /\ l \in Nat
  /\ DOMAIN s = 1 .. l /\ DOMAIN t = 1 .. l + n
  /\ \A i \in 1 .. l : t[i] = s[i]
  /\ \A i \in l + 1 .. l + n : i - l \in 1 .. n /\ t[i] = m[i - l]
LEMMA RowBehind ==
  ASSUME NEW R, NEW s, s \in Seq(R), NEW n \in Nat, NEW m, m \in [1 .. n -> R], NEW t, IsBehind(t, s, m)
  PROVE  t \in Seq(R) /\ \E l : RowBehindOf(t, s, m, l, n)
<1>1. m \in Seq(R) /\ Len(m) = n
  OBVIOUS
<1>2. t \in Seq(R) /\ JoinOf(t, s, m)
  BY <1>1, Joined, Zenon
<1>3. RowBehindOf(t, s, m, Len(s), n)
  BY <1>1, <1>2 DEF RowBehindOf, JoinOf
<1> QED BY <1>2, <1>3

(* What the exchange took of a batch: each tier once, none filled yet.     *)
Took(b, taken) ==
  /\ b \in batches /\ b.at = "spawned" /\ taken \subseteq b.tiers
  /\ OrdersTyped' /\ Len(orders') \in Nat /\ Len(orders) \in Nat /\ Len(orders) <= Len(orders')
  /\ DOMAIN orders = 1 .. Len(orders) /\ DOMAIN orders' = 1 .. Len(orders')
  /\ \A i \in DOMAIN orders : orders'[i] = orders[i]
  /\ \A i \in Len(orders) + 1 .. Len(orders') :
       orders'[i].tier \in taken /\ orders'[i].day = b.day /\ orders'[i].done = 0
  /\ \A i, j \in Len(orders) + 1 .. Len(orders') : orders'[i].tier = orders'[j].tier => i = j
  /\ \E c \in Batches : /\ batches' = (batches \ {b}) \cup {c}
                        /\ c.day = b.day /\ c.tiers = b.tiers /\ c.at = "sent"
                        /\ c.ids = Len(orders) + 1 .. Len(orders')

LEMMA SendTakes ==
  ASSUME OrdersTyped, batches \subseteq Batches, NEW b \in batches, NEW taken, Send(b, taken) PROVE Took(b, taken)
<1>1. b \in Batches /\ b.at = "spawned" /\ taken \subseteq b.tiers /\ Len(orders) + Cardinality(taken) <= MaxNxOrders
  BY DEF Send
<1>2. IsFiniteSet(taken)
  <2>1. taken \subseteq Tiers
    BY <1>1 DEF Batches
  <2> QED BY <2>1, TiersAssumption, FS_Subset
<1>3. PICK n, new : /\ n = Cardinality(taken) /\ n \in Nat /\ new = SetToSeq(taken)
                    /\ new \in [1 .. n -> taken] /\ IsInjective(new)
  BY <1>2, InARow
<1>4. PICK made : made = [i \in 1 .. n |-> [tier |-> new[i], day |-> b.day, done |-> 0, answered |-> FALSE]]
  OBVIOUS
<1>5. DOMAIN new = 1 .. n /\ Len(new) = n
  BY <1>3
<1>6. orders' = orders \o made
      /\ batches' = (batches \ {b}) \cup {[b EXCEPT !.at = "sent", !.ids = Len(orders) + 1 .. Len(orders) + n]}
  BY <1>3, <1>4, <1>5 DEF Send
<1>7. made \in [1 .. n -> NxOrders]
  <2>1. \A i \in 1 .. n : [tier |-> new[i], day |-> b.day, done |-> 0, answered |-> FALSE] \in NxOrders
    BY <1>1, <1>3 DEF Batches, NxOrders
  <2> QED BY <1>4, <2>1
<1>8. PICK R, s, t : R = NxOrders /\ s = orders /\ t = orders' /\ s \in Seq(R) /\ made \in [1 .. n -> R] /\ IsBehind(t, s, made)
  BY <1>6, <1>7 DEF OrdersTyped, IsBehind
<1>9. t \in Seq(R) /\ \E l : RowBehindOf(t, s, made, l, n)
  BY <1>3, <1>8, RowBehind, Zenon
<1>10. PICK l : /\ Len(t) = l + n /\ l = Len(s) /\ l \in Nat
                /\ DOMAIN s = 1 .. l /\ DOMAIN t = 1 .. l + n
                /\ \A i \in 1 .. l : t[i] = s[i]
                /\ \A i \in l + 1 .. l + n : i - l \in 1 .. n /\ t[i] = made[i - l]
  BY <1>9 DEF RowBehindOf
<1>11. \A i \in 1 .. n : made[i].tier = new[i] /\ made[i].day = b.day /\ made[i].done = 0
  BY <1>4
<1>12. \A i \in l + 1 .. l + n : t[i].tier \in taken /\ t[i].day = b.day /\ t[i].done = 0
  <2> SUFFICES ASSUME NEW i \in l + 1 .. l + n PROVE t[i].tier \in taken /\ t[i].day = b.day /\ t[i].done = 0
    OBVIOUS
  <2>1. PICK j : j = i - l /\ j \in 1 .. n /\ t[i] = made[j]
    BY <1>10
  <2>2. new[j] \in taken
    BY <1>3, <2>1
  <2> QED BY <1>11, <2>1, <2>2
<1>13. ASSUME NEW i \in l + 1 .. l + n, NEW j \in l + 1 .. l + n, t[i].tier = t[j].tier PROVE i = j
  <2>1. new[i - l] = new[j - l] /\ i - l \in 1 .. n /\ j - l \in 1 .. n
    BY <1>10, <1>11, <1>13
  <2>2. i - l = j - l
    BY <1>3, <1>5, <2>1 DEF IsInjective
  <2> QED BY <1>10, <2>2
<1>14. PICK c : c = [b EXCEPT !.at = "sent", !.ids = l + 1 .. l + n]
  OBVIOUS
<1>15. /\ c \in Batches /\ c.day = b.day /\ c.tiers = b.tiers /\ c.at = "sent" /\ c.ids = l + 1 .. l + n
       /\ batches' = (batches \ {b}) \cup {c}
  <2>1. l \in Nat /\ l = Len(orders)
    BY <1>8, <1>10
  <2>2. PICK I : I = l + 1 .. l + n /\ I \in SUBSET Nat
    BY <1>3, <2>1
  <2>3. c = [b EXCEPT !.at = "sent", !.ids = I] /\ batches' = (batches \ {b}) \cup {c}
    BY <1>6, <1>14, <2>1, <2>2
  <2> QED BY <1>1, <2>2, <2>3 DEF Batches
<1>16. OrdersTyped'
  <2>1. Len(t) <= MaxNxOrders
    BY <1>1, <1>3, <1>8, <1>10
  <2> QED BY <1>8, <1>9, <2>1 DEF OrdersTyped
<1> QED BY <1>1, <1>3, <1>8, <1>10, <1>12, <1>13, <1>15, <1>16 DEF Took

LEMMA SendKeepsFired ==
  ASSUME FiredOnce, NEW b, NEW taken, Took(b, taken), day' = day, days' = days PROVE FiredOnce'
<1>1. PICK l, n : l = Len(orders) /\ n = Len(orders') /\ l \in Nat /\ n \in Nat /\ l <= n
                  /\ DOMAIN orders = 1 .. l /\ DOMAIN orders' = 1 .. n
  BY DEF Took
<1>2. PICK c \in Batches : /\ batches' = (batches \ {b}) \cup {c}
                           /\ c.day = b.day /\ c.tiers = b.tiers /\ c.at = "sent"
  BY DEF Took
<1>3. b \in batches /\ b.at = "spawned" /\ taken \subseteq b.tiers /\ OrdersTyped'
  BY DEF Took
<1>4. \A i \in 1 .. l : orders'[i] = orders[i]
  BY <1>1 DEF Took
<1>5. \A i \in l + 1 .. n : orders'[i].tier \in b.tiers /\ orders'[i].day = b.day
  BY <1>1, <1>3 DEF Took
<1>6. \A i, j \in l + 1 .. n : orders'[i].tier = orders'[j].tier => i = j
  BY <1>1 DEF Took
<1>7. \A i \in 1 .. n : i \in 1 .. l \/ i \in l + 1 .. n
  BY <1>1
<1>8. \A i \in 1 .. n : orders'[i].day <= days /\ (orders'[i].day = days => orders'[i].tier \in day.fired)
  BY <1>1, <1>3, <1>4, <1>5, <1>7 DEF FiredOnce
<1>9. \A a \in batches' : a.day <= days /\ (a.day = days => a.tiers \subseteq day.fired)
  BY <1>2, <1>3 DEF FiredOnce
<1>10. \A a \in batches' : a.at = "spawned" => a \in batches /\ (a.day = b.day => a.tiers \cap b.tiers = {})
  BY <1>2, <1>3 DEF FiredOnce, TierFiresOnce
<1>11. \A a \in batches', j \in 1 .. n : a.at = "spawned" /\ orders'[j].day = a.day => orders'[j].tier \notin a.tiers
  BY <1>1, <1>4, <1>5, <1>7, <1>10 DEF FiredOnce
<1>12. \A i, j \in 1 .. n : orders'[i].tier = orders'[j].tier /\ orders'[i].day = orders'[j].day => i = j
  <2>1. \A i, j \in 1 .. l : orders'[i].tier = orders'[j].tier /\ orders'[i].day = orders'[j].day => i = j
    BY <1>1, <1>4 DEF FiredOnce, TierFiresOnce
  <2>2. \A i \in 1 .. l : orders'[i].day = b.day => orders'[i].tier \notin b.tiers
    BY <1>1, <1>3, <1>4 DEF FiredOnce
  <2> QED BY <1>5, <1>6, <1>7, <2>1, <2>2
<1>13. \A a, e \in batches' : a # e /\ a.day = e.day => a.tiers \cap e.tiers = {}
  <2>1. \A a \in batches \ {b} : a.day = b.day => a.tiers \cap b.tiers = {}
    BY <1>3 DEF FiredOnce, TierFiresOnce
  <2>2. \A a, e \in batches : a # e /\ a.day = e.day => a.tiers \cap e.tiers = {}
    BY DEF FiredOnce, TierFiresOnce
  <2> SUFFICES ASSUME NEW a \in batches', NEW e \in batches', a # e, a.day = e.day
               PROVE  a.tiers \cap e.tiers = {}
    OBVIOUS
  <2>3. CASE a = c
    BY <1>2, <2>1, <2>3
  <2>4. CASE e = c
    BY <1>2, <2>1, <2>4
  <2>5. CASE a # c /\ e # c
    BY <1>2, <2>2, <2>5
  <2> QED BY <2>3, <2>4, <2>5
<1>14. TierFiresOnce'
  BY <1>1, <1>12, <1>13 DEF TierFiresOnce
<1>15. batches' \subseteq Batches /\ days' \in Nat
  BY <1>2 DEF FiredOnce
<1> QED BY <1>1, <1>3, <1>8, <1>9, <1>11, <1>14, <1>15 DEF FiredOnce

-----------------------------------------------------------------------------
(***************************************************************************)
(* The openings of NXT: the automatic exit of an order.                    *)
(***************************************************************************)
LotsOf(k) == 1 .. orders[k].done
LotsIn(S, k, o) == k \in DOMAIN o /\ S \subseteq 1 .. o[k].done
NxWhole(k) == orders[k].done = NxLots[orders[k].tier]

(* An order whose exit is not decided: it waits for its fills, or its      *)
(* batch for the answer, or it is not there yet.                           *)
Undecided(k) == k \in day.armed \/ (\E b \in batches : k \in b.ids) \/ k \notin DOMAIN orders

LotsInv ==
  /\ OrdersTyped /\ DOMAIN orders \subseteq OrderIds
  /\ \A k \in DOMAIN orders : orders[k].done <= NxLots[orders[k].tier]
  /\ \A m \in told : LotsIn({m.lot}, m.id, orders)
  /\ kept.lots \in [OrderIds -> SUBSET Nat] /\ day.got \in [OrderIds -> SUBSET Nat]
  /\ \A k \in OrderIds : kept.lots[k] # {} => LotsIn(kept.lots[k], k, orders)
  /\ \A k \in OrderIds : day.got[k] # {} => LotsIn(day.got[k], k, orders)

IdsInv ==
  /\ batches \subseteq Batches /\ day.armed \subseteq DOMAIN orders
  /\ \A b \in batches : b.ids \subseteq DOMAIN orders /\ (b.at = "spawned" => b.ids = {})
                        /\ b.ids \cap day.armed = {}
  /\ \A b, c \in batches : b # c => b.ids \cap c.ids = {}

ExitInv ==
  /\ LotsInv /\ IdsInv /\ exits \in [OrderIds -> Nat] /\ exitTasks \subseteq DOMAIN orders
  /\ \A k \in OrderIds : Undecided(k) => exits[k] = 0 /\ k \notin exitTasks
  /\ ExitOnceWhenWhole

(* Lots that make an order whole are all of its lots.                      *)
LEMMA WholeIsFilled ==
  ASSUME LotsInv, NEW k \in DOMAIN orders, NEW S, S \subseteq LotsOf(k), Whole(k, S)
  PROVE  NxWhole(k)
<1> PICK n, q : n = orders[k].done /\ q = NxLots[orders[k].tier]
  OBVIOUS
<1>1. n \in Nat /\ q \in Nat /\ n <= q
  BY NxOrder, TiersAssumption DEF LotsInv, NxOrders
<1>2. Cardinality(1 .. n) = n /\ IsFiniteSet(1 .. n)
  <2>1. IsFiniteSet(1 .. n) /\ Cardinality(1 .. n) = IF 1 > n THEN 0 ELSE n - 1 + 1
    <3>1. 1 \in Int /\ n \in Int
      BY <1>1
    <3> QED BY <3>1, FS_Interval, Zenon
  <2> QED BY <1>1, <2>1
<1>3. Cardinality(S) <= Cardinality(1 .. n) /\ Cardinality(S) \in Nat
  BY <1>2, FS_Subset, FS_CardinalityType DEF LotsOf
<1>4. q <= Cardinality(S)
  BY DEF Whole
<1>5. q <= n
  BY <1>1, <1>2, <1>3, <1>4
<1> QED BY <1>1, <1>5 DEF NxWhole

(* Nothing of it changes but batches without orders, or what the day held. *)
LEMMA ExitsStand ==
  ASSUME ExitInv, UNCHANGED <<orders, told, kept, exitTasks, exits>>, batches' \subseteq Batches,
         \A b \in batches' : b \in batches \/ b.ids = {},
         \/ day'.armed = day.armed /\ day'.got = day.got
         \/ day' = Fresh
  PROVE  ExitInv'
<1>1. day'.armed \subseteq day.armed
  BY DEF Fresh
<1>2. day'.got \in [OrderIds -> SUBSET Nat] /\ \A k \in OrderIds : day'.got[k] = {} \/ day'.got[k] = day.got[k]
  BY DEF Fresh, ExitInv, LotsInv
<1>3. LotsInv'
  BY <1>2 DEF ExitInv, LotsInv, OrdersTyped, LotsIn
<1>4. IdsInv'
  BY <1>1 DEF ExitInv, IdsInv
<1>5. \A k : Undecided(k)' => Undecided(k)
  BY <1>1 DEF Undecided
<1> QED BY <1>3, <1>4, <1>5 DEF ExitInv, ExitOnceWhenWhole

(* An exit is placed.                                                      *)
LEMMA ExitPlaced == ASSUME ExitInv, NEW k, PlaceExit(k) PROVE ExitInv'
<1>1. /\ k \in exitTasks /\ exitTasks' = exitTasks \ {k} /\ exits' = [exits EXCEPT ![k] = @ + 1]
      /\ UNCHANGED <<day, batches, orders, told, kept>>
  BY DEF PlaceExit
<1>2. LotsInv' /\ IdsInv'
  BY <1>1 DEF ExitInv, LotsInv, OrdersTyped, LotsIn, IdsInv
<1>3. k \in OrderIds /\ exits[k] \in Nat
  BY <1>1 DEF ExitInv, LotsInv
<1>4. exits' \in [OrderIds -> Nat] /\ exits'[k] = exits[k] + 1 /\ \A i \in OrderIds \ {k} : exits'[i] = exits[i]
  BY <1>1, <1>3 DEF ExitInv
<1>5. \A i \in OrderIds : Undecided(i)' => exits'[i] = 0 /\ i \notin exitTasks'
  BY <1>1, <1>4 DEF ExitInv, Undecided
<1>6. ASSUME NEW i \in DOMAIN orders
      PROVE  exits'[i] + (IF i \in exitTasks' THEN 1 ELSE 0) <= (IF orders[i].done = NxLots[orders[i].tier] THEN 1 ELSE 0)
  <2>1. exits[i] + (IF i \in exitTasks THEN 1 ELSE 0) <= (IF orders[i].done = NxLots[orders[i].tier] THEN 1 ELSE 0)
    BY DEF ExitInv, ExitOnceWhenWhole
  <2>2. i \in OrderIds
    BY DEF ExitInv, LotsInv
  <2> QED BY <1>1, <1>3, <1>4, <2>1, <2>2
<1>7. ExitOnceWhenWhole'
  BY <1>1, <1>6 DEF ExitOnceWhenWhole
<1> QED BY <1>1, <1>2, <1>4, <1>5, <1>7 DEF ExitInv

(* Orders become whole, and are decided: all that was undecided and is     *)
(* not any more may get an exit, when it is whole.                         *)
LEMMA ExitsDecided ==
  ASSUME ExitInv, NEW W, W \subseteq DOMAIN orders, exitTasks' = exitTasks \cup W, exits' = exits,
         \A k \in W : Undecided(k) /\ ~Undecided(k)' /\ NxWhole(k),
         \A k \in OrderIds : Undecided(k)' => Undecided(k),
         DOMAIN orders' = DOMAIN orders,
         \A k \in DOMAIN orders : orders'[k].done = orders[k].done /\ orders'[k].tier = orders[k].tier,
         LotsInv', IdsInv'
  PROVE  ExitInv'
<1>1. \A k \in OrderIds : Undecided(k)' => exits'[k] = 0 /\ k \notin exitTasks'
  BY DEF ExitInv
<1>2. ASSUME NEW i \in DOMAIN orders
      PROVE  exits[i] + (IF i \in exitTasks' THEN 1 ELSE 0) <= (IF orders[i].done = NxLots[orders[i].tier] THEN 1 ELSE 0)
  <2>1. exits[i] + (IF i \in exitTasks THEN 1 ELSE 0) <= (IF orders[i].done = NxLots[orders[i].tier] THEN 1 ELSE 0)
    BY DEF ExitInv, ExitOnceWhenWhole
  <2>2. CASE i \in W
    <3>1. exits[i] = 0 /\ orders[i].done = NxLots[orders[i].tier]
      BY <2>2 DEF ExitInv, LotsInv, NxWhole
    <3> QED BY <3>1
  <2>3. CASE i \notin W
    BY <2>1, <2>3
  <2> QED BY <2>2, <2>3
<1>3. ExitOnceWhenWhole'
  BY <1>2 DEF ExitOnceWhenWhole
<1> QED BY <1>1, <1>3 DEF ExitInv

(* A fill: an order that was not whole has one lot more.                   *)
LEMMA FillsKeepExits == ASSUME ExitInv, NEW k \in DOMAIN orders, ExchangeFills(k) PROVE ExitInv'
<1> PICK o, n : o = orders[k] /\ n = o.done + 1
  OBVIOUS
<1>1. o \in NxOrders /\ o.done \in Nat /\ n \in Nat
  BY NxOrder DEF ExitInv, LotsInv, NxOrders
<1>2. PICK m : m = [o EXCEPT !.done = n]
  OBVIOUS
<1>3. m \in NxOrders /\ m.done = n /\ m.tier = o.tier /\ n = o.done + 1
  BY <1>1, <1>2 DEF NxOrders
<1>4. /\ orders' = [orders EXCEPT ![k] = m] /\ told' = told \cup {[id |-> k, lot |-> n]}
      /\ o.done < NxLots[o.tier] /\ UNCHANGED <<day, batches, kept, exitTasks, exits>>
  BY <1>2 DEF ExchangeFills
<1>5. PICK s, t, R : s = orders /\ t = orders' /\ R = NxOrders /\ s \in Seq(R) /\ k \in DOMAIN s /\ m \in R
                     /\ Len(s) <= MaxNxOrders
  BY <1>3 DEF ExitInv, LotsInv, OrdersTyped
<1>6. t = [s EXCEPT ![k] = m]
  BY <1>4, <1>5
<1>7. t \in Seq(R) /\ DOMAIN t = DOMAIN s /\ Len(t) = Len(s) /\ t[k] = m /\ \A i \in DOMAIN s \ {k} : t[i] = s[i]
  BY <1>5, <1>6
<1>8. OrdersTyped' /\ DOMAIN orders' = DOMAIN orders
  BY <1>5, <1>7 DEF OrdersTyped
<1>9. \A i \in DOMAIN orders : orders[i].done \in Nat /\ orders'[i].done \in Nat
                               /\ orders[i].done <= orders'[i].done /\ 1 .. orders[i].done \subseteq 1 .. orders'[i].done
  <2> SUFFICES ASSUME NEW i \in DOMAIN orders
               PROVE  orders[i].done \in Nat /\ orders'[i].done \in Nat /\ orders[i].done <= orders'[i].done
    OBVIOUS
  <2>1. orders[i].done \in Nat
    BY NxOrder DEF ExitInv, LotsInv, NxOrders
  <2>2. orders'[i] = IF i = k THEN m ELSE orders[i]
    BY <1>5, <1>7
  <2> QED BY <1>1, <1>3, <2>1, <2>2
<1>10. \A S, i : LotsIn(S, i, orders) => LotsIn(S, i, orders')
  BY <1>8, <1>9 DEF LotsIn
<1>11. LotsIn({n}, k, orders')
  <2>1. 1 .. orders'[k].done = 1 .. n
    BY <1>3, <1>5, <1>7
  <2>2. n \in 1 .. n
    BY <1>1, <1>3
  <2>3. {n} \subseteq 1 .. orders'[k].done /\ k \in DOMAIN orders'
    BY <1>8, <2>1, <2>2
  <2> QED BY <2>3 DEF LotsIn
<1>12. \A x \in told' : LotsIn({x.lot}, x.id, orders')
  <2> SUFFICES ASSUME NEW x \in told' PROVE LotsIn({x.lot}, x.id, orders')
    OBVIOUS
  <2>1. CASE x \in told
    BY <1>10, <2>1 DEF ExitInv, LotsInv
  <2>2. CASE x = [id |-> k, lot |-> n]
    <3>1. x.lot = n /\ x.id = k
      BY <2>2
    <3> QED BY <1>11, <3>1
  <2> QED BY <1>4, <2>1, <2>2
<1>13. \A i \in DOMAIN orders : orders'[i].done <= NxLots[orders'[i].tier]
  <2> SUFFICES ASSUME NEW i \in DOMAIN orders PROVE orders'[i].done <= NxLots[orders'[i].tier]
    OBVIOUS
  <2>1. CASE i = k
    <3>1. orders'[i] = m /\ o.tier \in Tiers
      BY <1>1, <1>5, <1>7, <2>1 DEF NxOrders
    <3> QED BY <1>1, <1>3, <1>4, <3>1, TiersAssumption
  <2>2. CASE i # k
    BY <1>5, <1>7, <2>2 DEF ExitInv, LotsInv
  <2> QED BY <2>1, <2>2
<1>14. LotsInv'
  <2>1. \A i \in OrderIds : kept.lots[i] # {} => LotsIn(kept.lots[i], i, orders')
    BY <1>10 DEF ExitInv, LotsInv
  <2>2. \A i \in OrderIds : day.got[i] # {} => LotsIn(day.got[i], i, orders')
    BY <1>10 DEF ExitInv, LotsInv
  <2> QED BY <1>4, <1>8, <1>12, <1>13, <2>1, <2>2 DEF ExitInv, LotsInv
<1>15. IdsInv' /\ \A i : Undecided(i)' <=> Undecided(i)
  BY <1>4, <1>8 DEF ExitInv, IdsInv, Undecided
<1>16. ASSUME NEW i \in DOMAIN orders
       PROVE  exits[i] + (IF i \in exitTasks THEN 1 ELSE 0) <= (IF orders'[i].done = NxLots[orders'[i].tier] THEN 1 ELSE 0)
  <2>1. exits[i] + (IF i \in exitTasks THEN 1 ELSE 0) <= (IF orders[i].done = NxLots[orders[i].tier] THEN 1 ELSE 0)
    BY DEF ExitInv, ExitOnceWhenWhole
  <2>2. CASE i = k
    <3>1. exits[i] + (IF i \in exitTasks THEN 1 ELSE 0) <= 0
      BY <1>1, <1>4, <2>1, <2>2
    <3>2. exits[i] + (IF i \in exitTasks THEN 1 ELSE 0) \in Int
      BY DEF ExitInv, LotsInv
    <3> QED BY <3>1, <3>2
  <2>3. CASE i # k
    BY <1>5, <1>7, <2>1, <2>3
  <2> QED BY <2>2, <2>3
<1>17. ExitOnceWhenWhole'
  BY <1>4, <1>8, <1>16 DEF ExitOnceWhenWhole
<1>18. \A i \in OrderIds : Undecided(i)' => exits'[i] = 0 /\ i \notin exitTasks'
  BY <1>4, <1>15 DEF ExitInv
<1> QED BY <1>4, <1>8, <1>14, <1>15, <1>17, <1>18 DEF ExitInv

(* The exchange takes orders of a batch.                                   *)
LEMMA SendKeepsExits ==
  ASSUME ExitInv, NEW b, NEW taken, Took(b, taken), UNCHANGED <<day, told, kept, exitTasks, exits>> PROVE ExitInv'
<1>1. PICK l, n : l = Len(orders) /\ n = Len(orders') /\ l \in Nat /\ n \in Nat /\ l <= n
                  /\ DOMAIN orders = 1 .. l /\ DOMAIN orders' = 1 .. n
  BY DEF Took
<1>2. PICK c \in Batches : batches' = (batches \ {b}) \cup {c} /\ c.at = "sent" /\ c.ids = l + 1 .. n
  BY <1>1 DEF Took
<1>3. b \in batches /\ b.at = "spawned" /\ OrdersTyped'
  BY DEF Took
<1>4. \A i \in 1 .. l : orders'[i] = orders[i]
  BY <1>1 DEF Took
<1>5. \A i \in 1 .. n : i \in 1 .. l \/ i \in l + 1 .. n
  BY <1>1
<1>6. \A i \in l + 1 .. n : orders'[i].done = 0 /\ i \in 1 .. n /\ i \notin 1 .. l
  BY <1>1 DEF Took
<1>7. \A i \in l + 1 .. n : orders'[i].done <= NxLots[orders'[i].tier]
  <2> SUFFICES ASSUME NEW i \in l + 1 .. n PROVE 0 <= NxLots[orders'[i].tier]
    BY <1>6
  <2>1. b.tiers \subseteq Tiers /\ taken \subseteq b.tiers
    BY <1>3 DEF Took, ExitInv, IdsInv, Batches
  <2>2. orders'[i].tier \in Tiers
    BY <1>1, <2>1 DEF Took
  <2> QED BY <2>2, TiersAssumption
<1>8. \A S, i : LotsIn(S, i, orders) => LotsIn(S, i, orders')
  BY <1>1, <1>4 DEF LotsIn
<1>9. LotsInv'
  <2>1. \A i \in OrderIds : kept.lots[i] # {} => LotsIn(kept.lots[i], i, orders')
    BY <1>8 DEF ExitInv, LotsInv
  <2>2. \A i \in OrderIds : day.got[i] # {} => LotsIn(day.got[i], i, orders')
    BY <1>8 DEF ExitInv, LotsInv
  <2>3. \A m \in told : LotsIn({m.lot}, m.id, orders')
    BY <1>8 DEF ExitInv, LotsInv
  <2>4. \A i \in 1 .. n : orders'[i].done <= NxLots[orders'[i].tier]
    BY <1>1, <1>4, <1>5, <1>7 DEF ExitInv, LotsInv
  <2>5. DOMAIN orders' \subseteq OrderIds
    <3>1. n <= MaxNxOrders
      BY <1>1, <1>3 DEF OrdersTyped
    <3> QED BY <1>1, <3>1, TiersAssumption DEF OrderIds
  <2> QED BY <1>1, <1>3, <2>1, <2>2, <2>3, <2>4, <2>5 DEF ExitInv, LotsInv
<1>10. b.ids = {}
  BY <1>3 DEF ExitInv, IdsInv
<1>11. IdsInv'
  <2>1. \A a \in batches' : a.ids \subseteq 1 .. n /\ (a.at = "spawned" => a.ids = {}) /\ a.ids \cap day.armed = {}
    BY <1>1, <1>2, <1>6 DEF ExitInv, IdsInv
  <2>2. \A a \in batches : a.ids \cap c.ids = {}
    BY <1>1, <1>2, <1>6 DEF ExitInv, IdsInv
  <2>3. \A a, e \in batches' : a # e => a.ids \cap e.ids = {}
    <3> SUFFICES ASSUME NEW a \in batches', NEW e \in batches', a # e PROVE a.ids \cap e.ids = {}
      OBVIOUS
    <3>1. CASE a = c
      BY <1>2, <2>2, <3>1
    <3>2. CASE e = c
      BY <1>2, <2>2, <3>2
    <3>3. CASE a # c /\ e # c
      BY <1>2, <3>3 DEF ExitInv, IdsInv
    <3> QED BY <3>1, <3>2, <3>3
  <2>4. batches' \subseteq Batches /\ day.armed \subseteq 1 .. n
    BY <1>1, <1>2 DEF ExitInv, IdsInv
  <2> QED BY <1>1, <2>1, <2>3, <2>4 DEF IdsInv
<1>12. \A i : Undecided(i)' => Undecided(i)
  BY <1>1, <1>2, <1>6, <1>10 DEF Undecided
<1>13. ASSUME NEW i \in 1 .. n
       PROVE  exits[i] + (IF i \in exitTasks THEN 1 ELSE 0) <= (IF orders'[i].done = NxLots[orders'[i].tier] THEN 1 ELSE 0)
  <2>1. CASE i \in 1 .. l
    BY <1>1, <1>4, <2>1 DEF ExitInv, ExitOnceWhenWhole
  <2>2. CASE i \notin 1 .. l
    <3>1. i \in OrderIds /\ Undecided(i)
      <4>1. n <= MaxNxOrders
        BY <1>1, <1>3 DEF OrdersTyped
      <4> QED BY <1>1, <2>2, <4>1, TiersAssumption DEF Undecided, OrderIds
    <3>2. exits[i] = 0 /\ i \notin exitTasks
      BY <3>1 DEF ExitInv
    <3> QED BY <3>2
  <2> QED BY <2>1, <2>2
<1>14. ExitOnceWhenWhole'
  BY <1>1, <1>13 DEF ExitOnceWhenWhole
<1>15. exitTasks \subseteq DOMAIN orders'
  BY <1>1 DEF ExitInv
<1>16. \A i \in OrderIds : Undecided(i)' => exits[i] = 0 /\ i \notin exitTasks
  BY <1>12 DEF ExitInv
<1> QED BY <1>9, <1>11, <1>14, <1>15, <1>16 DEF ExitInv

(* What an answer makes of the orders, the day and what was kept.          *)
Answered(b, wait, armed) ==
  /\ SameOrders /\ \A k \in DOMAIN orders : orders'[k].done = orders[k].done
  /\ wait \subseteq b.ids /\ armed \subseteq wait \ {k \in wait : Whole(k, EarlyOf(k))}
  /\ exitTasks' = exitTasks \cup {k \in wait : Whole(k, EarlyOf(k))}
  /\ kept'.lots \in [OrderIds -> SUBSET Nat]
  /\ \A k \in OrderIds : kept'.lots[k] = {} \/ kept'.lots[k] = EarlyOf(k)
  /\ day'.fired = day.fired /\ day'.armed = day.armed \cup armed
  /\ day'.got \in [OrderIds -> SUBSET Nat]
  /\ \A k \in OrderIds : day'.got[k] = day.got[k] \/ (k \in armed /\ day'.got[k] = EarlyOf(k))
  /\ batches' = batches \ {b} /\ UNCHANGED <<days, told, exits, usable>>

LEMMA AnswersAre ==
  ASSUME ExitInv, NEW b \in batches, NEW raised \in BOOLEAN, Answer(b, raised)
  PROVE  \E wait, armed : Answered(b, wait, armed)
<1> PICK wait : wait = IF raised THEN {} ELSE {k \in b.ids : orders[k].tier \in AutoTiers}
  OBVIOUS
<1> PICK whole : whole = {k \in wait : Whole(k, EarlyOf(k))}
  OBVIOUS
<1> PICK armed : armed = IF b.day = days THEN wait \ whole ELSE {}
  OBVIOUS
<1> PICK got : got = [k \in OrderIds |-> IF k \in armed THEN EarlyOf(k) ELSE day.got[k]]
  OBVIOUS
<1> PICK d : d = [day EXCEPT !.armed = @ \cup armed, !.got = got]
  OBVIOUS
<1>1. /\ kept'.lots = [k \in OrderIds |-> IF k \in wait THEN {} ELSE EarlyOf(k)]
      /\ exitTasks' = exitTasks \cup whole
      /\ orders' = [k \in DOMAIN orders |-> IF k \in b.ids /\ ~raised
                      THEN [orders[k] EXCEPT !.answered = TRUE] ELSE orders[k]]
      /\ day' = IF ~raised /\ b.day = days THEN AfterEnd(d) ELSE day
      /\ batches' = batches \ {b} /\ UNCHANGED <<days, told, exits, usable>>
  BY DEF Answer
<1>2. wait \subseteq b.ids /\ armed \subseteq wait \ whole /\ b.ids \subseteq DOMAIN orders
  BY DEF ExitInv, IdsInv
<1>3. d.fired = day.fired /\ d.armed = day.armed \cup armed /\ d.got = got
  OBVIOUS
<1>4. AfterEnd(d).fired = d.fired /\ AfterEnd(d).armed = d.armed /\ AfterEnd(d).got = d.got
  BY DEF AfterEnd
<1>5. ~(~raised /\ b.day = days) => armed = {}
  OBVIOUS
<1>6. day'.fired = day.fired /\ day'.armed = day.armed \cup armed
  BY <1>1, <1>3, <1>4, <1>5
<1>7. /\ day.got \in [OrderIds -> SUBSET Nat] /\ kept.lots \in [OrderIds -> SUBSET Nat]
  BY DEF ExitInv, LotsInv
<1>8. \A k \in OrderIds : EarlyOf(k) \in SUBSET Nat
  BY <1>7 DEF EarlyOf
<1>9. got \in [OrderIds -> SUBSET Nat] /\ \A k \in OrderIds : got[k] = day.got[k] \/ (k \in armed /\ got[k] = EarlyOf(k))
  BY <1>7, <1>8
<1>10. day'.got = got \/ day'.got = day.got
  BY <1>1, <1>3, <1>4
<1>11. /\ day'.got \in [OrderIds -> SUBSET Nat]
       /\ \A k \in OrderIds : day'.got[k] = day.got[k] \/ (k \in armed /\ day'.got[k] = EarlyOf(k))
  BY <1>7, <1>9, <1>10
<1>12. /\ kept'.lots \in [OrderIds -> SUBSET Nat]
       /\ \A k \in OrderIds : kept'.lots[k] = {} \/ kept'.lots[k] = EarlyOf(k)
  BY <1>1, <1>8
<1>13. ASSUME NEW k \in DOMAIN orders
       PROVE  /\ orders'[k] \in NxOrders /\ orders'[k].tier = orders[k].tier /\ orders'[k].day = orders[k].day
              /\ orders'[k].done = orders[k].done
  <2>1. orders[k] \in NxOrders
    BY NxOrder DEF ExitInv, LotsInv
  <2>2. PICK o : o = [orders[k] EXCEPT !.answered = TRUE]
    OBVIOUS
  <2>3. /\ o \in NxOrders /\ o.tier = orders[k].tier /\ o.day = orders[k].day /\ o.done = orders[k].done
    BY <2>1, <2>2 DEF NxOrders
  <2>4. orders'[k] = o \/ orders'[k] = orders[k]
    BY <1>1, <2>2
  <2> QED BY <2>1, <2>3, <2>4
<1>14. DOMAIN orders' = DOMAIN orders
  BY <1>1
<1>15. OrdersTyped'
  <2>1. PICK s, t, R, n : /\ s = orders /\ t = orders' /\ R = NxOrders /\ s \in Seq(R) /\ Len(s) = n /\ n \in Nat
                          /\ DOMAIN s = 1 .. n /\ n <= MaxNxOrders
    BY DEF ExitInv, LotsInv, OrdersTyped
  <2>2. t \in [1 .. n -> R]
    <3>1. \A k \in 1 .. n : t[k] \in R
      BY <1>13, <2>1
    <3>2. t = [k \in 1 .. n |-> t[k]]
      BY <1>1, <2>1
    <3> QED BY <3>1, <3>2
  <2>3. t \in Seq(R) /\ Len(t) = n
    BY <2>1, <2>2
  <2> QED BY <2>1, <2>3 DEF OrdersTyped
<1>16. SameOrders
  BY <1>13, <1>14, <1>15 DEF SameOrders
<1>17. armed \subseteq wait \ {k \in wait : Whole(k, EarlyOf(k))}
       /\ exitTasks' = exitTasks \cup {k \in wait : Whole(k, EarlyOf(k))}
  BY <1>1, <1>2, Zenon
<1>18. \A k \in DOMAIN orders : orders'[k].done = orders[k].done
  BY <1>13
<1>19. batches' = batches \ {b} /\ UNCHANGED <<days, told, exits, usable>> /\ wait \subseteq b.ids
  BY <1>1, <1>2, Zenon
<1>20. Answered(b, wait, armed)
  BY <1>6, <1>11, <1>12, <1>16, <1>17, <1>18, <1>19, Zenon DEF Answered
<1> QED BY <1>20, Zenon

LEMMA AnsweredKeepsExits ==
  ASSUME ExitInv, NEW b \in batches, NEW wait, NEW armed, Answered(b, wait, armed) PROVE ExitInv'
<1> PICK W : W = {k \in wait : Whole(k, EarlyOf(k))}
  OBVIOUS
<1>1. /\ OrdersTyped' /\ DOMAIN orders' = DOMAIN orders
      /\ \A k \in DOMAIN orders : orders'[k].done = orders[k].done /\ orders'[k].tier = orders[k].tier
  BY DEF Answered, SameOrders
<1>2. /\ W \subseteq b.ids /\ armed \subseteq b.ids \ W /\ b.ids \subseteq DOMAIN orders
      /\ b.ids \cap day.armed = {} /\ DOMAIN orders \subseteq OrderIds
  BY DEF Answered, ExitInv, IdsInv, LotsInv
<1>3. \A k \in OrderIds : EarlyOf(k) # {} => LotsIn(EarlyOf(k), k, orders)
  BY DEF ExitInv, LotsInv, EarlyOf
<1>4. \A S, k : LotsIn(S, k, orders) => LotsIn(S, k, orders')
  BY <1>1 DEF LotsIn
<1>5. LotsInv'
  <2>1. \A k \in OrderIds : kept'.lots[k] # {} => LotsIn(kept'.lots[k], k, orders')
    BY <1>3, <1>4 DEF Answered
  <2>2. \A k \in OrderIds : day'.got[k] # {} => LotsIn(day'.got[k], k, orders')
    <3>1. \A k \in OrderIds : day.got[k] # {} => LotsIn(day.got[k], k, orders)
      BY DEF ExitInv, LotsInv
    <3> QED BY <1>3, <1>4, <3>1 DEF Answered
  <2>3. \A m \in told' : LotsIn({m.lot}, m.id, orders')
    BY <1>4 DEF Answered, ExitInv, LotsInv
  <2>4. \A k \in DOMAIN orders' : orders'[k].done <= NxLots[orders'[k].tier]
    BY <1>1 DEF ExitInv, LotsInv
  <2>5. kept'.lots \in [OrderIds -> SUBSET Nat] /\ day'.got \in [OrderIds -> SUBSET Nat]
    BY DEF Answered
  <2> QED BY <1>1, <1>2, <2>1, <2>2, <2>3, <2>4, <2>5 DEF LotsInv
<1>6. batches' = batches \ {b} /\ day'.armed = day.armed \cup armed /\ exitTasks' = exitTasks \cup W /\ exits' = exits
  BY DEF Answered
<1>7. \A c \in batches \ {b} : c.ids \cap b.ids = {}
  BY DEF ExitInv, IdsInv
<1>8. IdsInv'
  BY <1>1, <1>2, <1>6, <1>7 DEF ExitInv, IdsInv
<1>9. \A k \in W : Undecided(k) /\ ~Undecided(k)' /\ NxWhole(k)
  <2> SUFFICES ASSUME NEW k \in W PROVE Undecided(k) /\ ~Undecided(k)' /\ NxWhole(k)
    OBVIOUS
  <2>1. Undecided(k)
    BY <1>2 DEF Undecided
  <2>2. ~Undecided(k)'
    BY <1>1, <1>2, <1>6, <1>7 DEF Undecided
  <2>3. NxWhole(k)
    <3>1. k \in DOMAIN orders /\ Whole(k, EarlyOf(k))
      BY <1>2
    <3>2. EarlyOf(k) \subseteq LotsOf(k)
      BY <1>2, <1>3, <3>1 DEF LotsIn, LotsOf
    <3> QED BY <3>1, <3>2, WholeIsFilled DEF ExitInv
  <2> QED BY <2>1, <2>2, <2>3
<1>10. \A k \in OrderIds : Undecided(k)' => Undecided(k)
  BY <1>1, <1>2, <1>6 DEF Undecided
<1> QED BY <1>1, <1>2, <1>5, <1>6, <1>8, <1>9, <1>10, ExitsDecided

(* A notice: a lot more is counted, or is kept until the answer comes.     *)
LEMMA KeptGrows ==
  ASSUME ExitInv, NEW k \in OrderIds, NEW lot \in Nat, Keep(k, lot)
  PROVE  /\ kept'.lots \in [OrderIds -> SUBSET Nat]
         /\ \A i \in OrderIds : \/ kept'.lots[i] = {} \/ kept'.lots[i] = kept.lots[i]
                                \/ i = k /\ kept'.lots[i] = kept.lots[i] \cup {lot}
<1> PICK more : more = kept.lots[k] \cup {lot}
  OBVIOUS
<1> PICK lots : lots = [kept.lots EXCEPT ![k] = more]
  OBVIOUS
<1> PICK order : order = IF EarlyOf(k) = {} THEN Append(kept.order, k) ELSE kept.order
  OBVIOUS
<1> PICK h : h = Head(order)
  OBVIOUS
<1>1. kept.lots \in [OrderIds -> SUBSET Nat] /\ more \in SUBSET Nat
  BY DEF ExitInv, LotsInv
<1>2. lots \in [OrderIds -> SUBSET Nat] /\ \A i \in OrderIds : lots[i] = IF i = k THEN more ELSE kept.lots[i]
  BY <1>1
<1>3. kept' = IF Len(order) > EarlyKeep THEN [lots |-> [lots EXCEPT ![h] = {}], order |-> Tail(order)]
              ELSE [lots |-> lots, order |-> order]
  BY DEF Keep, EarlyOf
<1>4. kept'.lots = lots \/ kept'.lots = [lots EXCEPT ![h] = {}]
  BY <1>3
<1>5. CASE kept'.lots = lots
  BY <1>2, <1>5
<1>6. CASE kept'.lots = [lots EXCEPT ![h] = {}]
  BY <1>2, <1>6
<1> QED BY <1>4, <1>5, <1>6

LEMMA NoticeIsCounted ==
  ASSUME ExitInv, NEW m \in told, NEW repeat \in BOOLEAN, Notice(m, repeat), m.id \in day.armed
  PROVE  ExitInv'
<1> PICK k, lot : k = m.id /\ lot = m.lot
  OBVIOUS
<1> PICK S : S = day.got[k] \cup {lot}
  OBVIOUS
<1> PICK W : W = IF lot \notin day.got[k] /\ Whole(k, S) THEN {k} ELSE {}
  OBVIOUS
<1> PICK A : A = IF lot \notin day.got[k] /\ Whole(k, S) THEN day.armed \ {k} ELSE day.armed
  OBVIOUS
<1>1. /\ day' = [day EXCEPT !.got[k] = S, !.armed = A] /\ exitTasks' = exitTasks \cup W
      /\ told' \subseteq told /\ UNCHANGED <<orders, batches, exits, kept>>
  BY DEF Notice
<1>2. /\ k \in DOMAIN orders /\ k \in OrderIds /\ k \in day.armed /\ LotsIn({lot}, k, orders)
      /\ day.got \in [OrderIds -> SUBSET Nat]
  BY DEF ExitInv, LotsInv, IdsInv
<1>3. S \subseteq LotsOf(k) /\ S \in SUBSET Nat
  <2>1. day.got[k] \subseteq LotsOf(k)
    BY <1>2 DEF ExitInv, LotsInv, LotsIn, LotsOf
  <2>2. lot \in LotsOf(k)
    BY <1>2 DEF LotsIn, LotsOf
  <2>3. LotsOf(k) \subseteq Nat
    BY DEF LotsOf
  <2> QED BY <2>1, <2>2, <2>3
<1>4. day'.armed = A \/ day'.armed = day.armed
  BY <1>1
<1>5. PICK got : got = [day.got EXCEPT ![k] = S] /\ (day'.got = got \/ day'.got = day.got)
  BY <1>1
<1>6. day'.got \in [OrderIds -> SUBSET Nat]
      /\ \A i \in OrderIds : day'.got[i] = day.got[i] \/ (i = k /\ day'.got[i] = S)
  BY <1>2, <1>3, <1>5
<1>7. LotsInv'
  <2>1. \A i \in OrderIds : day'.got[i] # {} => LotsIn(day'.got[i], i, orders)
    <3>1. LotsIn(S, k, orders)
      BY <1>2, <1>3 DEF LotsIn, LotsOf
    <3>2. \A i \in OrderIds : day.got[i] # {} => LotsIn(day.got[i], i, orders)
      BY DEF ExitInv, LotsInv
    <3> QED BY <1>6, <3>1, <3>2
  <2>2. \A x \in told' : LotsIn({x.lot}, x.id, orders)
    BY <1>1 DEF ExitInv, LotsInv
  <2> QED BY <1>1, <1>6, <2>1, <2>2 DEF ExitInv, LotsInv, OrdersTyped
<1>8. IdsInv'
  BY <1>1, <1>4 DEF ExitInv, IdsInv
<1>9. W \subseteq {k} /\ (W # {} => Whole(k, S) /\ A = day.armed \ {k})
  OBVIOUS
<1>10. W # {} => NxWhole(k)
  BY <1>2, <1>3, <1>9, WholeIsFilled DEF ExitInv
<1>11. day'.armed = A
  BY <1>1
<1>12. Undecided(k)
  BY <1>2 DEF Undecided
<1>13. W # {} => ~Undecided(k)'
  BY <1>1, <1>2, <1>9, <1>11 DEF Undecided, ExitInv, IdsInv
<1>14. \A i \in OrderIds : Undecided(i)' => Undecided(i)
  BY <1>1, <1>4 DEF Undecided
<1>15. W \subseteq DOMAIN orders /\ \A i \in W : Undecided(i) /\ ~Undecided(i)' /\ NxWhole(i)
  BY <1>2, <1>9, <1>10, <1>12, <1>13
<1> QED BY <1>1, <1>7, <1>8, <1>14, <1>15, ExitsDecided

LEMMA NoticeIsKept ==
  ASSUME ExitInv, NEW m \in told, NEW repeat \in BOOLEAN, Notice(m, repeat), m.id \notin day.armed
  PROVE  ExitInv'
<1> PICK k, lot : k = m.id /\ lot = m.lot
  OBVIOUS
<1>1. k \in DOMAIN orders /\ k \in OrderIds /\ LotsIn({lot}, k, orders)
  BY DEF ExitInv, LotsInv, LotsIn
<1>2. lot \in LotsOf(k) /\ LotsOf(k) \subseteq Nat
  BY <1>1 DEF LotsIn, LotsOf
<1>3. /\ Keep(k, lot) /\ told' \subseteq told
      /\ UNCHANGED <<orders, batches, exits, day, exitTasks>>
  BY DEF Notice
<1>4. /\ kept'.lots \in [OrderIds -> SUBSET Nat]
      /\ \A i \in OrderIds : \/ kept'.lots[i] = {} \/ kept'.lots[i] = kept.lots[i]
                             \/ i = k /\ kept'.lots[i] = kept.lots[i] \cup {lot}
  BY <1>1, <1>2, <1>3, KeptGrows
<1>5. \A i \in OrderIds : kept.lots[i] # {} => LotsIn(kept.lots[i], i, orders)
  BY DEF ExitInv, LotsInv
<1>6. \A i \in OrderIds : kept'.lots[i] # {} => LotsIn(kept'.lots[i], i, orders)
  <2> SUFFICES ASSUME NEW i \in OrderIds, kept'.lots[i] # {} PROVE LotsIn(kept'.lots[i], i, orders)
    OBVIOUS
  <2>1. CASE kept'.lots[i] = kept.lots[i]
    BY <1>5, <2>1
  <2>2. CASE i = k /\ kept'.lots[i] = kept.lots[i] \cup {lot}
    <3>1. kept.lots[k] \subseteq 1 .. orders[k].done
      BY <1>1, <1>5 DEF LotsIn
    <3>2. {lot} \subseteq 1 .. orders[k].done
      BY <1>1 DEF LotsIn
    <3> QED BY <1>1, <2>2, <3>1, <3>2 DEF LotsIn
  <2> QED BY <1>4, <2>1, <2>2
<1>7. \A x \in told' : LotsIn({x.lot}, x.id, orders)
  BY <1>3 DEF ExitInv, LotsInv
<1>8. LotsInv'
  BY <1>3, <1>4, <1>6, <1>7 DEF ExitInv, LotsInv, OrdersTyped
<1>9. IdsInv' /\ \A i : Undecided(i)' => Undecided(i)
  BY <1>3 DEF ExitInv, IdsInv, Undecided
<1> QED BY <1>3, <1>8, <1>9 DEF ExitInv, ExitOnceWhenWhole

-----------------------------------------------------------------------------
(* All that the openings keep.                                             *)
NxInv == usable \subseteq Tiers /\ FiredOnce /\ ExitInv

(* The orders that stay keep their tier and day, and none is added.        *)
LEMMA FillsAreOfOrders == ASSUME ExitInv, NEW k \in DOMAIN orders, ExchangeFills(k) PROVE SameOrders
<1> PICK o, n : o = orders[k] /\ n = o.done + 1
  OBVIOUS
<1> PICK m : m = [o EXCEPT !.done = n]
  OBVIOUS
<1>1. o \in NxOrders /\ m \in NxOrders /\ m.tier = o.tier /\ m.day = o.day
  BY NxOrder DEF ExitInv, LotsInv, NxOrders
<1>2. orders' = [orders EXCEPT ![k] = m]
  BY DEF ExchangeFills
<1>3. PICK s, t, R : s = orders /\ t = orders' /\ R = NxOrders /\ s \in Seq(R) /\ k \in DOMAIN s /\ m \in R
                     /\ Len(s) <= MaxNxOrders
  BY <1>1 DEF ExitInv, LotsInv, OrdersTyped
<1>4. t = [s EXCEPT ![k] = m]
  BY <1>2, <1>3
<1>5. t \in Seq(R) /\ DOMAIN t = DOMAIN s /\ Len(t) = Len(s) /\ t[k] = m /\ \A i \in DOMAIN s \ {k} : t[i] = s[i]
  BY <1>3, <1>4
<1>6. OrdersTyped' /\ DOMAIN orders' = DOMAIN orders
  BY <1>3, <1>5 DEF OrdersTyped
<1>7. \A i \in DOMAIN orders : orders'[i].tier = orders[i].tier /\ orders'[i].day = orders[i].day
  <2> SUFFICES ASSUME NEW i \in DOMAIN orders
               PROVE  orders'[i].tier = orders[i].tier /\ orders'[i].day = orders[i].day
    OBVIOUS
  <2>1. CASE i = k
    BY <1>1, <1>3, <1>5, <2>1
  <2>2. CASE i # k
    BY <1>3, <1>5, <2>2
  <2> QED BY <2>1, <2>2
<1> QED BY <1>6, <1>7 DEF SameOrders

LEMMA OrdersStand == ASSUME FiredOnce, UNCHANGED orders PROVE SameOrders
BY DEF FiredOnce, OrdersTyped, SameOrders

LEMMA NxInitInv == NxInit => NxInv
<1> SUFFICES ASSUME NxInit PROVE NxInv
  OBVIOUS
<1>1. /\ usable = ReadyTiers /\ day = Fresh /\ days = 1 /\ batches = {} /\ orders = << >> /\ told = {}
      /\ kept = NothingKept /\ exitTasks = {} /\ exits = [k \in OrderIds |-> 0]
  BY DEF NxInit
<1>2. usable \subseteq Tiers
  BY <1>1, TiersAssumption
<1>3. OrdersTyped /\ DOMAIN orders = {}
  <2>1. MaxNxOrders \in Nat /\ Len(<< >>) = 0 /\ DOMAIN << >> = {}
    BY TiersAssumption
  <2>2. << >> \in Seq(NxOrders)
    OBVIOUS
  <2> QED BY <1>1, <2>1, <2>2 DEF OrdersTyped
<1>4. FiredOnce
  BY <1>1, <1>3 DEF FiredOnce, TierFiresOnce
<1>5. LotsInv
  <2>1. kept.lots \in [OrderIds -> SUBSET Nat] /\ \A k \in OrderIds : kept.lots[k] = {}
    BY <1>1 DEF NothingKept
  <2>2. day.got \in [OrderIds -> SUBSET Nat] /\ \A k \in OrderIds : day.got[k] = {}
    BY <1>1 DEF Fresh
  <2> QED BY <1>1, <1>3, <2>1, <2>2 DEF LotsInv
<1>6. IdsInv
  BY <1>1 DEF IdsInv, Fresh
<1>7. ExitInv
  BY <1>1, <1>3, <1>5, <1>6 DEF ExitInv, ExitOnceWhenWhole
<1> QED BY <1>2, <1>4, <1>7 DEF NxInv

-----------------------------------------------------------------------------
(* A quote, of NXT or another.                                             *)
LEMMA JudgingKeeps ==
  ASSUME NxInv, NEW d0, d0.fired = day.fired, d0.armed = day.armed, d0.got = day.got, NEW met, NEW lvl,
         Evaluate(d0, met, lvl),
         UNCHANGED <<usable, days, orders, told, kept, exitTasks, exits>>
  PROVE  NxInv'
<1>1. PICK go : Takes(d0, go)
  BY EvaluateTakes DEF NxInv
<1>2. Takes(day, go)
  BY <1>1 DEF Takes
<1>3. FiredOnce'
  BY <1>2, TakesKeeps DEF NxInv
<1>4. day'.armed = day.armed /\ day'.got = day.got
  <2> PICK d, took : d = AfterEnd(Captured(d0, lvl))
                     /\ took = {t \in Judge(d, met) : ~Blocked(d, lvl, BlockOf(t))}
    OBVIOUS
  <2> PICK e : e = [d EXCEPT !.fired = @ \cup took]
    OBVIOUS
  <2>1. d.armed = d0.armed /\ d.got = d0.got
    BY DEF AfterEnd, Captured
  <2>2. day' = d \/ day' = e
    BY DEF Evaluate
  <2>3. e.armed = d.armed /\ e.got = d.got
    OBVIOUS
  <2> QED BY <2>1, <2>2, <2>3
<1>5. batches' \subseteq Batches /\ \A b \in batches' : b \in batches \/ b.ids = {}
  <2>1. batches' \subseteq Batches
    BY <1>3 DEF FiredOnce
  <2> QED BY <1>2, <2>1 DEF Takes
<1>6. ExitInv'
  BY <1>4, <1>5, ExitsStand DEF NxInv
<1> QED BY <1>3, <1>6 DEF NxInv

(* Nothing of the orders, the batches or what was told changes.            *)
LEMMA DayTurnsKeeps ==
  ASSUME NxInv, UNCHANGED <<batches, orders, told, kept, exitTasks, exits>>, usable' \subseteq Tiers,
         \/ days' = days /\ day'.fired = day.fired /\ day'.armed = day.armed /\ day'.got = day.got
         \/ days' = days + 1 /\ day' = Fresh
  PROVE  NxInv'
<1>1. FiredOnce'
  BY OrdersStand, NothingFires DEF NxInv
<1>2. ExitInv'
  BY ExitsStand DEF NxInv, ExitInv, IdsInv
<1> QED BY <1>1, <1>2 DEF NxInv

LEMMA FireStepKeeps == ASSUME NxInv, FireStep PROVE NxInv'
<1>1. ASSUME NEW b \in batches, NEW raised \in BOOLEAN, Answer(b, raised) PROVE NxInv'
  <2>1. PICK wait, armed : Answered(b, wait, armed)
    BY <1>1, AnswersAre DEF NxInv
  <2>2. ExitInv'
    BY <2>1, AnsweredKeepsExits DEF NxInv
  <2>3. FiredOnce'
    <3>1. SameOrders /\ batches' \subseteq batches /\ days' = days /\ day'.fired = day.fired
      BY <2>1 DEF Answered
    <3> QED BY <3>1, NothingFires DEF NxInv
  <2>4. usable' \subseteq Tiers
    BY <2>1 DEF Answered, NxInv
  <2> QED BY <2>2, <2>3, <2>4 DEF NxInv
<1>2. ASSUME NEW b \in batches, NEW taken, Send(b, taken) PROVE NxInv'
  <2>1. Took(b, taken)
    BY <1>2, SendTakes DEF NxInv, FiredOnce
  <2>2. UNCHANGED <<day, days, told, kept, exitTasks, exits, usable>>
    BY <1>2 DEF Send
  <2>3. FiredOnce' /\ ExitInv'
    BY <2>1, <2>2, SendKeepsFired, SendKeepsExits DEF NxInv
  <2> QED BY <2>2, <2>3 DEF NxInv
<1> QED BY <1>1, <1>2 DEF FireStep

LEMMA NoticeKeeps == ASSUME NxInv, NEW m \in told, NEW repeat \in BOOLEAN, Notice(m, repeat) PROVE NxInv'
<1>1. ExitInv'
  BY NoticeIsCounted, NoticeIsKept DEF NxInv
<1>2. UNCHANGED <<orders, batches, days, usable>>
  BY DEF Notice
<1>3. day'.fired = day.fired
  <2> PICK got, A : /\ got = [day.got EXCEPT ![m.id] = day.got[m.id] \cup {m.lot}]
                    /\ A = IF m.lot \notin day.got[m.id] /\ Whole(m.id, day.got[m.id] \cup {m.lot})
                             THEN day.armed \ {m.id} ELSE day.armed
    OBVIOUS
  <2> PICK d : d = [day EXCEPT !.got = got, !.armed = A]
    OBVIOUS
  <2>1. day' = day \/ day' = d
    BY DEF Notice
  <2>2. d.fired = day.fired
    OBVIOUS
  <2> QED BY <2>1, <2>2
<1>4. FiredOnce'
  BY <1>2, <1>3, OrdersStand, NothingFires DEF NxInv
<1> QED BY <1>1, <1>2, <1>4 DEF NxInv

LEMMA NxtCommandKeeps == ASSUME NxInv, NxtCommand PROVE NxInv'
<1>1. CASE \E b \in Blocks : SwitchRun(b)
  BY <1>1, DayTurnsKeeps DEF SwitchRun, NxInv
<1>2. CASE \E t \in Tiers : FillInTier(t)
  <2> PICK t \in Tiers : FillInTier(t)
    BY <1>2
  <2>1. usable' \subseteq Tiers /\ UNCHANGED <<batches, orders, told, kept, exitTasks, exits, day, days>>
    BY DEF FillInTier, NxInv
  <2> QED BY <2>1, DayTurnsKeeps
<1>3. CASE \E t \in OpenTimes : SetOpen(t)
  BY <1>3, DayTurnsKeeps DEF SetOpen, NxInv
<1> QED BY <1>1, <1>2, <1>3 DEF NxtCommand

LEMMA NxStep == ASSUME NxInv, [NxNext]_nxVars PROVE NxInv'
<1>1. CASE \E met \in SUBSET usable, lvl \in Levels : NxtQuote(met, lvl)
  <2> PICK met \in SUBSET usable, lvl \in Levels : NxtQuote(met, lvl)
    BY <1>1
  <2> PICK first : first = (day.t0 = -1 /\ ~day.rejected /\ clock >= open)
    OBVIOUS
  <2> PICK d0 : d0 = CASE first /\ clock <= open + OpenGrace -> [day EXCEPT !.t0 = clock]
                       [] first /\ clock > open + OpenGrace -> [day EXCEPT !.rejected = TRUE]
                       [] OTHER -> day
    OBVIOUS
  <2>1. d0.fired = day.fired /\ d0.armed = day.armed /\ d0.got = day.got
    OBVIOUS
  <2>2. Evaluate(d0, met, lvl) /\ UNCHANGED <<usable, days, orders, told, kept, exitTasks, exits>>
    BY DEF NxtQuote
  <2> QED BY <2>1, <2>2, JudgingKeeps
<1>2. CASE \E met \in SUBSET usable, lvl \in Levels : OtherQuote(met, lvl)
  BY <1>2, JudgingKeeps DEF OtherQuote
<1>3. CASE \E lvl \in Levels : Snapshot(lvl)
  <2> PICK lvl \in Levels : Snapshot(lvl)
    BY <1>3
  <2>1. day' = AfterEnd(Captured(day, lvl))
        /\ UNCHANGED <<usable, days, batches, orders, told, kept, exitTasks, exits>>
    BY DEF Snapshot
  <2>2. day'.fired = day.fired /\ day'.armed = day.armed /\ day'.got = day.got
    BY <2>1 DEF AfterEnd, Captured
  <2> QED BY <2>1, <2>2, DayTurnsKeeps DEF NxInv
<1>4. CASE Second \/ Midnight
  BY <1>4, DayTurnsKeeps DEF Second, Midnight, NxInv
<1>5. CASE NxtCommand
  BY <1>5, NxtCommandKeeps
<1>6. CASE FireStep
  BY <1>6, FireStepKeeps
<1>7. CASE ExitStep
  <2> PICK k : PlaceExit(k)
    BY <1>7 DEF ExitStep
  <2>1. ExitInv' /\ UNCHANGED <<orders, batches, day, days, usable>>
    BY ExitPlaced DEF NxInv, PlaceExit
  <2>2. FiredOnce'
    BY <2>1, OrdersStand, NothingFires DEF NxInv
  <2> QED BY <2>1, <2>2 DEF NxInv
<1>8. CASE Told \/ \E m \in told : Notice(m, TRUE)
  BY <1>8, NoticeKeeps DEF Told
<1>9. CASE \E k \in DOMAIN orders : ExchangeFills(k)
  <2> PICK k \in DOMAIN orders : ExchangeFills(k)
    BY <1>9
  <2>1. ExitInv' /\ SameOrders /\ UNCHANGED <<batches, day, days, usable>>
    BY FillsKeepExits, FillsAreOfOrders DEF NxInv, ExchangeFills
  <2>2. FiredOnce'
    BY <2>1, NothingFires DEF NxInv
  <2> QED BY <2>1, <2>2 DEF NxInv
<1>10. CASE UNCHANGED nxVars
  BY <1>10, DayTurnsKeeps DEF nxVars, NxInv
<1> QED BY <1>1, <1>2, <1>3, <1>4, <1>5, <1>6, <1>7, <1>8, <1>9, <1>10 DEF NxNext

-----------------------------------------------------------------------------
(***************************************************************************)
(* Nothing acts twice.                                                     *)
(***************************************************************************)
(* What a step of the run is to the other strategies: theirs, or none.     *)
LEMMA OtherStepsOfTheRun ==
  ASSUME [MCNext]_mcVars
  PROVE  /\ [AmNext]_amVars /\ [NxNext]_nxVars /\ [FaNext]_faVars /\ [PgNext]_pgVars
         /\ [TgNext]_tgVars
<1>1. CASE UNCHANGED mcVars
  BY <1>1 DEF mcVars
<1>2. CASE Closing(AuNext) \/ Notices(\E m \in Markets, c \in JifCodes : Jif(m, c))
             \/ Rehearsing(ScNext) \/ Showing(SsNext)
  BY <1>2 DEF Closing, Notices, Rehearsing, Showing
<1>3. CASE Amending(AmNext)
  BY <1>3 DEF Amending
<1>4. CASE Opening(NxNext)
  BY <1>4 DEF Opening
<1>5. CASE FxHedging(FaNext)
  BY <1>5 DEF FxHedging
<1>6. CASE Pegging(PgNext)
  BY <1>6 DEF Pegging
<1>7. CASE Chatting(TgNext)
  BY <1>7 DEF Chatting
<1> QED BY <1>1, <1>2, <1>3, <1>4, <1>5, <1>6, <1>7 DEF MCNext

(* The closing auction, the other strategies, and the windows.             *)
AuctionInv == TasksInv /\ PlacingInv /\ TallyInv /\ HedgeInv
StrategiesInv == AmendInv /\ NxInv /\ FxInv /\ PegInv /\ TelegramInv
ScreensInv == WindowsInv /\ PaintedInv /\ RtInv

LEMMA ActsInitInv == MCInit => AuctionInv /\ StrategiesInv /\ ScreensInv
<1> SUFFICES ASSUME MCInit PROVE AuctionInv /\ StrategiesInv /\ ScreensInv
  OBVIOUS
<1>1. AuInit /\ AmInit /\ NxInit /\ FaInit /\ PgInit /\ TgInit /\ SsInit
  BY DEF MCInit
<1>2. AuctionInv
  BY <1>1, AuInitInv, HedgeInitInv DEF AuctionInv
<1>3. StrategiesInv
  BY <1>1, AmendInitInv, NxInitInv, FxInitInv, PegInitInv, TelegramInitInv DEF StrategiesInv
<1>4. ScreensInv
  BY <1>1, WindowsInitInv, RtInitInv DEF ScreensInv
<1> QED BY <1>2, <1>3, <1>4

LEMMA AuctionStep ==
  ASSUME AuRepeats = 0, AuctionInv, [AuNext]_auVars PROVE AuctionInv'
<1>1. TasksInv'
  BY TasksStep DEF AuctionInv
<1>2. PlacingInv'
  BY PlacingStep DEF AuctionInv, TallyInv
<1>3. TallyInv'
  BY TallyStep DEF AuctionInv
<1>4. HedgeInv'
  BY HedgeStep DEF AuctionInv
<1> QED BY <1>1, <1>2, <1>3, <1>4 DEF AuctionInv

LEMMA StrategiesStep ==
  ASSUME StrategiesInv, [MCNext]_mcVars PROVE StrategiesInv'
<1>1. AmendInv'
  BY OtherStepsOfTheRun, AmendStep DEF StrategiesInv
<1>2. NxInv'
  BY OtherStepsOfTheRun, NxStep DEF StrategiesInv
<1>3. FxInv'
  BY OtherStepsOfTheRun, FxHedgeStep DEF StrategiesInv
<1>4. PegInv'
  BY OtherStepsOfTheRun, PegStep DEF StrategiesInv
<1>5. TelegramInv'
  BY OtherStepsOfTheRun, TelegramStep DEF StrategiesInv
<1> QED BY <1>1, <1>2, <1>3, <1>4, <1>5 DEF StrategiesInv

LEMMA ScreensStep ==
  ASSUME ScreensInv, [SsNext]_ssVars PROVE ScreensInv' /\ EditsKept
BY SsStep, RtStep DEF ScreensInv

LEMMA ActsAreSingle ==
  ASSUME AuctionInv, StrategiesInv, ScreensInv PROVE NothingActsTwice
<1>1. NoLotHedgedTwice
  BY LotsAreHedgedOnce DEF AuctionInv
<1>2. OneWorkingOrder
  BY OnlyTheLastWorks DEF StrategiesInv
<1>3. TierFiresOnce /\ ExitOnceWhenWhole
  BY DEF StrategiesInv, NxInv, FiredOnce, ExitInv
<1>4. OneHedgePerStart /\ NothingOldNothingTwice
  BY DEF StrategiesInv, FxInv, TelegramInv
<1>5. OnePegOrder
  BY PegOrderOnce DEF StrategiesInv
<1>6. RtTakenOnce
  BY RtsAreTakenOnce DEF ScreensInv
<1> QED BY <1>1, <1>2, <1>3, <1>4, <1>5, <1>6 DEF NothingActsTwice

(* Where the broker tells of a lot once: the closing auction hedges no lot *)
(* twice (_hl_fire), an amended order does not work beside its old one     *)
(* (amend), the opening fires no tier and no exit twice (_evaluate,        *)
(* _on_fill), the currency hedge answers no order twice (_seen), the peg   *)
(* order has no second one beside it (step), Telegram handles no message   *)
(* twice (_offset), and Auto-M takes a typed RT once (rt_override_on_run)  *)
(* - for any rows, tiers, orders, prices, messages, windows and sets.      *)
THEOREM TradingActsOnce ==
  ASSUME AuRepeats = 0 PROVE MCSpec => []NothingActsTwice
<1>1. MCInit => AuctionInv /\ StrategiesInv /\ ScreensInv
  BY ActsInitInv
<1>2. AuctionInv /\ StrategiesInv /\ ScreensInv /\ [MCNext]_mcVars
        => (AuctionInv /\ StrategiesInv /\ ScreensInv)'
  BY AuctionStep, StrategiesStep, ScreensStep, StepsOfTheRun
<1>3. AuctionInv /\ StrategiesInv /\ ScreensInv => NothingActsTwice
  BY ActsAreSingle
<1>4. MCSpec => MCInit /\ [][MCNext]_mcVars
  BY DEF MCSpec, mcVars
<1> QED BY <1>1, <1>2, <1>3, <1>4, PTL

-----------------------------------------------------------------------------
(***************************************************************************)
(* No step comes out of turn.                                              *)
(***************************************************************************)
(* A row is given back only by the loop, after the day's task has ended.   *)
LEMMA RowsGivenBack ==
  ASSUME TasksInv, PlacingInv, [AuNext]_auVars, rows # rows', \A r \in Rows : rows'[r] = NoRow
  PROVE  ls.task = "none"
<1>1. ASSUME NEW r \in Rows, NEW new, rows' = [rows EXCEPT ![r] = new], new.st # "none" PROVE FALSE
  <2>1. rows'[r] = new
    BY <1>1 DEF PlacingInv
  <2> QED BY <1>1, <2>1 DEF NoRow
<1>2. CASE Tick
  BY <1>2 DEF Tick, TickLs, Moved, TasksInv
<1>3. ASSUME NEW px, NEW exp, Turn(px, exp) PROVE FALSE
  <2>1. NextRow \in Rows
    BY <1>3, NextIsDue DEF Turn, PlacingInv
  <2>2. PICK new : rows' = [rows EXCEPT ![NextRow] = new] /\ new.st \in {"fired", "skipped"}
    <3>1. PICK fires, p : rows' = [rows EXCEPT ![NextRow] =
                              [st |-> IF fires THEN "fired" ELSE "skipped", id |-> 0, px |-> p]]
      BY <1>3 DEF Turn
    <3>2. [st |-> IF fires THEN "fired" ELSE "skipped", id |-> 0, px |-> p].st \in {"fired", "skipped"}
      OBVIOUS
    <3> QED BY <3>1, <3>2
  <2> QED BY <1>1, <2>1, <2>2
<1>4. CASE RowPlaced
  <2>1. NextRow \in Rows /\ rows[NextRow] = [st |-> rows[NextRow].st, id |-> rows[NextRow].id, px |-> rows[NextRow].px]
    BY <1>4, NextIsDue DEF RowPlaced, PlacingInv
  <2>2. PICK new : new = [rows[NextRow] EXCEPT !.st = "placed", !.id = Len(ord)]
    OBVIOUS
  <2>3. new.st = "placed"
    BY <2>1, <2>2
  <2>4. rows' = [rows EXCEPT ![NextRow] = new]
    <3>1. rows' = [rows EXCEPT ![NextRow].st = "placed", ![NextRow].id = Len(ord)]
      BY <1>4 DEF RowPlaced
    <3> QED BY <2>1, <2>2, <3>1 DEF PlacingInv
  <2> QED BY <1>1, <2>1, <2>3, <2>4
<1>5. CASE RowFails
  <2>1. NextRow \in Rows
    BY <1>5, NextIsDue DEF RowFails, PlacingInv
  <2>2. PICK new : new = [NoRow EXCEPT !.st = "failed"] /\ rows' = [rows EXCEPT ![NextRow] = new]
    BY <1>5 DEF RowFails
  <2>3. new.st = "failed"
    BY <2>2 DEF NoRow
  <2> QED BY <1>1, <2>1, <2>2, <2>3
<1>6. CASE rows' = rows
  BY <1>6
<1>7. ASSUME NEW r \in Rows, RowsOn(r) \/ TestOrder(r) PROVE rows' = rows
  BY <1>7 DEF RowsOn, TestOrder
<1>8. (\E t \in Moments : SetTime(t)) \/ RowsOff \/ RunFx \/ RunHl \/ RunOff \/ Clock => rows' = rows
  BY DEF SetTime, RowsOff, RunFx, RunHl, RunOff, Clock
<1>9. ListRows \/ LsEnds \/ FxStep \/ HlStep \/ BrokerAccepts => rows' = rows
  BY DEF ListRows, LsEnds, FxStep, FxPlan, FxSend, HlStep, HlFire, HlPlaced, BrokerAccepts
<1>10. (\E k \in DOMAIN ord : BrokerFills(k)) \/ (\E m \in notices, repeat \in BOOLEAN : OnFill(m, repeat))
         => rows' = rows
  BY DEF BrokerFills, OnFill
<1>11. UNCHANGED auVars => rows' = rows
  BY DEF auVars
<1> QED BY <1>2, <1>3, <1>4, <1>5, <1>6, <1>7, <1>8, <1>9, <1>10, <1>11 DEF AuNext, AuctionCommand, LsStep

(* The orders at the broker are of rows, however often the broker tells.   *)
OrdersInv == TasksInv /\ PlacingInv /\ ord \in Seq([row : Rows, done : Nat])

LEMMA OrdersStep ==
  ASSUME OrdersInv, [AuNext]_auVars PROVE OrdersInv'
<1> USE DEF OrdersInv
<1>0. PICK R : R = [row : Rows, done : Nat]
  OBVIOUS
<1>1. CASE BrokerAccepts
  <2>1. NextRow \in Rows
    BY <1>1, NextIsDue DEF BrokerAccepts, PlacingInv
  <2>2. PICK o \in R : ord' = Append(ord, o)
    BY <1>0, <1>1, <2>1 DEF BrokerAccepts
  <2> QED BY <1>0, <2>2, TasksStep, PlacingStep
<1>2. ASSUME NEW k \in DOMAIN ord, BrokerFills(k) PROVE OrdersInv'
  <2>1. PICK s : s = ord /\ s \in Seq(R) /\ k \in DOMAIN s
    BY <1>0, <1>2
  <2>2. s[k] \in R
    BY <2>1
  <2>3. PICK o : o = [ord[k] EXCEPT !.done = @ + 1] /\ ord' = [ord EXCEPT ![k] = o]
    BY <1>2 DEF BrokerFills
  <2>4. o \in R
    BY <1>0, <2>1, <2>2, <2>3
  <2>5. [s EXCEPT ![k] = o] \in Seq(R)
    BY <2>1, <2>4
  <2> QED BY <1>0, <2>1, <2>3, <2>5, TasksStep, PlacingStep
<1>3. ASSUME NEW r \in Rows, TestOrder(r) PROVE OrdersInv'
  <2>1. PICK o \in R : ord' = Append(ord, o)
    BY <1>0, <1>3, RowsAssumption DEF TestOrder
  <2> QED BY <1>0, <2>1, TasksStep, PlacingStep
<1>4. CASE UNCHANGED ord
  BY <1>4, TasksStep, PlacingStep
<1>5. UNCHANGED auVars => UNCHANGED ord
  BY DEF auVars, broker
<1>6. ASSUME NEW r \in Rows, RowsOn(r) PROVE UNCHANGED ord
  BY <1>6 DEF RowsOn, broker
<1>7. (\E t \in Moments : SetTime(t)) \/ RowsOff \/ RunFx \/ RunHl \/ RunOff \/ Tick \/ Clock => UNCHANGED ord
  BY DEF SetTime, RowsOff, RunFx, RunHl, RunOff, Tick, Clock, broker
<1>8. LsStep \/ FxStep \/ HlStep => UNCHANGED ord
  BY DEF LsStep, ListRows, RowPlaced, RowFails, LsEnds, Turn, FxStep, FxPlan, FxSend, HlStep, HlFire, HlPlaced, broker
<1>9. (\E m \in notices, repeat \in BOOLEAN : OnFill(m, repeat)) => UNCHANGED ord
  BY DEF OnFill
<1> QED BY <1>1, <1>2, <1>3, <1>4, <1>5, <1>6, <1>7, <1>8, <1>9 DEF AuNext, AuctionCommand

(* The closing auction gives its rows back, and starts an order task or a  *)
(* currency task, only while no earlier one runs (_arm), and a repainting  *)
(* takes what the user typed into Auto-M's window only when the settings   *)
(* it shows have changed (_sync_set_inputs_from_core) - for any rows,      *)
(* times, windows and sets, and however often the broker tells.            *)
THEOREM TradingKeepsItsTurns == MCSpec => StepsInTurn
<1> DEFINE TurnRight == /\ (rows # rows' /\ \A r \in Rows : rows'[r] = NoRow) => ls.task = "none"
                        /\ (ls'.task = "spawned" => ls.task \in {"none", "spawned"})
                        /\ (fx'.task = "spawned" => fx.task \in {"none", "spawned"})
<1>1. MCInit => OrdersInv /\ ScreensInv
  BY ActsInitInv DEF AuctionInv, TallyInv, OrdersInv
<1>2. OrdersInv /\ ScreensInv /\ [MCNext]_mcVars => (OrdersInv /\ ScreensInv)'
  BY OrdersStep, ScreensStep, StepsOfTheRun
<1>3. OrdersInv /\ [MCNext]_mcVars => [TurnRight]_auVars
  BY StepsOfTheRun, RowsGivenBack, TasksStep DEF OrdersInv
<1>4. ScreensInv /\ [MCNext]_mcVars => [EditsKept]_ssVars
  BY StepsOfTheRun, ScreensStep
<1>5. MCSpec => MCInit /\ [][MCNext]_mcVars
  BY DEF MCSpec, mcVars
<1>6. StepsInTurn <=> [][TurnRight]_auVars /\ [][EditsKept]_ssVars
  BY DEF StepsInTurn, OneTaskAtATime, EditsAreKept, EditsKept
<1> QED BY <1>1, <1>2, <1>3, <1>4, <1>5, <1>6, PTL

=============================================================================
