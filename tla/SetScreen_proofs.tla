-------------------------- MODULE SetScreen_proofs --------------------------
(***************************************************************************)
(* Proofs about SetScreen, for any windows, sets, cells and legs: what a   *)
(* window shows and what its user types (WindowsInv, PaintedInv), and      *)
(* where the RTs that are typed in go (RtInv).                             *)
(***************************************************************************)
EXTENDS SetScreen, FiniteSetTheorems, TLAPS

(* A sequence behind another.                                              *)
IsBehind(t, s, m) == t = s \o m
JoinOf(t, s, m) ==
  /\ Len(t) = Len(s) + Len(m) /\ Len(s) \in Nat /\ Len(m) \in Nat
  /\ DOMAIN s = 1 .. Len(s) /\ DOMAIN t = 1 .. Len(s) + Len(m)
  /\ \A i \in 1 .. Len(s) + Len(m) : t[i] = IF i <= Len(s) THEN s[i] ELSE m[i - Len(s)]
LEMMA Joined ==
  ASSUME NEW R, NEW s, s \in Seq(R), NEW m, m \in Seq(R), NEW t, IsBehind(t, s, m)
  PROVE  t \in Seq(R) /\ JoinOf(t, s, m)
BY DEF IsBehind, JoinOf

-----------------------------------------------------------------------------
(***************************************************************************)
(* The windows of the sets.                                                *)
(***************************************************************************)
SetRecord == [cfg : [Cells -> Nat], run : [Legs -> BOOLEAN], halt : BOOLEAN, rt : Nat]
RowRecord == [cells : [Cells -> Nat], on : [Legs -> BOOLEAN], guard : [Legs -> BOOLEAN], rt : Nat]
ScreenRecord == [name : SsNames, loaded : SsNames \cup {Nothing}, applied : BOOLEAN, locked : BOOLEAN,
                 stop : BOOLEAN, at : {"open", "saving", "stopping", "gone"}]
HistRecord == [typed : BOOLEAN, moved : BOOLEAN]
JobRecord == [cmd : {"set", "run", "release", "stop"}, key : Sets, leg : Legs \cup {Nothing},
              on : BOOLEAN, cells : [Cells -> Nat], rt : Nat, why : {"click", "dialog", "close"}]

WindowsInv ==
  /\ core \in [Sets -> SetRecord] /\ box \in [Screens -> [Sets -> SetRecord]]
  /\ screens \in [Screens -> ScreenRecord] /\ row \in [Screens -> [SetNos -> RowRecord]]
  /\ jobs \in [Screens -> Seq(JobRecord)] /\ sigs \in [Screens -> [SetNos -> [Cells -> Nat]]]
  /\ hist \in [Screens -> [SetNos -> HistRecord]]
  /\ doings \in Nat

(* A window has received and, once loaded, painted the settings of a set   *)
(* that have not changed since.                                            *)
PaintedInv ==
  \A w \in Screens, i \in SetNos :
    ~hist[w][i].moved =>
      /\ box[w][ShownSet(w, i)].cfg = core[ShownSet(w, i)].cfg
      /\ screens[w].loaded = screens[w].name => sigs[w][i] = core[ShownSet(w, i)].cfg

LEMMA ShownIsASet ==
  ASSUME WindowsInv, NEW w \in Screens, NEW i \in SetNos
  PROVE  /\ screens[w] \in ScreenRecord /\ ShownSet(w, i) \in Sets /\ 1 \in SetNos
         /\ row[w][i] \in RowRecord /\ hist[w][i] \in HistRecord /\ core[ShownSet(w, i)] \in SetRecord
         /\ box[w] \in [Sets -> SetRecord] /\ box[w][ShownSet(w, i)] \in SetRecord
         /\ jobs[w] \in Seq(JobRecord)
<1>1. screens[w] \in ScreenRecord
  BY DEF WindowsInv
<1>2. screens[w].name \in SsNames
  BY <1>1 DEF ScreenRecord
<1>3. ShownSet(w, i) \in Sets
  BY <1>2 DEF ShownSet, Sets
<1> QED BY <1>1, <1>3, SsAssumption DEF WindowsInv, SetNos

LEMMA FirstRecords ==
  /\ Filled \in [Cells -> Nat] /\ NoLeg \in [Legs -> BOOLEAN]
  /\ FreshSet \in SetRecord /\ FreshSet.cfg = Filled /\ FreshRow \in RowRecord /\ FreshRow.rt = 0
  /\ Untouched \in HistRecord
<1>1. Filled \in [Cells -> Nat] /\ NoLeg \in [Legs -> BOOLEAN]
  BY DEF Filled, NoLeg
<1>2. FreshSet \in SetRecord /\ FreshSet.cfg = Filled
  BY <1>1 DEF FreshSet, SetRecord
<1>3. FreshRow \in RowRecord /\ FreshRow.rt = 0
  BY <1>1 DEF FreshRow, RowRecord
<1> QED BY <1>1, <1>2, <1>3 DEF Untouched, HistRecord

LEMMA WindowsInitInv == SsInit => WindowsInv /\ PaintedInv
<1> SUFFICES ASSUME SsInit PROVE WindowsInv /\ PaintedInv
  OBVIOUS
<1>1. core \in [Sets -> SetRecord] /\ \A k \in Sets : core[k].cfg = Filled
  BY FirstRecords DEF SsInit
<1>2. PICK up \in SUBSET Screens \ {{}} :
        /\ screens = [w \in Screens |->
             [name |-> SsStart, loaded |-> SsStart, applied |-> TRUE, locked |-> FALSE, stop |-> FALSE,
              at |-> IF w \in up THEN "open" ELSE "gone"]]
        /\ doings = Cardinality(up)
  BY DEF SsInit
<1>3. screens \in [Screens -> ScreenRecord]
  BY <1>2, SsAssumption DEF ScreenRecord
<1>4. doings \in Nat
  BY <1>2, SsAssumption, FS_Subset, FS_CardinalityType
<1>5. row \in [Screens -> [SetNos -> RowRecord]]
  BY FirstRecords DEF SsInit
<1>6. jobs \in [Screens -> Seq(JobRecord)]
  BY DEF SsInit
<1>7. sigs \in [Screens -> [SetNos -> [Cells -> Nat]]] /\ \A w \in Screens, i \in SetNos : sigs[w][i] = Filled
  BY FirstRecords DEF SsInit
<1>8. hist \in [Screens -> [SetNos -> HistRecord]]
  BY FirstRecords DEF SsInit
<1>9. box \in [Screens -> [Sets -> SetRecord]] /\ \A w \in Screens : box[w] = core
  BY <1>1 DEF SsInit
<1>10. WindowsInv
  BY <1>1, <1>3, <1>4, <1>5, <1>6, <1>7, <1>8, <1>9 DEF WindowsInv
<1>11. PaintedInv
  BY <1>1, <1>7, <1>9, <1>10, ShownIsASet DEF PaintedInv
<1> QED BY <1>10, <1>11

-----------------------------------------------------------------------------
(* What the windows put into their queues.                                 *)
LEMMA SetJobIsAJob ==
  ASSUME WindowsInv, NEW w \in Screens, NEW i \in SetNos, NEW cells \in [Cells -> Nat], NEW rt \in Nat,
         NEW why \in {"click", "dialog", "close"}
  PROVE  /\ SetJob(w, i, cells, rt, why) \in JobRecord
         /\ SetJob(w, i, cells, rt, why).rt = rt /\ SetJob(w, i, cells, rt, why).why = why
<1>1. ShownSet(w, i) \in Sets
  BY ShownIsASet
<1> QED BY <1>1 DEF SetJob, Job, JobRecord

LEMMA OtherJobIsAJob ==
  ASSUME WindowsInv, NEW w \in Screens, NEW i \in SetNos
  PROVE  /\ \A l \in Legs, b \in BOOLEAN : RunJob(w, i, l, b) \in JobRecord /\ RunJob(w, i, l, b).rt = 0
         /\ ReleaseJob(w, i) \in JobRecord /\ ReleaseJob(w, i).rt = 0
         /\ StopJob(w) \in JobRecord /\ StopJob(w).rt = 0
<1>1. ShownSet(w, i) \in Sets /\ ShownSet(w, 1) \in Sets /\ Filled \in [Cells -> Nat]
  BY ShownIsASet, FirstRecords
<1>2. ASSUME NEW l \in Legs, NEW b \in BOOLEAN PROVE RunJob(w, i, l, b) \in JobRecord /\ RunJob(w, i, l, b).rt = 0
  BY <1>1 DEF RunJob, Job, JobRecord
<1>3. ReleaseJob(w, i) \in JobRecord /\ ReleaseJob(w, i).rt = 0
  BY <1>1 DEF ReleaseJob, Job, JobRecord
<1>4. StopJob(w) \in JobRecord /\ StopJob(w).rt = 0
  BY <1>1 DEF StopJob, Job, JobRecord
<1> QED BY <1>2, <1>3, <1>4

(* At most the first of these jobs carries an RT.                          *)
FirstOnly(more, a, Others) ==
  /\ 1 \in DOMAIN more /\ more[1] = a
  /\ \A n \in DOMAIN more : n # 1 => more[n] \in Others

LEMMA SomeJobs ==
  ASSUME NEW J, NEW a \in J, NEW b \in J, NEW c \in J
  PROVE  /\ <<a>> \in Seq(J) /\ FirstOnly(<<a>>, a, {b, c})
         /\ <<a>> \o <<b>> \o <<c>> \in Seq(J) /\ FirstOnly(<<a>> \o <<b>> \o <<c>>, a, {b, c})
         /\ <<a>> \o << >> \o <<c>> \in Seq(J) /\ FirstOnly(<<a>> \o << >> \o <<c>>, a, {b, c})
<1> PICK x, y, z, e : x = <<a>> /\ y = <<b>> /\ z = <<c>> /\ e = << >>
  OBVIOUS
<1>1. /\ {x, y, z, e} \subseteq Seq(J) /\ Len(x) = 1 /\ Len(y) = 1 /\ Len(z) = 1 /\ Len(e) = 0
      /\ x[1] = a /\ y[1] = b /\ z[1] = c
  OBVIOUS
<1>2. FirstOnly(x, a, {b, c})
  BY <1>1 DEF FirstOnly
<1>3. PICK s, t : s = x \o y /\ t = s \o z
  OBVIOUS
<1>4. s \in Seq(J) /\ Len(s) = 2 /\ s[1] = a /\ s[2] = b
  BY <1>1, <1>3
<1>5. t \in Seq(J) /\ Len(t) = 3 /\ t[1] = a /\ t[2] = b /\ t[3] = c
  BY <1>1, <1>3, <1>4
<1>6. FirstOnly(t, a, {b, c})
  BY <1>5 DEF FirstOnly
<1>7. PICK u, v : u = x \o e /\ v = u \o z
  OBVIOUS
<1>8. u \in Seq(J) /\ Len(u) = 1 /\ u[1] = a
  BY <1>1, <1>7
<1>9. v \in Seq(J) /\ Len(v) = 2 /\ v[1] = a /\ v[2] = c
  BY <1>1, <1>7, <1>8
<1>10. FirstOnly(v, a, {b, c})
  BY <1>9 DEF FirstOnly
<1> QED BY <1>1, <1>2, <1>3, <1>5, <1>6, <1>7, <1>9, <1>10

LEMMA SwitchJobs ==
  ASSUME NEW J, NEW a \in J, NEW b \in J, NEW c \in J, NEW more,
         more = <<a>> \o <<b>> \o <<c>> \/ more = <<a>> \o << >> \o <<c>>
  PROVE  more \in Seq(J) /\ FirstOnly(more, a, {b, c})
<1> PICK s, t : s = <<a>> \o <<b>> \o <<c>> /\ t = <<a>> \o << >> \o <<c>>
  OBVIOUS
<1>1. s \in Seq(J) /\ FirstOnly(s, a, {b, c}) /\ t \in Seq(J) /\ FirstOnly(t, a, {b, c})
  BY SomeJobs, Zenon
<1> QED BY <1>1, Zenon

(* A queue grows at its end.                                               *)
LEMMA PutIsLonger ==
  ASSUME WindowsInv, NEW w \in Screens, NEW more, more \in Seq(JobRecord), Put(w, more)
  PROVE  /\ jobs' \in [Screens -> Seq(JobRecord)] /\ JoinOf(jobs'[w], jobs[w], more)
         /\ DOMAIN more # {} => jobs'[w] # jobs[w]
         /\ \A v \in Screens \ {w} : jobs'[v] = jobs[v]
<1> PICK J, q, p : J = JobRecord /\ q = jobs[w] /\ p = q \o more
  OBVIOUS
<1>1. q \in Seq(J) /\ more \in Seq(J) /\ jobs \in [Screens -> Seq(J)] /\ IsBehind(p, q, more)
  BY DEF WindowsInv, IsBehind
<1>2. p \in Seq(J) /\ JoinOf(p, q, more)
  BY <1>1, Joined, Zenon
<1>3. DOMAIN more # {} => p # q
  <2>1. Len(p) = Len(q) + Len(more) /\ Len(q) \in Nat /\ Len(more) \in Nat
    BY <1>2 DEF JoinOf
  <2>2. DOMAIN more = 1 .. Len(more)
    BY <1>1
  <2> QED BY <2>1, <2>2
<1>4. jobs' = [jobs EXCEPT ![w] = p]
  BY DEF Put
<1>5. jobs' \in [Screens -> Seq(J)] /\ jobs'[w] = p /\ \A v \in Screens \ {w} : jobs'[v] = jobs[v]
  BY <1>1, <1>2, <1>4
<1> QED BY <1>2, <1>3, <1>5

LEMMA AfterIsASet ==
  ASSUME NEW set \in SetRecord, NEW j \in JobRecord
  PROVE  After(set, j) \in SetRecord
<1>1. j.cmd \in {"set", "run", "release", "stop"} /\ j.rt \in Nat /\ j.on \in BOOLEAN /\ j.cells \in [Cells -> Nat]
  BY DEF JobRecord
<1>2. CASE j.cmd = "set"
  BY <1>1, <1>2 DEF After, SetRecord
<1>3. CASE j.cmd = "release"
  BY <1>3 DEF After, SetRecord
<1>4. CASE j.cmd = "run"
  <2> PICK run : run = [set.run EXCEPT ![j.leg] = j.on]
    OBVIOUS
  <2>1. run \in [Legs -> BOOLEAN]
    BY <1>1 DEF SetRecord
  <2>2. After(set, j) = set \/ After(set, j) = [set EXCEPT !.run = run]
    BY <1>4 DEF After
  <2> QED BY <2>1, <2>2 DEF SetRecord
<1>5. CASE j.cmd = "stop"
  BY <1>5, FirstRecords DEF After, SetRecord
<1> QED BY <1>1, <1>2, <1>3, <1>4, <1>5

EditsKept ==
  \A w \in Screens, i \in SetNos :
    hist[w][i].typed /\ ~hist'[w][i].typed /\ screens'[w].name = screens[w].name
      /\ screens'[w].loaded = screens[w].loaded /\ jobs'[w] = jobs[w]
        => hist[w][i].moved

(* A step that changes no name, no settings, and nothing of what was seen. *)
LEMMA PaintedStays ==
  ASSUME WindowsInv, PaintedInv, box' = box, sigs' = sigs,
         \A w \in Screens : screens'[w].name = screens[w].name /\ screens'[w].loaded = screens[w].loaded,
         \A k \in Sets : core'[k].cfg = core[k].cfg,
         \A w \in Screens, i \in SetNos : hist'[w][i].moved = hist[w][i].moved
  PROVE  PaintedInv'
<1>1. ASSUME NEW w \in Screens, NEW i \in SetNos PROVE ShownSet(w, i)' = ShownSet(w, i)
  BY DEF ShownSet
<1>2. ASSUME NEW w \in Screens, NEW i \in SetNos, ~hist'[w][i].moved
      PROVE  /\ box'[w][ShownSet(w, i)'].cfg = core'[ShownSet(w, i)'].cfg
             /\ screens'[w].loaded = screens'[w].name => sigs'[w][i] = core'[ShownSet(w, i)'].cfg
  BY <1>1, <1>2, ShownIsASet DEF PaintedInv
<1> QED BY <1>2 DEF PaintedInv

(* The user's steps in a row.                                              *)
RowStep(w, i) ==
  \/ \E c \in Cells, v \in Nat : Type(w, i, c, v)
  \/ TypeRt(w, i) \/ RevertRt(w, i)
  \/ \E l \in Legs : SwitchOnRow(w, i, l) \/ SwitchOffRow(w, i, l)
  \/ \E rt \in {0, 13 + 2 * doings} : Confirm(w, i, rt)

(* What a row becomes.                                                     *)
LEMMA RowBecomes ==
  ASSUME WindowsInv, NEW w \in Screens, NEW i \in SetNos, RowStep(w, i)
  PROVE  \E new \in RowRecord : row' = [row EXCEPT ![w] = [row[w] EXCEPT ![i] = new]]
<1> PICK r : r = row[w][i]
  OBVIOUS
<1>1. r \in RowRecord /\ doings \in Nat
  BY ShownIsASet DEF WindowsInv
<1>2. r.cells \in [Cells -> Nat] /\ r.on \in [Legs -> BOOLEAN] /\ r.guard \in [Legs -> BOOLEAN]
  BY <1>1 DEF RowRecord
<1>3. \A n \in Nat : [r EXCEPT !.rt = n] \in RowRecord
  BY <1>1 DEF RowRecord
<1>4. ASSUME NEW c \in Cells, NEW v \in Nat, Type(w, i, c, v)
      PROVE  \E new \in RowRecord : row' = [row EXCEPT ![w] = [row[w] EXCEPT ![i] = new]]
  <2> PICK cells : cells = [r.cells EXCEPT ![c] = v]
    OBVIOUS
  <2>1. cells \in [Cells -> Nat]
    BY <1>2
  <2>2. [r EXCEPT !.cells = cells] \in RowRecord
    BY <1>1, <2>1 DEF RowRecord
  <2>3. row' = [row EXCEPT ![w] = [row[w] EXCEPT ![i] = [r EXCEPT !.cells = cells]]]
    BY <1>4 DEF Type
  <2> QED BY <2>2, <2>3
<1>5. CASE TypeRt(w, i)
  <2>1. row' = [row EXCEPT ![w] = [row[w] EXCEPT ![i] = [r EXCEPT !.rt = 12 + 2 * doings]]]
    BY <1>5 DEF TypeRt
  <2>2. 12 + 2 * doings \in Nat
    BY <1>1
  <2> QED BY <1>3, <2>1, <2>2, Zenon
<1>6. CASE RevertRt(w, i)
  <2>1. row' = [row EXCEPT ![w] = [row[w] EXCEPT ![i] = [r EXCEPT !.rt = 0]]]
    BY <1>6 DEF RevertRt
  <2> QED BY <1>3, <2>1
<1>7. ASSUME NEW l \in Legs, SwitchOnRow(w, i, l)
      PROVE  \E new \in RowRecord : row' = [row EXCEPT ![w] = [row[w] EXCEPT ![i] = new]]
  <2> PICK sw, guard : sw = [r.on EXCEPT ![l] = TRUE] /\ guard = [r.guard EXCEPT ![l] = TRUE]
    OBVIOUS
  <2>1. sw \in [Legs -> BOOLEAN] /\ guard \in [Legs -> BOOLEAN]
    BY <1>2
  <2>2. [r EXCEPT !.on = sw, !.guard = guard, !.rt = 0] \in RowRecord
    BY <1>1, <2>1 DEF RowRecord
  <2>3. row' = [row EXCEPT ![w] = [row[w] EXCEPT ![i] = [r EXCEPT !.on = sw, !.guard = guard, !.rt = 0]]]
    BY <1>7 DEF SwitchOnRow, Pressed
  <2> QED BY <2>2, <2>3
<1>8. ASSUME NEW l \in Legs, SwitchOffRow(w, i, l)
      PROVE  \E new \in RowRecord : row' = [row EXCEPT ![w] = [row[w] EXCEPT ![i] = new]]
  <2> PICK sw, guard : sw = [r.on EXCEPT ![l] = FALSE] /\ guard = [r.guard EXCEPT ![l] = TRUE]
    OBVIOUS
  <2>1. sw \in [Legs -> BOOLEAN] /\ guard \in [Legs -> BOOLEAN]
    BY <1>2
  <2>2. [r EXCEPT !.on = sw, !.guard = guard] \in RowRecord
    BY <1>1, <2>1 DEF RowRecord
  <2>3. row' = [row EXCEPT ![w] = [row[w] EXCEPT ![i] = [r EXCEPT !.on = sw, !.guard = guard]]]
    BY <1>8 DEF SwitchOffRow
  <2> QED BY <2>2, <2>3
<1>9. ASSUME NEW rt \in {0, 13 + 2 * doings}, Confirm(w, i, rt)
      PROVE  \E new \in RowRecord : row' = [row EXCEPT ![w] = [row[w] EXCEPT ![i] = new]]
  <2> PICK cells : cells = [c \in Cells |-> 22 + doings]
    OBVIOUS
  <2>1. cells \in [Cells -> Nat]
    BY <1>1
  <2>2. [r EXCEPT !.cells = cells] \in RowRecord
    BY <1>1, <2>1 DEF RowRecord
  <2>3. row' = [row EXCEPT ![w] = [row[w] EXCEPT ![i] = [r EXCEPT !.cells = cells]]]
    BY <1>9 DEF Confirm
  <2> QED BY <2>2, <2>3
<1> QED BY <1>4, <1>5, <1>6, <1>7, <1>8, <1>9 DEF RowStep

(* What is put into the queue then, and what becomes of the history.       *)
LEMMA RowSends ==
  ASSUME WindowsInv, NEW w \in Screens, NEW i \in SetNos, RowStep(w, i)
  PROVE  /\ jobs' \in [Screens -> Seq(JobRecord)]
         /\ \/ hist' = hist
            \/ hist' = [hist EXCEPT ![w][i].typed = TRUE]
            \/ hist' = [hist EXCEPT ![w][i].typed = FALSE] /\ jobs'[w] # jobs[w]
<1> PICK r : r = row[w][i]
  OBVIOUS
<1>1. r.cells \in [Cells -> Nat] /\ r.rt \in Nat /\ doings \in Nat
  BY ShownIsASet DEF WindowsInv, RowRecord
<1>2. ASSUME NEW more, more \in Seq(JobRecord), DOMAIN more # {}, Put(w, more)
      PROVE  jobs' \in [Screens -> Seq(JobRecord)] /\ jobs'[w] # jobs[w]
  BY <1>2, PutIsLonger
<1>3. CASE (\E c \in Cells, v \in Nat : Type(w, i, c, v)) \/ TypeRt(w, i) \/ RevertRt(w, i)
  BY <1>3 DEF Type, TypeRt, RevertRt, WindowsInv
<1>4. ASSUME NEW l \in Legs, SwitchOnRow(w, i, l)
      PROVE  /\ jobs' \in [Screens -> Seq(JobRecord)] /\ jobs'[w] # jobs[w]
             /\ hist' = [hist EXCEPT ![w][i].typed = FALSE]
  <2> PICK a, b, c : /\ a = SetJob(w, i, r.cells, r.rt, "click")
                     /\ b = ReleaseJob(w, i) /\ c = RunJob(w, i, l, TRUE)
    OBVIOUS
  <2>1. a \in JobRecord
    BY <1>1, SetJobIsAJob
  <2>2. b \in JobRecord /\ c \in JobRecord
    BY OtherJobIsAJob
  <2>3. PICK more : /\ more = <<a>> \o <<b>> \o <<c>> \/ more = <<a>> \o << >> \o <<c>>
                    /\ Put(w, more) /\ SetSent(w, i)
    BY <1>4 DEF SwitchOnRow
  <2>4. more \in Seq(JobRecord) /\ FirstOnly(more, a, {b, c})
    BY <2>1, <2>2, <2>3, SwitchJobs, Zenon
  <2>5. DOMAIN more # {}
    BY <2>4 DEF FirstOnly
  <2> QED BY <1>2, <2>3, <2>4, <2>5 DEF SetSent
<1>5. ASSUME NEW l \in Legs, SwitchOffRow(w, i, l)
      PROVE  jobs' \in [Screens -> Seq(JobRecord)] /\ hist' = hist
  <2>1. PICK a \in JobRecord : Put(w, <<a>>) /\ hist' = hist
    BY <1>5, OtherJobIsAJob DEF SwitchOffRow
  <2>2. <<a>> \in Seq(JobRecord) /\ DOMAIN <<a>> # {}
    BY SomeJobs DEF FirstOnly
  <2> QED BY <1>2, <2>1, <2>2
<1>6. ASSUME NEW rt \in {0, 13 + 2 * doings}, Confirm(w, i, rt)
      PROVE  /\ jobs' \in [Screens -> Seq(JobRecord)] /\ jobs'[w] # jobs[w]
             /\ hist' = [hist EXCEPT ![w][i].typed = FALSE]
  <2> PICK cells, a : cells = [c \in Cells |-> 22 + doings] /\ a = SetJob(w, i, cells, rt, "dialog")
    OBVIOUS
  <2>1. cells \in [Cells -> Nat] /\ rt \in Nat
    BY <1>1
  <2>2. a \in JobRecord
    BY <2>1, SetJobIsAJob
  <2>3. Put(w, <<a>>) /\ SetSent(w, i)
    BY <1>6 DEF Confirm
  <2>4. <<a>> \in Seq(JobRecord) /\ DOMAIN <<a>> # {}
    BY <2>2, SomeJobs DEF FirstOnly
  <2> QED BY <1>2, <2>3, <2>4 DEF SetSent
<1> QED BY <1>3, <1>4, <1>5, <1>6 DEF RowStep

LEMMA RowSteps ==
  ASSUME WindowsInv, PaintedInv, NEW w \in Screens, NEW i \in SetNos, RowStep(w, i)
  PROVE  WindowsInv' /\ PaintedInv' /\ EditsKept
<1> PICK h : h = hist[w][i]
  OBVIOUS
<1>1. h \in HistRecord /\ doings \in Nat
  BY ShownIsASet DEF WindowsInv
<1>2. PICK new \in RowRecord : row' = [row EXCEPT ![w] = [row[w] EXCEPT ![i] = new]]
  BY RowBecomes
<1>3. row' \in [Screens -> [SetNos -> RowRecord]]
  <2>1. row[w] \in [SetNos -> RowRecord] /\ row \in [Screens -> [SetNos -> RowRecord]]
    BY DEF WindowsInv
  <2>2. PICK f : f = [row[w] EXCEPT ![i] = new] /\ row' = [row EXCEPT ![w] = f]
    BY <1>2
  <2>3. f \in [SetNos -> RowRecord]
    BY <2>1, <2>2
  <2> QED BY <2>1, <2>2, <2>3
<1>4. /\ core' = core /\ screens' = screens /\ box' = box /\ sigs' = sigs /\ doings' \in Nat
  <2>1. CASE (\E c \in Cells, v \in Nat : Type(w, i, c, v)) \/ TypeRt(w, i)
    BY <1>1, <2>1 DEF Type, TypeRt, Counted
  <2>2. CASE RevertRt(w, i)
    BY <1>1, <2>2 DEF RevertRt
  <2>3. CASE \E l \in Legs : SwitchOnRow(w, i, l) \/ SwitchOffRow(w, i, l)
    BY <1>1, <2>3 DEF SwitchOnRow, SwitchOffRow, Counted
  <2>4. CASE \E rt \in {0, 13 + 2 * doings} : Confirm(w, i, rt)
    BY <1>1, <2>4 DEF Confirm, Counted
  <2> QED BY <2>1, <2>2, <2>3, <2>4 DEF RowStep
<1>5. /\ jobs' \in [Screens -> Seq(JobRecord)]
      /\ \/ hist' = hist
         \/ hist' = [hist EXCEPT ![w][i].typed = TRUE]
         \/ hist' = [hist EXCEPT ![w][i].typed = FALSE] /\ jobs'[w] # jobs[w]
  BY RowSends
<1>6. /\ hist' \in [Screens -> [SetNos -> HistRecord]]
      /\ \A v \in Screens, k \in SetNos : hist'[v][k].moved = hist[v][k].moved
      /\ jobs'[w] = jobs[w] => \A v \in Screens, k \in SetNos : hist[v][k].typed => hist'[v][k].typed
      /\ \A v \in Screens \ {w}, k \in SetNos : hist'[v][k] = hist[v][k]
  <2>1. hist \in [Screens -> [SetNos -> HistRecord]]
    BY DEF WindowsInv
  <2>2. \A b \in BOOLEAN : [h EXCEPT !.typed = b] \in HistRecord
                           /\ [h EXCEPT !.typed = b].typed = b /\ [h EXCEPT !.typed = b].moved = h.moved
    BY <1>1 DEF HistRecord
  <2>3. PICK next \in HistRecord :
          /\ hist' = [hist EXCEPT ![w][i] = next] /\ next.moved = h.moved
          /\ jobs'[w] = jobs[w] => (h.typed => next.typed)
    BY <1>1, <1>5, <2>1, <2>2
  <2>4. /\ hist' \in [Screens -> [SetNos -> HistRecord]]
        /\ hist'[w][i] = next /\ \A v \in Screens, k \in SetNos : v # w \/ k # i => hist'[v][k] = hist[v][k]
    BY <2>1, <2>3
  <2> QED BY <2>3, <2>4
<1>7. WindowsInv'
  BY <1>1, <1>3, <1>4, <1>5, <1>6 DEF WindowsInv
<1>8. PaintedInv'
  BY <1>4, <1>6, PaintedStays
<1>9. EditsKept
  BY <1>6 DEF EditsKept
<1> QED BY <1>7, <1>8, <1>9

(* The steps that neither type nor send what was typed leave the history.  *)
LEMMA NothingForgotten ==
  ASSUME \A w \in Screens, i \in SetNos : hist'[w][i].typed = hist[w][i].typed
  PROVE  EditsKept
BY DEF EditsKept

LEMMA ChooseKeeps ==
  ASSUME WindowsInv, PaintedInv, NEW w \in Screens, NEW n \in SsNames, Choose(w, n)
  PROVE  WindowsInv' /\ PaintedInv' /\ EditsKept
<1> PICK s : s = screens[w]
  OBVIOUS
<1> PICK t : t = [s EXCEPT !.name = n, !.loaded = Nothing, !.applied = FALSE]
  OBVIOUS
<1>1. s \in ScreenRecord /\ doings \in Nat
  BY DEF WindowsInv
<1>2. t \in ScreenRecord /\ t.name = n /\ t.loaded = Nothing /\ n # Nothing /\ n # s.name
  BY <1>1, SsAssumption DEF ScreenRecord, Choose
<1>3. screens' = [screens EXCEPT ![w] = t]
  BY DEF Choose
<1> PICK h : h = [i \in SetNos |-> [typed |-> FALSE, moved |-> box[w][<<n, i>>].cfg # core[<<n, i>>].cfg]]
  OBVIOUS
<1>4. hist' = [hist EXCEPT ![w] = h] /\ h \in [SetNos -> HistRecord]
  BY DEF Choose, HistRecord
<1>5. UNCHANGED <<core, row, jobs, box, sigs>> /\ doings' \in Nat
  BY <1>1 DEF Choose, Counted
<1>6. screens' \in [Screens -> ScreenRecord] /\ hist' \in [Screens -> [SetNos -> HistRecord]]
  BY <1>2, <1>3, <1>4 DEF WindowsInv
<1>7. WindowsInv'
  BY <1>5, <1>6 DEF WindowsInv
<1>8. screens'[w] = t /\ hist'[w] = h /\ \A v \in Screens \ {w} : screens'[v] = screens[v] /\ hist'[v] = hist[v]
  BY <1>3, <1>4 DEF WindowsInv
<1>9. ASSUME NEW v \in Screens, NEW i \in SetNos, ~hist'[v][i].moved
      PROVE  /\ box'[v][ShownSet(v, i)'].cfg = core'[ShownSet(v, i)'].cfg
             /\ screens'[v].loaded = screens'[v].name => sigs'[v][i] = core'[ShownSet(v, i)'].cfg
  <2>1. CASE v = w
    <3>1. ShownSet(v, i)' = <<n, i>>
      BY <1>2, <1>8, <2>1 DEF ShownSet
    <3>2. box[w][<<n, i>>].cfg = core[<<n, i>>].cfg
      <4> PICK b : b = (box[w][<<n, i>>].cfg # core[<<n, i>>].cfg)
        OBVIOUS
      <4>1. h[i] = [typed |-> FALSE, moved |-> b]
        OBVIOUS
      <4>2. ~b
        BY <1>8, <1>9, <2>1, <4>1
      <4> QED BY <4>2
    <3> QED BY <1>2, <1>5, <1>8, <2>1, <3>1, <3>2
  <2>2. CASE v # w
    <3>1. ShownSet(v, i)' = ShownSet(v, i)
      BY <1>8, <2>2 DEF ShownSet
    <3> QED BY <1>5, <1>8, <1>9, <2>2, <3>1 DEF PaintedInv
  <2> QED BY <2>1, <2>2
<1>10. PaintedInv'
  BY <1>9 DEF PaintedInv
<1>11. EditsKept
  <2>1. screens'[w].name # screens[w].name
    BY <1>2, <1>8
  <2>2. \A v \in Screens \ {w} : hist'[v] = hist[v]
    BY <1>8
  <2> QED BY <2>1, <2>2 DEF EditsKept
<1> QED BY <1>7, <1>10, <1>11

(* A window is closed, or something of it besides its name and its rows.   *)
LEMMA WindowOnly ==
  ASSUME WindowsInv, PaintedInv, UNCHANGED <<core, box, sigs, hist>>,
         row' \in [Screens -> [SetNos -> RowRecord]], jobs' \in [Screens -> Seq(JobRecord)],
         screens' \in [Screens -> ScreenRecord], doings' \in Nat,
         \A w \in Screens : screens'[w].name = screens[w].name /\ screens'[w].loaded = screens[w].loaded
  PROVE  WindowsInv' /\ PaintedInv' /\ EditsKept
<1>1. WindowsInv'
  BY DEF WindowsInv
<1>2. PaintedInv' /\ EditsKept
  BY PaintedStays, NothingForgotten
<1> QED BY <1>1, <1>2

LEMMA QueuesTyped ==
  ASSUME WindowsInv, NEW w \in Screens
  PROVE  /\ jobs[w] \in Seq(JobRecord) /\ jobs \in [Screens -> Seq(JobRecord)]
         /\ jobs[w] # << >> => Head(jobs[w]) \in JobRecord /\ Tail(jobs[w]) \in Seq(JobRecord)
         /\ << >> \in Seq(JobRecord) /\ SaveJobs(w) \in Seq(JobRecord)
<1> PICK J, q : J = JobRecord /\ q = jobs[w]
  OBVIOUS
<1>1. q \in Seq(J) /\ jobs \in [Screens -> Seq(J)]
  BY DEF WindowsInv
<1>2. q # << >> => Head(q) \in J /\ Tail(q) \in Seq(J)
  BY <1>1
<1>3. SaveJobs(w) \in [1 .. SetCount -> J]
  <2>1. \A i \in SetNos : SetJob(w, i, row[w][i].cells, row[w][i].rt, "close") \in JobRecord
    BY ShownIsASet, SetJobIsAJob DEF RowRecord
  <2> QED BY <2>1 DEF SaveJobs, SetNos
<1>4. SaveJobs(w) \in Seq(J)
  BY <1>3, SsAssumption
<1> QED BY <1>1, <1>2, <1>4

LEMMA WindowSteps ==
  ASSUME WindowsInv, PaintedInv, NEW w \in Screens,
         \/ ApplyMarket(w) \/ Saved(w) \/ Destroyed(w) \/ Unsent(w) \/ GuardOver(w)
         \/ \E forced, live \in BOOLEAN : CloseWin(w, forced, live)
  PROVE  WindowsInv' /\ PaintedInv' /\ EditsKept
<1> PICK s : s = screens[w]
  OBVIOUS
<1>1. s \in ScreenRecord /\ doings \in Nat /\ screens \in [Screens -> ScreenRecord]
  BY DEF WindowsInv
<1>2. ASSUME NEW t \in ScreenRecord, t.name = s.name, t.loaded = s.loaded, screens' = [screens EXCEPT ![w] = t]
      PROVE  /\ screens' \in [Screens -> ScreenRecord]
             /\ \A v \in Screens : screens'[v].name = screens[v].name /\ screens'[v].loaded = screens[v].loaded
  BY <1>1, <1>2
<1>3. row \in [Screens -> [SetNos -> RowRecord]] /\ jobs \in [Screens -> Seq(JobRecord)]
  BY DEF WindowsInv
<1>4. CASE ApplyMarket(w)
  <2>1. PICK t : t = [s EXCEPT !.applied = TRUE] /\ screens' = [screens EXCEPT ![w] = t]
    BY <1>4 DEF ApplyMarket
  <2>2. t \in ScreenRecord /\ t.name = s.name /\ t.loaded = s.loaded
    BY <1>1, <2>1 DEF ScreenRecord
  <2>3. UNCHANGED <<core, box, sigs, hist, row, jobs, doings>>
    BY <1>4 DEF ApplyMarket
  <2> QED BY <1>1, <1>2, <1>3, <2>1, <2>2, <2>3, WindowOnly
<1>5. CASE Saved(w)
  <2>1. PICK t : t = [s EXCEPT !.at = "stopping"] /\ screens' = [screens EXCEPT ![w] = t]
    BY <1>5 DEF Saved
  <2>2. t \in ScreenRecord /\ t.name = s.name /\ t.loaded = s.loaded
    BY <1>1, <2>1 DEF ScreenRecord
  <2>3. UNCHANGED <<core, box, sigs, hist, row, doings>>
    BY <1>5 DEF Saved
  <2>4. PICK a \in JobRecord : Put(w, <<a>>)
    BY <1>5, OtherJobIsAJob, ShownIsASet, SsAssumption DEF Saved, SetNos
  <2>5. <<a>> \in Seq(JobRecord)
    BY SomeJobs
  <2>6. jobs' \in [Screens -> Seq(JobRecord)]
    BY <2>4, <2>5, PutIsLonger
  <2> QED BY <1>1, <1>2, <1>3, <2>1, <2>2, <2>3, <2>6, WindowOnly
<1>6. CASE Destroyed(w)
  <2>1. PICK t : t = [s EXCEPT !.at = "gone"] /\ screens' = [screens EXCEPT ![w] = t]
    BY <1>6 DEF Destroyed
  <2>2. t \in ScreenRecord /\ t.name = s.name /\ t.loaded = s.loaded
    BY <1>1, <2>1 DEF ScreenRecord
  <2>3. UNCHANGED <<core, box, sigs, hist, doings>>
    BY <1>6 DEF Destroyed
  <2>4. row' \in [Screens -> [SetNos -> RowRecord]]
    BY <1>3, <1>6, FirstRecords DEF Destroyed
  <2>5. jobs' \in [Screens -> Seq(JobRecord)]
    BY <1>3, <1>6, QueuesTyped DEF Destroyed
  <2> QED BY <1>1, <1>2, <2>1, <2>2, <2>3, <2>4, <2>5, WindowOnly
<1>7. CASE Unsent(w)
  <2>1. jobs' \in [Screens -> Seq(JobRecord)]
    <3>1. PICK q : q = Tail(jobs[w]) /\ q \in Seq(JobRecord) /\ jobs' = [jobs EXCEPT ![w] = q]
      BY <1>7, QueuesTyped DEF Unsent
    <3> QED BY <1>3, <3>1
  <2>2. UNCHANGED <<core, box, sigs, hist, row, screens>> /\ doings' \in Nat
    BY <1>1, <1>7 DEF Unsent, Counted
  <2> QED BY <1>1, <1>3, <2>1, <2>2, WindowOnly
<1>8. CASE GuardOver(w)
  <2>1. PICK i \in SetNos, l \in Legs : row' = [row EXCEPT ![w][i].guard[l] = FALSE]
    BY <1>8 DEF GuardOver
  <2>2. PICK r, guard, new, f : /\ r = row[w][i] /\ guard = [r.guard EXCEPT ![l] = FALSE]
                                /\ new = [r EXCEPT !.guard = guard] /\ f = [row[w] EXCEPT ![i] = new]
    OBVIOUS
  <2>3. row[w] \in [SetNos -> RowRecord] /\ r \in RowRecord
    BY <1>3, <2>2
  <2>4. guard \in [Legs -> BOOLEAN]
    BY <2>2, <2>3 DEF RowRecord
  <2>5. new \in RowRecord
    BY <2>2, <2>3, <2>4 DEF RowRecord
  <2>6. f \in [SetNos -> RowRecord]
    BY <2>2, <2>3, <2>5
  <2>7. row' = [row EXCEPT ![w] = f]
    BY <2>1, <2>2
  <2>8. row' \in [Screens -> [SetNos -> RowRecord]]
    BY <1>3, <2>6, <2>7
  <2>9. UNCHANGED <<core, box, sigs, hist, jobs, screens, doings>>
    BY <1>8 DEF GuardOver
  <2> QED BY <1>1, <1>3, <2>8, <2>9, WindowOnly
<1>9. CASE \E forced, live \in BOOLEAN : CloseWin(w, forced, live)
  <2> PICK forced \in BOOLEAN, live \in BOOLEAN : CloseWin(w, forced, live)
    BY <1>9
  <2> PICK stop : stop = (~forced /\ AnyRunning(w))
    OBVIOUS
  <2> PICK t : t = [s EXCEPT !.at = "saving", !.stop = stop]
    OBVIOUS
  <2>0. /\ screens' = [screens EXCEPT ![w].at = "saving", ![w].stop = ~forced /\ AnyRunning(w)]
        /\ Counted /\ UNCHANGED <<core, row, box, sigs, hist, rts>>
    BY Zenon DEF CloseWin
  <2>1. screens' = [screens EXCEPT ![w] = t]
    <3>1. screens' = [screens EXCEPT ![w].at = "saving", ![w].stop = stop]
      BY <2>0, Zenon
    <3> QED BY <1>1, <3>1
  <2>2. t \in ScreenRecord /\ t.name = s.name /\ t.loaded = s.loaded
    <3>1. stop \in BOOLEAN
      BY DEF AnyRunning
    <3> QED BY <1>1, <3>1 DEF ScreenRecord
  <2>3. UNCHANGED <<core, box, sigs, hist, row>> /\ doings' \in Nat
    BY <1>1, <2>0 DEF Counted
  <2>4. PICK more : more \in Seq(JobRecord) /\ Put(w, more)
    BY QueuesTyped DEF CloseWin
  <2>5. jobs' \in [Screens -> Seq(JobRecord)]
    BY <2>4, PutIsLonger
  <2> QED BY <1>1, <1>2, <1>3, <2>1, <2>2, <2>3, <2>5, WindowOnly
<1> QED BY <1>4, <1>5, <1>6, <1>7, <1>8, <1>9

-----------------------------------------------------------------------------
(* What the core does.                                                     *)
LEMMA TakenKeeps ==
  ASSUME WindowsInv, PaintedInv, NEW w \in Screens, SetTaken(w)
  PROVE  WindowsInv' /\ PaintedInv' /\ EditsKept
<1> PICK j : j = Head(jobs[w])
  OBVIOUS
<1>1. j \in JobRecord /\ jobs' \in [Screens -> Seq(JobRecord)]
  <2>1. PICK q : q = Tail(jobs[w]) /\ q \in Seq(JobRecord) /\ jobs' = [jobs EXCEPT ![w] = q]
    BY QueuesTyped DEF SetTaken
  <2>2. jobs \in [Screens -> Seq(JobRecord)] /\ j \in JobRecord
    BY QueuesTyped DEF SetTaken
  <2> QED BY <2>1, <2>2
<1>2. /\ core' = [k \in Sets |-> IF Meant(j, k) THEN After(core[k], j) ELSE core[k]]
      /\ hist' = [v \in Screens |-> [i \in SetNos |->
           [hist[v][i] EXCEPT !.moved = @ \/ core'[ShownSet(v, i)].cfg # core[ShownSet(v, i)].cfg]]]
      /\ UNCHANGED <<screens, row, box, sigs, doings>>
  BY DEF SetTaken
<1>3. core' \in [Sets -> SetRecord]
  <2>1. \A k \in Sets : core[k] \in SetRecord /\ After(core[k], j) \in SetRecord
    BY <1>1, AfterIsASet DEF WindowsInv
  <2> QED BY <1>2, <2>1
<1>4. ASSUME NEW v \in Screens, NEW i \in SetNos
      PROVE  /\ hist'[v][i] \in HistRecord /\ hist'[v][i].typed = hist[v][i].typed
             /\ hist'[v][i].moved = (hist[v][i].moved \/ core'[ShownSet(v, i)].cfg # core[ShownSet(v, i)].cfg)
  <2> PICK h, b, n : /\ h = hist[v][i] /\ b = (h.moved \/ core'[ShownSet(v, i)].cfg # core[ShownSet(v, i)].cfg)
                     /\ n = [h EXCEPT !.moved = b]
    OBVIOUS
  <2>1. h \in HistRecord /\ b \in BOOLEAN
    BY ShownIsASet DEF HistRecord
  <2>2. hist'[v][i] = n
    BY <1>2
  <2>3. n \in HistRecord /\ n.typed = h.typed /\ n.moved = b
    BY <2>1 DEF HistRecord
  <2> QED BY <2>2, <2>3
<1>5. hist' \in [Screens -> [SetNos -> HistRecord]]
  <2>1. hist' = [v \in Screens |-> [i \in SetNos |-> hist'[v][i]]]
    BY <1>2
  <2>2. \A v \in Screens : [i \in SetNos |-> hist'[v][i]] \in [SetNos -> HistRecord]
    BY <1>4
  <2> QED BY <2>1, <2>2
<1>6. WindowsInv'
  BY <1>1, <1>2, <1>3, <1>5 DEF WindowsInv
<1>7. ASSUME NEW v \in Screens, NEW i \in SetNos, ~hist'[v][i].moved
      PROVE  /\ box'[v][ShownSet(v, i)'].cfg = core'[ShownSet(v, i)'].cfg
             /\ screens'[v].loaded = screens'[v].name => sigs'[v][i] = core'[ShownSet(v, i)'].cfg
  <2>1. ShownSet(v, i)' = ShownSet(v, i)
    BY <1>2 DEF ShownSet
  <2>2. ~hist[v][i].moved /\ core'[ShownSet(v, i)].cfg = core[ShownSet(v, i)].cfg
    BY <1>4, <1>7
  <2> QED BY <1>2, <2>1, <2>2 DEF PaintedInv
<1>8. PaintedInv'
  BY <1>7 DEF PaintedInv
<1>9. EditsKept
  BY <1>4, NothingForgotten
<1> QED BY <1>6, <1>8, <1>9

LEMMA EngineKeeps ==
  ASSUME WindowsInv, PaintedInv, NEW k \in Sets, HaltOf(k) \/ \E l \in Legs : TradeOf(k, l)
  PROVE  WindowsInv' /\ PaintedInv' /\ EditsKept
<1> PICK s : s = core[k]
  OBVIOUS
<1>1. s \in SetRecord /\ s.rt \in Nat /\ doings \in Nat /\ core \in [Sets -> SetRecord]
  BY DEF WindowsInv, SetRecord
<1>2. PICK n \in SetRecord : core' = [core EXCEPT ![k] = n] /\ n.cfg = s.cfg
  <2>1. CASE HaltOf(k)
    <3>1. PICK n : n = [s EXCEPT !.run = NoLeg, !.halt = TRUE]
      OBVIOUS
    <3>2. n \in SetRecord /\ n.cfg = s.cfg
      BY <1>1, <3>1, FirstRecords DEF SetRecord
    <3>3. core' = [core EXCEPT ![k] = n]
      BY <2>1, <3>1 DEF HaltOf
    <3> QED BY <3>2, <3>3
  <2>2. ASSUME NEW l \in Legs, TradeOf(k, l)
        PROVE  \E n \in SetRecord : core' = [core EXCEPT ![k] = n] /\ n.cfg = s.cfg
    <3>1. PICK m, n : /\ m = IF l = "entry" THEN s.rt + 1 ELSE IF s.rt = 0 THEN 0 ELSE s.rt - 1
                      /\ n = [s EXCEPT !.rt = m]
      OBVIOUS
    <3>2. m \in Nat
      BY <1>1, <3>1
    <3>3. n \in SetRecord /\ n.cfg = s.cfg
      BY <1>1, <3>1, <3>2 DEF SetRecord
    <3>4. core' = [core EXCEPT ![k] = n]
      BY <2>2, <3>1 DEF TradeOf
    <3> QED BY <3>3, <3>4
  <2> QED BY <2>1, <2>2
<1>3. core' \in [Sets -> SetRecord] /\ \A i \in Sets : core'[i].cfg = core[i].cfg
  BY <1>1, <1>2
<1>4. UNCHANGED <<screens, row, jobs, box, sigs, hist>> /\ doings' \in Nat
  BY <1>1 DEF HaltOf, TradeOf, Counted
<1>5. WindowsInv'
  BY <1>3, <1>4 DEF WindowsInv
<1>6. PaintedInv' /\ EditsKept
  BY <1>3, <1>4, PaintedStays, NothingForgotten
<1> QED BY <1>5, <1>6

LEMMA StateComesKeeps ==
  ASSUME WindowsInv, PaintedInv, NEW w \in Screens, StateComes(w)
  PROVE  WindowsInv' /\ PaintedInv' /\ EditsKept
<1>1. box' = [box EXCEPT ![w] = core] /\ UNCHANGED <<core, screens, row, jobs, sigs, hist, doings>>
  BY DEF StateComes
<1>2. WindowsInv'
  BY <1>1 DEF WindowsInv
<1>3. box'[w] = core /\ \A v \in Screens \ {w} : box'[v] = box[v]
  BY <1>1 DEF WindowsInv
<1>4. ASSUME NEW v \in Screens, NEW i \in SetNos, ~hist'[v][i].moved
      PROVE  /\ box'[v][ShownSet(v, i)'].cfg = core'[ShownSet(v, i)'].cfg
             /\ screens'[v].loaded = screens'[v].name => sigs'[v][i] = core'[ShownSet(v, i)'].cfg
  <2>1. ShownSet(v, i)' = ShownSet(v, i)
    BY <1>1 DEF ShownSet
  <2> QED BY <1>1, <1>3, <1>4, <2>1 DEF PaintedInv
<1>5. PaintedInv'
  BY <1>4 DEF PaintedInv
<1>6. EditsKept
  BY <1>1, NothingForgotten
<1> QED BY <1>2, <1>5, <1>6

(* Painting leaves a row's RT alone, and loading too.                      *)
LEMMA PaintedIsARow ==
  ASSUME NEW r \in RowRecord, NEW run \in [Legs -> BOOLEAN]
  PROVE  /\ Painted(r, run) \in RowRecord /\ Painted(r, run).rt = r.rt /\ Painted(r, run).cells = r.cells
<1> PICK guarded : guarded = [l \in Legs |-> r.guard[l] /\ r.on[l] # run[l]]
  OBVIOUS
<1> PICK sw : sw = [l \in Legs |-> IF guarded[l] THEN r.on[l] ELSE run[l]]
  OBVIOUS
<1>1. r.on \in [Legs -> BOOLEAN] /\ r.guard \in [Legs -> BOOLEAN]
  BY DEF RowRecord
<1>2. guarded \in [Legs -> BOOLEAN]
  BY <1>1
<1>3. sw \in [Legs -> BOOLEAN]
  BY <1>1
<1>4. PICK n : n = [r EXCEPT !.on = sw, !.guard = guarded]
  OBVIOUS
<1>5. Painted(r, run) = n
  BY <1>4, Zenon DEF Painted
<1>6. n \in RowRecord /\ n.rt = r.rt /\ n.cells = r.cells
  BY <1>2, <1>3, <1>4 DEF RowRecord
<1> QED BY <1>5, <1>6

(* What a refresh makes of a row.                                          *)
LEMMA RefreshedRow ==
  ASSUME WindowsInv, NEW w \in Screens, NEW focus, Refresh(w, focus), NEW i \in SetNos
  PROVE  /\ row'[w][i] \in RowRecord /\ row'[w][i].rt = row[w][i].rt
         /\ \/ row'[w][i].cells = row[w][i].cells
            \/ i \in ToLoad(w, focus) /\ row'[w][i].cells = box[w][ShownSet(w, i)].cfg
<1> PICK r, live : r = row[w][i] /\ live = box[w][ShownSet(w, i)]
  OBVIOUS
<1> PICK loaded : loaded = IF i \in ToLoad(w, focus) THEN [r EXCEPT !.cells = live.cfg] ELSE r
  OBVIOUS
<1>1. r \in RowRecord /\ live.cfg \in [Cells -> Nat] /\ live.run \in [Legs -> BOOLEAN]
  BY ShownIsASet DEF SetRecord
<1>2. loaded \in RowRecord /\ loaded.rt = r.rt
      /\ (loaded.cells = r.cells \/ (i \in ToLoad(w, focus) /\ loaded.cells = live.cfg))
  BY <1>1 DEF RowRecord
<1>3. row'[w][i] = Painted(loaded, live.run)
  <2>1. row' = [row EXCEPT ![w] = [k \in SetNos |->
           Painted(IF k \in ToLoad(w, focus) THEN [row[w][k] EXCEPT !.cells = box[w][ShownSet(w, k)].cfg]
                   ELSE row[w][k], box[w][ShownSet(w, k)].run)]]
    BY Zenon DEF Refresh
  <2>2. PICK f : /\ row' = [row EXCEPT ![w] = f]
                 /\ f = [k \in SetNos |->
                      Painted(IF k \in ToLoad(w, focus) THEN [row[w][k] EXCEPT !.cells = box[w][ShownSet(w, k)].cfg]
                              ELSE row[w][k], box[w][ShownSet(w, k)].run)]
    BY <2>1
  <2>3. row'[w] = f
    BY <2>2 DEF WindowsInv
  <2>4. f[i] = Painted(loaded, live.run)
    BY <2>2
  <2> QED BY <2>3, <2>4
<1>4. Painted(loaded, live.run) \in RowRecord /\ Painted(loaded, live.run).rt = loaded.rt
      /\ Painted(loaded, live.run).cells = loaded.cells
  BY <1>1, <1>2, PaintedIsARow
<1> QED BY <1>2, <1>3, <1>4

LEMMA RefreshKeeps ==
  ASSUME WindowsInv, PaintedInv, NEW w \in Screens, NEW focus, Refresh(w, focus)
  PROVE  WindowsInv' /\ PaintedInv' /\ EditsKept
<1> PICK s, t : s = screens[w] /\ t = [s EXCEPT !.loaded = s.name, !.locked = AnyRunning(w)]
  OBVIOUS
<1>1. s \in ScreenRecord /\ screens \in [Screens -> ScreenRecord]
  BY DEF WindowsInv
<1>2. t \in ScreenRecord /\ t.name = s.name /\ t.loaded = s.name
  <2>1. AnyRunning(w) \in BOOLEAN
    BY DEF AnyRunning
  <2>2. s.name \in SsNames
    BY <1>1 DEF ScreenRecord
  <2> QED BY <1>1, <2>1, <2>2 DEF ScreenRecord
<1>3. screens' = [screens EXCEPT ![w] = t]
  <2>1. screens' = [screens EXCEPT ![w].loaded = screens[w].name, ![w].locked = AnyRunning(w)]
    BY Zenon DEF Refresh
  <2> QED BY <1>1, <2>1
<1>4. /\ screens' \in [Screens -> ScreenRecord] /\ screens'[w] = t
      /\ \A v \in Screens : screens'[v].name = screens[v].name
      /\ \A v \in Screens \ {w} : screens'[v] = screens[v]
  BY <1>1, <1>2, <1>3
<1>5. PICK f : f = [i \in SetNos |-> box[w][ShownSet(w, i)].cfg] /\ sigs' = [sigs EXCEPT ![w] = f]
  BY Zenon DEF Refresh
<1>6. f \in [SetNos -> [Cells -> Nat]]
  BY <1>5, ShownIsASet DEF SetRecord
<1>7. sigs' \in [Screens -> [SetNos -> [Cells -> Nat]]] /\ sigs'[w] = f /\ \A v \in Screens \ {w} : sigs'[v] = sigs[v]
  BY <1>5, <1>6 DEF WindowsInv
<1>8. row' \in [Screens -> [SetNos -> RowRecord]]
  <2>1. row' = [row EXCEPT ![w] = [k \in SetNos |->
          Painted(IF k \in ToLoad(w, focus) THEN [row[w][k] EXCEPT !.cells = box[w][ShownSet(w, k)].cfg]
                  ELSE row[w][k], box[w][ShownSet(w, k)].run)]]
    BY Zenon DEF Refresh
  <2>2. row \in [Screens -> [SetNos -> RowRecord]]
    BY DEF WindowsInv
  <2>3. PICK e : /\ e = [k \in SetNos |->
                      Painted(IF k \in ToLoad(w, focus) THEN [row[w][k] EXCEPT !.cells = box[w][ShownSet(w, k)].cfg]
                              ELSE row[w][k], box[w][ShownSet(w, k)].run)]
                 /\ row' = [row EXCEPT ![w] = e]
    BY <2>1
  <2>4. row'[w] = e /\ e = [k \in SetNos |-> e[k]]
    BY <2>2, <2>3
  <2>5. \A k \in SetNos : e[k] \in RowRecord
    BY <2>4, RefreshedRow
  <2>6. e \in [SetNos -> RowRecord]
    BY <2>4, <2>5
  <2> QED BY <2>2, <2>3, <2>6
<1>9. UNCHANGED <<core, jobs, box, doings>>
  BY Zenon DEF Refresh
<1> PICK h : h = [i \in SetNos |->
      [typed |-> hist[w][i].typed /\ row'[w][i].cells = row[w][i].cells,
       moved |-> hist[w][i].moved /\ box[w] # core]]
  OBVIOUS
<1>10. hist' = [hist EXCEPT ![w] = h]
  BY Zenon DEF Refresh
<1>11. h \in [SetNos -> HistRecord]
  BY DEF HistRecord
<1>12. hist' \in [Screens -> [SetNos -> HistRecord]] /\ hist'[w] = h /\ \A v \in Screens \ {w} : hist'[v] = hist[v]
  BY <1>10, <1>11 DEF WindowsInv
<1>13. WindowsInv'
  BY <1>4, <1>7, <1>8, <1>9, <1>12 DEF WindowsInv
<1>14. \A i \in SetNos : /\ ~h[i].moved => ~hist[w][i].moved \/ box[w] = core
                         /\ hist[w][i].typed /\ ~h[i].typed => row'[w][i].cells # row[w][i].cells
  <2> SUFFICES ASSUME NEW i \in SetNos
               PROVE  /\ ~h[i].moved => ~hist[w][i].moved \/ box[w] = core
                      /\ hist[w][i].typed /\ ~h[i].typed => row'[w][i].cells # row[w][i].cells
    OBVIOUS
  <2> PICK a, b : /\ a = (hist[w][i].typed /\ row'[w][i].cells = row[w][i].cells)
                  /\ b = (hist[w][i].moved /\ box[w] # core)
    OBVIOUS
  <2>1. h[i] = [typed |-> a, moved |-> b]
    BY Zenon
  <2> QED BY <2>1
<1>15. ASSUME NEW v \in Screens, NEW i \in SetNos, ~hist'[v][i].moved
       PROVE  /\ box'[v][ShownSet(v, i)'].cfg = core'[ShownSet(v, i)'].cfg
              /\ screens'[v].loaded = screens'[v].name => sigs'[v][i] = core'[ShownSet(v, i)'].cfg
  <2>1. ShownSet(v, i)' = ShownSet(v, i)
    BY <1>4 DEF ShownSet
  <2>2. CASE v = w
    <3>1. box[w][ShownSet(w, i)].cfg = core[ShownSet(w, i)].cfg
      BY <1>12, <1>14, <1>15, <2>2 DEF PaintedInv
    <3>2. sigs'[w][i] = box[w][ShownSet(w, i)].cfg
      BY <1>5, <1>7
    <3> QED BY <1>9, <2>1, <2>2, <3>1, <3>2
  <2>3. CASE v # w
    <3>1. screens'[v] = screens[v] /\ sigs'[v] = sigs[v] /\ ~hist[v][i].moved
      BY <1>4, <1>7, <1>12, <1>15, <2>3
    <3>2. /\ box[v][ShownSet(v, i)].cfg = core[ShownSet(v, i)].cfg
          /\ screens[v].loaded = screens[v].name => sigs[v][i] = core[ShownSet(v, i)].cfg
      BY <3>1 DEF PaintedInv
    <3> QED BY <1>9, <2>1, <3>1, <3>2
  <2> QED BY <2>2, <2>3
<1>16. PaintedInv'
  BY <1>15 DEF PaintedInv
<1>17. ASSUME NEW i \in SetNos, hist[w][i].typed, ~h[i].typed, screens'[w].loaded = screens[w].loaded
       PROVE  hist[w][i].moved
  <2>1. row'[w][i].cells # row[w][i].cells
    BY <1>14, <1>17
  <2>2. i \in ToLoad(w, focus)
    BY <2>1, RefreshedRow
  <2>3. screens[w].loaded = screens[w].name
    BY <1>2, <1>4, <1>17
  <2>4. sigs[w][i] # box[w][ShownSet(w, i)].cfg
    BY <2>2, <2>3 DEF ToLoad, Changed
  <2> QED BY <2>3, <2>4 DEF PaintedInv
<1>18. EditsKept
  BY <1>12, <1>17 DEF EditsKept
<1> QED BY <1>13, <1>16, <1>18

LEMMA SsStill ==
  ASSUME WindowsInv, PaintedInv, UNCHANGED ssVars PROVE WindowsInv' /\ PaintedInv' /\ EditsKept
<1>1. UNCHANGED <<core, screens, row, jobs, box, sigs, hist, doings>>
  BY DEF ssVars
<1>2. WindowsInv'
  BY <1>1 DEF WindowsInv
<1> QED BY <1>1, <1>2, PaintedStays, NothingForgotten

LEMMA SsStep ==
  ASSUME WindowsInv, PaintedInv, [SsNext]_ssVars PROVE WindowsInv' /\ PaintedInv' /\ EditsKept
<1>1. ASSUME NEW w \in Screens, SsUser(w) PROVE WindowsInv' /\ PaintedInv' /\ EditsKept
  <2>1. ASSUME NEW i \in SetNos, \/ \E c \in Cells, v \in {0, 2 + doings} : Type(w, i, c, v)
                                 \/ TypeRt(w, i) \/ RevertRt(w, i)
                                 \/ \E l \in Legs : SwitchOnRow(w, i, l) \/ SwitchOffRow(w, i, l)
                                 \/ \E rt \in {0, 13 + 2 * doings} : Confirm(w, i, rt)
        PROVE  RowStep(w, i)
    <3>1. \A v \in {0, 2 + doings} : v \in Nat
      BY DEF WindowsInv
    <3> QED BY <2>1, <3>1 DEF RowStep
  <2>2. CASE \E n \in SsNames : Choose(w, n)
    BY <2>2, ChooseKeeps
  <2>3. CASE ApplyMarket(w) \/ \E forced, live \in BOOLEAN : CloseWin(w, forced, live)
    BY <2>3, WindowSteps
  <2>4. CASE \E i \in SetNos : RowStep(w, i)
    BY <2>4, RowSteps
  <2> QED BY <1>1, <2>1, <2>2, <2>3, <2>4 DEF SsUser
<1>2. ASSUME NEW w \in Screens,
             SsScreen(w) \/ StateComes(w) \/ GuardOver(w) \/ Saved(w) \/ Destroyed(w) \/ SetTaken(w) \/ Unsent(w)
      PROVE  WindowsInv' /\ PaintedInv' /\ EditsKept
  BY <1>2, RefreshKeeps, StateComesKeeps, WindowSteps, TakenKeeps DEF SsScreen
<1>3. ASSUME NEW k \in Sets, HaltOf(k) \/ \E l \in Legs : TradeOf(k, l)
      PROVE  WindowsInv' /\ PaintedInv' /\ EditsKept
  BY <1>3, EngineKeeps
<1> QED BY <1>1, <1>2, <1>3, SsStill DEF SsNext

-----------------------------------------------------------------------------
(***************************************************************************)
(* The RTs that users type in: in a row, in a job for the core, or taken.  *)
(***************************************************************************)
RtOf(j) == IF j.why = "close" THEN 0 ELSE j.rt

(* Every RT is in one place only, and those to come are larger.            *)
RtsApart(R, Q, s, b) ==
  /\ b \in Nat /\ b > 0
  /\ \A w \in Screens, i \in SetNos : R[w][i].rt \in Nat /\ R[w][i].rt < b
  /\ \A w \in Screens : \A n \in DOMAIN Q[w] : RtOf(Q[w][n]) \in Nat /\ RtOf(Q[w][n]) < b
  /\ \A n \in DOMAIN s : s[n] \in Nat /\ s[n] # 0 /\ s[n] < b
  /\ \A w, v \in Screens : \A i, j \in SetNos :
       R[w][i].rt # 0 /\ R[w][i].rt = R[v][j].rt => w = v /\ i = j
  /\ \A w, v \in Screens : \A i \in SetNos, n \in DOMAIN Q[v] : R[w][i].rt # 0 => R[w][i].rt # RtOf(Q[v][n])
  /\ \A w \in Screens, i \in SetNos, n \in DOMAIN s : R[w][i].rt # s[n]
  /\ \A w, v \in Screens : \A n \in DOMAIN Q[w], m \in DOMAIN Q[v] :
       RtOf(Q[w][n]) # 0 /\ RtOf(Q[w][n]) = RtOf(Q[v][m]) => w = v /\ n = m
  /\ \A w \in Screens : \A n \in DOMAIN Q[w], m \in DOMAIN s : RtOf(Q[w][n]) # s[m]
  /\ \A n, m \in DOMAIN s : s[n] = s[m] => n = m

(* One row gets a new RT, others lose theirs or keep it.                   *)
LEMMA RowsStayApart ==
  ASSUME NEW R, NEW Q, NEW s, NEW b, RtsApart(R, Q, s, b), NEW S, NEW c \in Nat, b <= c,
         NEW w, NEW i,
         \A v \in Screens, j \in SetNos :
           S[v][j].rt \in {0, R[v][j].rt} \/ (v = w /\ j = i /\ S[v][j].rt = b /\ b < c)
  PROVE  RtsApart(S, Q, s, c)
<1>1. b \in Nat /\ b > 0
  BY DEF RtsApart
<1>2. ASSUME NEW v \in Screens, NEW j \in SetNos
      PROVE  S[v][j].rt \in Nat /\ S[v][j].rt < c
             /\ (S[v][j].rt = 0 \/ S[v][j].rt = R[v][j].rt \/ (v = w /\ j = i /\ S[v][j].rt = b))
  <2>1. R[v][j].rt \in Nat /\ R[v][j].rt < b
    BY DEF RtsApart
  <2> QED BY <1>1, <2>1
<1>3. \A v \in Screens, j \in SetNos : R[v][j].rt # b
  BY <1>1 DEF RtsApart
<1>4. \A v \in Screens : \A n \in DOMAIN Q[v] : RtOf(Q[v][n]) # b /\ RtOf(Q[v][n]) \in Nat /\ RtOf(Q[v][n]) < c
  <2> SUFFICES ASSUME NEW v \in Screens, NEW n \in DOMAIN Q[v]
               PROVE  RtOf(Q[v][n]) # b /\ RtOf(Q[v][n]) \in Nat /\ RtOf(Q[v][n]) < c
    OBVIOUS
  <2>1. RtOf(Q[v][n]) \in Nat /\ RtOf(Q[v][n]) < b
    BY DEF RtsApart
  <2> QED BY <1>1, <2>1
<1>5. \A n \in DOMAIN s : s[n] # b /\ s[n] \in Nat /\ s[n] # 0 /\ s[n] < c
  <2> SUFFICES ASSUME NEW n \in DOMAIN s PROVE s[n] # b /\ s[n] \in Nat /\ s[n] # 0 /\ s[n] < c
    OBVIOUS
  <2>1. s[n] \in Nat /\ s[n] # 0 /\ s[n] < b
    BY DEF RtsApart
  <2> QED BY <1>1, <2>1
<1>6. ASSUME NEW v \in Screens, NEW u \in Screens, NEW j \in SetNos, NEW k \in SetNos,
             S[v][j].rt # 0, S[v][j].rt = S[u][k].rt
      PROVE  v = u /\ j = k
  <2>1. CASE S[v][j].rt = b
    <3>1. v = w /\ j = i
      BY <1>2, <1>3, <1>6, <2>1
    <3>2. u = w /\ k = i
      BY <1>2, <1>3, <1>6, <2>1
    <3> QED BY <3>1, <3>2
  <2>2. CASE S[v][j].rt # b
    <3>1. S[v][j].rt = R[v][j].rt
      BY <1>2, <1>6, <2>2
    <3>2. S[u][k].rt = R[u][k].rt
      BY <1>2, <1>6, <2>2
    <3>3. R[v][j].rt # 0 /\ R[v][j].rt = R[u][k].rt
      BY <1>6, <3>1, <3>2
    <3>4. \A y, z \in Screens : \A l, m \in SetNos :
            R[y][l].rt # 0 /\ R[y][l].rt = R[z][m].rt => y = z /\ l = m
      BY Zenon DEF RtsApart
    <3> QED BY <3>3, <3>4
  <2> QED BY <2>1, <2>2
<1>7. \A v, u \in Screens : \A j \in SetNos, n \in DOMAIN Q[u] : S[v][j].rt # 0 => S[v][j].rt # RtOf(Q[u][n])
  BY <1>2, <1>4 DEF RtsApart
<1>8. \A v \in Screens, j \in SetNos, n \in DOMAIN s : S[v][j].rt # s[n]
  BY <1>2, <1>5 DEF RtsApart
<1>9. c > 0 /\ c \in Nat
  BY <1>1
<1>10. /\ \A v, u \in Screens : \A n \in DOMAIN Q[v], m \in DOMAIN Q[u] :
            RtOf(Q[v][n]) # 0 /\ RtOf(Q[v][n]) = RtOf(Q[u][m]) => v = u /\ n = m
       /\ \A v \in Screens : \A n \in DOMAIN Q[v], m \in DOMAIN s : RtOf(Q[v][n]) # s[m]
       /\ \A n, m \in DOMAIN s : s[n] = s[m] => n = m
  BY Zenon DEF RtsApart
<1>11. \A v \in Screens, j \in SetNos : S[v][j].rt \in Nat /\ S[v][j].rt < c
  BY <1>2
<1>12. \A v \in Screens : \A n \in DOMAIN Q[v] : RtOf(Q[v][n]) \in Nat /\ RtOf(Q[v][n]) < c
  BY <1>4
<1>13. \A n \in DOMAIN s : s[n] \in Nat /\ s[n] # 0 /\ s[n] < c
  BY <1>5
<1>14. \A v, u \in Screens : \A j, k \in SetNos : S[v][j].rt # 0 /\ S[v][j].rt = S[u][k].rt => v = u /\ j = k
  BY <1>6
<1> QED BY <1>7, <1>8, <1>9, <1>10, <1>11, <1>12, <1>13, <1>14, Zenon DEF RtsApart

(* A queue grows by jobs of which one carries an RT, from a row or new.    *)
Grown(p, q, at, x) ==
  \A n \in DOMAIN p :
    \/ n \in DOMAIN q /\ p[n] = q[n]
    \/ n \notin DOMAIN q /\ (RtOf(p[n]) = 0 \/ (n = at /\ RtOf(p[n]) = x))

LEMMA QueuesStayApart ==
  ASSUME NEW R, NEW Q, NEW s, NEW b, RtsApart(R, Q, s, b), NEW P, NEW w \in Screens, NEW at, NEW x \in Nat,
         x < b, \A v \in Screens \ {w} : P[v] = Q[v], Grown(P[w], Q[w], at, x),
         x # 0 => /\ \A v \in Screens, j \in SetNos : R[v][j].rt # x
                  /\ \A v \in Screens : \A n \in DOMAIN Q[v] : RtOf(Q[v][n]) # x
                  /\ \A n \in DOMAIN s : s[n] # x
  PROVE  RtsApart(R, P, s, b)
<1>1. b \in Nat /\ b > 0
  BY DEF RtsApart
<1>2. ASSUME NEW v \in Screens, NEW n \in DOMAIN P[v]
      PROVE  \/ n \in DOMAIN Q[v] /\ P[v][n] = Q[v][n]
             \/ RtOf(P[v][n]) = 0
             \/ v = w /\ n = at /\ n \notin DOMAIN Q[v] /\ RtOf(P[v][n]) = x
  BY <1>2 DEF Grown
<1>3. \A v \in Screens : \A n \in DOMAIN P[v] : RtOf(P[v][n]) \in Nat /\ RtOf(P[v][n]) < b
  <2> SUFFICES ASSUME NEW v \in Screens, NEW n \in DOMAIN P[v]
               PROVE  RtOf(P[v][n]) \in Nat /\ RtOf(P[v][n]) < b
    OBVIOUS
  <2>1. CASE n \in DOMAIN Q[v] /\ P[v][n] = Q[v][n]
    BY <2>1 DEF RtsApart
  <2>2. CASE RtOf(P[v][n]) = 0
    BY <1>1, <2>2
  <2>3. CASE RtOf(P[v][n]) = x
    BY <2>3
  <2> QED BY <1>2, <2>1, <2>2, <2>3
<1>4. ASSUME NEW v \in Screens, NEW u \in Screens, NEW i \in SetNos, NEW n \in DOMAIN P[u], R[v][i].rt # 0
      PROVE  R[v][i].rt # RtOf(P[u][n])
  <2>1. CASE n \in DOMAIN Q[u] /\ P[u][n] = Q[u][n]
    BY <1>4, <2>1 DEF RtsApart
  <2>2. CASE RtOf(P[u][n]) = 0
    BY <1>4, <2>2
  <2>3. CASE RtOf(P[u][n]) = x
    BY <1>4, <2>3
  <2> QED BY <1>2, <2>1, <2>2, <2>3
<1>5. ASSUME NEW v \in Screens, NEW n \in DOMAIN P[v], NEW m \in DOMAIN s
      PROVE  RtOf(P[v][n]) # s[m]
  <2>0. s[m] # 0
    BY DEF RtsApart
  <2>1. CASE n \in DOMAIN Q[v] /\ P[v][n] = Q[v][n]
    BY <2>1 DEF RtsApart
  <2>2. CASE RtOf(P[v][n]) = 0
    BY <2>0, <2>2
  <2>3. CASE RtOf(P[v][n]) = x
    BY <2>0, <2>3
  <2> QED BY <1>2, <2>1, <2>2, <2>3
<1>6. ASSUME NEW v \in Screens, NEW u \in Screens, NEW n \in DOMAIN P[v], NEW m \in DOMAIN P[u],
             RtOf(P[v][n]) # 0, RtOf(P[v][n]) = RtOf(P[u][m])
      PROVE  v = u /\ n = m
  <2>1. CASE n \in DOMAIN Q[v] /\ P[v][n] = Q[v][n] /\ m \in DOMAIN Q[u] /\ P[u][m] = Q[u][m]
    BY <1>6, <2>1 DEF RtsApart
  <2>2. CASE n \in DOMAIN Q[v] /\ P[v][n] = Q[v][n] /\ u = w /\ RtOf(P[u][m]) = x
    BY <1>6, <2>2
  <2>3. CASE v = w /\ RtOf(P[v][n]) = x /\ m \in DOMAIN Q[u] /\ P[u][m] = Q[u][m]
    BY <1>6, <2>3
  <2>4. CASE v = w /\ n = at /\ u = w /\ m = at
    BY <2>4
  <2> QED BY <1>2, <1>6, <2>1, <2>2, <2>3, <2>4
<1>7. /\ \A v \in Screens, i \in SetNos : R[v][i].rt \in Nat /\ R[v][i].rt < b
      /\ \A n \in DOMAIN s : s[n] \in Nat /\ s[n] # 0 /\ s[n] < b
      /\ \A v, u \in Screens : \A i, j \in SetNos : R[v][i].rt # 0 /\ R[v][i].rt = R[u][j].rt => v = u /\ i = j
      /\ \A v \in Screens, i \in SetNos, n \in DOMAIN s : R[v][i].rt # s[n]
      /\ \A n, m \in DOMAIN s : s[n] = s[m] => n = m
  BY Zenon DEF RtsApart
<1>8. \A v, u \in Screens : \A i \in SetNos, n \in DOMAIN P[u] : R[v][i].rt # 0 => R[v][i].rt # RtOf(P[u][n])
  BY <1>4
<1>9. \A v \in Screens : \A n \in DOMAIN P[v], m \in DOMAIN s : RtOf(P[v][n]) # s[m]
  BY <1>5
<1>10. \A v, u \in Screens : \A n \in DOMAIN P[v], m \in DOMAIN P[u] :
         RtOf(P[v][n]) # 0 /\ RtOf(P[v][n]) = RtOf(P[u][m]) => v = u /\ n = m
  BY <1>6
<1> QED BY <1>1, <1>3, <1>7, <1>8, <1>9, <1>10, Zenon DEF RtsApart

(* The first job leaves a queue, and the core takes its RT or does not.    *)
Shorter(p, q) == \A n \in DOMAIN p : n + 1 \in DOMAIN q /\ n + 1 # 1 /\ n \in Int /\ p[n] = q[n + 1]
Longer(t, s, x) ==
  /\ DOMAIN t = 1 .. Len(s) + 1 /\ DOMAIN s = 1 .. Len(s) /\ Len(s) \in Nat
  /\ t[Len(s) + 1] = x /\ \A n \in 1 .. Len(s) : t[n] = s[n]

LEMMA JobLeaves ==
  ASSUME NEW R, NEW Q, NEW s, NEW b, RtsApart(R, Q, s, b), NEW P, NEW w \in Screens,
         \A v \in Screens \ {w} : P[v] = Q[v], Shorter(P[w], Q[w])
  PROVE  RtsApart(R, P, s, b)
<1> DEFINE Was(v, n) == IF v = w THEN n + 1 ELSE n
<1>1. ASSUME NEW v \in Screens, NEW n \in DOMAIN P[v]
      PROVE  Was(v, n) \in DOMAIN Q[v] /\ P[v][n] = Q[v][Was(v, n)]
  BY <1>1 DEF Shorter
<1>2. ASSUME NEW v \in Screens, NEW n \in DOMAIN P[v], NEW m \in DOMAIN P[v], Was(v, n) = Was(v, m) PROVE n = m
  BY <1>2 DEF Shorter
<1> HIDE DEF Was
<1>3. ASSUME NEW v \in Screens, NEW u \in Screens, NEW n \in DOMAIN P[v], NEW m \in DOMAIN P[u],
             RtOf(P[v][n]) # 0, RtOf(P[v][n]) = RtOf(P[u][m])
      PROVE  v = u /\ n = m
  <2>1. v = u /\ Was(v, n) = Was(u, m)
    BY <1>1, <1>3 DEF RtsApart
  <2> QED BY <1>2, <2>1
<1>4. \A v, u \in Screens : \A n \in DOMAIN P[v], m \in DOMAIN P[u] :
         RtOf(P[v][n]) # 0 /\ RtOf(P[v][n]) = RtOf(P[u][m]) => v = u /\ n = m
  BY <1>3
<1>5. \A v \in Screens : \A n \in DOMAIN P[v] : RtOf(P[v][n]) \in Nat /\ RtOf(P[v][n]) < b
  BY <1>1 DEF RtsApart
<1>6. \A v, u \in Screens : \A i \in SetNos, n \in DOMAIN P[u] : R[v][i].rt # 0 => R[v][i].rt # RtOf(P[u][n])
  BY <1>1 DEF RtsApart
<1>7. \A v \in Screens : \A n \in DOMAIN P[v], m \in DOMAIN s : RtOf(P[v][n]) # s[m]
  BY <1>1 DEF RtsApart
<1> QED BY <1>4, <1>5, <1>6, <1>7, Zenon DEF RtsApart

LEMMA RtIsTaken ==
  ASSUME NEW R, NEW Q, NEW s, NEW b, RtsApart(R, Q, s, b), NEW P, NEW w \in Screens,
         \A v \in Screens \ {w} : P[v] = Q[v], Shorter(P[w], Q[w]), 1 \in DOMAIN Q[w],
         NEW x, x = RtOf(Q[w][1]), x # 0, NEW t, Longer(t, s, x)
  PROVE  RtsApart(R, P, t, b)
<1>1. RtsApart(R, P, s, b)
  BY JobLeaves
<1>2. x \in Nat /\ x < b
  BY DEF RtsApart
<1>3. \A v \in Screens, i \in SetNos : R[v][i].rt # x
  BY DEF RtsApart
<1>4. \A n \in DOMAIN s : s[n] # x
  BY DEF RtsApart
<1>5. ASSUME NEW v \in Screens, NEW n \in DOMAIN P[v] PROVE RtOf(P[v][n]) # x
  <2>1. CASE v = w
    <3>1. n + 1 \in DOMAIN Q[w] /\ n + 1 # 1 /\ P[w][n] = Q[w][n + 1]
      BY <1>5, <2>1 DEF Shorter
    <3> QED BY <2>1, <3>1 DEF RtsApart
  <2>2. CASE v # w
    BY <1>5, <2>2 DEF RtsApart
  <2> QED BY <2>1, <2>2
<1>6. PICK l : l = Len(s) /\ l \in Nat /\ DOMAIN s = 1 .. l /\ DOMAIN t = 1 .. l + 1
               /\ t[l + 1] = x /\ \A n \in 1 .. l : t[n] = s[n]
  BY DEF Longer
<1>7. \A n \in DOMAIN t : (n \in DOMAIN s /\ t[n] = s[n]) \/ (n = l + 1 /\ t[n] = x)
  BY <1>6
<1>8. \A n \in DOMAIN t : t[n] \in Nat /\ t[n] # 0 /\ t[n] < b
  BY <1>2, <1>7 DEF RtsApart
<1>9. \A v \in Screens, i \in SetNos, n \in DOMAIN t : R[v][i].rt # t[n]
  BY <1>3, <1>7 DEF RtsApart
<1>10. \A v \in Screens : \A n \in DOMAIN P[v], m \in DOMAIN t : RtOf(P[v][n]) # t[m]
  BY <1>1, <1>5, <1>7 DEF RtsApart
<1>11. \A n, m \in DOMAIN t : t[n] = t[m] => n = m
  BY <1>4, <1>7 DEF RtsApart
<1> QED BY <1>1, <1>8, <1>9, <1>10, <1>11, Zenon DEF RtsApart

RtInv == RtsApart(row, jobs, rts, 12 + 2 * doings) /\ rts \in Seq(Nat)

LEMMA TailIsShorter ==
  ASSUME NEW J, NEW q, q \in Seq(J), q # << >>
  PROVE  Shorter(Tail(q), q) /\ 1 \in DOMAIN q /\ Head(q) = q[1]
<1> PICK p, l : p = Tail(q) /\ l = Len(q)
  OBVIOUS
<1>1. l \in Nat /\ l > 0 /\ DOMAIN q = 1 .. l /\ Head(q) = q[1]
  OBVIOUS
<1>2. DOMAIN p = 1 .. l - 1 /\ \A n \in 1 .. l - 1 : p[n] = q[n + 1]
  OBVIOUS
<1>3. Shorter(p, q)
  BY <1>1, <1>2 DEF Shorter
<1> QED BY <1>1, <1>3

LEMMA AppendIsLonger ==
  ASSUME NEW s, s \in Seq(Nat), NEW x \in Nat, NEW t, t = Append(s, x) PROVE Longer(t, s, x) /\ t \in Seq(Nat)
BY DEF Longer

LEMMA JoinIsGrown ==
  ASSUME NEW p, NEW q, NEW more, JoinOf(p, q, more), NEW x,
         DOMAIN more = 1 .. Len(more),
         \A n \in DOMAIN more : RtOf(more[n]) = 0 \/ (n = 1 /\ RtOf(more[n]) = x)
  PROVE  Grown(p, q, Len(q) + 1, x)
<1> PICK l, m : l = Len(q) /\ m = Len(more)
  OBVIOUS
<1>1. /\ l \in Nat /\ m \in Nat /\ DOMAIN q = 1 .. l /\ DOMAIN p = 1 .. l + m
      /\ \A i \in 1 .. l + m : p[i] = IF i <= l THEN q[i] ELSE more[i - l]
  BY DEF JoinOf
<1>2. ASSUME NEW n \in 1 .. l + m
      PROVE  \/ n \in 1 .. l /\ p[n] = q[n]
             \/ n \notin 1 .. l /\ (RtOf(p[n]) = 0 \/ (n = l + 1 /\ RtOf(p[n]) = x))
  <2>1. CASE n <= l
    BY <1>1, <2>1
  <2>2. CASE ~(n <= l)
    <3>1. n - l \in 1 .. m /\ n \notin 1 .. l /\ p[n] = more[n - l]
      BY <1>1, <2>2
    <3>2. RtOf(more[n - l]) = 0 \/ (n - l = 1 /\ RtOf(more[n - l]) = x)
      BY <3>1
    <3> QED BY <1>1, <3>1, <3>2
  <2> QED BY <2>1, <2>2
<1> QED BY <1>1, <1>2 DEF Grown

(* One row has a new RT, or the one it had.                                *)
RowRts(w, i, x) == \A v \in Screens, j \in SetNos : row'[v][j].rt = IF v = w /\ j = i THEN x ELSE row[v][j].rt

LEMMA RowRenewed ==
  ASSUME WindowsInv, NEW w \in Screens, NEW i \in SetNos, NEW new,
         row' = [row EXCEPT ![w] = [row[w] EXCEPT ![i] = new]]
  PROVE  RowRts(w, i, new.rt)
<1>1. row \in [Screens -> [SetNos -> RowRecord]] /\ row[w] \in [SetNos -> RowRecord]
  BY DEF WindowsInv
<1>2. PICK f : f = [row[w] EXCEPT ![i] = new] /\ row' = [row EXCEPT ![w] = f]
  OBVIOUS
<1>3. f[i] = new /\ \A j \in SetNos \ {i} : f[j] = row[w][j]
  BY <1>1, <1>2
<1>4. row'[w] = f /\ \A v \in Screens \ {w} : row'[v] = row[v]
  BY <1>1, <1>2
<1>5. ASSUME NEW v \in Screens, NEW j \in SetNos
      PROVE  row'[v][j].rt = IF v = w /\ j = i THEN new.rt ELSE row[v][j].rt
  <2>1. CASE v = w
    <3>1. row'[v][j] = f[j]
      BY <1>4, <2>1
    <3> QED BY <1>3, <2>1, <3>1
  <2>2. CASE v # w
    BY <1>4, <2>2
  <2> QED BY <2>1, <2>2
<1> QED BY <1>5 DEF RowRts

LEMMA RtsOfRows ==
  ASSUME WindowsInv, NEW w \in Screens, NEW i \in SetNos
  PROVE  /\ \A v : \A c \in Cells : Type(w, i, c, v) => RowRts(w, i, row[w][i].rt)
         /\ TypeRt(w, i) => RowRts(w, i, 12 + 2 * doings)
         /\ RevertRt(w, i) => RowRts(w, i, 0)
         /\ \A l \in Legs : SwitchOnRow(w, i, l) => RowRts(w, i, 0)
         /\ \A l \in Legs : SwitchOffRow(w, i, l) => RowRts(w, i, row[w][i].rt)
         /\ \A rt : Confirm(w, i, rt) => RowRts(w, i, row[w][i].rt)
         /\ \A l \in Legs : row' = [row EXCEPT ![w][i].guard[l] = FALSE] => RowRts(w, i, row[w][i].rt)
<1> PICK r : r = row[w][i]
  OBVIOUS
<1>0. r \in RowRecord
  BY ShownIsASet
<1>1. ASSUME NEW c \in Cells, NEW v, Type(w, i, c, v) PROVE RowRts(w, i, r.rt)
  <2>1. PICK cells, new : /\ cells = [r.cells EXCEPT ![c] = v] /\ new = [r EXCEPT !.cells = cells]
                          /\ row' = [row EXCEPT ![w] = [row[w] EXCEPT ![i] = new]]
    BY <1>1 DEF Type
  <2>2. new.rt = r.rt
    BY <1>0, <2>1 DEF RowRecord
  <2> QED BY <2>1, <2>2, RowRenewed
<1>2. ASSUME NEW x, row' = [row EXCEPT ![w][i].rt = x] PROVE RowRts(w, i, x)
  <2>1. PICK new : /\ new = [r EXCEPT !.rt = x]
                   /\ row' = [row EXCEPT ![w] = [row[w] EXCEPT ![i] = new]]
    BY <1>2
  <2>2. new.rt = x
    BY <1>0, <2>1 DEF RowRecord
  <2> QED BY <2>1, <2>2, RowRenewed
<1>3. ASSUME NEW l \in Legs, SwitchOnRow(w, i, l) PROVE RowRts(w, i, 0)
  <2>1. PICK sw, guard, new :
          /\ sw = [r.on EXCEPT ![l] = TRUE] /\ guard = [r.guard EXCEPT ![l] = TRUE]
          /\ new = [r EXCEPT !.on = sw, !.guard = guard, !.rt = 0]
          /\ row' = [row EXCEPT ![w] = [row[w] EXCEPT ![i] = new]]
    BY <1>3 DEF SwitchOnRow, Pressed
  <2>2. new.rt = 0
    BY <1>0, <2>1 DEF RowRecord
  <2> QED BY <2>1, <2>2, RowRenewed
<1>4. ASSUME NEW l \in Legs, SwitchOffRow(w, i, l) PROVE RowRts(w, i, r.rt)
  <2>1. PICK sw, guard, new :
          /\ sw = [r.on EXCEPT ![l] = FALSE] /\ guard = [r.guard EXCEPT ![l] = TRUE]
          /\ new = [r EXCEPT !.on = sw, !.guard = guard]
          /\ row' = [row EXCEPT ![w] = [row[w] EXCEPT ![i] = new]]
    BY <1>4 DEF SwitchOffRow
  <2>2. new.rt = r.rt
    BY <1>0, <2>1 DEF RowRecord
  <2> QED BY <2>1, <2>2, RowRenewed
<1>5. ASSUME NEW rt, Confirm(w, i, rt) PROVE RowRts(w, i, r.rt)
  <2>1. PICK cells, new : /\ new = [r EXCEPT !.cells = cells]
                          /\ row' = [row EXCEPT ![w] = [row[w] EXCEPT ![i] = new]]
    BY <1>5 DEF Confirm
  <2>2. new.rt = r.rt
    BY <1>0, <2>1 DEF RowRecord
  <2> QED BY <2>1, <2>2, RowRenewed
<1>6. ASSUME NEW l \in Legs, row' = [row EXCEPT ![w][i].guard[l] = FALSE] PROVE RowRts(w, i, r.rt)
  <2>1. PICK guard, new : /\ guard = [r.guard EXCEPT ![l] = FALSE] /\ new = [r EXCEPT !.guard = guard]
                          /\ row' = [row EXCEPT ![w] = [row[w] EXCEPT ![i] = new]]
    BY <1>6
  <2>2. new.rt = r.rt
    BY <1>0, <2>1 DEF RowRecord
  <2> QED BY <2>1, <2>2, RowRenewed
<1>7. TypeRt(w, i) => RowRts(w, i, 12 + 2 * doings)
  BY <1>2 DEF TypeRt
<1>8. RevertRt(w, i) => RowRts(w, i, 0)
  BY <1>2 DEF RevertRt
<1> QED BY <1>1, <1>3, <1>4, <1>5, <1>6, <1>7, <1>8

(* Steps that leave the queues and what the core took.                     *)
LEMMA OnlyRows ==
  ASSUME WindowsInv, RtInv, UNCHANGED <<jobs, rts>>, NEW w, NEW i,
         \/ doings' = doings + 1
         \/ doings' = doings /\ row'[w][i].rt # 12 + 2 * doings,
         \A v \in Screens, j \in SetNos :
           \/ row'[v][j].rt \in {0, row[v][j].rt}
           \/ v = w /\ j = i /\ row'[v][j].rt = 12 + 2 * doings
  PROVE  RtInv'
<1> PICK b, c : b = 12 + 2 * doings /\ c = 12 + 2 * doings'
  OBVIOUS
<1>1. b \in Nat /\ c \in Nat /\ b <= c /\ (doings' = doings + 1 => b < c)
  BY DEF WindowsInv
<1>2. \A v \in Screens, j \in SetNos :
        row'[v][j].rt \in {0, row[v][j].rt} \/ (v = w /\ j = i /\ row'[v][j].rt = b /\ b < c)
  BY <1>1
<1>3. RtsApart(row, jobs, rts, b)
  BY DEF RtInv
<1>4. RtsApart(row', jobs, rts, c)
  BY <1>1, <1>2, <1>3, RowsStayApart
<1> QED BY <1>4 DEF RtInv

LEMMA BoundsGrow ==
  ASSUME NEW d \in Nat, NEW e \in {d, d + 1}
  PROVE  /\ 12 + 2 * d \in Nat /\ 12 + 2 * e \in Nat /\ 12 + 2 * d <= 12 + 2 * e
         /\ (e = d + 1 => 12 + 2 * e = (12 + 2 * d) + 2)
OBVIOUS

LEMMA OneJob ==
  ASSUME NEW J, NEW a \in J, NEW more, more = <<a>>
  PROVE  more \in Seq(J) /\ \A n \in DOMAIN more : n = 1 /\ more[n] = a
OBVIOUS

(* Steps that put jobs into a queue, of which the first may carry an RT    *)
(* that no row holds any more, and nobody else.                            *)
LEMMA RtIsSent ==
  ASSUME WindowsInv, RtInv, rts' = rts, doings' \in {doings, doings + 1},
         NEW w \in Screens, NEW more, more \in Seq(JobRecord), Put(w, more), NEW x \in Nat,
         \A n \in DOMAIN more : RtOf(more[n]) = 0 \/ (n = 1 /\ RtOf(more[n]) = x),
         \A v \in Screens, j \in SetNos : row'[v][j].rt \in {0, row[v][j].rt},
         x # 0 => /\ \A v \in Screens, j \in SetNos : row'[v][j].rt # x
                  /\ (\E i \in SetNos : row[w][i].rt = x) \/ (x = 13 + 2 * doings /\ doings' = doings + 1)
  PROVE  RtInv'
<1> PICK b, c : b = 12 + 2 * doings /\ c = 12 + 2 * doings'
  OBVIOUS
<1>1. b \in Nat /\ c \in Nat /\ b <= c /\ (doings' = doings + 1 => c = b + 2)
  <2>1. doings \in Nat
    BY DEF WindowsInv
  <2> QED BY <2>1, BoundsGrow
<1>2. RtsApart(row, jobs, rts, b)
  BY DEF RtInv
<1>3. RtsApart(row', jobs, rts, c)
  BY <1>1, <1>2, RowsStayApart
<1>4. JoinOf(jobs'[w], jobs[w], more) /\ \A v \in Screens \ {w} : jobs'[v] = jobs[v]
  BY PutIsLonger
<1>5. DOMAIN more = 1 .. Len(more)
  OBVIOUS
<1>6. Grown(jobs'[w], jobs[w], Len(jobs[w]) + 1, x)
  BY <1>4, <1>5, JoinIsGrown
<1>7. x < c /\ (x # 0 => /\ \A v \in Screens : \A n \in DOMAIN jobs[v] : RtOf(jobs[v][n]) # x
                         /\ \A n \in DOMAIN rts : rts[n] # x)
  <2>1. CASE x = 0
    BY <1>1, <2>1 DEF WindowsInv
  <2>2. CASE x # 0 /\ \E i \in SetNos : row[w][i].rt = x
    <3>1. PICK i \in SetNos : row[w][i].rt = x
      BY <2>2
    <3>2. x < b
      BY <1>2, <3>1 DEF RtsApart
    <3> QED BY <1>1, <1>2, <2>2, <3>1, <3>2 DEF RtsApart
  <2>3. CASE x = 13 + 2 * doings /\ doings' = doings + 1
    <3>1. x = b + 1 /\ c = b + 2
      BY <1>1, <2>3 DEF WindowsInv
    <3>2. \A v \in Screens : \A n \in DOMAIN jobs[v] : RtOf(jobs[v][n]) # x
      BY <1>1, <1>2, <3>1 DEF RtsApart
    <3>3. \A n \in DOMAIN rts : rts[n] # x
      BY <1>1, <1>2, <3>1 DEF RtsApart
    <3> QED BY <1>1, <3>1, <3>2, <3>3
  <2> QED BY <2>1, <2>2, <2>3
<1>8. RtsApart(row', jobs', rts, c)
  <2>1. \A v \in Screens, j \in SetNos : x # 0 => row'[v][j].rt # x
    OBVIOUS
  <2>2. x # 0 => /\ \A v \in Screens, j \in SetNos : row'[v][j].rt # x
                 /\ \A v \in Screens : \A n \in DOMAIN jobs[v] : RtOf(jobs[v][n]) # x
                 /\ \A n \in DOMAIN rts : rts[n] # x
    BY <1>7, <2>1
  <2> QED BY <1>3, <1>4, <1>6, <1>7, <2>2, QueuesStayApart
<1> QED BY <1>8 DEF RtInv

(* The same where none of the jobs carries an RT.                          *)
LEMMA NoRtIsSent ==
  ASSUME WindowsInv, RtInv, rts' = rts, doings' \in {doings, doings + 1},
         NEW w \in Screens, NEW more, more \in Seq(JobRecord), Put(w, more),
         \A n \in DOMAIN more : RtOf(more[n]) = 0,
         \A v \in Screens, j \in SetNos : row'[v][j].rt \in {0, row[v][j].rt}
  PROVE  RtInv'
<1>1. PICK x : x = 0 /\ x \in Nat
  OBVIOUS
<1>2. \A n \in DOMAIN more : RtOf(more[n]) = 0 \/ (n = 1 /\ RtOf(more[n]) = x)
  OBVIOUS
<1>3. x # 0 => /\ \A v \in Screens, j \in SetNos : row'[v][j].rt # x
               /\ (\E i \in SetNos : row[w][i].rt = x) \/ (x = 13 + 2 * doings /\ doings' = doings + 1)
  BY <1>1
<1> QED BY <1>1, <1>2, <1>3, RtIsSent, SMTT(60)

LEMMA RowsKeepRt ==
  ASSUME WindowsInv, RtInv, UNCHANGED <<jobs, rts>>, doings' \in {doings, doings + 1},
         \A v \in Screens, j \in SetNos : row'[v][j].rt \in {0, row[v][j].rt}
  PROVE  RtInv'
<1> PICK b, c : b = 12 + 2 * doings /\ c = 12 + 2 * doings'
  OBVIOUS
<1>1. b \in Nat /\ c \in Nat /\ b <= c
  <2>1. doings \in Nat
    BY DEF WindowsInv
  <2> QED BY <2>1, BoundsGrow
<1>2. RtsApart(row, jobs, rts, b)
  BY DEF RtInv
<1>3. RtsApart(row', jobs, rts, c)
  BY <1>1, <1>2, RowsStayApart
<1> QED BY <1>3 DEF RtInv

(* The user's steps in a row.                                              *)
LEMMA RowStepKeepsRt ==
  ASSUME WindowsInv, RtInv, NEW w \in Screens, NEW i \in SetNos, RowStep(w, i) PROVE RtInv'
<1> PICK r : r = row[w][i]
  OBVIOUS
<1>1. r.rt \in Nat /\ r.cells \in [Cells -> Nat] /\ doings \in Nat
  BY ShownIsASet DEF RowRecord, WindowsInv
<1>2. ASSUME NEW x, RowRts(w, i, x)
      PROVE  /\ x \in {0, r.rt} => \A v \in Screens, j \in SetNos : row'[v][j].rt \in {0, row[v][j].rt}
             /\ row'[w][i].rt = x
             /\ \A v \in Screens, j \in SetNos : v # w \/ j # i => row'[v][j].rt = row[v][j].rt
  BY <1>2 DEF RowRts
<1>3. ASSUME NEW c \in Cells, NEW v \in Nat, Type(w, i, c, v) PROVE RtInv'
  <2>1. RowRts(w, i, r.rt)
    BY <1>3, RtsOfRows
  <2>2. \A u \in Screens, j \in SetNos : row'[u][j].rt \in {0, row[u][j].rt}
    BY <1>2, <2>1
  <2>3. UNCHANGED <<jobs, rts>> /\ doings' = doings + 1
    BY <1>3 DEF Type, Counted
  <2> QED BY <2>2, <2>3, RowsKeepRt
<1>4. CASE TypeRt(w, i)
  <2>1. RowRts(w, i, 12 + 2 * doings)
    BY <1>4, RtsOfRows
  <2>2. UNCHANGED <<jobs, rts>> /\ doings' = doings + 1
    BY <1>4 DEF TypeRt, Counted
  <2>3. \A v \in Screens, j \in SetNos :
          row'[v][j].rt \in {0, row[v][j].rt} \/ (v = w /\ j = i /\ row'[v][j].rt = 12 + 2 * doings)
    BY <1>2, <2>1
  <2> QED BY <2>2, <2>3, OnlyRows
<1>5. CASE RevertRt(w, i)
  <2>1. RowRts(w, i, 0)
    BY <1>5, RtsOfRows
  <2>2. \A u \in Screens, j \in SetNos : row'[u][j].rt \in {0, row[u][j].rt}
    BY <1>2, <2>1
  <2>3. UNCHANGED <<jobs, rts>> /\ doings' = doings
    BY <1>5 DEF RevertRt
  <2> QED BY <2>2, <2>3, RowsKeepRt
<1>6. ASSUME NEW l \in Legs, SwitchOnRow(w, i, l) PROVE RtInv'
  <2> PICK a, b, c : /\ a = SetJob(w, i, r.cells, r.rt, "click")
                     /\ b = ReleaseJob(w, i) /\ c = RunJob(w, i, l, TRUE)
    OBVIOUS
  <2>1. a \in JobRecord /\ RtOf(a) = r.rt
    <3>1. PICK cells, n, why : /\ cells = r.cells /\ n = r.rt /\ why = "click" /\ why \in {"click", "dialog", "close"}
                               /\ cells \in [Cells -> Nat] /\ n \in Nat /\ a = SetJob(w, i, cells, n, why)
      BY <1>1
    <3>2. a \in JobRecord /\ a.rt = n /\ a.why = why
      BY <3>1, SetJobIsAJob
    <3> QED BY <3>1, <3>2 DEF RtOf
  <2>2. b \in JobRecord /\ c \in JobRecord /\ RtOf(b) = 0 /\ RtOf(c) = 0
    BY OtherJobIsAJob DEF RtOf
  <2>3. PICK more : /\ more = <<a>> \o <<b>> \o <<c>> \/ more = <<a>> \o << >> \o <<c>>
                    /\ Put(w, more) /\ rts' = rts /\ doings' = doings + 1
    BY <1>6 DEF SwitchOnRow, Counted
  <2>4. more \in Seq(JobRecord) /\ FirstOnly(more, a, {b, c})
    BY <2>1, <2>2, <2>3, SwitchJobs, Zenon
  <2>5. \A n \in DOMAIN more : RtOf(more[n]) = 0 \/ (n = 1 /\ RtOf(more[n]) = r.rt)
    BY <2>1, <2>2, <2>4 DEF FirstOnly
  <2>6. RowRts(w, i, 0)
    BY <1>6, RtsOfRows
  <2>7. \A v \in Screens, j \in SetNos : row'[v][j].rt \in {0, row[v][j].rt}
    BY <1>2, <2>6
  <2>8. r.rt # 0 => \A v \in Screens, j \in SetNos : row'[v][j].rt # r.rt
    <3> SUFFICES ASSUME r.rt # 0, NEW v \in Screens, NEW j \in SetNos PROVE row'[v][j].rt # r.rt
      OBVIOUS
    <3>1. CASE v = w /\ j = i
      BY <1>2, <2>6, <3>1
    <3>2. CASE v # w \/ j # i
      BY <1>2, <2>6, <3>2 DEF RtInv, RtsApart
    <3> QED BY <3>1, <3>2
  <2>9. \E k \in SetNos : row[w][k].rt = r.rt
    OBVIOUS
  <2> QED BY <1>1, <2>3, <2>4, <2>5, <2>7, <2>8, <2>9, RtIsSent
<1>7. ASSUME NEW l \in Legs, SwitchOffRow(w, i, l) PROVE RtInv'
  <2>1. PICK a \in JobRecord : Put(w, <<a>>) /\ RtOf(a) = 0 /\ rts' = rts /\ doings' = doings + 1
    BY <1>7, OtherJobIsAJob DEF SwitchOffRow, RtOf, Counted
  <2>2. PICK more : more = <<a>> /\ more \in Seq(JobRecord) /\ \A n \in DOMAIN more : RtOf(more[n]) = 0
    BY <2>1, OneJob
  <2>3. RowRts(w, i, r.rt)
    BY <1>7, RtsOfRows
  <2>4. \A v \in Screens, j \in SetNos : row'[v][j].rt \in {0, row[v][j].rt}
    BY <1>2, <2>3
  <2> QED BY <2>1, <2>2, <2>4, NoRtIsSent
<1>8. ASSUME NEW rt \in {0, 13 + 2 * doings}, Confirm(w, i, rt) PROVE RtInv'
  <2> PICK cells, a : cells = [c \in Cells |-> 22 + doings] /\ a = SetJob(w, i, cells, rt, "dialog")
    OBVIOUS
  <2>1. cells \in [Cells -> Nat] /\ rt \in Nat
    BY <1>1, <1>8
  <2>2. a \in JobRecord /\ RtOf(a) = rt
    <3>1. a \in JobRecord /\ a.rt = rt /\ a.why = "dialog"
      BY <2>1, SetJobIsAJob
    <3> QED BY <3>1 DEF RtOf
  <2>3. Put(w, <<a>>) /\ rts' = rts /\ doings' = doings + 1
    BY <1>8 DEF Confirm, Counted
  <2>4. PICK more : /\ more = <<a>> /\ more \in Seq(JobRecord)
                    /\ \A n \in DOMAIN more : n = 1 /\ RtOf(more[n]) = rt
    <3>1. PICK more : more = <<a>>
      OBVIOUS
    <3>2. more \in Seq(JobRecord) /\ \A n \in DOMAIN more : n = 1 /\ more[n] = a
      BY <2>2, <3>1, OneJob
    <3>3. \A n \in DOMAIN more : n = 1 /\ RtOf(more[n]) = rt
      BY <2>2, <3>2
    <3> QED BY <3>1, <3>2, <3>3
  <2>5. RowRts(w, i, r.rt)
    BY <1>8, RtsOfRows
  <2>6. \A v \in Screens, j \in SetNos : row'[v][j].rt = row[v][j].rt
    BY <2>5 DEF RowRts
  <2>7. rt # 0 => \A v \in Screens, j \in SetNos : row'[v][j].rt # rt
    <3> SUFFICES ASSUME rt # 0, NEW v \in Screens, NEW j \in SetNos PROVE row[v][j].rt # rt
      BY <2>6
    <3>1. row[v][j].rt \in Nat /\ row[v][j].rt < 12 + 2 * doings
      BY DEF RtInv, RtsApart
    <3> QED BY <1>1, <1>8, <3>1
  <2>8. /\ more \in Seq(JobRecord) /\ Put(w, more)
        /\ \A n \in DOMAIN more : RtOf(more[n]) = 0 \/ (n = 1 /\ RtOf(more[n]) = rt)
        /\ \A v \in Screens, j \in SetNos : row'[v][j].rt \in {0, row[v][j].rt}
    BY <2>3, <2>4, <2>6
  <2>9. doings' \in {doings, doings + 1} /\ (rt # 0 => rt = 13 + 2 * doings /\ doings' = doings + 1)
    BY <1>8, <2>3
  <2> QED BY <2>1, <2>3, <2>7, <2>8, <2>9, RtIsSent
<1> QED BY <1>3, <1>4, <1>5, <1>6, <1>7, <1>8 DEF RowStep

-----------------------------------------------------------------------------
LEMMA OthersKeepRt ==
  ASSUME WindowsInv, RtInv, NEW w \in Screens,
         \/ \E n \in SsNames : Choose(w, n)
         \/ ApplyMarket(w) \/ StateComes(w) \/ GuardOver(w)
         \/ \E focus \in {0} \cup SetNos : Refresh(w, focus)
         \/ \E k \in Sets : HaltOf(k) \/ \E l \in Legs : TradeOf(k, l)
  PROVE  RtInv'
<1>1. CASE (\E n \in SsNames : Choose(w, n)) \/ ApplyMarket(w) \/ StateComes(w)
  <2>1. UNCHANGED <<row, jobs, rts>> /\ doings' \in {doings, doings + 1}
    BY <1>1 DEF Choose, ApplyMarket, StateComes, Counted
  <2> QED BY <2>1, RowsKeepRt
<1>2. CASE \E k \in Sets : HaltOf(k) \/ \E l \in Legs : TradeOf(k, l)
  <2>1. UNCHANGED <<row, jobs, rts>> /\ doings' \in {doings, doings + 1}
    BY <1>2 DEF HaltOf, TradeOf, Counted
  <2> QED BY <2>1, RowsKeepRt
<1>3. CASE GuardOver(w)
  <2>1. PICK i \in SetNos, l \in Legs : row' = [row EXCEPT ![w][i].guard[l] = FALSE]
    BY <1>3 DEF GuardOver
  <2>2. RowRts(w, i, row[w][i].rt)
    BY <2>1, RtsOfRows
  <2>3. UNCHANGED <<jobs, rts, doings>>
    BY <1>3 DEF GuardOver
  <2> QED BY <2>2, <2>3, RowsKeepRt DEF RowRts
<1>4. CASE \E focus \in {0} \cup SetNos : Refresh(w, focus)
  <2>1. PICK focus : Refresh(w, focus)
    BY <1>4
  <2>2. UNCHANGED <<jobs, rts, doings>>
    BY <2>1, Zenon DEF Refresh
  <2>3. \A i \in SetNos : row'[w][i].rt = row[w][i].rt
    BY <2>1, RefreshedRow
  <2>4. \A v \in Screens \ {w} : row'[v] = row[v]
    <3>1. row' = [row EXCEPT ![w] = [k \in SetNos |->
            Painted(IF k \in ToLoad(w, focus) THEN [row[w][k] EXCEPT !.cells = box[w][ShownSet(w, k)].cfg]
                    ELSE row[w][k], box[w][ShownSet(w, k)].run)]]
      BY <2>1, Zenon DEF Refresh
    <3>2. PICK e : row' = [row EXCEPT ![w] = e]
      BY <3>1
    <3> QED BY <3>2 DEF WindowsInv
  <2>5. \A v \in Screens, j \in SetNos : row'[v][j].rt = row[v][j].rt
    BY <2>3, <2>4
  <2> QED BY <2>2, <2>5, RowsKeepRt
<1> QED BY <1>1, <1>2, <1>3, <1>4

LEMMA ClosingKeeps ==
  ASSUME WindowsInv, RtInv, NEW w \in Screens,
         Saved(w) \/ Destroyed(w) \/ \E forced, live \in BOOLEAN : CloseWin(w, forced, live)
  PROVE  RtInv'
<1>1. CASE Saved(w)
  <2>0. PICK i : i = 1 /\ i \in SetNos
    BY SsAssumption DEF SetNos
  <2>1. PICK a \in JobRecord : Put(w, <<a>>) /\ RtOf(a) = 0 /\ UNCHANGED <<row, rts, doings>>
    <3>1. StopJob(w) \in JobRecord /\ StopJob(w).rt = 0
      BY <2>0, OtherJobIsAJob
    <3> QED BY <1>1, <3>1 DEF Saved, RtOf
  <2>2. PICK more : more = <<a>> /\ more \in Seq(JobRecord) /\ \A n \in DOMAIN more : RtOf(more[n]) = 0
    BY <2>1, OneJob
  <2>3. \A v \in Screens, j \in SetNos : row'[v][j].rt \in {0, row[v][j].rt}
    BY <2>1
  <2> QED BY <2>1, <2>2, <2>3, NoRtIsSent
<1>2. CASE \E forced, live \in BOOLEAN : CloseWin(w, forced, live)
  <2> PICK forced \in BOOLEAN, live \in BOOLEAN : CloseWin(w, forced, live)
    BY <1>2
  <2>1. Counted /\ UNCHANGED <<row, rts>> /\ Put(w, IF live THEN SaveJobs(w) ELSE << >>)
    BY Zenon DEF CloseWin
  <2>2. PICK more : /\ more = IF live THEN SaveJobs(w) ELSE << >>
                    /\ more \in Seq(JobRecord) /\ Put(w, more)
    BY <2>1, QueuesTyped
  <2>3. \A n \in DOMAIN more : RtOf(more[n]) = 0
    <3>1. CASE live
      <4>1. \A i \in SetNos : SaveJobs(w)[i].why = "close" /\ DOMAIN SaveJobs(w) = SetNos
        BY DEF SaveJobs, SetJob, Job
      <4> QED BY <2>2, <3>1, <4>1, ShownIsASet DEF RtOf, SaveJobs
    <3>2. CASE ~live
      BY <2>2, <3>2
    <3> QED BY <3>1, <3>2
  <2>4. doings' = doings + 1
    BY <2>1 DEF Counted
  <2>5. \A v \in Screens, j \in SetNos : row'[v][j].rt \in {0, row[v][j].rt}
    BY <2>1
  <2> QED BY <2>1, <2>2, <2>3, <2>4, <2>5, NoRtIsSent
<1>3. CASE Destroyed(w)
  <2>1. /\ row' = [row EXCEPT ![w] = [i \in SetNos |-> FreshRow]] /\ jobs' = [jobs EXCEPT ![w] = << >>]
        /\ UNCHANGED <<rts, doings>>
    BY <1>3 DEF Destroyed
  <2>2. \A v \in Screens, j \in SetNos : row'[v][j].rt \in {0, row[v][j].rt}
    BY <2>1 DEF WindowsInv, FreshRow
  <2>3. PICK b : b = 12 + 2 * doings /\ b \in Nat /\ b > 0
    BY DEF WindowsInv
  <2>4. RtsApart(row', jobs, rts, b)
    BY <2>2, <2>3, RowsStayApart DEF RtInv
  <2>5. jobs'[w] = << >> /\ \A v \in Screens \ {w} : jobs'[v] = jobs[v]
    BY <2>1 DEF WindowsInv
  <2>6. Grown(jobs'[w], jobs[w], 0, 0)
    BY <2>5 DEF Grown
  <2>7. RtsApart(row', jobs', rts, b)
    BY <2>3, <2>4, <2>5, <2>6, QueuesStayApart
  <2> QED BY <2>1, <2>3, <2>7 DEF RtInv
<1> QED BY <1>1, <1>2, <1>3

LEMMA TakingKeepsRt ==
  ASSUME WindowsInv, RtInv, NEW w \in Screens, SetTaken(w) \/ Unsent(w) PROVE RtInv'
<1> PICK j : j = Head(jobs[w])
  OBVIOUS
<1>1. jobs[w] # << >> /\ jobs' = [jobs EXCEPT ![w] = Tail(jobs[w])] /\ row' = row
  BY DEF SetTaken, Unsent
<1>2. jobs'[w] = Tail(jobs[w]) /\ \A v \in Screens \ {w} : jobs'[v] = jobs[v]
  BY <1>1 DEF WindowsInv
<1>3. Shorter(jobs'[w], jobs[w]) /\ 1 \in DOMAIN jobs[w] /\ j = jobs[w][1] /\ j \in JobRecord
  BY <1>1, <1>2, QueuesTyped, TailIsShorter
<1>4. PICK b, c : /\ b = 12 + 2 * doings /\ c = 12 + 2 * doings' /\ b \in Nat /\ c \in Nat /\ b <= c
  BY DEF SetTaken, Unsent, Counted, WindowsInv
<1>5. RtsApart(row, jobs, rts, b)
  BY <1>4 DEF RtInv
<1>6. CASE rts' = rts
  <2>1. RtsApart(row, jobs', rts, b)
    BY <1>2, <1>3, <1>5, JobLeaves
  <2>2. RtsApart(row, jobs', rts, c)
    BY <1>4, <2>1, RowsStayApart
  <2> QED BY <1>1, <1>4, <1>6, <2>2 DEF RtInv
<1>7. CASE j.rt # 0 /\ j.why # "close" /\ rts' = Append(rts, j.rt)
  <2>1. PICK x : x = j.rt /\ x = RtOf(jobs[w][1]) /\ x \in Nat /\ x # 0
    BY <1>3, <1>7 DEF RtOf, JobRecord
  <2>2. Longer(rts', rts, x) /\ rts' \in Seq(Nat)
    BY <1>7, <2>1, AppendIsLonger DEF RtInv
  <2>3. RtsApart(row, jobs', rts', b)
    BY <1>2, <1>3, <1>5, <2>1, <2>2, RtIsTaken
  <2>4. RtsApart(row, jobs', rts', c)
    BY <1>4, <2>3, RowsStayApart
  <2> QED BY <1>1, <1>4, <2>2, <2>4 DEF RtInv
<1>8. rts' = rts \/ (j.rt # 0 /\ j.why # "close" /\ rts' = Append(rts, j.rt))
  BY DEF SetTaken, Unsent
<1> QED BY <1>6, <1>7, <1>8

LEMMA RtInitInv == SsInit => RtInv
<1> SUFFICES ASSUME SsInit PROVE RtInv
  OBVIOUS
<1>1. doings \in Nat
  BY WindowsInitInv DEF WindowsInv
<1> PICK b : b = 12 + 2 * doings
  OBVIOUS
<1>2. b \in Nat /\ b > 0
  BY <1>1
<1>3. \A w \in Screens, i \in SetNos : row[w][i].rt = 0
  BY FirstRecords DEF SsInit
<1>4. \A w \in Screens : DOMAIN jobs[w] = {}
  BY DEF SsInit
<1>5. DOMAIN rts = {} /\ rts \in Seq(Nat)
  BY DEF SsInit
<1>6. RtsApart(row, jobs, rts, b)
  BY <1>2, <1>3, <1>4, <1>5 DEF RtsApart
<1> QED BY <1>5, <1>6 DEF RtInv

LEMMA RtStep == ASSUME WindowsInv, RtInv, [SsNext]_ssVars PROVE RtInv'
<1>1. ASSUME NEW w \in Screens, SsUser(w) PROVE RtInv'
  <2>1. ASSUME NEW i \in SetNos, \/ \E c \in Cells, v \in {0, 2 + doings} : Type(w, i, c, v)
                                 \/ TypeRt(w, i) \/ RevertRt(w, i)
                                 \/ \E l \in Legs : SwitchOnRow(w, i, l) \/ SwitchOffRow(w, i, l)
                                 \/ \E rt \in {0, 13 + 2 * doings} : Confirm(w, i, rt)
        PROVE  RowStep(w, i)
    <3>1. \A v \in {0, 2 + doings} : v \in Nat
      BY DEF WindowsInv
    <3> QED BY <2>1, <3>1 DEF RowStep
  <2>2. CASE (\E n \in SsNames : Choose(w, n)) \/ ApplyMarket(w)
    BY <2>2, OthersKeepRt
  <2>3. CASE \E forced, live \in BOOLEAN : CloseWin(w, forced, live)
    BY <2>3, ClosingKeeps
  <2>4. CASE \E i \in SetNos : RowStep(w, i)
    BY <2>4, RowStepKeepsRt
  <2> QED BY <1>1, <2>1, <2>2, <2>3, <2>4 DEF SsUser
<1>2. ASSUME NEW w \in Screens, SsScreen(w) \/ StateComes(w) \/ GuardOver(w) PROVE RtInv'
  BY <1>2, OthersKeepRt DEF SsScreen
<1>3. ASSUME NEW w \in Screens, Saved(w) \/ Destroyed(w) PROVE RtInv'
  BY <1>3, ClosingKeeps
<1>4. ASSUME NEW w \in Screens, SetTaken(w) \/ Unsent(w) PROVE RtInv'
  BY <1>4, TakingKeepsRt
<1>5. ASSUME NEW k \in Sets, HaltOf(k) \/ \E l \in Legs : TradeOf(k, l) PROVE RtInv'
  <2>1. UNCHANGED <<row, jobs, rts>> /\ doings' \in {doings, doings + 1}
    BY <1>5 DEF HaltOf, TradeOf, Counted
  <2> QED BY <2>1, RowsKeepRt
<1>6. CASE UNCHANGED ssVars
  BY <1>6, RowsKeepRt DEF ssVars
<1> QED BY <1>1, <1>2, <1>3, <1>4, <1>5, <1>6 DEF SsNext

LEMMA RtsAreTakenOnce == RtInv => RtTakenOnce
BY DEF RtInv, RtsApart, RtTakenOnce
=============================================================================
