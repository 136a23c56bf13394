----------------------------- MODULE SetScreen -----------------------------
(***************************************************************************)
(* The screens of Auto-M and the core they command (order_autom.py,        *)
(* ui_close.py, core_server._autom_command).  Several windows may show the *)
(* same name.  A window keeps the cells of its sets (what its user typed), *)
(* repaints them from the core's state when that changes, and sends        *)
(* commands through a queue of its own.  The core keeps each set's         *)
(* settings, which of its legs run, whether it is halted, and its RT.      *)
(*                                                                         *)
(* A set has the cells "qty" (the quantities and the delay) and one with   *)
(* the thresholds of each leg; what is in a cell is a number, 0 while a    *)
(* required value is missing or wrong.  At first some windows are open,    *)
(* loaded and "jeok".  The reference quantity, the month, the settings all *)
(* sets share, the difference that a dialog may clear, colours and texts   *)
(* are left out; a click within 0.3 s of the last one, and an answer "no"  *)
(* to a question, change nothing and are no steps.                         *)
(***************************************************************************)
EXTENDS Naturals, FiniteSets, Sequences

CONSTANTS Screens, SsNames,
          SsStart,    \* the name the windows show at first
          Legs,       \* of "entry" and "exit", those that are looked at
          SetCount,   \* sets of a name
          MaxDoings   \* bound: windows that are open, what users type, click and close, trades
                      \* and halts of the engine, requests that do not reach the core

VARIABLES
  core,     \* name, set -> settings, the legs that run, halted, RT
  screens,  \* window -> name, the name its cells were loaded for, "jeok", its button "jeok"
            \* locked, to be stopped at its end, what it is at
  row,      \* window, set -> cells, buttons shown on, their guards, RT typed (0: none)
  jobs,     \* window -> jobs: what its sender has still to send
  box,      \* window -> state_box: the core's state as last received
  sigs,     \* window -> _sets_sigs
  hist,     \* history, window, set -> typed and not sent; the core's changed since
  rts,      \* history: the RTs the core took with a click or a dialog, in order
  doings    \* counter for the bound
ssVars == <<core, screens, row, jobs, box, sigs, hist, rts, doings>>

SetNos == 1 .. SetCount
Sets == SsNames \X SetNos
Cells == {"qty"} \cup Legs
Nothing == "nothing"

ASSUME SsAssumption ==
  /\ IsFiniteSet(Screens) /\ SetCount \in Nat \ {0} /\ MaxDoings \in Nat
  /\ SsStart \in SsNames /\ Nothing \notin SsNames
  /\ Legs \subseteq {"entry", "exit"}

ShownSet(w, i) == <<screens[w].name, i>>
Counted == doings < MaxDoings /\ doings' = doings + 1

Filled == [c \in Cells |-> 1]
NoLeg == [l \in Legs |-> FALSE]
FreshSet == [cfg |-> Filled, run |-> NoLeg, halt |-> FALSE, rt |-> 0]
FreshRow == [cells |-> Filled, on |-> NoLeg, guard |-> NoLeg, rt |-> 0]
Untouched == [typed |-> FALSE, moved |-> FALSE]
SsInit ==
  /\ core = [k \in Sets |-> FreshSet]
  /\ \E open \in SUBSET Screens \ {{}} :
       /\ screens = [w \in Screens |->
            [name |-> SsStart, loaded |-> SsStart, applied |-> TRUE, locked |-> FALSE,
             stop |-> FALSE, at |-> IF w \in open THEN "open" ELSE "gone"]]
       /\ doings = Cardinality(open)
  /\ row = [w \in Screens |-> [i \in SetNos |-> FreshRow]]
  /\ jobs = [w \in Screens |-> << >>] /\ box = [w \in Screens |-> core]
  /\ sigs = [w \in Screens |-> [i \in SetNos |-> Filled]]
  /\ hist = [w \in Screens |-> [i \in SetNos |-> Untouched]]
  /\ rts = << >>

-----------------------------------------------------------------------------
(* The user of a window, also of one that waits for its sets to stop.  A   *)
(* leg's thresholds are locked while its button shows it on, quantities    *)
(* and RT while any of the row does (_lock_qty_row).                       *)
InUse(w) == screens[w].at \in {"open", "stopping"}
OnOf(r) == {l \in Legs : r.on[l]}
Locked(r, c) == IF c = "qty" THEN OnOf(r) # {} ELSE r.on[c]
Type(w, i, c, v) ==
  /\ InUse(w) /\ ~Locked(row[w][i], c) /\ Counted
  /\ row' = [row EXCEPT ![w][i].cells[c] = v]
  /\ hist' = [hist EXCEPT ![w][i].typed = TRUE]
  /\ UNCHANGED <<core, screens, jobs, box, sigs, rts>>
(* mark_rt_edited, and revert_rt with the Esc key.                         *)
TypeRt(w, i) ==
  /\ InUse(w) /\ ~Locked(row[w][i], "qty") /\ Counted
  /\ row' = [row EXCEPT ![w][i].rt = 12 + 2 * doings]
  /\ UNCHANGED <<core, screens, jobs, box, sigs, hist, rts>>
RevertRt(w, i) ==
  /\ InUse(w) /\ row[w][i].rt # 0
  /\ row' = [row EXCEPT ![w][i].rt = 0]
  /\ UNCHANGED <<core, screens, jobs, box, sigs, hist, rts, doings>>

(* on_under_change; the rows keep what they show until the next refresh.   *)
Choose(w, n) ==
  /\ InUse(w) /\ n # screens[w].name /\ Counted
  /\ screens' = [screens EXCEPT ![w].name = n, ![w].loaded = Nothing, ![w].applied = FALSE]
  /\ hist' = [hist EXCEPT ![w] = [i \in SetNos |->
       [typed |-> FALSE, moved |-> box[w][<<n, i>>].cfg # core[<<n, i>>].cfg]]]
  /\ UNCHANGED <<core, row, jobs, box, sigs, rts>>
AnyRunning(w) == \E i \in SetNos : box[w][ShownSet(w, i)].run # NoLeg
(* apply_market; a refresh locks its button while a set of the name runs.  *)
ApplyMarket(w) ==
  /\ InUse(w) /\ ~screens[w].applied /\ ~screens[w].locked
  /\ screens' = [screens EXCEPT ![w].applied = TRUE]
  /\ UNCHANGED <<core, row, jobs, box, sigs, hist, rts, doings>>

Job(cmd, k, leg, on, cells, rt, why) ==
  [cmd |-> cmd, key |-> k, leg |-> leg, on |-> on, cells |-> cells, rt |-> rt, why |-> why]
SetJob(w, i, cells, rt, why) == Job("set", ShownSet(w, i), Nothing, FALSE, cells, rt, why)
RunJob(w, i, l, on) == Job("run", ShownSet(w, i), l, on, Filled, 0, "click")
ReleaseJob(w, i) == Job("release", ShownSet(w, i), Nothing, FALSE, Filled, 0, "click")
StopJob(w) == Job("stop", ShownSet(w, 1), Nothing, FALSE, Filled, 0, "close")
Put(w, more) == jobs' = [jobs EXCEPT ![w] = @ \o more]
SetSent(w, i) == hist' = [hist EXCEPT ![w][i].typed = FALSE]

(* toggle_run.  A leg is switched on only after "jeok" and with its cells  *)
(* filled; the row's cells go first, with an RT typed in it, then the      *)
(* release of a halt the user was asked about, then the run.               *)
Pressed(r, l) == [r EXCEPT !.on[l] = TRUE, !.guard[l] = TRUE, !.rt = 0]
SwitchOnRow(w, i, l) ==
  /\ InUse(w) /\ ~row[w][i].on[l] /\ Counted
  /\ screens[w].applied /\ row[w][i].cells["qty"] # 0 /\ row[w][i].cells[l] # 0
  /\ row' = [row EXCEPT ![w][i] = Pressed(@, l)]
  /\ Put(w, <<SetJob(w, i, row[w][i].cells, row[w][i].rt, "click")>>
            \o (IF box[w][ShownSet(w, i)].halt THEN <<ReleaseJob(w, i)>> ELSE << >>)
            \o <<RunJob(w, i, l, TRUE)>>)
  /\ SetSent(w, i) /\ UNCHANGED <<core, screens, box, sigs, rts>>
SwitchOffRow(w, i, l) ==
  /\ InUse(w) /\ row[w][i].on[l] /\ Counted
  /\ row' = [row EXCEPT ![w][i] = [@ EXCEPT !.on[l] = FALSE, !.guard[l] = TRUE]]
  /\ Put(w, <<RunJob(w, i, l, FALSE)>>)
  /\ UNCHANGED <<core, screens, box, sigs, hist, rts>>

(* save of open_set_dialog: a set's settings, all of them filled, running  *)
(* or not; an RT typed in the dialog goes with them this once.             *)
Confirm(w, i, rt) ==
  LET filled == [c \in Cells |-> 22 + doings]
  IN /\ InUse(w) /\ Counted
     /\ row' = [row EXCEPT ![w][i].cells = filled]
     /\ Put(w, <<SetJob(w, i, filled, rt, "dialog")>>)
     /\ SetSent(w, i) /\ UNCHANGED <<core, screens, box, sigs, rts>>

(* on_close: the cells of every row are saved where the core answers, then,*)
(* where a set runs and the user agreed, the name is stopped; the main     *)
(* window's end does not ask.  While it waits for the stop the window can  *)
(* be used and closed once more.  What is not sent when the waits are over *)
(* goes with the window.                                                   *)
SaveJobs(w) == [i \in SetNos |-> SetJob(w, i, row[w][i].cells, row[w][i].rt, "close")]
CloseWin(w, forced, live) ==
  /\ InUse(w) /\ Counted
  /\ screens' = [screens EXCEPT ![w].at = "saving", ![w].stop = ~forced /\ AnyRunning(w)]
  /\ Put(w, IF live THEN SaveJobs(w) ELSE << >>)
  /\ UNCHANGED <<core, row, box, sigs, hist, rts>>
Saved(w) ==
  /\ screens[w].at = "saving" /\ screens[w].stop
  /\ screens' = [screens EXCEPT ![w].at = "stopping"]
  /\ Put(w, <<StopJob(w)>>)
  /\ UNCHANGED <<core, row, box, sigs, hist, rts, doings>>
Destroyed(w) ==
  /\ screens[w].at = "stopping" \/ (screens[w].at = "saving" /\ ~screens[w].stop)
  /\ screens' = [screens EXCEPT ![w].at = "gone"] /\ jobs' = [jobs EXCEPT ![w] = << >>]
  /\ row' = [row EXCEPT ![w] = [i \in SetNos |-> FreshRow]]
  /\ UNCHANGED <<core, box, sigs, hist, rts, doings>>

-----------------------------------------------------------------------------
(* _autom_command and the engine.  A leg is switched on only where its     *)
(* settings are there and the set is not halted; switched off, always.     *)
MayRun(set, l) == ~set.halt /\ set.cfg["qty"] # 0 /\ set.cfg[l] # 0
After(set, j) ==
  CASE j.cmd = "set" -> [set EXCEPT !.cfg = j.cells, !.rt = IF j.rt # 0 THEN j.rt ELSE @]
    [] j.cmd = "release" -> [set EXCEPT !.halt = FALSE]
    [] j.cmd = "run" -> IF j.on /\ ~MayRun(set, j.leg) THEN set
                        ELSE [set EXCEPT !.run[j.leg] = j.on]
    [] j.cmd = "stop" -> [set EXCEPT !.run = NoLeg]
Meant(j, k) == IF j.cmd = "stop" THEN k[1] = j.key[1] ELSE k = j.key

(* The sender thread of a window has its request answered, or it does not  *)
(* reach the core, finds no engine there, or is refused.                   *)
SetTaken(w) ==
  /\ jobs[w] # << >> /\ jobs' = [jobs EXCEPT ![w] = Tail(@)]
  /\ LET j == Head(jobs[w])
     IN /\ core' = [k \in Sets |-> IF Meant(j, k) THEN After(core[k], j) ELSE core[k]]
        /\ rts' = IF j.rt # 0 /\ j.why # "close" THEN Append(rts, j.rt) ELSE rts
        /\ hist' = [v \in Screens |-> [i \in SetNos |->
             [hist[v][i] EXCEPT !.moved = @ \/ core'[ShownSet(v, i)].cfg # core[ShownSet(v, i)].cfg]]]
  /\ UNCHANGED <<screens, row, box, sigs, doings>>
Unsent(w) ==
  /\ jobs[w] # << >> /\ jobs' = [jobs EXCEPT ![w] = Tail(@)] /\ Counted
  /\ UNCHANGED <<core, screens, row, box, sigs, hist, rts>>

(* A running leg trades, which moves the set's RT, or the set is halted.   *)
TradeOf(k, l) ==
  /\ core[k].run[l] /\ Counted
  /\ core' = [core EXCEPT ![k].rt = IF l = "entry" THEN @ + 1 ELSE IF @ = 0 THEN 0 ELSE @ - 1]
  /\ UNCHANGED <<screens, row, jobs, box, sigs, hist, rts>>
HaltOf(k) ==
  /\ core[k].run # NoLeg /\ Counted
  /\ core' = [core EXCEPT ![k].run = NoLeg, ![k].halt = TRUE]
  /\ UNCHANGED <<screens, row, jobs, box, sigs, hist, rts>>

-----------------------------------------------------------------------------
(* The state comes (poller); the guard of a button is over (2 s).          *)
StateComes(w) ==
  /\ box[w] # core /\ screens[w].at # "gone" /\ box' = [box EXCEPT ![w] = core]
  /\ UNCHANGED <<core, screens, row, jobs, sigs, hist, rts, doings>>
GuardOver(w) ==
  /\ \E i \in SetNos, l \in Legs : row[w][i].guard[l]
       /\ row' = [row EXCEPT ![w][i].guard[l] = FALSE]
  /\ UNCHANGED <<core, screens, jobs, box, sigs, hist, rts, doings>>

(* apply_live.  The cells of a name just chosen are all loaded; otherwise  *)
(* those of the sets whose settings have changed, but for the one whose    *)
(* thresholds have the focus, which is passed over for good.  _paint_leg   *)
(* leaves a button alone that differs while its guard lasts.               *)
Changed(w) == {i \in SetNos : sigs[w][i] # box[w][ShownSet(w, i)].cfg}
ToLoad(w, focus) == IF screens[w].loaded # screens[w].name THEN SetNos ELSE Changed(w) \ {focus}
Painted(r, run) ==
  LET kept == [l \in Legs |-> r.guard[l] /\ r.on[l] # run[l]]
  IN [r EXCEPT !.on = [l \in Legs |-> IF kept[l] THEN r.on[l] ELSE run[l]], !.guard = kept]
Refresh(w, focus) ==
  /\ InUse(w)
  /\ screens' = [screens EXCEPT ![w].loaded = screens[w].name, ![w].locked = AnyRunning(w)]
  /\ sigs' = [sigs EXCEPT ![w] = [i \in SetNos |-> box[w][ShownSet(w, i)].cfg]]
  /\ row' = [row EXCEPT ![w] = [i \in SetNos |->
       LET live == box[w][ShownSet(w, i)]
           loaded == IF i \in ToLoad(w, focus) THEN [row[w][i] EXCEPT !.cells = live.cfg]
                     ELSE row[w][i]
       IN Painted(loaded, live.run)]]
  /\ hist' = [hist EXCEPT ![w] = [i \in SetNos |->
       [typed |-> hist[w][i].typed /\ row'[w][i].cells = row[w][i].cells,
        moved |-> hist[w][i].moved /\ box[w] # core]]]
  /\ UNCHANGED <<core, jobs, box, rts, doings>>

SsUser(w) ==
  \/ \E i \in SetNos :
       \/ \E c \in Cells, v \in {0, 2 + doings} : Type(w, i, c, v)
       \/ TypeRt(w, i) \/ RevertRt(w, i)
       \/ \E l \in Legs : SwitchOnRow(w, i, l) \/ SwitchOffRow(w, i, l)
       \/ \E rt \in {0, 13 + 2 * doings} : Confirm(w, i, rt)
  \/ \E n \in SsNames : Choose(w, n)
  \/ ApplyMarket(w)
  \/ \E forced, live \in BOOLEAN : CloseWin(w, forced, live)
SsScreen(w) == \E focus \in {0} \cup SetNos : Refresh(w, focus)
SsNext ==
  \/ \E w \in Screens : SsUser(w) \/ SsScreen(w) \/ StateComes(w) \/ GuardOver(w)
                         \/ Saved(w) \/ Destroyed(w) \/ SetTaken(w) \/ Unsent(w)
  \/ \E k \in Sets : HaltOf(k) \/ \E l \in Legs : TradeOf(k, l)

SsSpec == SsInit /\ [][SsNext]_ssVars

-----------------------------------------------------------------------------
(* What a user has typed in a row and not sent stays there whatever the    *)
(* core says of other sets (_sync_set_inputs_from_core): only a change of  *)
(* the very same set takes it away.                                        *)
EditsAreKept ==
  [][\A w \in Screens, i \in SetNos :
       hist[w][i].typed /\ ~hist'[w][i].typed /\ screens'[w].name = screens[w].name
         /\ screens'[w].loaded = screens[w].loaded /\ jobs'[w] = jobs[w]
           => hist[w][i].moved]_ssVars

(* An RT typed in is put into the core by a switching on, or by the dialog,*)
(* at most once, though the settings it goes with are sent again and again *)
(* (rt_override_on_run).  The saving at a window's end sends it besides.   *)
RtTakenOnce == \A i, j \in DOMAIN rts : rts[i] = rts[j] => i = j

(* What save_payload says: the saving at a window's end never touches the  *)
(* RT of a set that runs.                                                  *)
ClosingKeepsRt ==
  [][\A w \in Screens :
       SetTaken(w) /\ Head(jobs[w]).why = "close" /\ core[Head(jobs[w]).key].run # NoLeg =>
         core'[Head(jobs[w]).key].rt = core[Head(jobs[w]).key].rt]_ssVars

(* A button comes to show whether its set runs (_paint_leg).               *)
Agrees(w) == screens[w].at = "open" => \A i \in SetNos : row[w][i].on = core[ShownSet(w, i)].run
=============================================================================
