------------------------------ MODULE JudgeLoop ------------------------------
(***************************************************************************)
(* When a set of Auto-M is judged (auto_m_engine.py).  There is no period: *)
(* the loop wakes by a quote, by a timer of what opens with time alone (the*)
(* delay of the pre order, of a change of side, of a resumption), by an    *)
(* edge of the hours or by a watch of the channels, of halts and of VIs,   *)
(* and looks up then who is due.  The timers are those found when the loop *)
(* went to sleep; fills, commands and settings change them meanwhile.      *)
(***************************************************************************)
EXTENDS Integers, FiniteSets

CONSTANTS
  Watch,        \* FEED_WATCH_S
  AlarmAfter,   \* CANCEL_WAIT_ALARM_S
  Delays,       \* delays the user may set
  WindowHours,        \* the times inside an order window
  JlHorizon, MaxEvents   \* the end of time, events besides quotes

ASSUME JudgeAssumption ==
  /\ {Watch, AlarmAfter} \subseteq Nat \ {0} /\ Delays \subseteq Nat
  /\ JlHorizon \in Nat /\ MaxEvents \in Nat

VARIABLES
  mono,     \* the monotonic clock
  running,  \* the set's switch
  settle,   \* delay_until, or Never
  filled,   \* the last fill of the other side, or Never
  delays,    \* [settle, switch, resume]: the delays set
  halt,     \* a halt or a VI is on
  halted,   \* _halt_since (or _vi_since): a judgement has seen it
  resumed,  \* _resumed_for
  cancelAt, \* cancel_sent_mono of an unconfirmed cancel, or Never
  alarmed,  \* cancel_wait_alarmed
  due, all, \* _dirty, _dirty_all
  watchAt, watched,  \* _watch_at and the halt of _watch_state
  inWindow, lastPump, \* _in_window, _last_pump
  wakeAt,   \* the time the loop sleeps until
  poked,    \* _wake
  owed,     \* history: delays begun since the last judgement that saw them over
  happened    \* turns so far

judgeVars == <<mono, running, settle, filled, delays, halt, halted, resumed, cancelAt,
              alarmed, due, all, watchAt, watched, inWindow, lastPump, wakeAt, poked, owed, happened>>
outVars == <<watchAt, watched, inWindow, lastPump, wakeAt>>

NoTime == -100
DelayKinds == {"settle", "switch", "resume"}

(* The times at which the delays end (wake_times); a set that neither runs *)
(* nor has anything at work has no timer.                                  *)
EndOf(k) ==
  CASE k = "settle" -> settle
    [] k = "switch" -> IF filled = NoTime THEN NoTime ELSE filled + delays.switch
    [] k = "resume" -> IF resumed = NoTime THEN NoTime ELSE resumed + delays.resume
WakeTimes == IF running \/ settle # NoTime THEN {EndOf(k) : k \in DelayKinds} \ {NoTime} ELSE {}
InOrderWindow == mono \in WindowHours

JudgeLoopInit ==
  /\ mono = 0 /\ running = TRUE /\ settle = NoTime /\ filled = NoTime
  /\ delays \in [DelayKinds -> Delays]
  /\ halt = FALSE /\ halted = FALSE /\ resumed = NoTime
  /\ cancelAt = NoTime /\ alarmed = FALSE
  /\ due = FALSE /\ all = FALSE /\ watchAt = 0 /\ watched = FALSE
  /\ inWindow = FALSE /\ lastPump = 0 /\ wakeAt = 0 /\ poked = TRUE
  /\ owed = {} /\ happened = 0

(* Mutant: a timer of the last turn's time counts as seen.                 *)
TimedOutLate == \E t \in WakeTimes : lastPump < t /\ t <= mono

(* pump: a timer that ended since the last turn, that turn's time included *)
TimedOut == \E t \in WakeTimes : lastPump <= t /\ t <= mono

Watching == mono - watchAt >= Watch

(* _watch_cancel_wait *)
Overdue == cancelAt # NoTime /\ mono - cancelAt >= AlarmAfter

(* pump and, when the set is due, tick: a halt stops the set, the end of   *)
(* one begins its delay, and otherwise the delays that are over are used.  *)
Judged ==
  \/ due \/ all \/ TimedOut \/ InOrderWindow # inWindow
  \/ Watching /\ watched # halt

JudgeTick ==
  /\ halted' = halt
  /\ resumed' = IF halt THEN NoTime ELSE IF halted THEN mono ELSE resumed
  /\ owed' = LET over == {k \in owed : EndOf(k) <= mono}
             IN IF halt THEN owed \ {"resume"}
                ELSE IF halted THEN (owed \ over) \cup {"resume"} ELSE owed \ over
  /\ settle' = IF ~halt /\ ~halted /\ EndOf("settle") <= mono
                  /\ ("resume" \in owed => EndOf("resume") <= mono) THEN NoTime ELSE settle

(* run: a turn; then how long to sleep (_sleep_s) is found from the timers *)
(* as the turn left them.                                                  *)
Pump ==
  /\ poked \/ mono >= wakeAt
  /\ poked' = FALSE /\ due' = FALSE /\ all' = FALSE
  /\ watchAt' = IF Watching THEN mono ELSE watchAt
  /\ watched' = IF Watching THEN halt ELSE watched
  /\ alarmed' = (alarmed \/ (Watching /\ Overdue))
  /\ inWindow' = InOrderWindow /\ lastPump' = mono
  /\ IF Judged THEN JudgeTick ELSE UNCHANGED <<halted, resumed, owed, settle>>
  /\ UNCHANGED <<mono, running, filled, delays, halt, cancelAt, happened>>
  /\ wakeAt' = LET ahead == {t \in WakeTimes' : t > mono}
                            \cup {t \in mono + 1 .. JlHorizon : (t \in WindowHours) # (t - 1 \in WindowHours)}
                            \cup {watchAt' + Watch}
               IN CHOOSE t \in ahead : \A o \in ahead : t <= o

(* Time passes; a busy loop may wake late.                                 *)
Passes ==
  /\ mono < JlHorizon /\ mono' = mono + 1
  /\ UNCHANGED <<running, settle, filled, delays, halt, halted, resumed, cancelAt,
                 alarmed, due, all, poked, owed, happened>> /\ UNCHANGED outVars

(* _mark by a quote of this stock or by the rate.                          *)
Quote(everyone) ==
  /\ due' = TRUE /\ all' = (all \/ everyone) /\ poked' = TRUE
  /\ UNCHANGED <<mono, running, settle, filled, delays, halt, halted, resumed, cancelAt,
                 alarmed, owed, happened>> /\ UNCHANGED outVars

NextEvent == happened < MaxEvents /\ happened' = happened + 1

(* _start_delay after a post order, at the time of the notice; _persist    *)
(* wakes the loop, so that it finds its timers anew.                       *)
BeginsSettle ==
  /\ NextEvent /\ settle' = mono + delays.settle /\ poked' = TRUE
  /\ owed' = owed \cup {"settle"}
  /\ UNCHANGED <<mono, running, filled, delays, halt, halted, resumed, cancelAt,
                 alarmed, due, all>> /\ UNCHANGED outVars

OtherSideFills ==
  /\ NextEvent /\ filled' = mono /\ poked' = TRUE
  /\ owed' = owed \cup {"switch"}
  /\ UNCHANGED <<mono, running, settle, delays, halt, halted, resumed, cancelAt,
                 alarmed, due, all>> /\ UNCHANGED outVars

(* A cancel goes out (_apply keeps the time of the last turn) and is       *)
(* confirmed or not.                                                       *)
CancelSent ==
  /\ NextEvent /\ cancelAt = NoTime /\ cancelAt' = lastPump /\ alarmed' = FALSE
  /\ UNCHANGED <<mono, running, settle, filled, delays, halt, halted, resumed,
                 due, all, poked, owed>> /\ UNCHANGED outVars

CancelConfirmed ==
  /\ cancelAt # NoTime /\ cancelAt' = NoTime /\ alarmed' = FALSE /\ poked' = TRUE
  /\ UNCHANGED <<mono, running, settle, filled, delays, halt, halted, resumed,
                 due, all, owed, happened>> /\ UNCHANGED outVars

(* A halt or a VI begins or ends; nothing tells the loop.                  *)
HaltTurns ==
  /\ NextEvent /\ halt' = ~halt 
  /\ UNCHANGED <<mono, running, settle, filled, delays, halted, resumed, cancelAt,
                 alarmed, due, all, poked, owed>> /\ UNCHANGED outVars

(* set_running and autom_settings wake nobody: what they open is judged    *)
(* with the next quote.                                                    *)
SwitchSet ==
  /\ NextEvent /\ running' = ~running /\ owed' = {}
  /\ UNCHANGED <<mono, settle, filled, delays, halt, halted, resumed, cancelAt,
                 alarmed, due, all, poked>> /\ UNCHANGED outVars

SetDelay(k, d) ==
  /\ NextEvent /\ delays[k] # d /\ delays' = [delays EXCEPT ![k] = d] /\ owed' = {}
  /\ UNCHANGED <<mono, running, settle, filled, halt, halted, resumed, cancelAt,
                 alarmed, due, all, poked>> /\ UNCHANGED outVars

JudgeLoopNext ==
  \/ Pump \/ Passes \/ BeginsSettle \/ OtherSideFills \/ CancelSent \/ CancelConfirmed
  \/ HaltTurns \/ SwitchSet
  \/ \E everyone \in BOOLEAN : Quote(everyone)
  \/ \E k \in DelayKinds, d \in Delays : SetDelay(k, d)

JudgeLoopSpec == JudgeLoopInit /\ [][JudgeLoopNext]_judgeVars

-----------------------------------------------------------------------------
(* Without a single quote, a delay that ends is judged no later than the   *)
(* watch: none that ended before the loop's last turn is still to be seen, *)
(* however fills, halts and late turns move the timers (pump, _sleep_s).   *)
NothingTimedIsMissed ==
  running /\ ~halt /\ ~halted => \A k \in owed : EndOf(k) >= lastPump

(* A cancel that is not confirmed in time is alarmed by the first watch    *)
(* after it (_watch_cancel_wait).                                          *)
LongCancelIsAlarmed == cancelAt # NoTime /\ watchAt - cancelAt >= AlarmAfter => alarmed
=============================================================================
