------------------------------ MODULE Lifecycle ------------------------------
(***************************************************************************)
(* The processes: the main window starts the core, watches it over HTTP and *)
(* starts it again when it does not answer (main_window.py), and when it    *)
(* ends the core must end too - by the shutdown command or a kill           *)
(* (ensure_core_down), by the operating system that ends what is bound to   *)
(* the main window's job, or by the core's own watch on its parent          *)
(* (parent_watch.py).  Closing the window and the poll of every two seconds *)
(* run on threads of their own.  A core may block: nothing of it answers,   *)
(* only its watch thread goes on.                                          *)
(***************************************************************************)
EXTENDS Integers, Sequences

CONSTANTS RestartAfter, RestartCooldown, MaxRestarts,  \* as in main()
          MaxLaunches  \* bound: cores started

VARIABLES
  win,        \* the main window: up, closing (flag set), saving, asked (to shut down), gone
  looking,       \* poll_core: idle, or what it has found before it acts on it
  restart,    \* the watch's counters, and whether the end is intended
  cores,      \* every core started: its state, bound to the job, its watch, asked to stop
  jobWorks    \* binding to the job works on this machine
lcVars == <<win, looking, restart, cores, jobWorks>>

NewCore == [st |-> "boot", bound |-> jobWorks, watch |-> "none", stop |-> FALSE]
LcInit ==
  /\ win = "up" /\ looking = "idle" /\ jobWorks \in BOOLEAN
  /\ restart = [down |-> 0, cooldown |-> RestartCooldown, fails |-> 0, gaveUp |-> FALSE,
                intended |-> FALSE]
  /\ cores = <<NewCore>>

Running(c) == cores[c].st # "off"
Alive == \E c \in DOMAIN cores : cores[c].st = "serving"   \* core_alive
Ended(c) == [cores EXCEPT ![c].st = "off", ![c].watch = "none"]
CoreOnly == UNCHANGED <<win, looking, restart, jobWorks>>

-----------------------------------------------------------------------------
(* A core (_serve): the engines first, then the port, which only one can    *)
(* have; then the watch.                                                   *)
Boot(c) ==
  /\ cores[c].st = "boot" /\ CoreOnly
  /\ cores' = IF \E d \in DOMAIN cores : cores[d].st \in {"serving", "hung"} THEN Ended(c)
              ELSE [cores EXCEPT ![c].st = "serving", ![c].watch = "looking"]
Hang(c) == cores[c].st = "serving" /\ cores' = [cores EXCEPT ![c].st = "hung"] /\ CoreOnly
Crash(c) == Running(c) /\ cores' = Ended(c) /\ CoreOnly
Stop(c) == cores[c].st = "serving" /\ cores[c].stop /\ cores' = Ended(c) /\ CoreOnly

(* ParentWatch.run: asks the core to stop, and ends it if it has not.       *)
WatchFires(c) ==
  /\ win = "gone" /\ cores[c].watch = "looking" /\ CoreOnly
  /\ cores' = [cores EXCEPT ![c].watch = "grace", ![c].stop = TRUE]
(* Mutant: asking is all it does.                                           *)
HardExitNever(c) == FALSE /\ UNCHANGED lcVars
HardExit(c) == cores[c].watch = "grace" /\ cores' = Ended(c) /\ CoreOnly
(* The job ends what is bound to it with the main window.                   *)
JobCloses(c) == win = "gone" /\ cores[c].bound /\ Running(c) /\ cores' = Ended(c) /\ CoreOnly

-----------------------------------------------------------------------------
(* poll_core: whether the core answers, then (closing not seen) the watch.  *)
Look == /\ win # "gone" /\ looking = "idle" /\ looking' = (IF Alive THEN "alive" ELSE "down")
        /\ cores' = [c \in DOMAIN cores |->   \* bind_core_to_job: also one found running
             IF cores[c].st = "serving" THEN [cores[c] EXCEPT !.bound = jobWorks] ELSE cores[c]]
        /\ UNCHANGED <<win, restart, jobWorks>>
LookedWhileClosing == /\ looking # "idle" /\ win # "up" /\ looking' = "idle"
                      /\ UNCHANGED <<win, restart, cores, jobWorks>>

(* _restart_step, the core not answering.                                   *)
RestartStep(r) ==
  IF r.cooldown > 0 THEN [r EXCEPT !.cooldown = @ - 1]
  ELSE IF r.intended \/ r.gaveUp THEN r
  ELSE IF r.down + 1 < RestartAfter THEN [r EXCEPT !.down = @ + 1]
  ELSE [r EXCEPT !.down = 0, !.cooldown = RestartCooldown, !.fails = @ + 1,
                 !.gaveUp = r.fails + 1 > MaxRestarts]
Restarts(r) == RestartStep(r).fails > r.fails /\ ~RestartStep(r).gaveUp

Act ==
  /\ looking # "idle" /\ looking' = "idle" /\ win # "gone"
  /\ Restarts(restart) /\ looking = "down" => Len(cores) < MaxLaunches
  /\ IF looking = "alive"
     THEN restart' = [restart EXCEPT !.down = 0, !.fails = 0, !.gaveUp = FALSE] /\ UNCHANGED cores
     ELSE /\ restart' = RestartStep(restart)
          /\ cores' = IF Restarts(restart) THEN Append(cores, NewCore) ELSE cores
  /\ UNCHANGED <<win, jobWorks>>

-----------------------------------------------------------------------------
(* on_close: the flag, no restart from here on while the screens save and  *)
(* close (those that are late are ended), then the command, and then the   *)
(* window waits until nothing answers, or kills.                           *)
Close == /\ win = "up" /\ win' = "closing" /\ UNCHANGED <<looking, restart, cores, jobWorks>>
CloseScreens == /\ win = "closing" /\ win' = "saving" /\ restart' = [restart EXCEPT !.intended = TRUE]
                /\ UNCHANGED <<looking, cores, jobWorks>>
DownAsked == [c \in DOMAIN cores |-> IF cores[c].st = "serving" THEN [cores[c] EXCEPT !.stop = TRUE]
                                 ELSE cores[c]]
AskDown == /\ win = "saving" /\ win' = "asked" /\ cores' = DownAsked
           /\ UNCHANGED <<looking, restart, jobWorks>>
Gone == win' = "gone" /\ looking' = "idle" /\ UNCHANGED <<restart, jobWorks>>
EnsuredDown == win = "asked" /\ ~Alive /\ Gone /\ UNCHANGED cores
ForceKill == /\ win = "asked" /\ Alive /\ Gone
             /\ cores' = [c \in DOMAIN cores |-> [cores[c] EXCEPT !.st = "off", !.watch = "none"]]
(* _on_load_error ends the window with the command alone; a crash without.  *)
LoadError == /\ win = "up" /\ Alive /\ win' = "gone" /\ looking' = "idle" /\ cores' = DownAsked
             /\ restart' = [restart EXCEPT !.intended = TRUE] /\ UNCHANGED jobWorks
WindowCrash == win # "gone" /\ Gone /\ UNCHANGED cores

LcNext ==
  \/ \E c \in DOMAIN cores : \/ Boot(c) \/ Hang(c) \/ Crash(c) \/ Stop(c)
                             \/ WatchFires(c) \/ HardExit(c) \/ JobCloses(c)
  \/ Look \/ LookedWhileClosing \/ Act
  \/ Close \/ CloseScreens \/ AskDown \/ EnsuredDown \/ ForceKill \/ LoadError \/ WindowCrash

(* The threads go on, a boot ends, the watch looks; nobody has to close the *)
(* window, and nothing has to crash.                                       *)
LcSlot(c) == c \in DOMAIN cores /\ (Boot(c) \/ Stop(c) \/ WatchFires(c) \/ HardExit(c) \/ JobCloses(c))
LcPoll == Look \/ LookedWhileClosing \/ Act
LcSpec == /\ LcInit /\ [][LcNext]_lcVars /\ WF_lcVars(LcPoll)
          /\ \A c \in 1..MaxLaunches : WF_lcVars(LcSlot(c))
          /\ WF_lcVars(CloseScreens \/ AskDown \/ EnsuredDown)

-----------------------------------------------------------------------------

(* A core that is not there is started again, unless that was tried too     *)
(* often or the window ends (poll_core, _restart_step).                     *)
CoreMissing == \A c \in DOMAIN cores : ~Running(c)
RestartOver == restart.gaveUp \/ win # "up" \/ Len(cores) = MaxLaunches
=============================================================================
