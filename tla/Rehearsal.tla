------------------------------ MODULE Rehearsal ------------------------------
(***************************************************************************)
(* The spread sets of one screen, judged every half second                 *)
(* (strategy_core.py, core_engine.py) while the user changes them by       *)
(* command (core_server.py: apply_command).  Screen "T" trades the stock,  *)
(* whose position must not go below zero, screen "M" the future.  The      *)
(* order of a set is rehearsed: it moves a virtual position.               *)
(***************************************************************************)
EXTENDS Integers, SequencesExt

-----------------------------------------------------------------------------
(***************************************************************************)
(* What the broker's market notices (JIF) say of the markets                *)
(* (session_service.py, session.py).  A market has a phase and, over it, a *)
(* halt: a circuit breaker halts without touching the phase, so that the   *)
(* market is where it was when the halt is lifted.  The same code means    *)
(* different things in the stock ("1") and the futures ("5") market.       *)
(***************************************************************************)

CONSTANTS JifCodes,   \* status codes the broker may send, a subset of the table's
          MaxJif      \* bound: notices

Markets == {"1", "5"}

VARIABLES mPhase, mHalt,  \* _market_phase (received ones), _market_halt
            said            \* history: the notices in the order they came

sessionVars == <<mPhase, mHalt, said>>

SessionInit ==
  mPhase = [m \in Markets |-> "none"] /\ mHalt = [m \in Markets |-> FALSE] /\ said = << >>

-----------------------------------------------------------------------------
(* classify_jstatus: phase codes first, for either market.                  *)
PhaseCode ==
  [c \in {"11", "21", "22", "23", "24", "25", "31", "41", "42", "43", "44"} |->
     CASE c = "21" -> "regular" [] c = "41" -> "dead" [] OTHER -> "pre_open"]
DayEnd == {<<"1", "69">>, <<"5", "61">>}
HaltCodes == {<<"1", "61">>, <<"1", "62">>, <<"1", "68">>, <<"1", "70">>, <<"5", "63">>}
ResumeCodes == {<<"1", "63">>, <<"1", "71">>, <<"5", "62">>}
InfoCodes == {<<"1", c>> : c \in {"30", "12", "64", "65", "66", "67"}}
             \cup {<<"5", c>> : c \in {"70", "71", "72", "73", "74", "75", "76", "77"}}

Kind(m, c) ==
  CASE c \in DOMAIN PhaseCode -> "phase"
    [] <<m, c>> \in DayEnd -> "phase"
    [] <<m, c>> \in HaltCodes -> "halt"
    [] <<m, c>> \in ResumeCodes -> "resume"
    [] <<m, c>> \in InfoCodes -> "info"
    [] OTHER -> "unknown"
PhaseSaid(c) == IF c \in DOMAIN PhaseCode THEN PhaseCode[c] ELSE "dead"

(* on_market_status: an unknown code is taken for dead.                     *)
Jif(m, c) ==
  LET kind == Kind(m, c)
  IN /\ Len(said) < MaxJif /\ said' = Append(said, <<m, c>>)
     /\ mPhase' = IF kind \in {"phase", "unknown"}
                  THEN [mPhase EXCEPT ![m] = PhaseSaid(c)] ELSE mPhase
     /\ mHalt' = [mHalt EXCEPT ![m] = (kind = "halt" \/ (@ /\ kind # "resume"))]

(* seed_phase: the operator's word at a start within the day, for the stock *)
(* market, which never replaces the broker's.                               *)
SeedPhase(p) ==
  /\ said = << >> /\ mPhase["1"] = "none" /\ mPhase' = [mPhase EXCEPT !["1"] = p]
  /\ UNCHANGED <<mHalt, said>>

-----------------------------------------------------------------------------
(* phase_for_market: a market not heard of is where the stock market is.    *)
PhaseFor(m) == IF mPhase[m] # "none" THEN mPhase[m]
               ELSE IF mPhase["1"] # "none" THEN mPhase["1"] ELSE "dead"
IsTradeable(m) == PhaseFor(m) # "dead" /\ ~mHalt[m]

-----------------------------------------------------------------------------
(* A market is open exactly when the last word the broker said of its phase *)
(* is not its end and every halt has been followed by its end - whatever    *)
(* halts, side cars and notices of the other market came in between.  A     *)
(* market without a word of its own follows the stock market's.             *)
Words(m, kinds) == {i \in DOMAIN said : said[i][1] = m /\ Kind(m, said[i][2]) \in kinds}
LastWord(m, kinds) == CHOOSE i \in Words(m, kinds) : \A j \in Words(m, kinds) : j <= i
PhaseTold(m) == Words(m, {"phase", "unknown"}) # {}
SaidOpen(m) == PhaseTold(m) /\ PhaseSaid(said[LastWord(m, {"phase", "unknown"})][2]) # "dead"
SaidHalted(m) ==
  \E i \in Words(m, {"halt"}) : \A j \in Words(m, {"resume"}) : j < i
OpenAsSaid ==
  (\E m \in Markets : PhaseTold(m)) /\ PhaseTold("1") =>
    \A m \in Markets :
      IsTradeable(m) <=> (SaidOpen(IF PhaseTold(m) THEN m ELSE "1") /\ ~SaidHalted(m))
-----------------------------------------------------------------------------

CONSTANTS ScSets,       \* the screen's sets, in the order they are judged: <<block, index>>
          ScQtys,       \* quantities a user may enter
          MaxScCommands \* bound: commands

VARIABLES
  screen,   \* "T" or "M"
  perQty,   \* entry_per_qty, exit_per_qty
  maxPos,   \* max_position
  inHours,  \* within the operating hours
  sets,     \* per set: running, target, fired, ready (its delay has passed)
  position, \* virtual_position
  widest,   \* history: the largest max_position so far
  ordered,    \* history: per set, the largest target since its count was reset
  scCommands

rehearsalVars == <<screen, perQty, maxPos, inHours, sets, position, widest, ordered, scCommands>>
scVars == <<sessionVars, rehearsalVars>>
SetIds == ToSet(ScSets)

ASSUME ScAssumption ==
  ScSets \in Seq({"entry", "exit"} \X Nat) /\ ScQtys \subseteq Nat

NewSet == [running |-> FALSE, target |-> 0, fired |-> 0, ready |-> TRUE]

ScInit ==
  /\ SessionInit /\ screen = "T" /\ perQty = [b \in {"entry", "exit"} |-> 0] /\ maxPos = 0
  /\ inHours = FALSE /\ sets = [k \in SetIds |-> NewSet] /\ position = 0 /\ widest = 0
  /\ ordered = [k \in SetIds |-> 0] /\ scCommands = 0

-----------------------------------------------------------------------------
(* allowed_order_qty, plan_order: what one order of a set may be, of the    *)
(* position pos; 0 when it is refused.                                      *)
Least(a, b) == IF a < b THEN a ELSE b
Room(b, pos) == CASE b = "entry" -> maxPos - pos
                  [] b = "exit" /\ screen = "M" -> maxPos + pos
                  [] OTHER -> pos
RunErrors(k) == perQty[k[1]] = 0 \/ maxPos = 0 \/ sets[k].target = 0
PlanQty(k, fired, pos) ==
  LET q == Least(Least(perQty[k[1]], Room(k[1], pos)), sets[k].target - fired)
  IN IF RunErrors(k) \/ ~inHours \/ q < 0 THEN 0 ELSE q

(* Mutant: every set is judged by the position the round began with.        *)
JudgeSetStale(acc, k, hot) ==
  LET q == PlanQty(k, acc.fired[k], position)
      goes == sets[k].running /\ k \in hot /\ sets[k].ready /\ q > 0
  IN IF ~goes THEN acc
     ELSE [fired |-> [acc.fired EXCEPT ![k] = @ + q], went |-> acc.went \cup {k},
           position |-> acc.position + (IF k[1] = "entry" THEN q ELSE 0 - q)]

(* _judge_set, over the sets in their order: each sees the position the     *)
(* ones before it have left.  hot: the sets whose condition holds.          *)
JudgeSet(acc, k, hot) ==
  LET q == PlanQty(k, acc.fired[k], acc.position)
      goes == sets[k].running /\ k \in hot /\ sets[k].ready /\ q > 0
  IN IF ~goes THEN acc
     ELSE [fired |-> [acc.fired EXCEPT ![k] = @ + q], went |-> acc.went \cup {k},
           position |-> acc.position + (IF k[1] = "entry" THEN q ELSE 0 - q)]

Round(hot) ==
  LET judged[n \in 0 .. Len(ScSets)] ==
        IF n = 0 THEN [fired |-> [k \in SetIds |-> sets[k].fired], went |-> {}, position |-> position]
        ELSE JudgeSet(judged[n - 1], ScSets[n], hot)
  IN judged[Len(ScSets)]

TickMarket == IF screen = "T" THEN "1" ELSE "5"
ScTick(hot) ==
  LET r == Round(hot)
  IN /\ inHours /\ IsTradeable(TickMarket) /\ r.went # {}
     /\ position' = r.position
     /\ sets' = [k \in SetIds |-> [sets[k] EXCEPT !.fired = r.fired[k],
                                                 !.ready = @ /\ k \notin r.went]]
     /\ UNCHANGED <<sessionVars, screen, perQty, maxPos, inHours, widest, ordered, scCommands>>

DelayOver(k) ==
  /\ ~sets[k].ready /\ sets' = [sets EXCEPT ![k].ready = TRUE]
  /\ UNCHANGED <<sessionVars, screen, perQty, maxPos, inHours, position, widest, ordered, scCommands>>

Hours == inHours' = ~inHours
         /\ UNCHANGED <<sessionVars, screen, perQty, maxPos, sets, position, widest, ordered, scCommands>>

-----------------------------------------------------------------------------
(* apply_command; the first one chooses the screen.                         *)
ScCommand == scCommands < MaxScCommands /\ scCommands' = scCommands + 1 /\ UNCHANGED <<sessionVars, inHours>>

UseScreen == scCommands = 0 /\ ScCommand /\ screen' = "M"
             /\ UNCHANGED <<perQty, maxPos, sets, position, widest, ordered>>
PerQty(b, n) == ScCommand /\ perQty' = [perQty EXCEPT ![b] = n]
                /\ UNCHANGED <<screen, maxPos, sets, position, widest, ordered>>
MaxPosition(n) == ScCommand /\ maxPos' = n /\ widest' = (IF n > widest THEN n ELSE widest)
                  /\ UNCHANGED <<screen, perQty, sets, position, ordered>>
SetTarget(k, n) ==
  /\ ScCommand /\ sets' = [sets EXCEPT ![k].target = n]
  /\ ordered' = [ordered EXCEPT ![k] = IF n > @ THEN n ELSE @]
  /\ UNCHANGED <<screen, perQty, maxPos, position, widest>>
ResetFired(k) ==
  /\ ScCommand /\ sets' = [sets EXCEPT ![k].fired = 0]
  /\ ordered' = [ordered EXCEPT ![k] = sets[k].target]
  /\ UNCHANGED <<screen, perQty, maxPos, position, widest>>
RunSet(k, on) ==
  /\ ScCommand /\ (on => ~RunErrors(k)) /\ sets[k].running # on
  /\ sets' = [sets EXCEPT ![k].running = on]
  /\ UNCHANGED <<screen, perQty, maxPos, position, widest, ordered>>
Shutdown ==
  /\ ScCommand /\ sets' = [k \in SetIds |-> [sets[k] EXCEPT !.running = FALSE]]
  /\ UNCHANGED <<screen, perQty, maxPos, position, widest, ordered>>

ApplyCommand ==
  \/ \E k \in SetIds : ResetFired(k) \/ \E on \in BOOLEAN : RunSet(k, on)
  \/ \E k \in SetIds, n \in ScQtys : SetTarget(k, n)
  \/ \E b \in {"entry", "exit"}, n \in ScQtys : PerQty(b, n)
  \/ \E n \in ScQtys : MaxPosition(n)
  \/ UseScreen \/ Shutdown

ScNext ==
  \/ \E m \in Markets, c \in JifCodes : Jif(m, c) /\ UNCHANGED rehearsalVars
  \/ \E p \in {"regular", "pre_open"} : SeedPhase(p) /\ UNCHANGED rehearsalVars
  \/ \E hot \in SUBSET SetIds : ScTick(hot)
  \/ \E k \in SetIds : DelayOver(k)
  \/ Hours \/ ApplyCommand

ScSpec == ScInit /\ [][ScNext]_scVars

-----------------------------------------------------------------------------
(* However many sets fire in one round, and whatever the user changes in    *)
(* between, the stock is never sold beyond what was bought, the position    *)
(* never leaves the widest limit set, and no set orders more than was asked *)
(* of it (allowed_order_qty, plan_order, tick).                             *)
PositionKept ==
  /\ position <= widest /\ position >= (IF screen = "T" THEN 0 ELSE 0 - widest)
  /\ \A k \in SetIds : sets[k].fired <= ordered[k]
=============================================================================
