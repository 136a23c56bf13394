------------------------------- MODULE NxtOpen -------------------------------
(***************************************************************************)
(* Trading at the opening of NXT, one underlying (nxt_open.py,             *)
(* nxt_open_engine.py).  The first NXT quote after the opening time opens  *)
(* a window; within it every tier whose condition holds is ordered, once.  *)
(* A tier with an automatic exit gets the opposite order when its order    *)
(* has been filled whole.                                                  *)
(*                                                                         *)
(* The state of a day is replaced at midnight and when the opening time is *)
(* changed; a placement under way still holds the state it began with.     *)
(***************************************************************************)
EXTENDS Integers, SequencesExt

CONSTANTS Tiers, EntryTiers,  \* the tiers, and those that sell (진입)
          AutoTiers,          \* tiers with an automatic exit
          ReadyTiers,         \* tiers completely filled in at the start
          NxLots,             \* lots of each tier's order
          WindowStart, WindowEnd, OpenGrace,  \* start_s, end_s, OPEN_GRACE_S
          BaseAt, BaseGrace,  \* hl_base_hms, HL_BASE_GRACE_S
          Levels,             \* Hyperliquid prices: "none", or "low", "mid", "high"
                              \* against the limits around the base price
          OpenTimes,          \* opening times a user may set; the first is the least
          EarlyKeep,          \* EARLY_FILLS_KEEP
          NxHorizon, MaxNxOrders, MaxDays, MaxTierEdits, MaxSwitches, NxRepeats  \* bounds

ASSUME TiersAssumption ==
  /\ EntryTiers \cup AutoTiers \cup ReadyTiers \subseteq Tiers /\ IsFiniteSet(Tiers)
  /\ NxLots \in [Tiers -> Nat \ {0}] /\ MaxNxOrders \in Nat

VARIABLES
  clock,               \* seconds of the day
  runs, usable, open,  \* settings: sides run, tiers filled in, opening time
  day, days,           \* DayState of now, and how many there have been
  batches,             \* placements under way
  orders, told,        \* at the exchange: orders, fill notices in flight
  kept, lost,          \* _early_fills and the numbers in it, oldest first; what it dropped
  exitTasks, exits,    \* automatic exits about to be placed; times tried
  edits, switches, nxAgain  \* what the bounds count

nxVars == <<clock, runs, usable, open, day, days, batches, orders, told, kept,
            lost, exitTasks, exits, edits, switches, nxAgain>>

Blocks == {"entry", "exit"}
BlockOf(t) == IF t \in EntryTiers THEN "entry" ELSE "exit"
OrderIds == 1 .. MaxNxOrders
Fresh == [t0 |-> -1, rejected |-> FALSE, fired |-> {}, over |-> FALSE,
          base |-> FALSE, armed |-> {}, got |-> [k \in OrderIds |-> {}]]

NothingKept == [lots |-> [k \in OrderIds |-> {}], order |-> << >>]

NxInit ==
  /\ clock = 0 /\ runs = {} /\ usable = ReadyTiers
  /\ open = CHOOSE t \in OpenTimes : \A u \in OpenTimes : t <= u
  /\ day = Fresh /\ days = 1 /\ batches = {} /\ orders = << >> /\ told = {}
  /\ kept = NothingKept /\ lost = {} /\ exitTasks = {} /\ exits = [k \in OrderIds |-> 0]
  /\ edits = 0 /\ switches = 0 /\ nxAgain = 0

Window(d) == CASE d.t0 = -1 -> "none"
               [] d.t0 # -1 /\ clock < d.t0 + WindowStart -> "before"
               [] d.t0 # -1 /\ clock > d.t0 + WindowEnd -> "closed"
               [] OTHER -> "open"

(* Nothing more can be ordered today.                                       *)
IsOver(d) ==
  \/ d.fired # {} /\ usable \subseteq d.fired
  \/ d.rejected \/ Window(d) = "closed"
  \/ Window(d) = "none" /\ clock > open + OpenGrace + WindowEnd

(* Then both sides are switched off, the first time it is noticed.          *)
Ends(d) == IsOver(d) /\ ~d.over
AfterEnd(d) == IF Ends(d) THEN [d EXCEPT !.over = TRUE] ELSE d
RunsAfter(d) == IF Ends(d) THEN {} ELSE runs

(* The base price is that of the first quote after the base time.           *)
Captured(d, hl) ==
  [d EXCEPT !.base = @ \/ (hl # "none" /\ BaseAt <= clock /\ clock <= BaseAt + BaseGrace)]
Blocked(d, hl, block) ==
  \/ ~d.base \/ hl = "none"
  \/ <<block, hl>> \in {<<"entry", "low">>, <<"exit", "high">>}

(* The tiers to order when the conditions of `met` hold: sells first.       *)
Judge(d, met) ==
  LET meet(b) == {t \in (usable \cap met) \ d.fired : BlockOf(t) = b /\ b \in runs}
  IN  IF meet("entry") # {} THEN meet("entry") ELSE meet("exit")

Evaluate(d0, met, hl) ==
  LET d == AfterEnd(Captured(d0, hl))
      go == {t \in Judge(d, met) : ~Blocked(d, hl, BlockOf(t))}
      fires == RunsAfter(d0) # {} /\ Window(d) = "open" /\ go # {}
  IN  /\ runs' = RunsAfter(d0)
      /\ day' = IF fires THEN [d EXCEPT !.fired = @ \cup go] ELSE d
      /\ batches' = IF fires
           THEN batches \cup {[day |-> days, tiers |-> go, at |-> "spawned", ids |-> {}]}
           ELSE batches

-----------------------------------------------------------------------------
(* Events.  An NXT quote with both sides gives S and, the first one after   *)
(* the opening time, the start of the window, or, too late, no window.      *)
NxtQuote(met, hl) ==
  /\ LET first == day.t0 = -1 /\ ~day.rejected /\ clock >= open
     IN  Evaluate(CASE first /\ clock <= open + OpenGrace -> [day EXCEPT !.t0 = clock]
                    [] first /\ clock > open + OpenGrace -> [day EXCEPT !.rejected = TRUE]
                    [] OTHER -> day, met, hl)
  /\ UNCHANGED <<clock, usable, open, days, orders, told, kept, lost, exitTasks,
                 exits, edits, switches, nxAgain>>

(* A Hyperliquid quote or an exchange rate.                                 *)
OtherQuote(met, hl) ==
  /\ Evaluate(day, met, hl)
  /\ UNCHANGED <<clock, usable, open, days, orders, told, kept, lost, exitTasks,
                 exits, edits, switches, nxAgain>>

(* The screen asks for its figures.                                         *)
Snapshot(hl) ==
  /\ day' = AfterEnd(Captured(day, hl)) /\ runs' = RunsAfter(day)
  /\ UNCHANGED <<clock, usable, open, days, batches, orders, told, kept, lost,
                 exitTasks, exits, edits, switches, nxAgain>>

Second ==
  /\ clock < NxHorizon /\ clock' = clock + 1
  /\ UNCHANGED <<runs, usable, open, day, days, batches, orders, told, kept, lost,
                 exitTasks, exits, edits, switches, nxAgain>>

Midnight ==
  /\ clock = NxHorizon /\ days < MaxDays
  /\ clock' = 0 /\ day' = Fresh /\ days' = days + 1
  /\ UNCHANGED <<runs, usable, open, batches, orders, told, kept, lost, exitTasks,
                 exits, edits, switches, nxAgain>>

-----------------------------------------------------------------------------
(* Commands.                                                                *)
SwitchRun(b) ==
  /\ switches < MaxSwitches /\ switches' = switches + 1
  /\ \/ b \in runs /\ runs' = runs \ {b}
     \/ /\ b \notin runs /\ ~IsOver(day) /\ \E t \in usable : BlockOf(t) = b
        /\ runs' = runs \cup {b}
  /\ UNCHANGED <<clock, usable, open, day, days, batches, orders, told, kept, lost,
                 exitTasks, exits, edits, nxAgain>>

FillInTier(t) ==
  /\ edits < MaxTierEdits /\ edits' = edits + 1
  /\ usable' = IF t \in usable THEN usable \ {t} ELSE usable \cup {t}
  /\ UNCHANGED <<clock, runs, open, day, days, batches, orders, told, kept, lost,
                 exitTasks, exits, switches, nxAgain>>

SetOpen(t) ==
  /\ t # open /\ days < MaxDays
  /\ open' = t /\ day' = Fresh /\ days' = days + 1
  /\ UNCHANGED <<clock, runs, usable, batches, orders, told, kept, lost, exitTasks,
                 exits, edits, switches, nxAgain>>

NxtCommand == \/ (\E b \in Blocks : SwitchRun(b)) \/ (\E t \in Tiers : FillInTier(t))
              \/ (\E t \in OpenTimes : SetOpen(t))

-----------------------------------------------------------------------------
(* _fire.  The exchange takes some of the orders; the answer comes later,   *)
(* or place_many raises and every tier of the batch is recorded as failed.  *)
Send(b, taken) ==
  /\ b.at = "spawned" /\ taken \subseteq b.tiers
  /\ Len(orders) + Cardinality(taken) <= MaxNxOrders
  /\ LET n == Len(orders)
         new == SetToSeq(taken)
         made == [i \in DOMAIN new |-> [tier |-> new[i], day |-> b.day, done |-> 0,
                                        answered |-> FALSE]]
     IN  /\ orders' = orders \o made
         /\ batches' = (batches \ {b}) \cup
              {[b EXCEPT !.at = "sent", !.ids = n + 1 .. n + Len(new)]}
  /\ UNCHANGED <<clock, runs, usable, open, day, days, told, kept, lost, exitTasks,
                 exits, edits, switches, nxAgain>>

EarlyOf(k) == kept.lots[k]
Whole(k, lots) == Cardinality(lots) >= NxLots[orders[k].tier]

(* A numbered order of a tier with an automatic exit waits for its fills,   *)
(* those kept until now included.  The batch may belong to a day that was   *)
(* replaced meanwhile: its orders then wait where nobody looks.             *)
Answer(b, raised) ==
  /\ b.at = "sent"
  /\ LET wait == IF raised THEN {} ELSE {k \in b.ids : orders[k].tier \in AutoTiers}
         whole == {k \in wait : Whole(k, EarlyOf(k))}
         armed == IF b.day = days THEN wait \ whole ELSE {}
         d == [day EXCEPT !.armed = @ \cup armed,
                 !.got = [k \in OrderIds |-> IF k \in armed THEN EarlyOf(k) ELSE @[k]]]
         ends == ~raised /\ b.day = days
     IN  /\ kept' = [lots |-> [k \in OrderIds |-> IF k \in wait THEN {} ELSE EarlyOf(k)],
                     order |-> SelectSeq(kept.order, LAMBDA k : k \notin wait)]
         /\ exitTasks' = exitTasks \cup whole
         /\ orders' = [k \in DOMAIN orders |-> IF k \in b.ids /\ ~raised
                         THEN [orders[k] EXCEPT !.answered = TRUE] ELSE orders[k]]
         /\ day' = IF ends THEN AfterEnd(d) ELSE day
         /\ runs' = IF ends THEN RunsAfter(d) ELSE runs
  /\ batches' = batches \ {b}
  /\ UNCHANGED <<clock, usable, open, days, told, lost, exits, edits, switches, nxAgain>>

ExchangeFills(k) ==
  /\ orders[k].done < NxLots[orders[k].tier]
  /\ orders' = [orders EXCEPT ![k].done = @ + 1]
  /\ told' = told \cup {[id |-> k, lot |-> orders[k].done + 1]}
  /\ UNCHANGED <<clock, runs, usable, open, day, days, batches, kept, lost, exitTasks,
                 exits, edits, switches, nxAgain>>

(* The oldest order numbers go when there are too many.                     *)
Keep(k, lot) ==
  LET order == IF EarlyOf(k) = {} THEN Append(kept.order, k) ELSE kept.order
      lots == [kept.lots EXCEPT ![k] = @ \cup {lot}]
      tooMany == Len(order) > EarlyKeep
  IN  /\ kept' = IF tooMany
                   THEN [lots |-> [lots EXCEPT ![Head(order)] = {}], order |-> Tail(order)]
                   ELSE [lots |-> lots, order |-> order]
      /\ lost' = IF tooMany THEN lost \cup {Head(order)} ELSE lost

(* A fill of an order that waits for its exit counts by its number; any     *)
(* other is kept for an answer that may yet come.                           *)
Notice(m, repeat) ==
  /\ repeat => nxAgain < NxRepeats
  /\ nxAgain' = nxAgain + (IF repeat THEN 1 ELSE 0)
  /\ told' = IF repeat THEN told ELSE told \ {m}
  /\ IF m.id \in day.armed
       THEN LET got == day.got[m.id] \cup {m.lot}
                whole == m.lot \notin day.got[m.id] /\ Whole(m.id, got)
            IN  /\ day' = [day EXCEPT !.got[m.id] = got,
                             !.armed = IF whole THEN @ \ {m.id} ELSE @]
                /\ exitTasks' = IF whole THEN exitTasks \cup {m.id} ELSE exitTasks
                /\ UNCHANGED <<kept, lost>>
       ELSE Keep(m.id, m.lot) /\ UNCHANGED <<day, exitTasks>>
  /\ UNCHANGED <<clock, runs, usable, open, days, batches, orders, exits, edits, switches>>

(* The exit is placed, or given up: outside the limits, refused, no answer. *)
PlaceExit(k) ==
  /\ k \in exitTasks
  /\ exitTasks' = exitTasks \ {k} /\ exits' = [exits EXCEPT ![k] = @ + 1]
  /\ UNCHANGED <<clock, runs, usable, open, day, days, batches, orders, told, kept,
                 lost, edits, switches, nxAgain>>

FireStep == \E b \in batches : (\E raised \in BOOLEAN : Answer(b, raised))
                               \/ (\E taken \in SUBSET b.tiers : Send(b, taken))
ExitStep == \E k \in exitTasks : PlaceExit(k)
Told == \E m \in told : Notice(m, FALSE)

NxNext ==
  \/ (\E met \in SUBSET usable, hl \in Levels : NxtQuote(met, hl) \/ OtherQuote(met, hl))
  \/ (\E hl \in Levels : Snapshot(hl)) \/ Second \/ Midnight
  \/ NxtCommand \/ FireStep \/ ExitStep \/ Told
  \/ (\E k \in DOMAIN orders : ExchangeFills(k))
  \/ (\E m \in told : Notice(m, TRUE))

(* A task goes on when what it awaits has answered; a notice arrives; the   *)
(* core keeps sending the screens their figures.                            *)
NxFairness == /\ WF_nxVars(FireStep) /\ WF_nxVars(ExitStep) /\ WF_nxVars(Told)
              /\ WF_nxVars(\E hl \in Levels : Snapshot(hl))
NxSpec == NxInit /\ [][NxNext]_nxVars /\ NxFairness

-----------------------------------------------------------------------------
(* A tier is ordered once for an opening time, however many quotes arrive   *)
(* while its placement is under way (_evaluate locks before the await).     *)
TierFiresOnce ==
  /\ \A j, k \in DOMAIN orders :
       orders[j].tier = orders[k].tier /\ orders[j].day = orders[k].day => j = k
  /\ \A b, c \in batches : b # c /\ b.day = c.day => b.tiers \cap c.tiers = {}

(* The automatic exit is tried at most once, and only for an order that the *)
(* exchange has filled whole, although notices are repeated and overtake    *)
(* the answer to the order (_on_fill, AutoExit.add_fill).                   *)
ExitOnceWhenWhole ==
  \A k \in DOMAIN orders :
    exits[k] + (IF k \in exitTasks THEN 1 ELSE 0) <= (IF orders[k].done = NxLots[orders[k].tier] THEN 1 ELSE 0)

(* An order filled whole gets its exit, unless its opening time was changed *)
(* or the day ended first, or its kept fills were pushed out.               *)
ExitDue(k) ==
  /\ k \in DOMAIN orders /\ orders[k].answered /\ orders[k].tier \in AutoTiers
  /\ orders[k].done = NxLots[orders[k].tier]
ExitSettled(k) ==
  exits[k] = 1 \/ k \in lost \/ (k \in DOMAIN orders /\ orders[k].day # days)
=============================================================================
