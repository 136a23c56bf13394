------------------------------ MODULE ArbCycle ------------------------------
(***************************************************************************)
(* The cycle of the strategy engine (runner.py, engine.py), the risk check *)
(* before its orders (risk.py) and the rows it stores for a restart        *)
(* (state_store.py).  A cycle reads the positions, account by account, and *)
(* the funds; then for every underlying it lets the strategy judge, checks *)
(* the orders it wants and places what passes; at the end it stores the    *)
(* positions it read, row by row, each committed by itself.  An order that *)
(* fails ends the cycle, and so does a crash.                              *)
(***************************************************************************)
EXTENDS Naturals, FiniteSets, SequencesExt

CONSTANTS Holdings,   \* keys of position rows: instrument and account
          Names,      \* underlyings
          MaxHeld,    \* bound: contracts held
          Funds,      \* funds the account begins a cycle with
          Buffer,     \* account_buffer
          Costs,      \* cost_fn of an order
          MaxCycles   \* bound: cycles

ASSUME ArbAssumption == {MaxHeld, Funds, Buffer, MaxCycles} \subseteq Nat

VARIABLES
  holds,  \* the positions at the exchanges
  live,   \* _session: underlyings with a live reference
  kill,   \* kill_switch
  step,   \* where the cycle is
  reading,     \* positions read so far
  ok,     \* reference_available of this cycle
  fundsLeft,   \* underlyings not judged yet, rows not stored yet
  wants,  \* orders that passed and are not placed yet
  spent,  \* cost of the orders placed in this cycle
  savedRows,   \* the stored rows: 0, none
  cycles  \* cycles begun

arbVars == <<holds, live, kill, step, reading, ok, fundsLeft, wants, spent, savedRows, cycles>>

ArbInit ==
  /\ holds \in [Holdings -> {0, 1}] /\ live = {} /\ kill = FALSE
  /\ step = "idle" /\ reading = [h \in Holdings |-> 0] /\ ok = {} /\ fundsLeft = {}
  /\ wants = <<>> /\ spent = 0 /\ savedRows = [h \in Holdings |-> 0] /\ cycles = 0

(* Another party, or a fill, changes a position; sessions open and close.  *)
HoldingChanges(h, q) ==
  /\ holds' = [holds EXCEPT ![h] = q]
  /\ UNCHANGED <<live, kill, step, reading, ok, fundsLeft, wants, spent, savedRows, cycles>>

SessionTurns(u) ==
  /\ live' = IF u \in live THEN live \ {u} ELSE live \cup {u}
  /\ UNCHANGED <<holds, kill, step, reading, ok, fundsLeft, wants, spent, savedRows, cycles>>

BeginCycle ==
  /\ step \in {"idle", "failed"} /\ cycles < MaxCycles
  /\ step' = "read" /\ fundsLeft' = Holdings /\ cycles' = cycles + 1
  /\ wants' = <<>> /\ spent' = 0
  /\ UNCHANGED <<holds, live, kill, reading, ok, savedRows>>

(* _collect_positions: what is held of one key at the moment it is asked.  *)
CollectOne(h) ==
  /\ step = "read" /\ h \in fundsLeft
  /\ reading' = [reading EXCEPT ![h] = holds[h]]
  /\ fundsLeft' = fundsLeft \ {h}
  /\ UNCHANGED <<holds, live, kill, step, ok, wants, spent, savedRows, cycles>>

(* _update_risk_state: one state for the whole cycle.  The margin ratio of *)
(* Hyperliquid is not read: its orders never pass.                         *)
UpdateRiskState ==
  /\ step = "read" /\ fundsLeft = {}
  /\ ok' = live /\ kill' = FALSE /\ step' = "judge" /\ fundsLeft' = Names
  /\ UNCHANGED <<holds, live, reading, wants, spent, savedRows, cycles>>

KillSwitch ==
  /\ kill' = TRUE
  /\ UNCHANGED <<holds, live, step, reading, ok, fundsLeft, wants, spent, savedRows, cycles>>

(* RiskManager.check *)
CheckOrder(u, o) ==
  /\ ~kill /\ u \in ok /\ ~o.hl
  /\ Funds >= o.cost + Buffer

Orders == {<<>>} \cup {<<o>> : o \in [cost : Costs, hl : BOOLEAN]}
          \cup [1 .. 2 -> [cost : Costs, hl : {FALSE}]]

(* step: the strategy may want anything; each order is checked on its own. *)
EngineStep(u, orders) ==
  /\ step = "judge" /\ u \in fundsLeft
  /\ wants' = SelectSeq(orders, LAMBDA o : CheckOrder(u, o))
  /\ fundsLeft' = fundsLeft \ {u} /\ step' = "place"
  /\ UNCHANGED <<holds, live, kill, reading, ok, spent, savedRows, cycles>>

Route ==
  /\ step = "place" /\ wants # <<>>
  /\ spent' = spent + Head(wants).cost
  /\ wants' = Tail(wants)
  /\ UNCHANGED <<holds, live, kill, step, reading, ok, fundsLeft, savedRows, cycles>>

RouteFails ==
  /\ step = "place" /\ wants # <<>>
  /\ step' = "failed" /\ wants' = <<>> /\ fundsLeft' = {}
  /\ UNCHANGED <<holds, live, kill, reading, ok, spent, savedRows, cycles>>

CycleJudged ==
  /\ step = "place" /\ wants = <<>>
  /\ IF fundsLeft # {} THEN step' = "judge" /\ UNCHANGED fundsLeft
     ELSE step' = "store" /\ fundsLeft' = {h \in Holdings : reading[h] > 0}
  /\ UNCHANGED <<holds, live, kill, reading, ok, wants, spent, savedRows, cycles>>

(* save_position: INSERT OR REPLACE by instrument and account.             *)
SavePosition(h) == [savedRows EXCEPT ![h] = reading[h]]

(* run_cycle: the rows of what is held; nothing deletes the others.        *)
StoreOne(h) ==
  /\ step = "store" /\ h \in fundsLeft
  /\ savedRows' = SavePosition(h)
  /\ fundsLeft' = fundsLeft \ {h}
  /\ UNCHANGED <<holds, live, kill, step, reading, ok, wants, spent, cycles>>

EndCycle ==
  /\ step = "store" /\ fundsLeft = {}
  /\ step' = "idle"
  /\ UNCHANGED <<holds, live, kill, reading, ok, fundsLeft, wants, spent, savedRows, cycles>>

(* A crash, and recover at the restart: the rows that were committed.      *)
CrashAndRecover ==
  /\ step # "failed"
  /\ step' = "failed" /\ reading' = savedRows /\ fundsLeft' = {} /\ wants' = <<>>
  /\ UNCHANGED <<holds, live, kill, ok, spent, savedRows, cycles>>

ArbNext ==
  \/ \E h \in Holdings : CollectOne(h) \/ StoreOne(h) \/ \E q \in 0 .. MaxHeld : HoldingChanges(h, q)
  \/ \E u \in Names : SessionTurns(u) \/ \E s \in Orders : EngineStep(u, s)
  \/ BeginCycle \/ UpdateRiskState \/ KillSwitch \/ Route \/ RouteFails
  \/ CycleJudged \/ EndCycle \/ CrashAndRecover

ArbSpec == ArbInit /\ [][ArbNext]_arbVars

-----------------------------------------------------------------------------
(* After a whole cycle the stored row of every position it read is that    *)
(* position, whatever earlier cycles stored or left unfinished             *)
(* (save_position, run_cycle).                                             *)
StoredAsRead ==
  step = "idle" => \A h \in Holdings : reading[h] > 0 => savedRows[h] = reading[h]
=============================================================================
