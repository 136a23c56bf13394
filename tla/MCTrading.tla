----------------------------- MODULE MCTrading -----------------------------
(***************************************************************************)
(* The strategies beside Auto-M, and its screens, on small instances, for TLC.  They share   *)
(* no state, so one run takes them in turn: `part` says which of them a    *)
(* behaviour is about, the others stand still in it.                       *)
(***************************************************************************)
EXTENDS AuctionOrders, NxtOpen, FxAuction, PegOrder, Rehearsal,
        Telegram, SetScreen

CONSTANT Parts   \* the strategies the run takes

VARIABLE part

Sides == <<"sell", "buy">>
Contracts == <<1, 1>>
TwoNames == <<"a", "b">>
LotsOfTier == [t \in Tiers |-> IF t \in EntryTiers THEN 2 ELSE 1]
LotsOfFuture == [o \in FaOrders |-> IF o = "p" THEN 1 ELSE 3]
AllBuy == [o \in FaOrders |-> "buy"]
Windows == {{1}, {0, 1}}
ScreensAlike == Permutations(Screens)
ScreenSets == <<<<"entry", 1>>, <<"entry", 2>>, <<"exit", 1>>>>

MCInit ==
  /\ part \in Parts
  /\ AuInit /\ AmInit /\ NxInit /\ FaInit /\ PgInit /\ ScInit /\ TgInit
  /\ SsInit /\ (part # "set screens" => doings = 2)

(* A step of one strategy; the others stand still.                         *)
Closing(step) ==
  /\ part = "closing" /\ step
  /\ UNCHANGED <<part, amVars, nxVars, faVars, pgVars, scVars, tgVars, ssVars>>
Amending(step) ==
  /\ part = "amend" /\ step
  /\ UNCHANGED <<part, auVars, nxVars, faVars, pgVars, scVars, tgVars, ssVars>>
Opening(step) ==
  /\ part = "opening" /\ step
  /\ UNCHANGED <<part, auVars, amVars, faVars, pgVars, scVars, tgVars, ssVars>>
FxHedging(step) ==
  /\ part = "fx hedge" /\ step
  /\ UNCHANGED <<part, auVars, amVars, nxVars, pgVars, scVars, tgVars, ssVars>>
Pegging(step) ==
  /\ part = "peg" /\ step
  /\ UNCHANGED <<part, auVars, amVars, nxVars, faVars, scVars, tgVars, ssVars>>
Notices(step) ==
  /\ part = "session" /\ step
  /\ UNCHANGED <<part, auVars, amVars, nxVars, faVars, pgVars, rehearsalVars, tgVars, ssVars>>
Rehearsing(step) ==
  /\ part = "rehearsal" /\ step /\ said' = said
  /\ UNCHANGED <<part, auVars, amVars, nxVars, faVars, pgVars, tgVars, ssVars>>
Chatting(step) ==
  /\ part = "telegram" /\ step
  /\ UNCHANGED <<part, auVars, amVars, nxVars, faVars, pgVars, scVars, ssVars>>
Showing(step) ==
  /\ part = "set screens" /\ step
  /\ UNCHANGED <<part, auVars, amVars, nxVars, faVars, pgVars, scVars, tgVars>>

MCNext ==
  \/ Closing(AuNext) \/ Amending(AmNext) \/ Opening(NxNext) \/ FxHedging(FaNext)
  \/ Pegging(PgNext)
  \/ Notices(\E m \in Markets, c \in JifCodes : Jif(m, c)) \/ Rehearsing(ScNext)
  \/ Chatting(TgNext) \/ Showing(SsNext)

MCSpec == MCInit /\ [][MCNext]_<<part, auVars, amVars, nxVars, faVars, pgVars, scVars, tgVars, ssVars>>

-----------------------------------------------------------------------------
(* No strategy trades twice for one reason: not the closing auction for a  *)
(* lot (_hl_fire), an amended order while its old one works (amend), the   *)
(* opening for a tier or an exit (_evaluate, _on_fill), the currency hedge *)
(* for an order (_seen), the peg order beside its own (step), Telegram for *)
(* a message (_offset), or Auto-M for an RT typed in (rt_override_on_run). *)
NothingActsTwice ==
  /\ NoLotHedgedTwice /\ OneWorkingOrder /\ TierFiresOnce /\ ExitOnceWhenWhole
  /\ OneHedgePerStart /\ OnePegOrder /\ NothingOldNothingTwice /\ RtTakenOnce

(* What was told is kept: every known fill is in the closing auction's     *)
(* tally (_on_fill), the halt and the phase are those of the broker's      *)
(* notices (session.py), the virtual position is within its limits.        *)
NothingToldIsLost == KnownFillsAreTallied /\ OpenAsSaid /\ PositionKept

(* No step comes out of turn: the closing auction winds back or starts     *)
(* nothing while its last task runs (_arm), and no repainting of Auto-M's  *)
(* window takes away what its user types (_sync_set_inputs_from_core).     *)
StepsInTurn == OneTaskAtATime /\ EditsAreKept
=============================================================================
