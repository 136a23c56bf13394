------------------------------ MODULE FxAuction ------------------------------
(***************************************************************************)
(* Hedging single-stock futures with won-dollar futures in the call        *)
(* auctions (fx_auction.py, bootstrap.py, fx_auction_order.py).  While the *)
(* controller runs, the broker's acknowledgement of a NEW stock-futures    *)
(* order is answered with an opposite order of won-dollar futures, placed  *)
(* by a task of its own.                                                   *)
(*                                                                         *)
(* The window is another process.  It sends its commands through a queue   *)
(* and knows the core only from what it polled last.                       *)
(***************************************************************************)
EXTENDS Integers, SequencesExt

CONSTANTS FaOrders, FaTargets,  \* stock-futures orders, those of the two underlyings
          FaLots, FaSide,       \* their contracts and sides
          FaPer, FaUnit,        \* contract value over the hedge's, hedge ratio included
          FaWindows,            \* the sets of moments a user may enter as windows
          FaHorizon, FaRepeats, MaxFaCommands  \* bounds: moments, acks again, clicks

ASSUME FxAuctionAssumption == FaTargets \subseteq FaOrders /\ FaUnit > 0

VARIABLES
  faNow, faAcks, faKnown, faAgain, \* time; acknowledgements under way, orders sent, bound
  faRun, faSettings, faSeen,       \* the controller: running, windows, _seen
  faStarts,                        \* how often it was started
  faTasks, fxHedges,               \* placements under way; the list fx_hedges
  faJobs, faClicks,                \* commands the window has sent; bound
  arm, shown                       \* the window: its check box, the running it polled

faVars == <<faNow, faAcks, faKnown, faAgain, faRun, faSettings, faSeen, faStarts,
            faTasks, fxHedges, faJobs, faClicks, arm, shown>>
fxCoreVars == <<faRun, faSettings, faSeen, faStarts>>
windowVars == <<faJobs, faClicks, arm, shown>>

FaInit ==
  /\ faNow = 0 /\ faAcks = {} /\ faKnown = {} /\ faAgain = 0
  /\ faRun = FALSE /\ faSettings = {} /\ faSeen = {} /\ faStarts = 0
  /\ faTasks = {} /\ fxHedges = << >>
  /\ faJobs = << >> /\ faClicks = 0 /\ arm = FALSE /\ shown = FALSE

-----------------------------------------------------------------------------
(* Pure: the side and size of a hedge.                                      *)
HedgeSide(side) == IF side = "buy" THEN "sell" ELSE "buy"
HedgeQty(lots) == (lots * FaPer) \div FaUnit
InWindow == faNow \in faSettings

(* The controller on an acknowledgement; kind "amend" has an original order *)
(* number, and so has a cancel's.                                           *)
Relevant(n) == faRun /\ n.kind = "new" /\ n.o \in FaTargets /\ InWindow /\ n.o \notin faSeen

Hedge(o) == [src |-> o, side |-> HedgeSide(FaSide[o]), lots |-> HedgeQty(FaLots[o]),
             start |-> faStarts]

Decide(n) ==
  IF Relevant(n)
  THEN /\ faSeen' = faSeen \cup {n.o}
       /\ faTasks' = IF Hedge(n.o).lots > 0 THEN faTasks \cup {Hedge(n.o)} ELSE faTasks
  ELSE UNCHANGED <<faSeen, faTasks>>

ApplyEvent(n, kept) ==
  /\ n \in faAcks /\ faAcks' = IF kept THEN faAcks ELSE faAcks \ {n}
  /\ (kept => faAgain < FaRepeats)
  /\ faAgain' = IF kept THEN faAgain + 1 ELSE faAgain
  /\ Decide(n)
  /\ UNCHANGED <<faNow, faKnown, faRun, faSettings, faStarts, fxHedges, windowVars>>

(* _place_fx_hedge: the placement is answered, or fails and is only listed. *)
PlaceFxHedge(h) ==
  /\ h \in faTasks /\ faTasks' = faTasks \ {h}
  /\ \E status \in {"accepted", "failed"} : fxHedges' = <<[h |-> h, status |-> status]>> \o fxHedges
  /\ UNCHANGED <<faNow, faAcks, faKnown, faAgain, fxCoreVars, windowVars>>

(* External: somebody orders stock futures, amends or cancels; time passes. *)
Order(o, kind) ==
  /\ \/ kind = "new" /\ o \notin faKnown
     \/ kind = "amend" /\ o \in faKnown
  /\ faKnown' = faKnown \cup {o} /\ faAcks' = faAcks \cup {[o |-> o, kind |-> kind]}
  /\ UNCHANGED <<faNow, faAgain, fxCoreVars, faTasks, fxHedges, windowVars>>

FaTime ==
  /\ faNow < FaHorizon /\ faNow' = faNow + 1
  /\ UNCHANGED <<faAcks, faKnown, faAgain, fxCoreVars, faTasks, fxHedges, windowVars>>

-----------------------------------------------------------------------------
(* The window.  do_run needs the check box, do_apply a run it believes in.  *)
Click(cmd) == faClicks < MaxFaCommands /\ faClicks' = faClicks + 1 /\ faJobs' = Append(faJobs, cmd)
Outside == <<faNow, faAcks, faKnown, faAgain, fxCoreVars, faTasks, fxHedges>>

ArmBox == ~shown /\ arm' = ~arm /\ UNCHANGED <<Outside, faJobs, faClicks, shown>>

DoRun(w) ==
  /\ ~shown /\ arm /\ Click([cmd |-> "start", windows |-> w])
  /\ UNCHANGED <<Outside, arm, shown>>

DoApply(w) ==
  /\ shown /\ Click([cmd |-> "start", windows |-> w])
  /\ UNCHANGED <<Outside, arm, shown>>

DoStop ==
  /\ shown /\ Click([cmd |-> "stop", windows |-> {}]) /\ arm' = FALSE
  /\ UNCHANGED <<Outside, shown>>

(* Starting again forgets the numbers already hedged.                       *)
Command ==
  /\ faJobs # << >> /\ faJobs' = Tail(faJobs)
  /\ IF Head(faJobs).cmd = "start"
     THEN /\ faRun' = TRUE /\ faSettings' = Head(faJobs).windows /\ faSeen' = {}
          /\ faStarts' = faStarts + 1
     ELSE faRun' = FALSE /\ UNCHANGED <<faSettings, faSeen, faStarts>>
  /\ UNCHANGED <<faNow, faAcks, faKnown, faAgain, faTasks, fxHedges, faClicks, arm, shown>>

(* _apply_running: a stop that is seen clears the check box.                *)
Poll ==
  /\ shown # faRun /\ shown' = faRun /\ arm' = (arm /\ ~shown)
  /\ UNCHANGED <<Outside, faJobs, faClicks>>

FaNext ==
  \/ \E n \in faAcks, kept \in BOOLEAN : ApplyEvent(n, kept)
  \/ \E h \in faTasks : PlaceFxHedge(h)
  \/ \E o \in FaOrders, kind \in {"new", "amend"} : Order(o, kind)
  \/ FaTime \/ ArmBox \/ DoStop \/ Command \/ Poll
  \/ \E w \in FaWindows : DoRun(w) \/ DoApply(w)

FaSpec == FaInit /\ [][FaNext]_faVars

-----------------------------------------------------------------------------
(* However often the broker acknowledges an order, between two starts of    *)
(* the controller it is hedged once (_seen).                                *)
OneHedgePerStart ==
  /\ \A i, j \in DOMAIN fxHedges : fxHedges[i].h = fxHedges[j].h => i = j
  /\ \A i \in DOMAIN fxHedges : fxHedges[i].h \notin faTasks
=============================================================================
