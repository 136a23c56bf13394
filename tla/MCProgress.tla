----------------------------- MODULE MCProgress -----------------------------
(***************************************************************************)
(* What must come about in the end, on small instances, for TLC.  The      *)
(* components share no state, so one run takes them in turn: `part` says   *)
(* which of them a behaviour is about, the others stand still in it.       *)
(***************************************************************************)
EXTENDS NxtOpen, FxReport, CreditLoans, XingCom, Channel, Lifecycle, Startup,
        SetScreen

CONSTANT Parts   \* the components the run takes

VARIABLES part, watched   \* the component and, where it has several, which request,
                          \* order or fill of it the behaviour is looked at for

LotsOfTier == [t \in Tiers |-> IF t \in EntryTiers THEN 2 ELSE 1]
LoansAtStart == [d \in Loans |-> IF d = Today THEN 0 ELSE 1]
OrderLane == [r \in Reqs |-> "order"]
OneTick == [l \in Lanes |-> 1]

(* What the machine, the gateways or the saved choices may be at the start *)
(* is left open for the component that the behaviour is about.             *)
MCInit ==
  /\ part \in Parts /\ watched \in {1, 2}
  /\ part \notin {"opening", "xing", "startup", "lifecycle"} => watched = 1
  /\ NxInit /\ FrInit /\ ClInit /\ XcInit /\ ChInit
  /\ LcInit /\ (part # "lifecycle" => jobWorks)
  /\ StartupInit /\ (part # "startup" => ~xing)
  /\ SsInit /\ (part # "set screens" => doings = 2)

(* A step of one component; the others stand still.                        *)
Opening ==
  /\ part = "opening" /\ NxNext
  /\ UNCHANGED <<part, watched, frVars, loanVars, xcVars, chVars, lcVars, startupVars, ssVars>>
FxReporting ==
  /\ part = "fx report" /\ FrNext
  /\ UNCHANGED <<part, watched, nxVars, loanVars, xcVars, chVars, lcVars, startupVars, ssVars>>
Repaying ==
  /\ part = "loans" /\ ClNext
  /\ UNCHANGED <<part, watched, nxVars, frVars, xcVars, chVars, lcVars, startupVars, ssVars>>
Querying ==
  /\ part = "xing" /\ XcNext
  /\ UNCHANGED <<part, watched, nxVars, frVars, loanVars, chVars, lcVars, startupVars, ssVars>>
Showing ==
  /\ part = "channel" /\ ChNext
  /\ UNCHANGED <<part, watched, nxVars, frVars, loanVars, xcVars, lcVars, startupVars, ssVars>>
Living ==
  /\ part = "lifecycle" /\ LcNext
  /\ UNCHANGED <<part, watched, nxVars, frVars, loanVars, xcVars, chVars, startupVars, ssVars>>
Starting ==
  /\ part = "startup" /\ StartupNext
  /\ UNCHANGED <<part, watched, nxVars, frVars, loanVars, xcVars, chVars, lcVars, ssVars>>
Setting ==
  /\ part = "set screens" /\ SsNext
  /\ UNCHANGED <<part, watched, nxVars, frVars, loanVars, xcVars, chVars, lcVars, startupVars>>

MCNext == \/ Opening \/ FxReporting \/ Repaying \/ Querying \/ Showing
          \/ Living \/ Starting \/ Setting

mcVars ==
  <<part, watched, nxVars, frVars, loanVars, xcVars, chVars, lcVars, startupVars, ssVars>>

(* The fairness of each component, while the behaviour is about it.  Every *)
(* one of these steps changes the variable of its subscript (of those of   *)
(* two, at least one, or it stutters).                                     *)
MCFairness ==
  /\ WF_batches(part = "opening" /\ FireStep)
  /\ WF_exitTasks(part = "opening" /\ ExitStep)
  /\ WF_told(part = "opening" /\ Told)
  /\ WF_<<day, runs>>(part = "opening" /\ \E v \in Levels : Snapshot(v))
  /\ WF_loopVars(part = "fx report" /\ LoopTick)
  /\ WF_sending(part = "fx report" /\ FrAwaited)
  /\ WF_query(part = "loans" /\ AskBroker)
  /\ WF_query(part = "loans" /\ (BrokerAnswers("periodic") \/ LoansArrive("periodic")))
  /\ WF_posted(part = "xing" /\ RunPosted)
  /\ WF_xcNow(part = "xing" /\ XcTick)
  /\ \A r \in Reqs : WF_fut(part = "xing" /\ GiveUp(r))
  /\ WF_<<dirty, wire>>(part = "channel" /\ ChHub)
  /\ WF_wire(part = "channel" /\ Connect)
  /\ WF_wr(part = "channel" /\ ChWriter)
  /\ WF_rd(part = "channel" /\ ChReader)
  /\ WF_mem(part = "channel" /\ GrowsOld)
  /\ WF_looking(part = "lifecycle" /\ LcPoll)
  /\ \A c \in 1 .. MaxLaunches : WF_cores(part = "lifecycle" /\ LcSlot(c))
  /\ WF_win(part = "lifecycle" /\ (CloseScreens \/ AskDown \/ EnsuredDown))
  /\ WF_link(part = "startup" /\ SomeChannelTurn)
  /\ WF_refresh(part = "startup" /\ SomeRefreshTurn)
  /\ \A w \in Screens : /\ WF_jobs(part = "set screens" /\ SetTaken(w))
                        /\ WF_box(part = "set screens" /\ StateComes(w))
                        /\ WF_row(part = "set screens" /\ GuardOver(w))
                        /\ WF_row(part = "set screens" /\ SsScreen(w))

MCSpec == MCInit /\ [][MCNext]_mcVars /\ MCFairness

-----------------------------------------------------------------------------
WatchedRequest == IF watched = 1 THEN "o1" ELSE "o2"

(* What was begun comes to its end, each time: the automatic exit of an    *)
(* order of the opening that was filled whole (_on_fill); a send of the    *)
(* currency report that the user asked for (request_send_now); a stock's   *)
(* wait for a loan to repay (_refresh_loans); a request to the xing COM    *)
(* thread, even one that hangs (query); and a fill whose notice was lost   *)
(* while its channel was away, which comes into the positions              *)
(* (refresh_snapshot).                                                     *)
Begun ==
  \/ part = "opening" /\ ExitDue(watched)
  \/ part = "fx report" /\ wanted
  \/ part = "loans" /\ WaitsForNothing
  \/ part = "xing" /\ Open(WatchedRequest)
  \/ part = "startup" /\ LostLot(watched)
Finished ==
  \/ part = "opening" /\ ExitSettled(watched)
  \/ part = "fx report" /\ ~wanted
  \/ part = "loans" /\ ~WaitsForNothing
  \/ part = "xing" /\ ~Open(WatchedRequest)
  \/ part = "startup" /\ LotSettled(watched)
WhatBeginsEnds == Begun ~> Finished

(* What is handed on is whole, once, and the receiver's own: a body a      *)
(* screen reads (ShareReader), a fill the engines get (_wire), an answer of*)
(* the COM thread (query).                                                 *)
HandedRight == NoTornRead /\ HandedOnce /\ OwnAnswer

(* What broke is put right: a core that is gone is started again           *)
(* (poll_core); once the window is gone, however it ended, no core is left *)
(* running ("메인 종료 = 전부 멈춤": ensure_core_down, bind_core_to_job,    *)
(* ParentWatch); a screen that lost or missed something comes to show what *)
(* the core holds (run_state_feed); and a run button that does not show    *)
(* whether its set runs comes to show it (_paint_leg).                     *)
Broken ==
  \/ part = "lifecycle" /\ IF watched = 1 THEN CoreMissing ELSE win = "gone"
  \/ part = "channel" /\ ~ShowsTheCore
  \/ part = "set screens" /\ ~Agrees(1)
PutRight ==
  \/ part = "lifecycle" /\ IF watched = 1 THEN ~CoreMissing \/ RestartOver ELSE CoreMissing
  \/ part = "channel" /\ ShowsTheCore
  \/ part = "set screens" /\ Agrees(1)
BreaksArePutRight == Broken ~> PutRight
=============================================================================
