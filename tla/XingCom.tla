------------------------------ MODULE XingCom ------------------------------
(* gateways/xing_com.py: the one COM thread that carries every TR to the      *)
(* broker.  asyncio tasks put commands on its queue and wait for a future;    *)
(* each turn of the thread pumps the COM events, expires what is past its     *)
(* deadline and drains the commands that were queued when the drain began.    *)
(* The futures are completed on the asyncio loop, one callback at a time.     *)
EXTENDS Integers, Sequences, SequencesExt

CONSTANTS
    Reqs,        \* requests the tasks make
    Lanes,       \* LANE_QUERY, LANE_ORDER
    LaneOf,      \* [Reqs -> Lanes]
    LaneTime,    \* [Lanes -> ticks]: QUERY_TIMEOUT_S, ORDER_TIMEOUT_S
    ComGrace,       \* STUCK_GRACE_S
    XcHorizon    \* bound: the clock

NoReq == "none"
ASSUME XingComAssumption ==
    /\ ComGrace \in Nat /\ XcHorizon \in Nat /\ NoReq \notin Reqs
    /\ IsFiniteSet(Lanes) /\ LaneOf \in [Reqs -> Lanes]

VARIABLES
    xcNow,     \* the clock both sides read
    asked,     \* [Reqs -> tick of query(), or -1]
    fut,       \* [Reqs -> "open" or the set of outcomes it ended with]
    cmds,      \* _cmds
    posted,    \* call_soon_threadsafe callbacks not run yet
    com,       \* where the COM thread is: pump, drain
    left,      \* commands the present drain still takes
    making,    \* the request _do has let through and not handed to Request yet
    lane,      \* _pending: lane -> request in flight
    sent,      \* requests the broker has got
    events     \* COM events not pumped yet

xcVars == <<xcNow, asked, fut, cmds, posted, com, left, making, lane, sent, events>>

XcInit ==
    /\ xcNow = 0 /\ asked = [r \in Reqs |-> -1] /\ fut = [r \in Reqs |-> {}]
    /\ cmds = <<>> /\ posted = <<>> /\ com = "pump" /\ left = 0
    /\ making = NoReq
    /\ lane = [l \in Lanes |-> NoReq] /\ sent = {} /\ events = {}

Open(r) == asked[r] >= 0 /\ fut[r] = {}
Deadline(r) == asked[r] + LaneTime[LaneOf[r]]
ComCommand(kind, r) == [kind |-> kind, req |-> r]
\* _resolve: the callback, run later, leaves a future that is done alone
Post(r, why, of) == posted' = Append(posted, [req |-> r, end |-> [why |-> why, of |-> of]])

-----------------------------------------------------------------------------
(* The asyncio side.                                                          *)

\* query(): the future, its deadline and the command
AskQuery(r) ==
    /\ asked[r] < 0 /\ xcNow + LaneTime[LaneOf[r]] + ComGrace <= XcHorizon
    /\ asked' = [asked EXCEPT ![r] = xcNow]
    /\ cmds' = Append(cmds, ComCommand("do", r))
    /\ UNCHANGED <<xcNow, fut, posted, com, left, making, lane, sent, events>>

\* the callback _resolve left on the loop
RunPosted ==
    /\ posted # <<>>
    /\ LET p == Head(posted) IN
         fut' = [fut EXCEPT ![p.req] = IF @ = {} THEN {p.end} ELSE @]
    /\ posted' = Tail(posted)
    /\ UNCHANGED <<xcNow, asked, cmds, com, left, making, lane, sent, events>>

\* wait_for's own limit, for a thread that does not turn
GiveUp(r) ==
    /\ Open(r) /\ xcNow >= Deadline(r) + ComGrace
    /\ fut' = [fut EXCEPT ![r] = {[why |-> "gaveup", of |-> r]}]
    /\ cmds' = Append(cmds, ComCommand("abandon", r))
    /\ UNCHANGED <<xcNow, asked, posted, com, left, making, lane, sent, events>>

XcTick ==
    /\ xcNow < XcHorizon /\ xcNow' = xcNow + 1
    /\ UNCHANGED <<asked, fut, cmds, posted, com, left, making, lane, sent, events>>

-----------------------------------------------------------------------------
(* The broker: one event per request it got, a refusal or the data.           *)

Answered(r) ==
    /\ r \in sent
    /\ \E k \in {"refused", "answer"} : events' = events \union {[req |-> r, kind |-> k]}
    /\ sent' = sent \ {r}
    /\ UNCHANGED <<xcNow, asked, fut, cmds, posted, com, left, making, lane>>

-----------------------------------------------------------------------------
(* The COM thread.                                                            *)

\* _on_query_event: only the request in flight in the lane takes the event
QueryEvent(r, k) ==
    IF lane[LaneOf[r]] = r
    THEN /\ lane' = [lane EXCEPT ![LaneOf[r]] = NoReq]
         /\ Post(r, k, r)
    ELSE UNCHANGED <<lane, posted>>

PumpEvent ==
    /\ com = "pump"
    /\ \E e \in events : QueryEvent(e.req, e.kind) /\ events' = events \ {e}
    /\ UNCHANGED <<xcNow, asked, fut, cmds, com, left, making, sent>>

\* _expire, then the snapshot of the queue's size
Expire ==
    LET over == {l \in Lanes : lane[l] # NoReq /\ xcNow >= Deadline(lane[l])}
    IN  /\ lane' = [l \in Lanes |-> IF l \in over THEN NoReq ELSE lane[l]]
        /\ posted' = posted \o SetToSeq({[req |-> lane[l], end |-> [why |-> "late", of |-> lane[l]]]
                                           : l \in over})
        /\ com' = "drain" /\ left' = Len(cmds)

PumpDone ==
    /\ com = "pump" /\ Expire
    /\ UNCHANGED <<xcNow, asked, fut, cmds, making, sent, events>>

\* _do up to the making of the request: given up, past its deadline, behind
\* another request, without its res file (ResError), or let through
Do(r) ==
    LET l == LaneOf[r]
    IN  \/ /\ fut[r] # {} /\ cmds' = Tail(cmds) /\ UNCHANGED <<making, posted>>
        \/ /\ fut[r] = {} /\ xcNow >= Deadline(r)
           /\ Post(r, "unsent", r) /\ cmds' = Tail(cmds) /\ UNCHANGED making
        \/ /\ fut[r] = {} /\ xcNow < Deadline(r) /\ lane[l] # NoReq
           /\ cmds' = Append(Tail(cmds), ComCommand("do", r)) /\ UNCHANGED <<making, posted>>
        \/ /\ fut[r] = {} /\ xcNow < Deadline(r) /\ lane[l] = NoReq
           /\ cmds' = Tail(cmds)
           /\ \/ Post(r, "refused", r) /\ UNCHANGED making
              \/ making' = r /\ UNCHANGED posted

\* Request(), whatever has come of the caller and of the time while the COM
\* objects were made and filled: gone out, or refused on the spot (< 0)
Requested ==
    /\ com = "drain" /\ making # NoReq /\ making' = NoReq
    /\ \/ /\ lane' = [lane EXCEPT ![LaneOf[making]] = making] /\ sent' = sent \union {making}
          /\ UNCHANGED posted
       \/ Post(making, "refused", making) /\ UNCHANGED <<lane, sent>>
    /\ UNCHANGED <<xcNow, asked, fut, cmds, com, left, events>>

\* before 2026-10-13 the lane was emptied, whoever's request was in it
AbandonAny(r) == lane' = [lane EXCEPT ![LaneOf[r]] = NoReq] /\ cmds' = Tail(cmds)

Abandon(r) ==
    /\ lane' = [lane EXCEPT ![LaneOf[r]] = IF @ = r THEN NoReq ELSE @]
    /\ cmds' = Tail(cmds)

DrainOne ==
    /\ com = "drain" /\ making = NoReq /\ left > 0 /\ left' = left - 1
    /\ LET c == Head(cmds) IN
         \/ c.kind = "do" /\ Do(c.req) /\ UNCHANGED lane
         \/ c.kind = "abandon" /\ Abandon(c.req) /\ UNCHANGED <<making, posted>>
    /\ UNCHANGED <<xcNow, asked, fut, com, sent, events>>

DrainDone ==
    /\ com = "drain" /\ making = NoReq /\ left = 0 /\ com' = "pump"
    /\ UNCHANGED <<xcNow, asked, fut, cmds, posted, left, making, lane, sent, events>>

ComThread == PumpEvent \/ PumpDone \/ DrainOne \/ Requested \/ DrainDone

XcNext ==
    \/ \E r \in Reqs : AskQuery(r) \/ GiveUp(r) \/ Answered(r)
    \/ RunPosted \/ XcTick \/ ComThread

\* The asyncio loop and the clock go on; nothing is assumed of the COM thread.
XcSpec ==
    /\ XcInit /\ [][XcNext]_xcVars
    /\ WF_xcVars(RunPosted) /\ WF_xcVars(XcTick)
    /\ \A r \in Reqs : WF_xcVars(GiveUp(r))

-----------------------------------------------------------------------------
(* What a caller is told of its request is the broker's word on that very     *)
(* request, however late the answer to an earlier one of the lane comes in.   *)
OwnAnswer == \A r \in Reqs : \A o \in fut[r] : o.of = r

(* As long as a caller still waits for the word on a request that went out, *)
(* the request is the one its lane holds: neither a later request, nor the  *)
(* expiry or the giving up of an earlier one, takes the lane from under it, *)
(* and its answer is not thrown away as a late one (_expire, _abandon,      *)
(* _on_query_event).                                                        *)
GoneOut(r) == r \in sent \/ \E e \in events : e.req = r
WordAwaited(r) == fut[r] = {} /\ \A i \in DOMAIN posted : posted[i].req # r
AnswerIsExpected == \A r \in Reqs : GoneOut(r) /\ WordAwaited(r) => lane[LaneOf[r]] = r
=============================================================================
