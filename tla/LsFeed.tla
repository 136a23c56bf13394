------------------------------- MODULE LsFeed -------------------------------
(* The broker's real-time feed and the subscriptions wanted of it, over       *)
(* either transport: a WebSocket (gateways/ls_ws.py: a connection of its own, *)
(* everything registered again on every connection) or the xing session       *)
(* (gateways/xing_ws.py over xing_com.py: a login, and a record of the keys   *)
(* already advised).  The plan of the wanted keys changes under way; the      *)
(* registration of everything and a change of plan exclude each other by      *)
(* _sub_lock.                                                                 *)
(*                                                                            *)
(* The feed also hands on the notices of cancels and amends of futures orders *)
(* (gateways/ls_ws.py).  The broker sends the acceptance O01 and the          *)
(* confirmation H01 of each; only the acceptance surely names the order it is *)
(* about, and either may come first.  An amend's acceptance releases nothing. *)
EXTENDS Integers, Sequences, SequencesExt, FiniteSets

CONSTANTS
    Apis,        \* transports to explore: subset of {"ws", "xing"}
    FeedKeys,    \* (TR, key) pairs that a plan may want
    MaxLfDrops,    \* bound: how often the broker drops the session
    MaxPlans     \* bound: changes of plan

ASSUME LsFeedAssumption ==
    Apis \subseteq {"ws", "xing"} /\ MaxLfDrops \in Nat /\ MaxPlans \in Nat

VARIABLES
    api,         \* the transport, chosen at start
    subs,        \* _subs: the keys wanted
    up,          \* the session or the connection exists at the broker
    server,      \* keys the broker streams
    keys,        \* _real_keys: keys advised (xing)
    loggedIn,    \* XingSession.logged_in
    connected,   \* WsStatus.connected
    down,        \* XingRealClient._down
    loop,        \* callbacks from the COM thread the asyncio loop has not run
    runner,      \* where run() is
    todo,        \* keys run() has still to register
    planner,     \* where apply_plan is: keys to add and keys to remove
    lock,        \* holder of _sub_lock
    lfDrops, plans

lfVars == <<api, subs, up, server, keys, loggedIn, connected, down, loop, runner, todo,
            planner, lock, lfDrops, plans>>

NoPlan == [add |-> {}, remove |-> {}]

LfInit ==
    /\ api \in Apis /\ subs = {} /\ up = FALSE /\ server = {} /\ keys = {}
    /\ loggedIn = FALSE /\ connected = FALSE /\ down = FALSE /\ loop = <<>>
    /\ runner = "login" /\ todo = {} /\ planner = NoPlan /\ lock = "none"
    /\ lfDrops = 0 /\ plans = 0

-----------------------------------------------------------------------------
(* The session and its events.                                                *)

\* OnLogin; the future is completed on the loop
OnLogin ==
    /\ runner = "asking" /\ ~up /\ "in" \notin {loop[i] : i \in DOMAIN loop}
    /\ up' = TRUE /\ loop' = Append(loop, "in")
    /\ UNCHANGED <<api, subs, server, keys, loggedIn, connected, down, runner, todo, planner,
                   lock, lfDrops, plans>>

\* OnDisconnect and OnLogout on the COM thread (the broker's registrations die
\* with the session, so the record of the keys is cleared), or a closed socket
LfDrop ==
    /\ up /\ lfDrops < MaxLfDrops /\ lfDrops' = lfDrops + 1
    /\ up' = FALSE /\ server' = {}
    /\ IF api = "xing"
       THEN loggedIn' = FALSE /\ keys' = {} /\ loop' = Append(loop, "bell")
       ELSE UNCHANGED <<loggedIn, keys, loop>>
    /\ UNCHANGED <<api, subs, connected, down, runner, todo, planner, lock, plans>>

RunLoop ==
    /\ loop # <<>> /\ loop' = Tail(loop)
    /\ IF Head(loop) = "bell"
       THEN down' = TRUE /\ UNCHANGED runner
       ELSE runner' = "granted" /\ UNCHANGED down
    /\ UNCHANGED <<api, subs, up, server, keys, loggedIn, connected, todo, planner, lock,
                   lfDrops, plans>>

-----------------------------------------------------------------------------
(* advise and unadvise: on the COM thread, or as messages on the socket.      *)

Advise(k) ==
    IF api = "xing" /\ k \in keys THEN UNCHANGED <<keys, server>>
    ELSE /\ keys' = IF api = "xing" THEN keys \union {k} ELSE keys
         /\ server' = IF up THEN server \union {k} ELSE server

Unadvise(k) ==
    IF api = "xing" /\ k \notin keys THEN UNCHANGED <<keys, server>>
    ELSE keys' = keys \ {k} /\ server' = server \ {k}

-----------------------------------------------------------------------------
(* run(): connect or log in, register everything, wait for the end.           *)

\* ensure_login's loop; a session that counts as logged in is used as it is
Login ==
    /\ runner = "login" /\ api = "xing"
    /\ IF loggedIn
       THEN /\ down' = FALSE /\ connected' = TRUE /\ runner' = "lock"
       ELSE /\ runner' = "asking" /\ UNCHANGED <<down, connected>>
    /\ UNCHANGED <<api, subs, up, server, keys, loggedIn, loop, todo, planner, lock, lfDrops,
                   plans>>

\* login() goes on after its future
LoggedIn ==
    /\ runner = "granted" /\ loggedIn' = TRUE /\ runner' = "login"
    /\ UNCHANGED <<api, subs, up, server, keys, connected, down, loop, todo, planner, lock,
                   lfDrops, plans>>

LfConnect ==
    /\ runner = "login" /\ api = "ws"
    /\ up' = TRUE /\ server' = {} /\ connected' = TRUE /\ runner' = "lock"
    /\ UNCHANGED <<api, subs, keys, loggedIn, down, loop, todo, planner, lock, lfDrops, plans>>

TakeLockFreely ==
    /\ runner = "lock" /\ todo' = subs /\ runner' = "advise"
    /\ UNCHANGED <<api, subs, up, server, keys, loggedIn, connected, down, loop, planner,
                   lock, lfDrops, plans>>

\* _advise_all, _resubscribe: the list as it is once the lock is held
TakeLock ==
    /\ runner = "lock" /\ lock = "none" /\ lock' = "run"
    /\ todo' = subs /\ runner' = "advise"
    /\ UNCHANGED <<api, subs, up, server, keys, loggedIn, connected, down, loop, planner,
                   lfDrops, plans>>

LetGo == lock' = IF lock = "run" THEN "none" ELSE lock

AdviseOne ==
    /\ runner = "advise" /\ (api = "ws" => up)
    /\ \E k \in todo : Advise(k) /\ todo' = todo \ {k}
    /\ UNCHANGED <<api, subs, up, loggedIn, connected, down, loop, runner, planner, lock,
                   lfDrops, plans>>

AdviseDone ==
    /\ runner = "advise" /\ todo = {} /\ runner' = "wait" /\ LetGo
    /\ UNCHANGED <<api, subs, up, server, keys, loggedIn, connected, down, loop, todo, planner,
                   lfDrops, plans>>

\* the wait for _down ends, or the socket's error ends the registering or the reading
LoopEnded ==
    /\ \/ api = "xing" /\ runner = "wait" /\ down
       \/ api = "ws" /\ runner \in {"advise", "wait"} /\ ~up
    /\ connected' = FALSE /\ runner' = "login" /\ todo' = {} /\ LetGo
    /\ UNCHANGED <<api, subs, up, server, keys, loggedIn, down, loop, planner, lfDrops, plans>>

-----------------------------------------------------------------------------
(* apply_plan: the difference, sent at once if the channel is connected.      *)

Plan ==
    /\ lock = "none" /\ plans < MaxPlans /\ plans' = plans + 1
    /\ \E want \in SUBSET FeedKeys \ {subs} :
         /\ subs' = want
         /\ IF connected
            THEN lock' = "plan" /\ planner' = [add |-> want \ subs, remove |-> subs \ want]
            ELSE UNCHANGED <<lock, planner>>
    /\ UNCHANGED <<api, up, server, keys, loggedIn, connected, down, loop, runner, todo, lfDrops>>

PlanAdds ==
    /\ lock = "plan" /\ (api = "ws" => up)
    /\ \E k \in planner.add : Advise(k) /\ planner' = [planner EXCEPT !.add = @ \ {k}]
    /\ UNCHANGED <<api, subs, up, loggedIn, connected, down, loop, runner, todo, lock, lfDrops,
                   plans>>

PlanRemoves ==
    /\ lock = "plan" /\ planner.add = {} /\ (api = "ws" => up)
    /\ \E k \in planner.remove : Unadvise(k) /\ planner' = [planner EXCEPT !.remove = @ \ {k}]
    /\ UNCHANGED <<api, subs, up, loggedIn, connected, down, loop, runner, todo, lock, lfDrops,
                   plans>>

\* all sent, or the socket's error leaves the rest to the next connection
PlanDone ==
    /\ lock = "plan" /\ (planner = NoPlan \/ (api = "ws" /\ ~up))
    /\ lock' = "none" /\ planner' = NoPlan
    /\ UNCHANGED <<api, subs, up, server, keys, loggedIn, connected, down, loop, runner, todo,
                   lfDrops, plans>>

LfNext ==
    \/ OnLogin \/ LfDrop \/ RunLoop
    \/ Login \/ LoggedIn \/ LfConnect \/ TakeLock \/ AdviseOne \/ AdviseDone \/ LoopEnded
    \/ Plan \/ PlanAdds \/ PlanRemoves \/ PlanDone

LfSpec == LfInit /\ [][LfNext]_lfVars

-----------------------------------------------------------------------------
\* nothing is under way that would still change what the broker streams
Settled ==
    /\ runner = "wait" /\ lock = "none" /\ loop = <<>> /\ ~down
    /\ api = "ws" => up

(* Once a WebSocket channel has settled, the broker streams exactly what is   *)
(* wanted, whatever the order of connections, drops and changes of plan.      *)
FeedServesPlan == api = "ws" /\ Settled => server = subs

-----------------------------------------------------------------------------
(* The notices of cancels and amends.                                         *)

CONSTANTS
    Requested,   \* numbers of cancel and amend orders
    Amends,      \* those that amend
    Originals,   \* numbers of orders
    OrgOf,       \* [Requested -> Originals]
    CancelMapCap, PendingCap   \* _CANCEL_MAP_CAP, _PENDING_H01_CAP

UnknownOrder == "unknown"
ASSUME LsNoticesAssumption ==
    /\ OrgOf \in [Requested -> Originals] /\ Amends \subseteq Requested /\ UnknownOrder \notin Originals
    /\ CancelMapCap \in Nat \ {0} /\ PendingCap \in Nat \ {0}

\* "named": whether the confirmation carries the number of the order itself
Verdicts == {"cancel", "cancel_reject"}

VARIABLES
    sentNotices,       \* [Requested -> notices the broker has sent of it]
    onWay,      \* notices not delivered yet, in any order
    orgBy,      \* _org_by_cancel, oldest first
    heldNotices,       \* _pending_h01, oldest first
    passed      \* OrderEvents handed to on_order_event

lnVars == <<sentNotices, onWay, orgBy, heldNotices, passed>>

LnInit ==
    /\ sentNotices = [c \in Requested |-> {}] /\ onWay = {} /\ orgBy = <<>> /\ heldNotices = <<>> /\ passed = <<>>

OrderNotice(tr, c, kind, named) == [tr |-> tr, no |-> c, kind |-> kind, named |-> named]
Event(kind, c, org) == [kind |-> kind, no |-> c, org |-> org]

\* trcode1 of an acceptance: FO02 amends, FO03 cancels
AcceptKind(c) == IF c \in Amends THEN "amend" ELSE "cancel_ack"

\* a dict that drops its oldest key when it is full
Stored(dict, cap, e) ==
    LET room == IF Len(dict) >= cap THEN Tail(dict) ELSE dict
        has == {i \in DOMAIN room : room[i].no = e.no}
    IN IF has = {} THEN Append(room, e) ELSE [i \in DOMAIN room |-> IF i \in has THEN e ELSE room[i]]
Of(dict, c) == {i \in DOMAIN dict : dict[i].no = c}
EntryOf(dict, c) == CHOOSE i \in Of(dict, c) : TRUE

\* the broker, one of each per cancel, in either order
NoticesOf(c) == {OrderNotice("O01", c, AcceptKind(c), TRUE)}
                \cup {OrderNotice("H01", c, v, b) : v \in Verdicts, b \in BOOLEAN}

SendNotice(c) ==
    /\ \E n \in NoticesOf(c) :
         /\ n.tr \notin sentNotices[c]
         /\ sentNotices' = [sentNotices EXCEPT ![c] = @ \cup {n.tr}] /\ onWay' = onWay \cup {n}
    /\ UNCHANGED <<orgBy, heldNotices, passed>>

\* _parse_order_event: the order a confirmation is about
OrgIn(known, n) ==
    IF n.named THEN OrgOf[n.no]
    ELSE IF Of(known, n.no) = {} THEN UnknownOrder ELSE known[EntryOf(known, n.no)].org

Accepted(n) == Event(n.kind, n.no, OrgOf[n.no])
Confirmed(known, n) == Event(n.kind, n.no, OrgIn(known, n))

\* _dispatch of an acceptance: remembered, passed on, and after it the
\* confirmation that was kept for it
DeliverO01(n) ==
    /\ n.tr = "O01"
    /\ orgBy' = Stored(orgBy, CancelMapCap, [no |-> n.no, org |-> OrgOf[n.no]])
    /\ IF n.kind = "cancel_ack" /\ Of(heldNotices, n.no) # {}
       THEN LET k == EntryOf(heldNotices, n.no)
            IN /\ passed' = passed \o <<Accepted(n), Confirmed(orgBy', heldNotices[k].msg)>>
               /\ heldNotices' = RemoveAt(heldNotices, k)
       ELSE passed' = Append(passed, Accepted(n)) /\ UNCHANGED heldNotices

\* _dispatch of a confirmation: kept when its order is not known
DeliverH01(n) ==
    /\ n.tr = "H01" /\ UNCHANGED orgBy
    /\ IF OrgIn(orgBy, n) = UnknownOrder
       THEN heldNotices' = Stored(heldNotices, PendingCap, [no |-> n.no, msg |-> n]) /\ UNCHANGED passed
       ELSE passed' = Append(passed, Confirmed(orgBy, n)) /\ UNCHANGED heldNotices

Deliver(n) == (DeliverO01(n) \/ DeliverH01(n)) /\ onWay' = onWay \ {n} /\ UNCHANGED sentNotices

LnNext == (\E c \in Requested : SendNotice(c)) \/ \E n \in onWay : Deliver(n)

LnSpec == LnInit /\ [][LnNext]_lnVars

-----------------------------------------------------------------------------
(* In whatever order the two notices of a cancel come, once both are here its *)
(* confirmation was passed on, once, with the order it is about               *)
(* (_pending_h01 and _org_by_cancel in _dispatch).                            *)
EveryConfirmationArrives ==
    \A c \in Requested \ Amends :
      LET about == {i \in DOMAIN passed : passed[i].no = c /\ passed[i].kind \in Verdicts}
      IN /\ \A i, j \in about : i = j
         /\ \A i \in about : passed[i].org = OrgOf[c]
         /\ sentNotices[c] = {"O01", "H01"} /\ (\A n \in onWay : n.no # c) => about # {}
=============================================================================
