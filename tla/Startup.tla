------------------------------- MODULE Startup -------------------------------
(* The live system from its first query on (bootstrap.py: _startup_init,      *)
(* start, _wire, _guarded_ws, _on_ws_reconnect, refresh_snapshot): the        *)
(* startup's queries, the hooks on the channels, a channel that ends, comes   *)
(* back or is given up, and the resynchronisation that every return starts.   *)
(* What is followed is which executed fills the positions of the book hold.   *)
(* The orders are ones that stay open; merging and closing are OrderResync's. *)
EXTENDS Naturals, FiniteSets, Sequences, SequencesExt

CONSTANTS Hl,             \* a Hyperliquid gateway is configured
          MaxLots,        \* bound: fills executed
          MaxEnds,        \* bound: ends of channels
          MaxFailures     \* bound: queries that fail

ASSUME StartupAssumption ==
  Hl \in BOOLEAN /\ MaxLots \in Nat /\ MaxEnds \in Nat /\ MaxFailures \in Nat

VARIABLES
  xing,       \* one xing session serves both broker accounts (bootstrap_live)
  stage,      \* where start() is
  loadError,  \* startup_load_error: what failed, if anything
  link,       \* each channel
  connects,   \* WsStatus.connects
  lots,       \* the fills executed: the account and where each notice is
  countedLots,    \* how often the book's positions hold each
  handed,     \* how often each was handed to the engines
  refresh,    \* the refreshes under way
  failures, endings

startupVars == <<xing, stage, loadError, link, connects, lots, countedLots, handed, refresh,
                 failures, endings>>

LsAccounts == {"stock", "deriv"}
Seats == LsAccounts \cup (IF Hl THEN {"hl"} ELSE {})
\* the object in a seat: xing's is in both of the broker's
Channel(a) == IF xing /\ a \in LsAccounts THEN "xing" ELSE a
Channels == {Channel(a) : a \in Seats}
Stages == <<"symbols", "info", "balances", "positions", "orders", "load", "seed", "wired">>
NoSnap == [at |-> "none", scope |-> {}, todo |-> <<>>, got |-> {}, ok |-> {}, dirty |-> FALSE,
           retry |-> FALSE]

StartupInit ==
  /\ xing \in BOOLEAN /\ stage = 1 /\ loadError = ""
  /\ link = [c \in Seats \cup {"xing"} |-> "off"]
  /\ connects = [c \in Seats \cup {"xing"} |-> 0]
  /\ lots = <<>> /\ countedLots = <<>> /\ handed = <<>>
  /\ refresh = <<>> /\ failures = 0 /\ endings = 0

Executed(a) == {i \in DOMAIN lots : lots[i].account = a}

----
(* Fills and their notices.                                                   *)

\* a fill at the exchange; its notice goes to a channel that is up
Execute(a) ==
  /\ Len(lots) < MaxLots
  /\ lots' = Append(lots, [account |-> a,
                           way |-> CASE link[Channel(a)] = "up" -> "flying"
                                     [] connects[Channel(a)] = 0 -> "early"
                                     [] OTHER -> "lost"])
  /\ countedLots' = Append(countedLots, 0) /\ handed' = Append(handed, 0)
  /\ UNCHANGED <<xing, stage, loadError, link, connects, refresh, failures, endings>>

\* How often apply_fill is on the object of a seat.
Hooks(c) == 1

\* apply_fill: the book counts a fill number once, the engines are called on
\* every call; a refresh that is waiting for its answers notes it.
Hear(i) ==
  /\ lots[i].way = "flying"
  /\ lots' = [lots EXCEPT ![i].way = "heard"]
  /\ countedLots' = [countedLots EXCEPT ![i] = @ + 1]
  /\ handed' = [handed EXCEPT ![i] = @ + Hooks(Channel(lots[i].account))]
  /\ refresh' = [r \in DOMAIN refresh |->
                   IF refresh[r].at = "query" /\ lots[i].account \in refresh[r].scope
                   THEN [refresh[r] EXCEPT !.dirty = TRUE] ELSE refresh[r]]
  /\ UNCHANGED <<xing, stage, loadError, link, connects, failures, endings>>

----
(* start()                                                                    *)

AtStage(s) == Stages[stage] = s /\ loadError = ""

\* symbols, instruments, balances, open orders: nothing the positions hold
PlainStage ==
  /\ loadError = "" /\ Stages[stage] \in {"symbols", "info", "balances", "orders", "seed"}
  /\ stage' = stage + 1
  /\ UNCHANGED <<xing, loadError, link, connects, lots, countedLots, handed, refresh, failures,
                 endings>>

\* positions of one account after the other, in the startup's own snapshot
BeginPositions ==
  /\ AtStage("positions") /\ refresh = <<>>
  /\ refresh' = <<[NoSnap EXCEPT !.at = "startup", !.scope = Seats,
                                 !.todo = <<"stock", "deriv">> \o (IF Hl THEN <<"hl">> ELSE <<>>)]>>
  /\ UNCHANGED <<xing, stage, loadError, link, connects, lots, countedLots, handed, failures,
                 endings>>

StartupQuery ==
  /\ AtStage("positions") /\ refresh # <<>> /\ refresh[1].todo # <<>>
  /\ LET a == Head(refresh[1].todo)
     IN refresh' = [refresh EXCEPT ![1].todo = Tail(@), ![1].got = @ \cup Executed(a),
                                   ![1].ok = @ \cup {a}]
  /\ UNCHANGED <<xing, stage, loadError, link, connects, lots, countedLots, handed, failures,
                 endings>>

PositionsRead ==
  /\ AtStage("positions") /\ refresh # <<>> /\ refresh[1].todo = <<>>
  /\ stage' = stage + 1
  /\ UNCHANGED <<xing, loadError, link, connects, lots, countedLots, handed, refresh, failures,
                 endings>>

\* any stage before the load may fail: the core stays up, nothing is wired
StageFails ==
  /\ loadError = "" /\ stage <= 5 /\ failures < MaxFailures
  /\ failures' = failures + 1 /\ loadError' = Stages[stage] /\ refresh' = <<>>
  /\ UNCHANGED <<xing, stage, link, connects, lots, countedLots, handed, endings>>

\* the positions the book holds after a snapshot of the accounts in scope
Loaded(scope, ok, got) ==
  [i \in DOMAIN countedLots |->
     CASE lots[i].account \notin scope -> countedLots[i]
       [] lots[i].account \in ok /\ i \in got -> 1
       [] OTHER -> 0]

StartupLoad ==
  /\ AtStage("load") /\ stage' = stage + 1
  /\ countedLots' = Loaded(Seats, refresh[1].ok, refresh[1].got) /\ refresh' = <<>>
  /\ UNCHANGED <<xing, loadError, link, connects, lots, handed, failures, endings>>

\* hooks and one guarded run for each channel
Wire ==
  /\ AtStage("wired") /\ \A c \in Channels : link[c] = "off"
  /\ link' = [c \in DOMAIN link |-> IF c \in Channels THEN "back" ELSE "off"]
  /\ UNCHANGED <<xing, stage, loadError, connects, lots, countedLots, handed, refresh, failures,
                 endings>>

----
(* A channel: run() and _guarded_ws.                                          *)

\* The accounts a returning channel's label stands for.
ScopeOf(c) == IF c = "xing" THEN LsAccounts ELSE {c}

TheQueue(scope) ==
  SelectSeq(<<"stock", "deriv", "hl">>, LAMBDA a : a \in scope)

Asking(scope, again) ==
  [NoSnap EXCEPT !.at = "query", !.scope = scope, !.todo = TheQueue(scope), !.retry = again]

\* registered again; a connection after the first rings the hook
Return(c) ==
  /\ link[c] = "back" /\ link' = [link EXCEPT ![c] = "up"]
  /\ connects' = [connects EXCEPT ![c] = @ + 1]
  /\ refresh' = IF connects[c] = 0 THEN refresh
                ELSE Append(refresh, Asking(ScopeOf(c), FALSE))
  /\ UNCHANGED <<xing, stage, loadError, lots, countedLots, handed, failures, endings>>

ChannelEnds(c, then) ==
  /\ link[c] = "up" /\ endings < MaxEnds /\ endings' = endings + 1
  /\ link' = [link EXCEPT ![c] = then]
  /\ lots' = [i \in DOMAIN lots |->
                IF Channel(lots[i].account) = c /\ lots[i].way = "flying"
                THEN [lots[i] EXCEPT !.way = "lost"] ELSE lots[i]]

Breaks(c) ==
  /\ ChannelEnds(c, "back")
  /\ UNCHANGED <<xing, stage, loadError, connects, countedLots, handed, refresh, failures>>

\* the server closes: run() returns and is started again after its pause
Closes(c) ==
  /\ ChannelEnds(c, "asleep")
  /\ UNCHANGED <<xing, stage, loadError, connects, countedLots, handed, refresh, failures>>

Awakes(c) ==
  /\ link[c] = "asleep" /\ link' = [link EXCEPT ![c] = "back"]
  /\ UNCHANGED <<xing, stage, loadError, connects, lots, countedLots, handed, refresh, failures,
                 endings>>

\* any other error gives the channel up; /state says so from now on
GivenUp(c) ==
  /\ ChannelEnds(c, "dead")
  /\ loadError' = IF loadError = "" THEN "channel" ELSE loadError
  /\ UNCHANGED <<xing, stage, connects, countedLots, handed, refresh, failures>>

----
(* refresh_snapshot                                                           *)

Without(r) == [i \in 1..(Len(refresh) - 1) |-> IF i < r THEN refresh[i] ELSE refresh[i + 1]]

QueryAccount(r) ==
  /\ refresh[r].at = "query" /\ refresh[r].todo # <<>>
  /\ LET a == Head(refresh[r].todo)
     IN refresh' = [refresh EXCEPT ![r].todo = Tail(@), ![r].got = @ \cup Executed(a),
                                   ![r].ok = @ \cup {a}]
  /\ UNCHANGED <<xing, stage, loadError, link, connects, lots, countedLots, handed, failures,
                 endings>>

\* a broker account that refuses is left out; any other failure ends the refresh
QueryFails(r) ==
  /\ refresh[r].at = "query" /\ refresh[r].todo # <<>> /\ failures < MaxFailures
  /\ failures' = failures + 1
  /\ \/ refresh' = Without(r)
     \/ Head(refresh[r].todo) # "hl" /\ refresh' = [refresh EXCEPT ![r].todo = Tail(@)]
  /\ UNCHANGED <<xing, stage, loadError, link, connects, lots, countedLots, handed, endings>>

LoadRefresh(r) ==
  /\ refresh[r].at = "query" /\ refresh[r].todo = <<>>
  /\ countedLots' = Loaded(refresh[r].scope, refresh[r].ok, refresh[r].got)
  /\ refresh' = IF refresh[r].dirty /\ ~refresh[r].retry
                THEN [refresh EXCEPT ![r].at = "sleep"] ELSE Without(r)
  /\ UNCHANGED <<xing, stage, loadError, link, connects, lots, handed, failures, endings>>

\* fills were counted meanwhile: once more, a little later
Retry(r) ==
  /\ refresh[r].at = "sleep"
  /\ refresh' = [refresh EXCEPT ![r] = Asking(refresh[r].scope, TRUE)]
  /\ UNCHANGED <<xing, stage, loadError, link, connects, lots, countedLots, handed, failures,
                 endings>>

ChannelTurn(c) == Return(c) \/ Awakes(c)
RefreshTurn(r) == QueryAccount(r) \/ LoadRefresh(r) \/ Retry(r)

StartupNext ==
  \/ \E a \in Seats : Execute(a)
  \/ \E i \in DOMAIN lots : Hear(i)
  \/ PlainStage \/ BeginPositions \/ StartupQuery \/ PositionsRead \/ StageFails \/ StartupLoad
  \/ Wire
  \/ \E c \in Channels : ChannelTurn(c) \/ Breaks(c) \/ Closes(c) \/ GivenUp(c)
  \/ \E r \in DOMAIN refresh : RefreshTurn(r) \/ QueryFails(r)

\* Waits are timers and attempts without limit; answers come or fail.
SomeChannelTurn == \E c \in Channels : ChannelTurn(c)
SomeRefreshTurn == \E r \in DOMAIN refresh : RefreshTurn(r)

StartupSpec ==
  /\ StartupInit /\ [][StartupNext]_startupVars
  /\ WF_startupVars(SomeChannelTurn) /\ WF_startupVars(SomeRefreshTurn)

----
(* A notice reaches the engines once, also when one object sits in two seats  *)
(* (bootstrap.py _wire: hedges were doubled once when it was hooked twice).   *)
HandedOnce == \A i \in DOMAIN handed : handed[i] <= 1

(* A fill whose notice was lost while its channel was away comes into the     *)
(* positions in the end, whichever account and however the channel ended,     *)
(* unless a channel was given up or a query failed.                           *)
LostLot(i) == i \in DOMAIN lots /\ lots[i].way = "lost"
LotSettled(i) ==
  (i \in DOMAIN countedLots /\ countedLots[i] >= 1) \/ failures > 0 \/ loadError # ""

(* A refresh keeps the positions of an account whose query failed             *)
(* (bootstrap.py refresh_snapshot, its first point).                          *)
FailedKeepsPositions ==
  [][\A r \in DOMAIN refresh : LoadRefresh(r) =>
       \A i \in DOMAIN countedLots :
         lots[i].account \notin refresh[r].ok => countedLots'[i] = countedLots[i]]_startupVars
==============================================================================
