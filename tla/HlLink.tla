------------------------------- MODULE HlLink -------------------------------
(* The connection to the second exchange: the frames that come by its         *)
(* WebSocket (gateways/hl_ws.py), and the orders and cancels that are sent to *)
(* it (gateways/hl_live.py).  The two share no state.                         *)
EXTENDS Integers, Sequences, SequencesExt, FiniteSets, FiniteSetsExt, TLC

(* The feed.  After a reconnection the exchange sends a snapshot of the       *)
(* fills; those since the cut that were not handled before are fed to the     *)
(* book, and only then (or after HookWait) the hooks that re-read the book by *)
(* REST are rung.                                                             *)
CONSTANTS
    Margin,      \* the two seconds before the cut that count as after it
    HookWait,    \* how long the hooks wait for a snapshot
    MaxTids,     \* _seen_order's maxlen
    HfHorizon, MaxHlFills, MaxHlConnects, MaxFrames   \* bounds

ASSUME HlFeedAssumption ==
    {Margin, HookWait, MaxTids, HfHorizon, MaxHlFills, MaxHlConnects, MaxFrames} \subseteq Nat

Never == -1

VARIABLES
    hfNow,       \* the clock
    fillAt,      \* the exchange's fills, in order: fill i was made at fillAt[i]
    gap,         \* fills made, since the first frame, while none could reach us
    hlLink,        \* the connection carries frames; our side learns of its end later
    subscribed,  \* the exchange has sent this connection's snapshot
    frames,      \* frames on their way: a fill, a snapshot of the first n, a quote
    hfUp,        \* WsStatus.connected
    hlConnects,    \* WsStatus.connects
    lastRx,      \* WsStatus.last_rx
    cutAt,       \* _disconnected_at_ms
    tids,        \* _seen_order, oldest first
    takenFills,       \* times on_fill was called for each fill
    snapDone,    \* _snapshot_done
    snapOf,      \* fills the last snapshot handled after a reconnection held
    hookSince,   \* when the task that waits with the hooks was started, or Never
    hooks        \* _hooks_pending

hfVars == <<hfNow, fillAt, gap, hlLink, subscribed, frames, hfUp, hlConnects, lastRx, cutAt,
            tids, takenFills, snapDone, snapOf, hookSince, hooks>>
exchange == <<fillAt, gap, hlLink, subscribed>>
hookVars == <<hookSince, hooks>>
client == <<hfUp, hlConnects, lastRx, cutAt, tids, takenFills, snapDone, snapOf, hookVars>>

HfInit ==
    /\ hfNow = 0 /\ fillAt = <<>> /\ gap = {} /\ hlLink = FALSE /\ subscribed = FALSE /\ frames = <<>>
    /\ hfUp = FALSE /\ hlConnects = 0 /\ lastRx = Never /\ cutAt = Never
    /\ tids = <<>> /\ takenFills = [i \in 1..MaxHlFills |-> 0]
    /\ snapDone = FALSE /\ snapOf = 0 /\ hookSince = Never /\ hooks = FALSE

Frame(kind, n) == [kind |-> kind, n |-> n]

-----------------------------------------------------------------------------
(* The exchange and the network.                                              *)

Trade ==
    /\ Len(fillAt) < MaxHlFills /\ Len(frames) < MaxFrames
    /\ fillAt' = Append(fillAt, hfNow)
    /\ gap' = IF hlLink \/ lastRx = Never THEN gap ELSE gap \cup {Len(fillAt) + 1}
    /\ frames' = IF hlLink /\ subscribed THEN Append(frames, Frame("fill", Len(fillAt) + 1)) ELSE frames
    /\ UNCHANGED <<hfNow, hlLink, subscribed, client>>

SendSnapshot ==
    /\ hlLink /\ ~subscribed /\ Len(frames) < MaxFrames
    /\ subscribed' = TRUE /\ frames' = Append(frames, Frame("snapshot", Len(fillAt)))
    /\ UNCHANGED <<hfNow, fillAt, gap, hlLink, client>>

SendHlQuote ==
    /\ hlLink /\ Len(frames) < MaxFrames /\ frames' = Append(frames, Frame("bbo", 0))
    /\ UNCHANGED <<hfNow, exchange, client>>

\* the rest of what was on its way is lost, and so are the fills in it
LinkDies ==
    /\ hlLink /\ hlLink' = FALSE
    /\ \E n \in 0..Len(frames) :
         /\ frames' = SubSeq(frames, 1, n)
         /\ gap' = gap \cup {frames[i].n : i \in {j \in n+1..Len(frames) :
                                  frames[j].kind = "fill" /\ lastRx # Never}}
    /\ UNCHANGED <<hfNow, fillAt, subscribed, client>>

\* frames take less than the margin to arrive
HfTick ==
    /\ hfNow < HfHorizon /\ hfNow' = hfNow + 1 /\ frames = <<>>
    /\ UNCHANGED <<exchange, frames, client>>

-----------------------------------------------------------------------------
(* The client.                                                                *)

HfConnect ==
    /\ ~hfUp /\ hlConnects < MaxHlConnects
    /\ hfUp' = TRUE /\ hlConnects' = hlConnects + 1 /\ hlLink' = TRUE /\ subscribed' = FALSE
    /\ frames' = <<>>
    /\ IF hlConnects = 0 THEN UNCHANGED <<snapDone, hookVars>>
       ELSE snapDone' = FALSE /\ hooks' = TRUE /\ hookSince' = hfNow
    /\ UNCHANGED <<hfNow, fillAt, gap, lastRx, cutAt, tids, takenFills, snapOf>>

Cut == IF lastRx = Never THEN hfNow ELSE lastRx

\* the end of the stream, by an error or closed: run()'s except, else and finally
Disconnected ==
    /\ hfUp /\ ~hlLink /\ frames = <<>>
    /\ hfUp' = FALSE /\ cutAt' = Cut
    /\ hookSince' = Never /\ hooks' = FALSE
    /\ UNCHANGED <<hfNow, exchange, frames, hlConnects, lastRx, tids, takenFills, snapDone, snapOf>>

Remember(known, i) ==
    LET room == IF Len(known) = MaxTids THEN Tail(known) ELSE known IN
    IF i \in ToSet(known) THEN known ELSE Append(room, i)

\* what is remembered after the fills of a set, in their order
Remembered(known, news) ==
    LET k[i \in 0..MaxHlFills] ==
          IF i = 0 THEN known ELSE IF i \in news THEN Remember(k[i - 1], i) ELSE k[i - 1]
    IN k[MaxHlFills]

\* the fills of a snapshot that _handle_fill_snapshot lets through
FreshOf(n) == {i \in 1..n : fillAt[i] >= cutAt - Margin /\ i \notin ToSet(tids)}

\* on_message, then _dispatch
Receive ==
    /\ hfUp /\ frames # <<>>
    /\ frames' = Tail(frames) /\ lastRx' = hfNow
    /\ LET f == Head(frames)
           news == CASE f.kind = "fill" -> {f.n}
                     [] f.kind = "snapshot" /\ hlConnects > 1 /\ cutAt # Never -> FreshOf(f.n)
                     [] OTHER -> {}
       IN /\ tids' = Remembered(tids, news)
          /\ takenFills' = [i \in DOMAIN takenFills |-> takenFills[i] + IF i \in news THEN 1 ELSE 0]
          /\ snapDone' = (snapDone \/ f.kind = "snapshot")
          /\ snapOf' = IF f.kind = "snapshot" /\ hlConnects > 1 THEN f.n ELSE snapOf
    /\ UNCHANGED <<hfNow, exchange, hfUp, hlConnects, cutAt, hookVars>>

\* _fire_reconnect_after_snapshot
RingHooks ==
    /\ hookSince # Never /\ (snapDone \/ hfNow >= hookSince + HookWait)
    /\ hookSince' = Never /\ hooks' = FALSE
    /\ UNCHANGED <<hfNow, exchange, frames, hfUp, hlConnects, lastRx, cutAt, tids, takenFills, snapDone, snapOf>>

HfNext ==
    \/ Trade \/ SendSnapshot \/ SendHlQuote \/ LinkDies \/ HfTick
    \/ HfConnect \/ Disconnected \/ Receive \/ RingHooks

HfSpec == HfInit /\ [][HfNext]_hfVars

-----------------------------------------------------------------------------
(* A fill reaches the book once, whatever mixture of live frames and          *)
(* snapshots brings it (_seen_tids, _handle_fill_snapshot).                   *)
NoFillTwice == \A i \in DOMAIN takenFills : takenFills[i] <= 1

(* The fills of the first gap are in the book once the snapshot that follows  *)
(* it was handled: the cut is the last frame received, not the moment the     *)
(* error was noticed (_mark_disconnected).                                    *)
FirstGapIsRecovered ==
    hlConnects = 2 /\ snapDone => \A i \in gap : i <= snapOf => takenFills[i] = 1

-----------------------------------------------------------------------------
(* The orders.  They go in groups, the post-only ones apart from the others,  *)
(* one signed request per group; requests do not wait for each other's        *)
(* answer.  Only a refusal of the nonce is sent again; after a lost answer    *)
(* every order of the group is asked for by its cloid.                        *)
CONSTANTS
    HlOrderSet,    \* orders (their cloids) given to place_orders at once
    PostOnly,      \* those sent as Alo
    NonceRetries,  \* NONCE_RETRIES
    NonceWindow,   \* how many nonces the exchange remembers
    WallHorizon, MaxNonce   \* bounds

ASSUME HlOrdersAssumption ==
    /\ PostOnly \subseteq HlOrderSet /\ IsFiniteSet(HlOrderSet)
    /\ {NonceRetries, NonceWindow, WallHorizon, MaxNonce} \subseteq Nat

\* the requests: a group of orders, and later the cancels of those with a number
Groups == {g \in {PostOnly, HlOrderSet \ PostOnly} : g # {}}
Requests == [kind : {"order", "cancel"}, of : Groups]

VARIABLES
    wall,       \* the wall clock NonceClock reads; it may be set back
    lastNonce,  \* NonceClock._last
    hoPhase,      \* [Requests -> "idle", "flying", "asking", "done"]
    tries,      \* the attempts of _exchange_action
    nonceOf,    \* the nonce the request carries now
    net,        \* requests not yet at the exchange
    answers,    \* answers not yet here
    window,     \* nonces the exchange remembers
    fate,       \* [HlOrderSet -> what the exchange made of the order]
    accepts,    \* times the exchange accepted it
    result      \* its PlaceResult: a number, refused, or unknown (comm)

hoVars == <<wall, lastNonce, hoPhase, tries, nonceOf, net, answers, window, fate, accepts, result>>
theirs == <<window, fate, accepts>>

HoInit ==
    /\ wall = 0 /\ lastNonce = 0
    /\ hoPhase = [r \in Requests |-> "idle"]
    /\ tries = [r \in Requests |-> 0] /\ nonceOf = [r \in Requests |-> 0]
    /\ net = {} /\ answers = {} /\ window = {}
    /\ fate = [o \in HlOrderSet |-> "unseen"]
    /\ accepts = [o \in HlOrderSet |-> 0]
    /\ result = [o \in HlOrderSet |-> "none"]

NextNonce == IF wall > lastNonce THEN wall ELSE lastNonce + 1

\* _send_action with a nonce clock
Transmit(r) ==
    /\ NextNonce <= MaxNonce
    /\ lastNonce' = NextNonce /\ nonceOf' = [nonceOf EXCEPT ![r] = NextNonce]
    /\ net' = net \cup {[req |-> r, nonce |-> NextNonce]}

-----------------------------------------------------------------------------
(* The exchange.                                                              *)

Stale(n) == n \in window \/ (Cardinality(window) = NonceWindow /\ n < Min(window))
KeptNonces(n) == LET w == window \cup {n} IN IF Cardinality(w) > NonceWindow THEN w \ {Min(w)} ELSE w

\* an order may come to rest or fill, or be refused alone; a cancel finds it or not
Arrive(m) ==
    /\ net' = net \ {m}
    /\ IF Stale(m.nonce)
       THEN answers' = answers \cup {[req |-> m.req, nonce |-> m.nonce, ok |-> {}, badNonce |-> TRUE]}
            /\ UNCHANGED theirs
       ELSE /\ window' = KeptNonces(m.nonce)
            /\ \E ok \in SUBSET m.req.of :
                 /\ IF m.req.kind = "order"
                    THEN /\ fate' = [o \in HlOrderSet |->
                                       IF o \notin m.req.of THEN fate[o]
                                       ELSE IF o \in ok THEN "live" ELSE "refused"]
                         /\ accepts' = [o \in HlOrderSet |-> accepts[o] + IF o \in ok THEN 1 ELSE 0]
                    ELSE /\ ok = {o \in m.req.of : fate[o] = "live" /\ result[o] = "number"}
                         /\ fate' = [o \in HlOrderSet |-> IF o \in ok THEN "gone" ELSE fate[o]]
                         /\ UNCHANGED accepts
                 /\ answers' = answers \cup
                        {[req |-> m.req, nonce |-> m.nonce, ok |-> ok, badNonce |-> FALSE]}
    /\ UNCHANGED <<wall, lastNonce, hoPhase, tries, nonceOf, result>>

\* cancelled from elsewhere, or by the exchange
Dies(o) ==
    /\ fate[o] = "live" /\ fate' = [fate EXCEPT ![o] = "gone"]
    /\ UNCHANGED <<wall, lastNonce, hoPhase, tries, nonceOf, net, answers, window, accepts, result>>

SetWall ==
    /\ \E t \in 0..WallHorizon : t # wall /\ wall' = t
    /\ UNCHANGED <<lastNonce, hoPhase, tries, nonceOf, net, answers, theirs, result>>

-----------------------------------------------------------------------------
(* The gateway.                                                               *)

Begin(r) ==
    /\ hoPhase[r] = "idle"
    /\ r.kind = "cancel" =>
         /\ \A q \in Requests : q.kind = "order" => hoPhase[q] = "done"
         /\ \E o \in r.of : result[o] = "number"
    /\ Transmit(r) /\ hoPhase' = [hoPhase EXCEPT ![r] = "flying"]
    /\ UNCHANGED <<wall, tries, answers, theirs, result>>

\* an answer of an attempt that was given up is read by nobody
HlAnswer(a) ==
    LET r == a.req
        again == a.badNonce /\ tries[r] < NonceRetries
    IN /\ hoPhase[r] = "flying" /\ a.nonce = nonceOf[r]
       /\ answers' = answers \ {a}
       /\ IF again
          THEN /\ Transmit(r) /\ tries' = [tries EXCEPT ![r] = @ + 1]
               /\ UNCHANGED <<hoPhase, result>>
          ELSE /\ hoPhase' = [hoPhase EXCEPT ![r] = "done"]
               /\ result' = [o \in HlOrderSet |->
                               IF r.kind = "cancel" \/ o \notin r.of THEN result[o]
                               ELSE IF o \in a.ok THEN "number" ELSE "refused"]
               /\ UNCHANGED <<lastNonce, nonceOf, net, tries>>
       /\ UNCHANGED <<wall, theirs>>

LostResends(r) ==
    /\ hoPhase[r] = "flying" /\ Transmit(r)
    /\ UNCHANGED <<wall, hoPhase, tries, answers, theirs, result>>

\* the connection fails or the answer is not here in time; the request itself
\* may be lost too, or arrive all the same
Lost(r) ==
    /\ hoPhase[r] = "flying"
    /\ hoPhase' = [hoPhase EXCEPT ![r] = IF r.kind = "order" THEN "asking" ELSE "done"]
    /\ net' \in {net, {m \in net : m.req # r}}
    /\ answers' = {a \in answers : a.req # r}
    /\ UNCHANGED <<wall, lastNonce, tries, nonceOf, theirs, result>>

FoundDead(o) == fate[o] # "unseen"
\* _recover_by_cloid: an order alive or filled, by the status of the answer
Found(o) == fate[o] = "live"

\* the query may fail itself
AskFor(r, o) ==
    /\ hoPhase[r] = "asking" /\ o \in r.of /\ result[o] = "none"
    /\ \E reached \in BOOLEAN :
         result' = [result EXCEPT ![o] = IF reached /\ Found(o) THEN "number" ELSE "unknown"]
    /\ hoPhase' = [hoPhase EXCEPT ![r] = IF \A p \in r.of : result'[p] # "none" THEN "done" ELSE @]
    /\ UNCHANGED <<wall, lastNonce, tries, nonceOf, net, answers, theirs>>

HoNext ==
    \/ SetWall
    \/ \E m \in net : Arrive(m)
    \/ \E o \in HlOrderSet : Dies(o)
    \/ \E a \in answers : HlAnswer(a)
    \/ \E r \in Requests : Begin(r) \/ Lost(r)
    \/ \E r \in Requests, o \in HlOrderSet : AskFor(r, o)

HoSpec == HoInit /\ [][HoNext]_hoVars

-----------------------------------------------------------------------------
(* An order given once reaches the book of the exchange once at most: what is *)
(* sent again was refused for its nonce (_exchange_action), and a lost answer *)
(* is asked about, never resent (_place_group).                               *)
AcceptedAtMostOnce == \A o \in HlOrderSet : accepts[o] <= 1

(* What the caller is told is so, then and later: an order with a number was  *)
(* accepted, and an order refused is not at the exchange and not on its way   *)
(* there (PlaceResult.comm tells the unknown apart).                          *)
ResultIsTrue ==
    \A o \in HlOrderSet :
      /\ result[o] = "number" => accepts[o] = 1
      /\ result[o] = "refused" =>
           accepts[o] = 0 /\ \A m \in net : m.req.kind = "order" => o \notin m.req.of
=============================================================================
