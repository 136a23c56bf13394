------------------------------- MODULE LsRest -------------------------------
(* gateways/ls_rest.py, ls_auth.py and ls_http.py: TRs sent to the broker by  *)
(* REST.  A request is counted against the TR's limit, gets the shared token  *)
(* (fetched by one task at a time) and is sent; a query is sent again after a *)
(* failure, an order never is.                                                *)
EXTENDS Integers, Sequences, SequencesExt, FiniteSets

CONSTANTS
    Trs,          \* requests the tasks make
    OrderTrs,     \* those whose TR is an order (is_order_tr)
    TrCode,       \* [Trs -> the TR]
    MaxRetries, FetchRetries,   \* max_retries of the client and of the tokens
    AttemptTime,  \* the longest a fetch or a query takes: REQUEST_TIMEOUT_S
    OrderTime,    \* the longest an order takes: ORDER_REQUEST_TIMEOUT_S
    TokenLife, RefreshMargin,   \* expires_in, refresh_margin_s
    PerSecond, SecondLength,          \* the limit of a TR and the window it counts in
    LrHorizon     \* bound: the clock

ASSUME LsRestAssumption ==
    /\ OrderTrs \subseteq Trs /\ MaxRetries > 0 /\ FetchRetries > 0
    /\ {MaxRetries, FetchRetries, AttemptTime, OrderTime, TokenLife, RefreshMargin, PerSecond, SecondLength,
        LrHorizon} \subseteq Nat

\* the margin of a token (60 s) covers its fetch (10 s) and every try of the
\* request that carries it (3 of 10 s for a query, one of 30 s for an order)
ASSUME MarginAssumption ==
    /\ AttemptTime + MaxRetries * AttemptTime <= RefreshMargin
    /\ AttemptTime + OrderTime <= RefreshMargin /\ RefreshMargin <= TokenLife

Nobody == "nobody"

VARIABLES
    lrNow,     \* the clock
    task,      \* [Trs -> where its request is]
    attempts,  \* sends (or, at "fetch", fetches) made by this request
    lrSince,     \* when the send or fetch under way began
    header,    \* the server's expiry of the token in the request's header
    token,     \* [good: until when _cached returns it, real: the server's expiry]
    holder,    \* _lock of TokenManager
    recent,    \* RateLimiter._recent: [TR -> times counted]
    arrived,   \* the broker got the send under way
    reached,   \* times the broker got the request
    spare      \* a fetch was made while a good token was cached

lrVars == <<lrNow, task, attempts, lrSince, header, token, holder, recent, arrived, reached, spare>>

LrInit ==
    /\ lrNow = 0 /\ task = [t \in Trs |-> "idle"] /\ attempts = [t \in Trs |-> 0]
    /\ lrSince = [t \in Trs |-> 0] /\ header = [t \in Trs |-> 0]
    /\ token = [good |-> 0, real |-> 0] /\ holder = Nobody
    /\ recent = [c \in {TrCode[t] : t \in Trs} |-> <<>>]
    /\ arrived = [t \in Trs |-> FALSE] /\ reached = [t \in Trs |-> 0] /\ spare = FALSE

Cached == lrNow < token.good
\* the request ends; what was its own is forgotten
RequestEnds(t, outcome) ==
    /\ task' = [task EXCEPT ![t] = outcome] /\ attempts' = [attempts EXCEPT ![t] = 0]
    /\ lrSince' = [lrSince EXCEPT ![t] = 0] /\ header' = [header EXCEPT ![t] = 0]
    /\ arrived' = [arrived EXCEPT ![t] = FALSE]
To(t, place) == task' = [task EXCEPT ![t] = place]
Busy(t) == task[t] \in {"send", "fetch"}
SendTime(t) == IF t \in OrderTrs THEN OrderTime ELSE AttemptTime
Longest(t) == IF task[t] = "send" THEN SendTime(t) ELSE AttemptTime

\* the first send, with the token in the header
Use(t, real) ==
    /\ To(t, "send") /\ header' = [header EXCEPT ![t] = real]
    /\ attempts' = [attempts EXCEPT ![t] = 1] /\ lrSince' = [lrSince EXCEPT ![t] = lrNow]

\* RateLimiter.check, then get_token's first look; a request refused by the
\* limit waits and is made again by _request_paced
Make(t) ==
    /\ task[t] = "idle"
    /\ LET counted == SelectSeq(recent[TrCode[t]], LAMBDA s : s > lrNow - SecondLength) IN
         /\ Len(counted) < PerSecond
         /\ recent' = [recent EXCEPT ![TrCode[t]] = Append(counted, lrNow)]
    /\ IF Cached THEN Use(t, token.real) ELSE To(t, "lock") /\ UNCHANGED <<attempts, lrSince, header>>
    /\ UNCHANGED <<lrNow, token, holder, arrived, reached, spare>>

\* _refresh begins
Fetch(t) ==
    /\ holder' = t /\ To(t, "fetch") /\ spare' = (spare \/ Cached)
    /\ attempts' = [attempts EXCEPT ![t] = 1] /\ lrSince' = [lrSince EXCEPT ![t] = lrNow]
    /\ UNCHANGED <<lrNow, header, token, recent, arrived, reached>>

\* the lock is free: look again, somebody may have fetched meanwhile
Enter(t) ==
    /\ task[t] = "lock" /\ holder = Nobody
    /\ \/ Cached /\ Use(t, token.real) /\ UNCHANGED <<lrNow, token, holder, recent, arrived, reached, spare>>
       \/ ~Cached /\ Fetch(t)

LateExpiry == lrNow + TokenLife
Expiry == lrNow + TokenLife - RefreshMargin

\* the server dated the token when it got the request
Fetched(t) ==
    /\ task[t] = "fetch" /\ holder' = Nobody
    /\ token' = [good |-> Expiry, real |-> lrSince[t] + TokenLife]
    /\ Use(t, lrSince[t] + TokenLife) /\ UNCHANGED <<lrNow, recent, arrived, reached, spare>>

FetchFailed(t) ==
    /\ task[t] = "fetch"
    /\ IF attempts[t] < FetchRetries
       THEN attempts' = [attempts EXCEPT ![t] = @ + 1] /\ lrSince' = [lrSince EXCEPT ![t] = lrNow]
            /\ UNCHANGED <<task, header, arrived, holder>>
       ELSE RequestEnds(t, "TokenError") /\ holder' = Nobody
    /\ UNCHANGED <<lrNow, token, recent, reached, spare>>

\* the broker gets the request being sent
Reaches(t) ==
    /\ task[t] = "send" /\ ~arrived[t]
    /\ arrived' = [arrived EXCEPT ![t] = TRUE] /\ reached' = [reached EXCEPT ![t] = @ + 1]
    /\ UNCHANGED <<lrNow, task, attempts, lrSince, header, token, holder, recent, spare>>

\* an answer below 500 ends the request whatever it says
Reply(t) ==
    /\ task[t] = "send" /\ arrived[t] /\ RequestEnds(t, "answered")
    /\ UNCHANGED <<lrNow, token, holder, recent, reached, spare>>

Tries(t) == IF t \in OrderTrs THEN 1 ELSE MaxRetries

\* no answer, or one of 500 and above; either may have been acted on
RequestFails(t, why) ==
    /\ task[t] = "send"
    /\ IF attempts[t] < Tries(t)
       THEN /\ attempts' = [attempts EXCEPT ![t] = @ + 1] /\ lrSince' = [lrSince EXCEPT ![t] = lrNow]
            /\ arrived' = [arrived EXCEPT ![t] = FALSE] /\ UNCHANGED <<task, header>>
       ELSE RequestEnds(t, IF why = "silence" /\ t \in OrderTrs THEN "RestTimeoutError" ELSE "RestError")
    /\ UNCHANGED <<lrNow, token, holder, recent, reached, spare>>

LrTick ==
    /\ lrNow < LrHorizon /\ lrNow' = lrNow + 1
    /\ \A t \in Trs : Busy(t) => lrNow < lrSince[t] + Longest(t)
    /\ UNCHANGED <<task, attempts, lrSince, header, token, holder, recent, arrived, reached, spare>>

LrNext ==
    \/ LrTick
    \/ \E t \in Trs : Make(t) \/ Enter(t) \/ Fetched(t) \/ FetchFailed(t) \/ Reaches(t) \/ Reply(t)
    \/ \E t \in Trs, why \in {"silence", "5xx"} : RequestFails(t, why)

LrSpec == LrInit /\ [][LrNext]_lrVars

-----------------------------------------------------------------------------
(* An order reaches the broker once at most, however the sending fails        *)
(* (is_order_tr in request()).                                                *)
OrderReachesOnce == \A t \in OrderTrs : reached[t] <= 1

(* No task fetches a token while a good one is cached: waiting for the lock   *)
(* is followed by a second look (get_token).                                  *)
NoSpareFetch == ~spare

(* A token is never past the server's expiry in a send, the retries with the  *)
(* same header included (refresh_margin_s in _refresh).                       *)
TokenHolds == \A t \in Trs : task[t] = "send" => lrNow <= header[t]

-----------------------------------------------------------------------------
(***************************************************************************)
(* Orders of the two domestic accounts as the broker's gateway knows them  *)
(* (gateways/ls.py).  Every account numbers its orders from one, so numbers *)
(* of two accounts meet.  A cancel or an amend needs the order's context:   *)
(* kept when the order is placed, or made from the list of open orders after*)
(* a restart.  The stock list comes whole; the futures list comes by code   *)
(* and by page, with orders ending and arriving in between, and whether it  *)
(* may be used to forget orders that are not in it is a flag.               *)
(***************************************************************************)

CONSTANTS
  Codes,            \* the sequence of codes of the futures account
  StockOrders, FutureOrders,   \* orders the broker takes in each account
  PageSize, MaxPages,   \* rows of a page; DERIV_OPEN_ORDERS_MAX_PAGES
  CanContinue,      \* supports_continuation: xing can, REST cannot
  LimitTries,       \* _request_paced: tries while the limit is met
  MaxBoots

NoNumber == "none"

ASSUME LsAccountAssumption ==
  /\ Codes \in Seq(STRING \ {NoNumber})
  /\ \A n \in {StockOrders, FutureOrders, PageSize, MaxPages, LimitTries} : n \in Nat \ {0}
  /\ CanContinue \in BOOLEAN /\ MaxBoots \in Nat

VARIABLES
  atBroker,    \* the broker: code of each order taken, or None
  working,   \* orders at work there
  answering, \* placements whose answer is under way
  contexts,  \* _orders: the code each known order has, or None
  listOk,    \* _deriv_open_orders_ok
  listing,   \* the list being read, or NoList
  called,     \* the last cancel or amend sent, or NoCall
  boots      \* restarts so far

accountVars == <<atBroker, working, answering, contexts, listOk, listing, called, boots>>

Stock == "stock"   \* the one code of the stock account
AccountNumbers(a) == 1 .. (IF a = "s" THEN StockOrders ELSE FutureOrders)
AccountIds == ({"s"} \X AccountNumbers("s")) \cup ({"d"} \X AccountNumbers("d"))
CodesOf(a) == IF a = "s" THEN {Stock} ELSE {Codes[i] : i \in DOMAIN Codes}

NoList == [at |-> 0, key |-> 0, page |-> 0, got |-> {}, since |-> {}, tries |-> 0]
NoCall == [id |-> <<"s", 0>>, code |-> NoNumber]

LsAccountInit ==
  /\ atBroker = [i \in AccountIds |-> NoNumber] /\ working = {} /\ answering = {}
  /\ contexts = [i \in AccountIds |-> NoNumber]
  /\ listOk = FALSE /\ listing = NoList /\ called = NoCall /\ boots = 0

(* The number the broker gives next.                                       *)
Numbered(a, n) ==
  /\ <<a, n>> \in AccountIds /\ atBroker[<<a, n>>] = NoNumber
  /\ \A m \in 1 .. (n - 1) : atBroker[<<a, m>>] # NoNumber

(* The broker takes an order: ours (place_order, answered later) or one of *)
(* the user's own program, which the core only hears of from a list.       *)
TakeOrder(a, n, c, ours) ==
  /\ Numbered(a, n) /\ c \in CodesOf(a)
  /\ atBroker' = [atBroker EXCEPT ![<<a, n>>] = c]
  /\ working' = working \cup {<<a, n>>}
  /\ answering' = IF ours THEN answering \cup {<<a, n>>} ELSE answering
  /\ UNCHANGED <<contexts, listOk, listing, called, boots>>

PlaceAnswered(i) ==
  /\ i \in answering /\ answering' = answering \ {i}
  /\ contexts' = [contexts EXCEPT ![i] = atBroker[i]]
  /\ UNCHANGED <<atBroker, working, listOk, listing, called, boots>>

(* A fill or a cancel ends it.                                             *)
OrderEnds(i) ==
  /\ i \in working /\ working' = working \ {i}
  /\ listing' = [listing EXCEPT !.since = @ \ {i}]
  /\ UNCHANGED <<atBroker, answering, contexts, listOk, called, boots>>

(* _require with an account.                                               *)
Require(i) == contexts[i]

(* cancel_order: the request names the number and the context's code.      *)
CancelOrder(i) ==
  /\ Require(i) # NoNumber
  /\ called' = [id |-> i, code |-> Require(i)]
  /\ \/ i \in working /\ working' = working \ {i}
        /\ listing' = [listing EXCEPT !.since = @ \ {i}]
     \/ UNCHANGED <<working, listing>>        \* refused: filled meanwhile
  /\ UNCHANGED <<atBroker, answering, contexts, listOk, boots>>

(* amend_order: the broker makes a new number of it, which the gateway     *)
(* keeps with the context of the old one.                                  *)
AmendOrder(i, n) ==
  /\ Require(i) # NoNumber /\ i \in working /\ Numbered(i[1], n)
  /\ called' = [id |-> i, code |-> Require(i)]
  /\ atBroker' = [atBroker EXCEPT ![<<i[1], n>>] = atBroker[i]]
  /\ contexts' = [contexts EXCEPT ![<<i[1], n>>] = Require(i)]
  /\ working' = (working \ {i}) \cup {<<i[1], n>>}
  /\ listing' = [listing EXCEPT !.since = @ \ {i}]
  /\ UNCHANGED <<answering, listOk, boots>>

(* _adopt: orders of a list that are not known get a context from their    *)
(* row.                                                                    *)
Adopted(S) == [i \in AccountIds |-> IF i \in S /\ contexts[i] = NoNumber THEN atBroker[i] ELSE contexts[i]]

(* get_open_orders of the stock account: one answer.                       *)
ListStock ==
  /\ contexts' = Adopted({i \in working : i[1] = "s"})
  /\ UNCHANGED <<atBroker, working, answering, listOk, listing, called, boots>>

BeginList ==
  /\ listing = NoList
  /\ listing' = [NoList EXCEPT !.at = 1, !.since = {i \in working : i[1] = "d"}]
  /\ UNCHANGED <<atBroker, working, answering, contexts, listOk, called, boots>>

OfCode == {i \in working : i[1] = "d" /\ atBroker[i] = Codes[listing.at]}
LastOf(S) == CHOOSE n \in {i[2] : i \in S} : \A i \in S : i[2] <= n

(* cts_ordno: the rows of the code asked for beyond the last number read,  *)
(* in the order of numbers, as many as a page holds.                       *)
Beyond == {i \in OfCode : i[2] > listing.key}
Page == {i \in Beyond : Cardinality({j \in Beyond : j[2] < i[2]}) < PageSize}

(* _deriv_open_orders, one answer: the next page while there is one, this  *)
(* transport can ask for it and the bound is not met; else the next code,  *)
(* and after the last one the list counts as read.                         *)
PageArrives ==
  /\ listing # NoList /\ listing.at <= Len(Codes)
  /\ contexts' = Adopted(Page)
  /\ LET more == Beyond # Page /\ CanContinue /\ listing.page + 1 < MaxPages
         got == listing.got \cup Page
     IN listing' = [listing EXCEPT !.got = got, !.tries = 0,
                      !.at = IF more THEN @ ELSE @ + 1,
                      !.page = IF more THEN @ + 1 ELSE 0,
                      !.key = IF more THEN LastOf(Page) ELSE 0]
  /\ listOk' = (listOk \/ listing'.at > Len(Codes))
  /\ UNCHANGED <<atBroker, working, answering, called, boots>>

(* _request_paced: over the limit, a pause and again; the last one raises. *)
PageLimited ==
  /\ listing # NoList /\ listing.at <= Len(Codes)
  /\ listing' = IF listing.tries + 1 = LimitTries THEN NoList
                ELSE [listing EXCEPT !.tries = @ + 1]
  /\ UNCHANGED <<atBroker, working, answering, contexts, listOk, called, boots>>

(* The rehearsal server does not know the query: no list, and no clearing. *)
PageUnsupported ==
  /\ listing # NoList /\ listing.at <= Len(Codes)
  /\ listing' = NoList /\ listOk' = FALSE
  /\ UNCHANGED <<atBroker, working, answering, contexts, called, boots>>

(* The list is handed to the order book, which forgets what is not in it   *)
(* when open_orders_supported says so.                                     *)
ListDone ==
  /\ listing.at > Len(Codes) /\ listing' = NoList
  /\ UNCHANGED <<atBroker, working, answering, contexts, listOk, called, boots>>

CoreRestarts ==
  /\ boots < MaxBoots /\ boots' = boots + 1
  /\ contexts' = [i \in AccountIds |-> NoNumber] /\ answering' = {}
  /\ listOk' = FALSE /\ listing' = NoList /\ called' = NoCall
  /\ UNCHANGED <<atBroker, working>>

LsAccountNext ==
  \/ \E i \in AccountIds :
       \/ \E c \in CodesOf(i[1]), ours \in BOOLEAN : TakeOrder(i[1], i[2], c, ours)
       \/ PlaceAnswered(i) \/ OrderEnds(i) \/ CancelOrder(i)
       \/ \E n \in AccountNumbers(i[1]) : AmendOrder(i, n)
  \/ ListStock \/ BeginList \/ PageArrives \/ PageLimited \/ PageUnsupported
  \/ ListDone \/ CoreRestarts

LsAccountSpec == LsAccountInit /\ [][LsAccountNext]_accountVars

-----------------------------------------------------------------------------
(* A list the order book may clear by holds every order that was at work   *)
(* all the while it was read, whatever ended, arrived or was amended       *)
(* between two pages: no order at work is forgotten (_deriv_open_orders,   *)
(* open_orders_supported).                                                 *)
ListIsWhole == listing.at > Len(Codes) /\ listOk => listing.since \subseteq listing.got

(* An order found at work in a list can be cancelled, also by a core that  *)
(* has just started (_adopt).                                              *)
ListedIsKnown == \A i \in listing.got : contexts[i] # NoNumber

(* A cancel or an amend names the code its number has in its account: the  *)
(* same number of the other account never lends its context (_require).    *)
CallNamesItsOrder == called # NoCall => called.code = atBroker[called.id]
=============================================================================
