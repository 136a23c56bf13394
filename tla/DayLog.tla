---- MODULE DayLog ----
(* The day's rows of fills, cancels and rejections that the core keeps        *)
(* (bootstrap.py: _record_fill, _record_cancel, _record_reject) and the order *)
(* list that shows their newest page and fetches older ones by number.       *)
EXTENDS Naturals, FiniteSets, Sequences, SequencesExt

CONSTANTS Accounts,       \* broker accounts; each numbers its orders on its own
          OrderNos,        \* order numbers the broker gives in a day
          PageRows,           \* rows of a kind in a snapshot and in one older page
          MaxRows,        \* bound: rows recorded in all
          MaxLogDays,        \* bound: days the core runs
          MaxPresses         \* bound: older pages asked for

ASSUME DayLogAssumption == PageRows \in Nat \ {0} /\ MaxRows \in Nat /\ MaxLogDays \in Nat

VARIABLES today, logDay, log, recorded, rowSeq, ends, liveRows, older,
          fetches,    \* by kind, the pages asked for and not in `older` yet
          presses,    \* older pages asked for
          crossed     \* history: the kinds of which a page was asked for before
                      \* an earlier one was in, and shown since

logVars == <<today, logDay, log, recorded, rowSeq, ends, liveRows, older, fetches, presses, crossed>>
screenVars == <<liveRows, older, fetches, presses, crossed>>

RowKinds == {"fills", "cancels", "rejects"}
LogOrders == [account : Accounts, no : OrderNos, day : 1..MaxLogDays]
NoRows == [k \in RowKinds |-> <<>>]

DayLogInit ==
  /\ today = 1 /\ logDay = 0 /\ log = NoRows /\ recorded = {} /\ rowSeq = 0
  /\ ends = {} /\ liveRows = NoRows /\ older = NoRows /\ fetches = NoRows
  /\ presses = 0 /\ crossed = {}

----
(* The rows *)

Rolls == logDay # today
KeptRows == IF Rolls THEN NoRows ELSE log

NewRow(k, o) == [KeptRows EXCEPT ![k] = <<[seq |-> rowSeq + 1, of |-> o]>> \o @]

Add(k, o) ==
  /\ rowSeq < MaxRows
  /\ log' = NewRow(k, o) /\ rowSeq' = rowSeq + 1 /\ logDay' = today
  /\ UNCHANGED <<today, screenVars>>

RecordFill(o) == o.day = today /\ Add("fills", o) /\ UNCHANGED <<recorded, ends>>

RecordReject(o) == o.day = today /\ Add("rejects", o) /\ UNCHANGED <<recorded, ends>>

\* The first notice that an order ended, or one more of the same order (an
\* amended order is cancelled in the book and its own notice still comes).
Seen(o) == o.no \in recorded

RecordCancel(o) ==
  /\ o.day = today /\ ~Seen(o) /\ Add("cancels", o)
  /\ recorded' = (IF Rolls THEN {} ELSE recorded) \cup {o.no}
  /\ ends' = ends \cup {o}

CancelKnown(o) ==
  /\ o.day = today /\ Seen(o) /\ o \notin ends /\ ends' = ends \cup {o}
  /\ UNCHANGED <<today, logDay, log, recorded, rowSeq, screenVars>>

NextDay ==
  /\ today < MaxLogDays /\ today' = today + 1
  /\ UNCHANGED <<logDay, log, recorded, rowSeq, ends, screenVars>>

----
(* The order list *)

(* The rows of s that are in S, in their order.                               *)
Among(s, S) ==
  LET A[i \in 0 .. Len(s)] == IF i = 0 THEN <<>>
                              ELSE IF s[i] \in S THEN Append(A[i - 1], s[i]) ELSE A[i - 1]
  IN A[Len(s)]

FirstRows(s) == SubSeq(s, 1, IF Len(s) < PageRows THEN Len(s) ELSE PageRows)

LogSnapshot ==
  /\ liveRows' = [k \in RowKinds |-> FirstRows(log[k])] /\ liveRows' # liveRows
  /\ UNCHANGED <<today, logDay, log, recorded, rowSeq, ends, older, fetches, presses, crossed>>

Shown(k) == liveRows[k] \o Among(older[k], ToSet(older[k]) \ ToSet(liveRows[k]))

Oldest(k) == LET q == {r.seq : r \in ToSet(Shown(k))}
             IN IF q = {} THEN 0 ELSE CHOOSE s \in q : \A t \in q : s <= t

\* The button: each press has a thread of its own, which asks for what is older
\* than all it sees shown, whether or not an earlier press is answered.
FetchOlder(k) ==
  /\ presses < MaxPresses /\ presses' = presses + 1
  /\ fetches' = [fetches EXCEPT ![k] = Append(@, [asked |-> TRUE, before |-> Oldest(k), got |-> <<>>])]
  /\ crossed' = IF fetches[k] = <<>> THEN crossed ELSE crossed \cup {k}
  /\ UNCHANGED <<today, logDay, log, recorded, rowSeq, ends, liveRows, older>>

HistoryRows(k, before) ==
  FirstRows(Among(log[k], {r \in ToSet(log[k]) : before = 0 \/ r.seq < before}))

\* or the core is not there: no rows
CoreAnswers ==
  /\ \E k \in RowKinds : \E i \in DOMAIN fetches[k] :
       /\ fetches[k][i].asked
       /\ \E got \in {HistoryRows(k, fetches[k][i].before), <<>>} :
            fetches' = [fetches EXCEPT ![k][i].asked = FALSE, ![k][i].got = got]
  /\ UNCHANGED <<today, logDay, log, recorded, rowSeq, ends, liveRows, older, presses, crossed>>

DrainOlder ==
  /\ \E k \in RowKinds : \E i \in DOMAIN fetches[k] :
       /\ ~fetches[k][i].asked
       /\ older' = [older EXCEPT ![k] = @ \o fetches[k][i].got]
       /\ fetches' = [fetches EXCEPT ![k] = RemoveAt(@, i)]
  /\ UNCHANGED <<today, logDay, log, recorded, rowSeq, ends, liveRows, presses, crossed>>

ResetOlder ==
  /\ older # NoRows /\ older' = NoRows
  /\ crossed' = {k \in crossed : fetches[k] # <<>>}
  /\ UNCHANGED <<today, logDay, log, recorded, rowSeq, ends, liveRows, fetches, presses>>

DayLogNext ==
  \/ \E o \in LogOrders :
       RecordFill(o) \/ RecordReject(o) \/ RecordCancel(o) \/ CancelKnown(o)
  \/ NextDay \/ LogSnapshot \/ CoreAnswers \/ DrainOlder \/ ResetOlder
  \/ \E k \in RowKinds : FetchOlder(k)

DayLogSpec == DayLogInit /\ [][DayLogNext]_logVars

----
(* An order's end is one row, however many notices say it.                    *)
CancelListedOnce ==
  \A r, q \in ToSet(log["cancels"]) : r.of = q.of => r = q

(* No row is shown twice, whatever was recorded, dropped at midnight or       *)
(* emptied from the screen between the request of an older page and its       *)
(* arrival - unless one more page of the kind was asked for before that.      *)
NoRowTwice == \A k \in RowKinds \ crossed : IsInjective(Shown(k))
====
