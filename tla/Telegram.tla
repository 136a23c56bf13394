------------------------------ MODULE Telegram ------------------------------
(***************************************************************************)
(* Receiving messages of the operator by long polling (telegram_rx.py) and *)
(* answering them (alert.py).  The server keeps every update until a poll  *)
(* asks for a later one; the core asks for the updates from its offset on, *)
(* skips what waits at its start, and may stop at any time.                *)
(***************************************************************************)
EXTENDS Integers, SequencesExt, FiniteSetsExt

CONSTANTS TgUpdates,  \* bound: updates that arrive
          TgStarts    \* bound: starts of the core

(* From the registered chat, with text; or anything else.                   *)
TgKinds == {"own", "foreign"}

VARIABLES
  inbox,                  \* at the server: the updates, in the order of their numbers
  since,                  \* which of them it still keeps
  tgUp, starts,           \* the core runs, how often it started
  offset, primed, poll,   \* _offset, _primed, the poll under way
  queue,                  \* numbers of the last answer's messages not handled yet
  handled, offline        \* history: updates handled, and those that came while it was down

tgVars == <<inbox, since, tgUp, starts, offset, primed, poll, queue, handled, offline>>
tgNone == 0
NoPoll == [at |-> "none", got |-> {}]

TgInit ==
  /\ inbox = << >> /\ since = 1 /\ tgUp = FALSE /\ starts = 0
  /\ offset = tgNone /\ primed = FALSE /\ poll = NoPoll /\ queue = {}
  /\ handled = << >> /\ offline = {}

(* External: somebody writes to the bot.                                    *)
TgWrite(kind) ==
  /\ Len(inbox) < TgUpdates /\ inbox' = Append(inbox, kind)
  /\ offline' = IF tgUp THEN offline ELSE offline \cup {Len(inbox) + 1}
  /\ UNCHANGED <<since, tgUp, starts, offset, primed, poll, queue, handled>>

(* A start knows nothing of the polls before it.                            *)
TgStart ==
  /\ ~tgUp /\ starts < TgStarts /\ tgUp' = TRUE /\ starts' = starts + 1
  /\ offset' = tgNone /\ primed' = FALSE /\ poll' = NoPoll /\ queue' = {}
  /\ UNCHANGED <<inbox, since, handled, offline>>

TgStop == tgUp /\ tgUp' = FALSE /\ poll' = NoPoll /\ queue' = {}
          /\ UNCHANGED <<inbox, since, starts, offset, primed, handled, offline>>

(* The server's answer: the last update alone when the offset is -1, else   *)
(* those from the offset on; it forgets the ones before.                    *)
Waiting == since .. Len(inbox)
AskedFrom == {u \in Waiting : IF primed THEN u >= offset ELSE u = Len(inbox)}

(* A long poll returns as soon as there is something; an answer may be      *)
(* lost, and the poll is made again after a rest.                           *)
PollAnswered ==
  /\ tgUp /\ poll = NoPoll /\ queue = {} /\ (~primed \/ AskedFrom # {})
  /\ poll' = [at |-> "answered", got |-> AskedFrom]
  /\ since' = IF AskedFrom = {} THEN since ELSE Min(AskedFrom)
  /\ UNCHANGED <<inbox, tgUp, starts, offset, primed, queue, handled, offline>>

PollLost == poll # NoPoll /\ poll' = NoPoll
            /\ UNCHANGED <<inbox, since, tgUp, starts, offset, primed, queue, handled, offline>>

(* parse_updates, poll_once: the offset moves past everything received,     *)
(* before any of it is handled.                                             *)
PollDone ==
  /\ poll # NoPoll /\ poll' = NoPoll /\ primed' = TRUE
  /\ offset' = IF poll.got = {} THEN offset ELSE Max(poll.got) + 1
  /\ queue' = {u \in poll.got : primed /\ inbox[u] = "own"}
  /\ UNCHANGED <<inbox, since, tgUp, starts, handled, offline>>

(* run: log_and_ack, once each, in their order; an error of one is logged.  *)
Handle ==
  /\ queue # {}
  /\ handled' = Append(handled, Min(queue)) /\ queue' = queue \ {Min(queue)}
  /\ UNCHANGED <<inbox, since, tgUp, starts, offset, primed, poll, offline>>

TgNext == \/ TgStart \/ TgStop \/ PollAnswered \/ PollLost \/ PollDone \/ Handle
          \/ \E kind \in TgKinds : TgWrite(kind)
TgSpec == TgInit /\ [][TgNext]_tgVars

-----------------------------------------------------------------------------
(* What was written while the core was down is never handled, and nothing   *)
(* is handled twice, also after a restart that has lost the offset          *)
(* ("코어가 꺼져 있던 동안 쌓인 옛 글은 처리하지 않는다").                       *)
NothingOldNothingTwice ==
  /\ IsInjective(handled) /\ \A i \in DOMAIN handled : inbox[handled[i]] = "own"
  /\ ToSet(handled) \cap offline = {}
=============================================================================
