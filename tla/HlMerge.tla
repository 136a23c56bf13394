------------------------------- MODULE HlMerge -------------------------------
(***************************************************************************)
(* The unit of one coin's book at Hyperliquid (hl_merge.py, core_server.py,*)
(* gateways/hl_ws.py).  The user chooses a tick in dollars; the exchange   *)
(* knows only significant figures, so the argument that gives the tick     *)
(* depends on the price's magnitude.  A loop keeps the argument to the     *)
(* tick; changing it is an unsubscribe and a subscribe, put in a queue that*)
(* another task sends; a new connection registers what is wanted and drops *)
(* what was queued.                                                        *)
(***************************************************************************)
EXTENDS Naturals, Sequences

CONSTANTS
  Bands,       \* magnitudes of the price: the base tick is 10^band
  Ticks,       \* the ticks the user may choose
  MaxChoices, MaxMoves, MaxHlDrops   \* choices, moves of the price, breaks

VARIABLES
  market,   \* the magnitude of the price at the exchange
  ref,      \* hl_ref_price: the magnitude of the last quote, or NoPrice
  tick,     \* state.hl_merge: the tick chosen, or NoTick
  legacy,   \* state.hl_merge_legacy: an argument stored by an older version
  unit,     \* the argument in _subs and _l2_extra
  control,  \* _control: what is to be sent
  hlLine,     \* the connection: "down", "up"
  streams,  \* the arguments the exchange serves on this connection
  hlWire,     \* book frames under way, each with the argument it is made of
  depth,    \* _depth: the book kept, or NoBook
  done      \* [choices, moves, drops]

mergeVars == <<market, ref, tick, legacy, unit, control, hlLine, streams, hlWire, depth, done>>

NoRefPrice == 99
NoTick == 0
NoArg == 0
NoBook == 0

(* _MERGE_LEVELS: the multiple of the base tick of each argument.          *)
MergeLevels == <<1, 2, 5, 10, 100, 1000>>
Args == DOMAIN MergeLevels
RawUnit == 1

(* merge_tick_size *)
TickOf(band, a) == (10 ^ band) * MergeLevels[a]

(* |log10 v - log10 t|, as the ratio of the two.                           *)
Nearer(v, w, t) ==
  LET Hi(x) == IF x > t THEN x ELSE t
      Lo(x) == IF x > t THEN t ELSE x
  IN Hi(v) * Lo(w) < Hi(w) * Lo(v) \/ (Hi(v) * Lo(w) = Hi(w) * Lo(v) /\ v < w)

(* merge_choice_for_tick: the same tick, or else the nearest one.          *)
ChoiceFor(band, t) ==
  CHOOSE a \in Args : \A b \in Args \ {a} : Nearer(TickOf(band, a), TickOf(band, b), t)

HlMergeInit ==
  /\ market \in Bands /\ ref = NoRefPrice
  /\ tick \in Ticks \cup {NoTick}
  /\ legacy \in IF tick = NoTick THEN {NoArg, 4} ELSE {NoArg}
  /\ unit = RawUnit /\ control = <<>> /\ hlLine = "down" /\ streams = {}
  /\ hlWire = <<>> /\ depth = NoBook
  /\ done = [choices |-> 0, moves |-> 0, drops |-> 0]

(* The message that ends the old stream: it names the argument in force.   *)
Releases(a) == [op |-> "off", arg |-> unit]

(* set_l2_aggregation: nothing when the argument is the same; else the old *)
(* book is dropped and both messages wait in the queue.                    *)
SetAggregation(a) ==
  IF a = unit THEN UNCHANGED <<unit, control, depth>>
  ELSE /\ unit' = a /\ depth' = NoBook
       /\ control' = control \o <<Releases(a), [op |-> "on", arg |-> a]>>

(* manual_hl_merge of a new screen: the tick is kept, and in force at once *)
(* when a price is known.                                                  *)
ChooseTick(t) ==
  /\ done.choices < MaxChoices
  /\ tick' = t /\ legacy' = NoArg
  /\ done' = [done EXCEPT !.choices = @ + 1]
  /\ IF ref = NoRefPrice THEN UNCHANGED <<unit, control, depth>>
                      ELSE SetAggregation(ChoiceFor(ref, t))
  /\ UNCHANGED <<market, ref, hlLine, streams, hlWire>>

(* manual_hl_merge of an older screen: an argument only.  Without a price  *)
(* it fails.                                                               *)
ChooseArg(a) ==
  /\ done.choices < MaxChoices /\ ref # NoRefPrice
  /\ tick' = TickOf(ref, a) /\ legacy' = NoArg
  /\ done' = [done EXCEPT !.choices = @ + 1]
  /\ SetAggregation(a)
  /\ UNCHANGED <<market, ref, hlLine, streams, hlWire>>

(* sync_hl_merge, every two seconds: an old argument becomes the tick it   *)
(* gives now, and the argument follows the tick.                           *)
SyncMerge ==
  /\ ref # NoRefPrice /\ (legacy # NoArg \/ tick # NoTick)
  /\ tick' = IF legacy # NoArg THEN TickOf(ref, legacy) ELSE tick
  /\ legacy' = NoArg
  /\ SetAggregation(ChoiceFor(ref, tick'))
  /\ UNCHANGED <<market, ref, hlLine, streams, hlWire, done>>

(* run, connecting: the queue is dropped and everything wanted registered. *)
HlConnects ==
  /\ hlLine = "down" /\ hlLine' = "up"
  /\ control' = <<>> /\ streams' = {unit}
  /\ UNCHANGED <<market, ref, tick, legacy, unit, hlWire, depth, done>>

HlDrops ==
  /\ hlLine = "up" /\ done.drops < MaxHlDrops
  /\ hlLine' = "down" /\ streams' = {} /\ hlWire' = <<>>
  /\ done' = [done EXCEPT !.drops = @ + 1]
  /\ UNCHANGED <<market, ref, tick, legacy, unit, control, depth>>

(* _control_loop sends one message, which the exchange applies.            *)
SendControl ==
  /\ hlLine = "up" /\ control # <<>>
  /\ control' = Tail(control)
  /\ streams' = LET c == Head(control)
                IN IF c.op = "on" THEN streams \cup {c.arg} ELSE streams \ {c.arg}
  /\ UNCHANGED <<market, ref, tick, legacy, unit, hlLine, hlWire, depth, done>>

(* The exchange: the price moves, and each stream sends books.             *)
PriceMoves(b) ==
  /\ b # market /\ done.moves < MaxMoves
  /\ market' = b
  /\ done' = [done EXCEPT !.moves = @ + 1]
  /\ UNCHANGED <<ref, tick, legacy, unit, control, hlLine, streams, hlWire, depth>>

SendBook(a) ==
  /\ a \in streams /\ hlWire = <<>>
  /\ hlWire' = <<a>>
  /\ UNCHANGED <<market, ref, tick, legacy, unit, control, hlLine, streams, depth, done>>

(* _parse_bbo: the quote with the price of now and the book kept.          *)
Bbo ==
  /\ hlLine = "up" /\ ref # market /\ ref' = market
  /\ UNCHANGED <<market, tick, legacy, unit, control, hlLine, streams, hlWire, depth, done>>

(* _parse_l2book: a frame says its coin and not its unit, so that it is    *)
(* kept whatever unit it was made of.                                      *)
L2Book ==
  /\ hlWire # <<>>
  /\ depth' = Head(hlWire) /\ hlWire' = Tail(hlWire)
  /\ UNCHANGED <<market, ref, tick, legacy, unit, control, hlLine, streams, done>>

HlMergeNext ==
  \/ \E t \in Ticks : ChooseTick(t)
  \/ \E a \in Args : ChooseArg(a) \/ SendBook(a)
  \/ SyncMerge \/ HlConnects \/ HlDrops \/ SendControl \/ Bbo \/ L2Book
  \/ \E b \in Bands : PriceMoves(b)

HlMergeSpec ==
  /\ HlMergeInit /\ [][HlMergeNext]_mergeVars
  /\ WF_mergeVars(SyncMerge) /\ WF_mergeVars(HlConnects) /\ WF_mergeVars(SendControl)
  /\ WF_mergeVars(Bbo) /\ WF_mergeVars(L2Book) /\ WF_mergeVars(\E a \in Args : SendBook(a))

-----------------------------------------------------------------------------
(* When nothing waits to be sent, the exchange serves the coin's book in   *)
(* exactly the unit wanted: no change, quick change back or break leaves a *)
(* second stream or none (set_l2_aggregation, run).                        *)
OneStream == hlLine = "up" /\ control = <<>> => streams = {unit}
=============================================================================
