------------------------------- MODULE Channel -------------------------------
(***************************************************************************)
(* How the core's state reaches a screen: the core pushes it over one       *)
(* WebSocket to the main window (core_server.WsHub), which writes it to     *)
(* memory shared with the screens (main_window.ws_receiver, state_share),   *)
(* which each screen reads every tenth of a second, falling back to HTTP    *)
(* when what it finds is old (core_client.run_state_feed).  Nothing locks   *)
(* the shared memory: the writer makes the version odd while it writes and  *)
(* a reader takes what it read only between two equal, even versions.       *)
(* A state is a number; a body in memory is its two halves and its length.  *)
(* Versions only grow and are only compared: of each the module keeps       *)
(* whether it is still the one in memory.                                  *)
(***************************************************************************)
EXTENDS Integers, Sequences

CONSTANTS MaxData,      \* bound: states of the core
          MaxDrops,     \* bound: losses of the connection
          MaxHttp,      \* bound: polls over HTTP that fail
          WireLen,      \* messages under way to the main window
          ReadTries     \* attempts of one read (3 in the code)
ASSUME ChAssumption == MaxData \in Nat \ {0} /\ WireLen \in Nat \ {0}

VARIABLES
  data, dirty, lastBody,  \* the core: its state, _dirty, _last_state_body
  wire, drops,            \* the connection: messages under way, or "down"
  mem,                    \* the file: its version (none yet, odd, even; whether it is the
                          \* feed's last_version), whether its time is recent, length, halves
  wr,                     \* the writer: the step it is at, and what it writes
  rd,                     \* the reader: its step, attempt, what it has read, whether the
                          \* version still stands, whether the feed has not seen it
  feed                    \* run_state_feed: box data, misses, HTTP failures
chVars == <<data, dirty, lastBody, wire, drops, mem, wr, rd, feed>>

Down == <<-1>>
Up == wire # Down
Beat == 0   \* a heartbeat; any other message is a state
Resting == [at |-> "rest", try |-> 1, same |-> FALSE, new |-> FALSE, fresh |-> FALSE,
            len |-> 0, a |-> 0, b |-> 0]
ChInit ==
  /\ data = 1 /\ dirty = FALSE /\ lastBody = 0 /\ wire = Down /\ drops = 0
  /\ mem = [ver |-> "none", seen |-> FALSE, fresh |-> FALSE, len |-> 0, a |-> 0, b |-> 0]
  /\ wr = [at |-> "rest", len |-> 0, body |-> 0]
  /\ rd = Resting
  /\ feed = [data |-> 0, misses |-> 0, failed |-> 0]

coreVars == <<data, dirty, lastBody>>
-----------------------------------------------------------------------------
(* WsHub.  What marks the hub is pushed at once; the rest (settings,         *)
(* balances) when the quiet second is over, before the heartbeat.           *)
Change(marks) ==
  /\ data < MaxData /\ data' = data + 1 /\ dirty' = (dirty \/ marks)
  /\ UNCHANGED <<lastBody, wire, drops, mem, wr, rd, feed>>

Push == /\ Up /\ dirty /\ Len(wire) < WireLen /\ dirty' = FALSE
        /\ wire' = (IF data = lastBody THEN wire ELSE Append(wire, data)) /\ lastBody' = data
        /\ UNCHANGED <<data, drops, mem, wr, rd, feed>>
Quiet == /\ Up /\ ~dirty /\ Len(wire) < WireLen
         /\ wire' = Append(IF data = lastBody THEN wire ELSE Append(wire, data), Beat)
         /\ lastBody' = data /\ UNCHANGED <<data, dirty, drops, mem, wr, rd, feed>>

(* A connection begins with the state as it is; one that is lost loses what *)
(* was under way.                                                          *)
Connect == /\ ~Up /\ wire' = <<data>> /\ lastBody' = data
           /\ UNCHANGED <<data, dirty, drops, mem, wr, rd, feed>>
DropLink == /\ Up /\ drops < MaxDrops /\ drops' = drops + 1 /\ wire' = Down
        /\ UNCHANGED <<coreVars, mem, wr, rd, feed>>
(* Three seconds without a write.                                           *)
GrowsOld == /\ ~Up /\ wr.at = "rest" /\ mem.fresh /\ mem' = [mem EXCEPT !.fresh = FALSE]
            /\ UNCHANGED <<coreVars, wire, drops, wr, rd, feed>>

-----------------------------------------------------------------------------
(* ShareWriter.write and touch: odd version, body, header - of which the    *)
(* length, at its end, may be stored after the version.                     *)
WriterOnly == UNCHANGED <<coreVars, drops, feed>>
ShareReceive ==
  /\ Up /\ wr.at = "rest" /\ wire # << >> /\ wire' = Tail(wire)
  /\ mem' = [mem EXCEPT !.ver = "odd", !.seen = FALSE] /\ rd' = [rd EXCEPT !.same = FALSE]
  /\ wr' = IF Head(wire) = Beat THEN [wr EXCEPT !.at = "head"]
           ELSE [wr EXCEPT !.at = "a", !.body = Head(wire), !.len = Head(wire)]
  /\ WriterOnly
WriteBody ==
  /\ \/ wr.at = "a" /\ mem' = [mem EXCEPT !.a = wr.body] /\ wr' = [wr EXCEPT !.at = "b"]
     \/ wr.at = "b" /\ mem' = [mem EXCEPT !.b = wr.body] /\ wr' = [wr EXCEPT !.at = "head"]
  /\ UNCHANGED <<wire, rd>> /\ WriterOnly
WriteHead ==
  /\ wr.at = "head" /\ mem' = [mem EXCEPT !.ver = "even", !.fresh = TRUE]
  /\ wr' = [wr EXCEPT !.at = "len"] /\ UNCHANGED <<wire, rd>> /\ WriterOnly
WriteLength ==
  /\ wr.at = "len" /\ mem' = [mem EXCEPT !.len = wr.len]
  /\ wr' = [wr EXCEPT !.at = "rest"] /\ UNCHANGED <<wire, rd>> /\ WriterOnly

-----------------------------------------------------------------------------
(* ShareReader.read.                                                        *)
ReaderOnly == UNCHANGED <<coreVars, wire, drops, mem, wr>>
NextTry == IF rd.try < ReadTries THEN [Resting EXCEPT !.try = rd.try + 1, !.at = "head"]
           ELSE [Resting EXCEPT !.at = "none"]
BeginRead == /\ rd.at = "rest" /\ rd' = [Resting EXCEPT !.at = "head"]
             /\ ReaderOnly /\ UNCHANGED feed
ReadHead ==
  /\ rd.at = "head" /\ ReaderOnly /\ UNCHANGED feed
  /\ rd' = IF mem.ver # "even" THEN NextTry
           ELSE [rd EXCEPT !.at = "a", !.same = TRUE, !.new = ~mem.seen, !.fresh = mem.fresh,
                               !.len = mem.len]
ReadBody ==
  /\ \/ rd.at = "a" /\ rd' = [rd EXCEPT !.at = "b", !.a = mem.a]
     \/ rd.at = "b" /\ rd' = [rd EXCEPT !.at = "check", !.b = mem.b]
  /\ ReaderOnly /\ UNCHANGED feed
(* Mutant: the version is not read again.                                   *)
CheckNothing ==
  /\ rd.at = "check" /\ ReaderOnly /\ UNCHANGED feed
  /\ rd' = [rd EXCEPT !.at = "got"]
Check ==
  /\ rd.at = "check" /\ ReaderOnly /\ UNCHANGED feed
  /\ rd' = IF rd.same THEN [rd EXCEPT !.at = "got"] ELSE NextTry

(* run_state_feed with what the read gave: a version not seen before is     *)
(* parsed (and remembered though it does not parse), one seen before only   *)
(* says that the data is still good.                                        *)
Taken == rd.at = "got" /\ rd.fresh
UseShare ==
  /\ Taken /\ rd' = Resting /\ mem' = [mem EXCEPT !.seen = rd.same]
  /\ UNCHANGED <<coreVars, wire, drops, wr>>
  /\ feed' = [feed EXCEPT !.misses = 0,
                !.data = IF rd.new /\ rd.a = rd.len /\ rd.b = rd.len THEN rd.len ELSE @]
(* The third miss in a row, and each after it, asks the core.               *)
Fallback ==
  /\ rd.at \in {"got", "none"} /\ ~Taken
  /\ rd' = Resting /\ ReaderOnly
  /\ IF feed.misses < 2 THEN feed' = [feed EXCEPT !.misses = @ + 1]
     ELSE \/ feed' = [feed EXCEPT !.data = data]
          \/ feed.failed < MaxHttp /\ feed' = [feed EXCEPT !.failed = @ + 1]

ChNext ==
  \/ \E marks \in BOOLEAN : Change(marks)
  \/ Push \/ Quiet \/ Connect \/ DropLink \/ GrowsOld
  \/ ShareReceive \/ WriteBody \/ WriteHead \/ WriteLength
  \/ BeginRead \/ ReadHead \/ ReadBody \/ Check \/ UseShare \/ Fallback
ChWriter == ShareReceive \/ WriteBody \/ WriteHead \/ WriteLength
ChReader == BeginRead \/ ReadHead \/ ReadBody \/ Check \/ UseShare \/ Fallback
ChHub == Push \/ Quiet
ChSpec == /\ ChInit /\ [][ChNext]_chVars
          /\ WF_chVars(ChHub) /\ WF_chVars(Connect) /\ WF_chVars(ChWriter) /\ WF_chVars(ChReader)
          /\ WF_chVars(GrowsOld)

-----------------------------------------------------------------------------
(* No screen takes a body put together from two snapshots (ShareWriter,     *)
(* ShareReader); with the length of another it does not parse.              *)
NoTornRead == rd.at = "got" => rd.a = rd.b

(* A screen shows the core's state; once that stands still it must come to *)
(* (WsHub, run_state_feed).                                                *)
ShowsTheCore == feed.data = data
=============================================================================
