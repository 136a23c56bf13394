------------------------------ MODULE FxReport ------------------------------
(***************************************************************************)
(* Reporting the Hyperliquid exposure to other systems (fx_service.py,    *)
(* fx_reporter.py, signallink.py).  A loop of half-second ticks sends the  *)
(* signed notional to every peer found by broadcast; a send awaits the     *)
(* account's positions and then the peers, while commands of the watching  *)
(* window arrive.                                                          *)
(***************************************************************************)
EXTENDS Integers, FiniteSets

CONSTANTS Peers,        \* the other systems
          FrIntervals,  \* send intervals in ticks; the least at the start
          PeerTimeout,  \* heartbeats after which a silent peer is dropped
          MaxFrCommands, MaxTurns  \* bounds: commands, comings and goings of peers

ASSUME FxReportAssumption == PeerTimeout \in Nat \ {0} /\ FrIntervals \subseteq Nat \ {0}

VARIABLES
  paused, interval, wantSendNow, \* the service's settings
  elapsed, sending,              \* the loop: ticks since a send, what it awaits
  lastSentOk,                    \* whether the last send reached a peer
  wanted,                        \* a request of the user no send has begun to serve
  alive, helloed, peers, silent, \* systems up, HELLOs under way, peers, their silence
  frCommands, turns              \* bounds

serviceVars == <<paused, interval, wantSendNow>>
loopVars == <<elapsed, sending, lastSentOk>>
peerVars == <<alive, helloed, peers, silent>>
frVars == <<serviceVars, loopVars, wanted, peerVars, frCommands, turns>>

NotSending == [at |-> "sleep", to |-> {}]

FrInit ==
  /\ paused = FALSE /\ wantSendNow = FALSE
  /\ interval = CHOOSE i \in FrIntervals : \A j \in FrIntervals : i <= j
  /\ elapsed = 0 /\ sending = NotSending /\ lastSentOk = FALSE
  /\ wanted = FALSE /\ alive = {} /\ helloed = {} /\ peers = {}
  /\ silent = [p \in Peers |-> 0] /\ frCommands = 0 /\ turns = 0

-----------------------------------------------------------------------------
(* run(): one turn of the loop.  A request is served before the interval,   *)
(* and both begin the interval anew.                                        *)
RequestTaken == wantSendNow' = FALSE
BeginSend == sending' = [NotSending EXCEPT !.at = "positions"]

LoopTick ==
  /\ sending.at = "sleep"
  /\ IF wantSendNow
     THEN RequestTaken /\ BeginSend /\ wanted' = FALSE /\ UNCHANGED elapsed
     ELSE /\ UNCHANGED <<wantSendNow, wanted>>
          /\ IF ~paused /\ elapsed + 1 >= interval
             THEN BeginSend /\ elapsed' = 0
             ELSE /\ elapsed' = IF elapsed < interval THEN elapsed + 1 ELSE elapsed
                  /\ UNCHANGED sending
  /\ UNCHANGED <<paused, interval, lastSentOk, peerVars, frCommands, turns>>

(* _send: the positions come from the account, or from the book; a failure  *)
(* is logged and the loop goes on.  sink.send goes to the peers of now.     *)
ExposureRead ==
  /\ sending.at = "positions"
  /\ sending' = [at |-> "peers", to |-> peers]
  /\ UNCHANGED <<serviceVars, elapsed, lastSentOk, wanted, peerVars,
                 frCommands, turns>>

(* Mutant: the flag is cleared when the send is over.                       *)
SentThenTaken ==
  /\ sending.at = "peers" /\ sending' = NotSending /\ RequestTaken
  /\ \E reached \in SUBSET (sending.to \cap alive) : lastSentOk' = (reached # {})
  /\ elapsed' = 0
  /\ UNCHANGED <<paused, interval, wanted, peerVars,
                 frCommands, turns>>

(* The want of a request made during the send is still there when it ends;  *)
(* elapsed begins at zero after a manual one.                               *)
Sent ==
  /\ sending.at = "peers" /\ sending' = NotSending
  /\ \E reached \in SUBSET (sending.to \cap alive) : lastSentOk' = (reached # {})
  /\ elapsed' = 0
  /\ UNCHANGED <<serviceVars, wanted, peerVars, frCommands, turns>>

SendFails ==
  /\ sending.at # "sleep" /\ sending' = NotSending /\ elapsed' = 0
  /\ UNCHANGED <<serviceVars, lastSentOk, wanted, peerVars, frCommands, turns>>

(* _fx_command                                                              *)
FxCommand ==
  /\ frCommands < MaxFrCommands /\ frCommands' = frCommands + 1
  /\ \/ paused' \in BOOLEAN /\ UNCHANGED <<interval, wantSendNow, wanted>>
     \/ interval' \in FrIntervals /\ UNCHANGED <<paused, wantSendNow, wanted>>
     \/ wantSendNow' = TRUE /\ wanted' = TRUE /\ UNCHANGED <<paused, interval>>
  /\ UNCHANGED <<loopVars, peerVars, turns>>

-----------------------------------------------------------------------------
(* Peers: HELLO by broadcast, which may be lost, BYE, and the prune that    *)
(* goes with the own heartbeat.                                             *)
FrTurn == turns < MaxTurns /\ turns' = turns + 1
FrRest == <<serviceVars, loopVars, wanted, frCommands>>

PeerStarts(p) == FrTurn /\ p \notin alive /\ alive' = alive \cup {p}
                 /\ UNCHANGED <<FrRest, helloed, peers, silent>>
PeerHello(p) == p \in alive /\ helloed' = helloed \cup {p}
                /\ UNCHANGED <<FrRest, alive, peers, silent, turns>>
HelloArrives(p) ==
  /\ p \in helloed /\ helloed' = helloed \ {p}
  /\ peers' = peers \cup {p} /\ silent' = [silent EXCEPT ![p] = 0]
  /\ UNCHANGED <<FrRest, alive, turns>>
HelloLost(p) == p \in helloed /\ helloed' = helloed \ {p}
                /\ UNCHANGED <<FrRest, alive, peers, silent, turns>>
PeerEnds(p) ==
  /\ FrTurn /\ p \in alive /\ alive' = alive \ {p}
  /\ \/ peers' = peers \ {p}      \* its BYE arrives
     \/ UNCHANGED peers           \* it dies, or the BYE is lost
  /\ UNCHANGED <<FrRest, helloed, silent>>

Heartbeat ==
  LET quiet == [p \in Peers |-> IF silent[p] < PeerTimeout THEN silent[p] + 1 ELSE silent[p]]
  IN /\ peers # {} /\ silent' = quiet
     /\ peers' = {p \in peers : silent[p] < PeerTimeout}
     /\ UNCHANGED <<FrRest, alive, helloed, turns>>

-----------------------------------------------------------------------------
FrNext ==
  \/ LoopTick \/ ExposureRead \/ Sent \/ SendFails \/ FxCommand \/ Heartbeat
  \/ \E p \in Peers : PeerStarts(p) \/ PeerHello(p) \/ HelloArrives(p) \/ HelloLost(p) \/ PeerEnds(p)

(* The loop ticks, an awaited call ends, a datagram under way arrives or is *)
(* lost, and the heartbeat goes on.                                         *)
FrAwaited == ExposureRead \/ Sent \/ SendFails
HelloEnds == \E p \in Peers : HelloArrives(p) \/ HelloLost(p)

FrFairness ==
  /\ WF_frVars(LoopTick) /\ WF_frVars(FrAwaited) /\ WF_frVars(Heartbeat) /\ WF_frVars(HelloEnds)

FrSpec == FrInit /\ [][FrNext]_frVars /\ FrFairness
=============================================================================
