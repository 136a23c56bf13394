-------------------------- MODULE Platform_proofs ---------------------------
(***************************************************************************)
(* What the engines stand on (MCPlatform), for every value of the          *)
(* constants: orders, fills and the first gap of Hyperliquid (HlLink), its *)
(* streams (HlMerge), the broker's tokens, order contexts and lists        *)
(* (LsRest), its feed and notices (LsFeed), what is stored (StateFile,     *)
(* ArbCycle) and the day's rows (DayLog).                                  *)
(***************************************************************************)
EXTENDS MCPlatform, WellFoundedInduction, FiniteSetTheorems, SequenceTheorems, TLAPS

(***************************************************************************)
(* The orders for Hyperliquid.  A group of orders is at one place at a     *)
(* time: its request is on its way and the exchange knows nothing of it,   *)
(* or it was answered and is at no other place.                            *)
(***************************************************************************)
HoTypeOK ==
  /\ wall \in Nat /\ lastNonce \in Nat
  /\ hoPhase \in [Requests -> {"idle", "flying", "asking", "done"}]
  /\ tries \in [Requests -> Nat] /\ nonceOf \in [Requests -> Nat]
  /\ net \subseteq [req : Requests, nonce : Nat]
  /\ \A a \in answers : a.req \in Requests
  /\ fate \in [HlOrderSet -> {"unseen", "live", "refused", "gone"}]
  /\ accepts \in [HlOrderSet -> Nat]
  /\ result \in [HlOrderSet -> {"none", "number", "refused", "unknown"}]

Placements == {r \in Requests : r.kind = "order"}
OnItsWay(r) == \E m \in net : m.req = r
Answered(r) == \E a \in answers : a.req = r

Untouched(r) == \A o \in r.of : fate[o] = "unseen" /\ accepts[o] = 0
Untold(r) == \A o \in r.of : result[o] \in {"none", "unknown"}

(* An answer says what became of every order of its group.                 *)
SaysSo(a) ==
  IF a.badNonce THEN a.ok = {} /\ Untouched(a.req)
  ELSE \A o \in a.req.of : accepts[o] = IF o \in a.ok THEN 1 ELSE 0

FlightInv(r) ==
  OnItsWay(r) =>
    /\ \A m \in net : m.req = r => m.nonce = nonceOf[r]
    /\ ~Answered(r) /\ hoPhase[r] # "idle" /\ Untouched(r) /\ Untold(r)
AnswerInv(r) ==
  \A a \in answers : a.req = r =>
    /\ hoPhase[r] # "idle" /\ SaysSo(a)
    /\ \A b \in answers : b.req = r => b = a
PhaseInv(r) ==
  /\ hoPhase[r] = "idle" => Untouched(r)
  /\ hoPhase[r] \in {"idle", "flying"} => \A o \in r.of : result[o] = "none"

FateInv(o) ==
  /\ accepts[o] \in {0, 1}
  /\ fate[o] = "unseen" => accepts[o] = 0
  /\ fate[o] = "live" => accepts[o] = 1
  /\ result[o] = "number" => accepts[o] = 1
  /\ result[o] = "refused" => accepts[o] = 0

HoInv ==
  /\ HoTypeOK
  /\ \A r \in Placements : FlightInv(r) /\ AnswerInv(r) /\ PhaseInv(r)
  /\ \A o \in HlOrderSet : FateInv(o)
  /\ \A r \in Requests : hoPhase[r] = "asking" => r.kind = "order"

-----------------------------------------------------------------------------
(* No order is in two groups.                                              *)
LEMMA GroupsApart ==
  ASSUME NEW r \in Placements, NEW q \in Placements, r # q
  PROVE  r.of \cap q.of = {}
<1>1. r = [kind |-> r.kind, of |-> r.of] /\ q = [kind |-> q.kind, of |-> q.of]
  BY DEF Placements, Requests
<1>2. r.of # q.of
  BY <1>1 DEF Placements
<1> QED BY <1>2 DEF Placements, Requests, Groups

LEMMA GroupsOfOrders ==
  ASSUME NEW r \in Requests
  PROVE  r.of \subseteq HlOrderSet
BY HlOrdersAssumption DEF Requests, Groups

LEMMA NonceIsNat ==
  ASSUME HoTypeOK
  PROVE  NextNonce \in Nat
BY DEF HoTypeOK, NextNonce

LEMMA HoInitInv == HoInit => HoInv
<1> SUFFICES ASSUME HoInit PROVE HoInv
  OBVIOUS
<1>1. HoTypeOK
  BY DEF HoInit, HoTypeOK
<1>2. ASSUME NEW r \in Placements PROVE FlightInv(r) /\ AnswerInv(r) /\ PhaseInv(r)
  <2>1. r \in Requests /\ r.of \subseteq HlOrderSet
    BY GroupsOfOrders DEF Placements
  <2> QED BY <2>1 DEF HoInit, FlightInv, AnswerInv, PhaseInv, OnItsWay, Untouched
<1>3. \A o \in HlOrderSet : FateInv(o)
  BY DEF HoInit, FateInv
<1>4. \A r \in Requests : hoPhase[r] = "asking" => r.kind = "order"
  BY DEF HoInit
<1> QED BY <1>1, <1>2, <1>3, <1>4 DEF HoInv

-----------------------------------------------------------------------------
(* What goes out is a request that never went out before.                  *)
LEMMA BeginKeeps ==
  ASSUME HoInv, NEW r \in Requests, Begin(r)
  PROVE  HoInv'
<1> USE DEF HoInv
<1>t. HoTypeOK'
  BY NonceIsNat DEF HoTypeOK, Begin, Transmit, theirs
<1>1. ASSUME NEW q \in Placements PROVE (FlightInv(q) /\ AnswerInv(q) /\ PhaseInv(q))'
  <2>0. q \in Requests /\ q.of \subseteq HlOrderSet
    BY GroupsOfOrders DEF Placements
  <2>1. CASE q = r
    <3>1. ~OnItsWay(q) /\ ~Answered(q) /\ Untouched(q) /\ \A o \in q.of : result[o] = "none"
      BY <2>1, <2>0 DEF FlightInv, AnswerInv, PhaseInv, Begin, Answered
    <3>2. \A m \in net' : m.req = q => m.nonce = nonceOf'[q]
      BY <2>0, <2>1, <3>1 DEF Begin, Transmit, OnItsWay, HoTypeOK
    <3>3. hoPhase'[q] = "flying"
      BY <2>0, <2>1 DEF Begin, HoTypeOK
    <3>4. UNCHANGED <<answers, fate, accepts, result>>
      BY DEF Begin, theirs
    <3> QED BY <3>1, <3>2, <3>3, <3>4 DEF FlightInv, AnswerInv, PhaseInv, Answered, Untouched, Untold
  <2>2. CASE q # r
    <3>1. hoPhase'[q] = hoPhase[q] /\ nonceOf'[q] = nonceOf[q]
      BY <2>0, <2>2 DEF Begin, Transmit, HoTypeOK
    <3>2. \A m \in net' : m.req = q => m \in net
      BY <2>2 DEF Begin, Transmit
    <3>4. UNCHANGED <<answers, fate, accepts, result>>
      BY DEF Begin, theirs
    <3> QED BY <3>1, <3>2, <3>4 DEF FlightInv, AnswerInv, PhaseInv, OnItsWay, Answered, Untouched, Untold, SaysSo
  <2> QED BY <2>1, <2>2
<1>2. ASSUME NEW o \in HlOrderSet PROVE FateInv(o)'
  BY DEF FateInv, Begin, theirs
<1>3. \A q \in Requests : hoPhase'[q] = "asking" => q.kind = "order"
  BY DEF Begin, HoTypeOK
<1> QED BY <1>t, <1>1, <1>2, <1>3

(* A connection that fails takes answers with it, and maybe the request.   *)
LEMMA LostKeeps ==
  ASSUME HoInv, NEW r \in Requests, Lost(r)
  PROVE  HoInv'
<1> USE DEF HoInv
<1>0. UNCHANGED <<nonceOf, fate, accepts, result>> /\ net' \subseteq net /\ answers' \subseteq answers
  BY DEF Lost, theirs
<1>t. HoTypeOK'
  BY <1>0 DEF HoTypeOK, Lost, theirs
<1>1. ASSUME NEW q \in Placements PROVE (FlightInv(q) /\ AnswerInv(q) /\ PhaseInv(q))'
  <2>0. q \in Requests
    BY DEF Placements
  <2>1. /\ hoPhase'[q] = "idle" <=> hoPhase[q] = "idle"
        /\ hoPhase'[q] = "flying" => hoPhase[q] = "flying"
    BY <2>0 DEF Lost, HoTypeOK
  <2>2. OnItsWay(q)' => OnItsWay(q)
    BY <1>0 DEF OnItsWay
  <2>3. Answered(q)' => Answered(q)
    BY <1>0 DEF Answered
  <2>4. FlightInv(q)'
    BY <1>0, <2>1, <2>2, <2>3 DEF FlightInv, Untouched, Untold
  <2>5. AnswerInv(q)'
    BY <1>0, <2>1 DEF AnswerInv, SaysSo, Untouched
  <2> QED BY <1>0, <2>1, <2>4, <2>5 DEF PhaseInv, Untouched
<1>2. ASSUME NEW o \in HlOrderSet PROVE FateInv(o)'
  BY <1>0 DEF FateInv
<1>3. \A q \in Requests : hoPhase'[q] = "asking" => q.kind = "order"
  BY DEF Lost, HoTypeOK
<1> QED BY <1>t, <1>1, <1>2, <1>3

(* An order that lives was accepted; of one that cannot be found nobody    *)
(* claims anything.                                                        *)
LEMMA AskForKeeps ==
  ASSUME HoInv, NEW r \in Requests, NEW o \in HlOrderSet, AskFor(r, o)
  PROVE  HoInv'
<1> USE DEF HoInv
<1>0. UNCHANGED <<nonceOf, net, answers, fate, accepts>> /\ r \in Placements
  BY DEF AskFor, theirs, Placements
<1>1. PICK told \in {"number", "unknown"} :
        /\ result' = [result EXCEPT ![o] = told]
        /\ told = "number" => fate[o] = "live"
  BY DEF AskFor, Found
<1>2. \A p \in HlOrderSet : result'[p] = IF p = o THEN told ELSE result[p]
  BY <1>1 DEF HoTypeOK
<1>t. HoTypeOK'
  BY <1>0, <1>1 DEF HoTypeOK, AskFor, theirs
<1>3. ASSUME NEW q \in Placements PROVE (FlightInv(q) /\ AnswerInv(q) /\ PhaseInv(q))'
  <2>0. q \in Requests /\ q.of \subseteq HlOrderSet
    BY GroupsOfOrders DEF Placements
  <2>1. /\ hoPhase'[q] = "idle" <=> hoPhase[q] = "idle"
        /\ hoPhase'[q] = "flying" <=> hoPhase[q] = "flying"
    BY <2>0 DEF AskFor, HoTypeOK
  <2>2. q # r => o \notin q.of
    BY <1>0, GroupsApart DEF AskFor
  <2>3. (Untouched(q)' <=> Untouched(q)) /\ (OnItsWay(q)' <=> OnItsWay(q)) /\ (Answered(q)' <=> Answered(q))
    BY <1>0 DEF Untouched, OnItsWay, Answered
  <2>4. FlightInv(q)'
    <3> SUFFICES ASSUME OnItsWay(q) PROVE FlightInv(q)'
      BY <2>3 DEF FlightInv
    <3>1. Untouched(q) /\ Untold(q)
      BY DEF FlightInv
    <3>2. Untold(q)'
      BY <3>1, <2>0, <1>1, <1>2 DEF Untold, Untouched
    <3> QED BY <3>1, <3>2, <2>1, <2>3, <1>0 DEF FlightInv
  <2>5. AnswerInv(q)'
    BY <1>0, <2>1 DEF AnswerInv, SaysSo, Untouched
  <2>6. PhaseInv(q)'
    BY <2>0, <2>1, <2>2, <2>3, <1>2 DEF PhaseInv, AskFor
  <2> QED BY <2>4, <2>5, <2>6
<1>4. ASSUME NEW p \in HlOrderSet PROVE FateInv(p)'
  BY <1>0, <1>1, <1>2 DEF FateInv
<1>5. \A q \in Requests : hoPhase'[q] = "asking" => q.kind = "order"
  BY DEF AskFor, HoTypeOK
<1> QED BY <1>t, <1>3, <1>4, <1>5

(* An order that is cancelled elsewhere was accepted all the same.         *)
LEMMA DiesKeeps ==
  ASSUME HoInv, NEW o \in HlOrderSet, Dies(o)
  PROVE  HoInv'
<1> USE DEF HoInv
<1>0. UNCHANGED <<hoPhase, nonceOf, net, answers, accepts, result>>
  BY DEF Dies
<1>1. \A p \in HlOrderSet : fate'[p] = fate[p] \/ (fate[p] = "live" /\ fate'[p] = "gone")
  BY DEF Dies, HoTypeOK
<1>t. HoTypeOK'
  BY DEF HoTypeOK, Dies
<1>2. ASSUME NEW q \in Placements PROVE (FlightInv(q) /\ AnswerInv(q) /\ PhaseInv(q))'
  <2>0. q \in Requests /\ q.of \subseteq HlOrderSet
    BY GroupsOfOrders DEF Placements
  <2>1. Untouched(q) => Untouched(q)'
    BY <1>0, <1>1, <2>0 DEF Untouched
  <2>2. FlightInv(q)'
    BY <1>0, <2>1 DEF FlightInv, OnItsWay, Answered, Untold
  <2>3. AnswerInv(q)'
    BY <1>0, <2>1 DEF AnswerInv, SaysSo
  <2> QED BY <1>0, <2>1, <2>2, <2>3 DEF PhaseInv
<1>3. ASSUME NEW p \in HlOrderSet PROVE FateInv(p)'
  BY <1>0, <1>1 DEF FateInv
<1> QED BY <1>t, <1>0, <1>2, <1>3

-----------------------------------------------------------------------------
(* The exchange takes a request or refuses its nonce: what it says of the  *)
(* group is what it did, and nothing of the group is left on its way.      *)
LEMMA ArriveKeeps ==
  ASSUME HoInv, NEW m \in net, Arrive(m)
  PROVE  HoInv'
<1> USE DEF HoInv
<1>0. /\ UNCHANGED <<hoPhase, nonceOf, result>> /\ net' = net \ {m}
      /\ m.req \in Requests /\ m.nonce \in Nat /\ m.req.of \subseteq HlOrderSet
      /\ m = [req |-> m.req, nonce |-> m.nonce]
  BY GroupsOfOrders DEF Arrive, HoTypeOK
<1>1. PICK good \in SUBSET HlOrderSet, bad \in BOOLEAN :
        /\ answers' = answers \cup {[req |-> m.req, nonce |-> m.nonce, ok |-> good, badNonce |-> bad]}
        /\ bad => good = {} /\ UNCHANGED <<fate, accepts>>
        /\ ~bad /\ m.req.kind = "order" =>
             /\ fate' = [o \in HlOrderSet |-> IF o \notin m.req.of THEN fate[o]
                                              ELSE IF o \in good THEN "live" ELSE "refused"]
             /\ accepts' = [o \in HlOrderSet |-> accepts[o] + IF o \in good THEN 1 ELSE 0]
             /\ good \subseteq m.req.of
        /\ ~bad /\ m.req.kind # "order" =>
             /\ accepts' = accepts
             /\ fate' = [o \in HlOrderSet |-> IF o \in good THEN "gone" ELSE fate[o]]
             /\ \A o \in good : fate[o] = "live"
  <2>1. CASE Stale(m.nonce)
    BY <2>1 DEF Arrive, theirs
  <2>2. CASE ~Stale(m.nonce)
    BY <2>2, <1>0 DEF Arrive
  <2> QED BY <2>1, <2>2
<1>2. \A o \in HlOrderSet : o \notin m.req.of \/ m.req.kind # "order" =>
        accepts'[o] = accepts[o] /\ (fate'[o] = fate[o] \/ (fate[o] = "live" /\ fate'[o] = "gone"))
  BY <1>1 DEF HoTypeOK
<1>t. HoTypeOK'
  BY <1>0, <1>1 DEF HoTypeOK, Arrive
<1>3. ASSUME NEW q \in Placements, q # m.req PROVE (FlightInv(q) /\ AnswerInv(q) /\ PhaseInv(q))'
  <2>0. q \in Requests /\ q.of \subseteq HlOrderSet
    BY GroupsOfOrders DEF Placements
  <2>1. \A o \in q.of : o \notin m.req.of \/ m.req.kind # "order"
    BY <1>0, <1>3, GroupsApart DEF Placements
  <2>2. \A o \in q.of : accepts'[o] = accepts[o] /\ (fate[o] = "unseen" => fate'[o] = "unseen")
    BY <2>0, <2>1, <1>2
  <2>3. Untouched(q) => Untouched(q)'
    BY <2>2 DEF Untouched
  <2>4. (OnItsWay(q)' => OnItsWay(q)) /\ (Answered(q)' <=> Answered(q))
    BY <1>0, <1>1, <1>3 DEF OnItsWay, Answered
  <2>5. FlightInv(q)'
    BY <1>0, <2>3, <2>4 DEF FlightInv, Untold
  <2>6. ASSUME NEW a \in answers', a.req = q PROVE a \in answers /\ SaysSo(a)'
    <3>1. a \in answers
      BY <1>1, <1>3, <2>6
    <3>2. SaysSo(a)
      BY <3>1, <2>6 DEF AnswerInv
    <3> QED BY <3>1, <3>2, <2>2, <2>3, <2>6 DEF SaysSo
  <2>7. AnswerInv(q)'
    BY <1>0, <2>6 DEF AnswerInv
  <2> QED BY <1>0, <2>3, <2>5, <2>7 DEF PhaseInv
<1>4. ASSUME NEW q \in Placements, q = m.req PROVE (FlightInv(q) /\ AnswerInv(q) /\ PhaseInv(q))'
  <2>0. q \in Requests /\ q.of \subseteq HlOrderSet /\ q.kind = "order"
    BY GroupsOfOrders DEF Placements
  <2>1. FlightInv(q) /\ OnItsWay(q)
    BY <1>4 DEF OnItsWay
  <2>2. (\A l \in net : l.req = q => l.nonce = nonceOf[q])
         /\ ~Answered(q) /\ hoPhase[q] # "idle" /\ Untouched(q) /\ Untold(q)
    BY <2>1 DEF FlightInv
  <2>3. \A l \in net : l.req = q => l = m
    BY <2>2, <1>0, <1>4 DEF HoTypeOK
  <2>4. ~OnItsWay(q)'
    BY <2>3, <1>0 DEF OnItsWay
  <2> DEFINE a == [req |-> m.req, nonce |-> m.nonce, ok |-> good, badNonce |-> bad]
  <2>5. \A b \in answers' : b.req = q => b = a
    BY <2>2, <1>1 DEF Answered
  <2>6. SaysSo(a)'
    <3>1. CASE bad
      BY <3>1, <2>2, <1>1, <1>4 DEF SaysSo, Untouched
    <3>2. CASE ~bad
      BY <3>2, <2>0, <2>2, <1>1, <1>4 DEF SaysSo, Untouched
    <3> QED BY <3>1, <3>2
  <2>7. AnswerInv(q)'
    BY <2>2, <2>5, <2>6, <1>0 DEF AnswerInv
  <2>8. PhaseInv(q)'
    BY <2>2, <1>0 DEF PhaseInv
  <2> QED BY <2>4, <2>7, <2>8 DEF FlightInv
<1>5. ASSUME NEW o \in HlOrderSet PROVE FateInv(o)'
  <2>1. CASE o \notin m.req.of \/ m.req.kind # "order"
    BY <2>1, <1>0, <1>2 DEF FateInv
  <2>2. CASE o \in m.req.of /\ m.req.kind = "order"
    <3>1. Untouched(m.req) /\ Untold(m.req)
      BY <2>2, <1>0 DEF Placements, FlightInv, OnItsWay
    <3> QED BY <2>2, <3>1, <1>0, <1>1 DEF FateInv, Untouched, Untold, HoTypeOK
  <2> QED BY <2>1, <2>2
<1> QED BY <1>t, <1>0, <1>3, <1>4, <1>5

(* The gateway reads an answer: it sends a request again only when its     *)
(* nonce was refused, which leaves the group untouched.                    *)
LEMMA HlAnswerKeeps ==
  ASSUME HoInv, NEW a \in answers, HlAnswer(a), a.req \in Requests
  PROVE  HoInv'
<1> USE DEF HoInv
<1> DEFINE r == a.req
           again == a.badNonce /\ tries[r] < NonceRetries
<1>0. /\ UNCHANGED <<wall, fate, accepts>> /\ answers' = answers \ {a} /\ hoPhase[r] = "flying"
      /\ r.of \subseteq HlOrderSet
  BY GroupsOfOrders DEF HlAnswer, theirs
<1>1. \A q \in Requests : q # r => hoPhase'[q] = hoPhase[q] /\ nonceOf'[q] = nonceOf[q]
  BY DEF HlAnswer, Transmit, HoTypeOK
<1>2. \A q \in Requests : q # r => \A m \in net' : m.req = q => m \in net
  BY DEF HlAnswer, Transmit
<1>3. \A o \in HlOrderSet : r.kind # "order" \/ o \notin r.of => result'[o] = result[o]
  BY DEF HlAnswer, HoTypeOK, Requests
<1>t. HoTypeOK'
  <2>1. CASE again
    BY <2>1, <1>0, NonceIsNat DEF HoTypeOK, HlAnswer, Transmit
  <2>2. CASE ~again
    BY <2>2, <1>0 DEF HoTypeOK, HlAnswer
  <2> QED BY <2>1, <2>2
<1>4. ASSUME NEW q \in Placements, q # r PROVE (FlightInv(q) /\ AnswerInv(q) /\ PhaseInv(q))'
  <2>0. q \in Requests /\ q.of \subseteq HlOrderSet
    BY GroupsOfOrders DEF Placements
  <2>1. \A o \in q.of : result'[o] = result[o]
    BY <1>3, <1>4, <2>0, GroupsApart DEF Placements
  <2>2. (OnItsWay(q)' => OnItsWay(q)) /\ (Answered(q)' => Answered(q))
    BY <1>0, <1>2, <1>4, <2>0 DEF OnItsWay, Answered
  <2>3. Untouched(q)' <=> Untouched(q)
    BY <1>0 DEF Untouched
  <2>4. Untold(q)' <=> Untold(q)
    BY <2>1 DEF Untold
  <2>5. FlightInv(q)'
    BY <1>1, <1>2, <1>4, <2>0, <2>2, <2>3, <2>4 DEF FlightInv
  <2>6. AnswerInv(q)'
    BY <1>0, <1>1, <1>4, <2>0 DEF AnswerInv, SaysSo, Untouched
  <2>7. PhaseInv(q)'
    BY <1>1, <1>4, <2>0, <2>1, <2>3 DEF PhaseInv
  <2> QED BY <2>5, <2>6, <2>7
<1>5. ASSUME r \in Placements
      PROVE  /\ SaysSo(a) /\ ~OnItsWay(r) /\ ~Answered(r)'
             /\ \A o \in r.of : result[o] = "none"
  <2>1. AnswerInv(r) /\ FlightInv(r) /\ PhaseInv(r)
    BY <1>5
  <2> QED BY <2>1, <1>0 DEF AnswerInv, FlightInv, PhaseInv, Answered
<1>6. ASSUME r \in Placements PROVE (FlightInv(r) /\ AnswerInv(r) /\ PhaseInv(r))'
  <2>1. CASE again
    <3>1. hoPhase'[r] = "flying" /\ result' = result
      BY <2>1, <1>0 DEF HlAnswer
    <3>2. \A m \in net' : m.req = r => m.nonce = nonceOf'[r]
      BY <2>1, <1>5, <1>6 DEF HlAnswer, Transmit, OnItsWay, HoTypeOK
    <3>3. Untouched(r)
      BY <2>1, <1>5, <1>6 DEF SaysSo
    <3> QED BY <3>1, <3>2, <3>3, <1>0, <1>5, <1>6 DEF FlightInv, AnswerInv, PhaseInv, Answered, Untouched, Untold
  <2>2. CASE ~again
    <3>1. hoPhase'[r] = "done" /\ net' = net
      BY <2>2 DEF HlAnswer, HoTypeOK
    <3> QED BY <3>1, <1>5, <1>6 DEF FlightInv, AnswerInv, PhaseInv, Answered, OnItsWay
  <2> QED BY <2>1, <2>2
<1>7. ASSUME NEW o \in HlOrderSet PROVE FateInv(o)'
  <2>0. FateInv(o)
    OBVIOUS
  <2>1. CASE result'[o] = result[o]
    BY <2>0, <2>1, <1>0 DEF FateInv
  <2>2. CASE result'[o] # result[o]
    <3>1. r \in Placements /\ o \in r.of
      BY <2>2, <1>3 DEF Placements
    <3>2. ~again /\ result'[o] = IF o \in a.ok THEN "number" ELSE "refused"
      BY <2>2, <3>1 DEF HlAnswer, Placements
    <3>3. SaysSo(a)
      BY <3>1, <1>5
    <3>4. accepts[o] = IF o \in a.ok THEN 1 ELSE 0
      BY <3>1, <3>3 DEF SaysSo, Untouched
    <3> QED BY <2>0, <3>2, <3>4, <1>0 DEF FateInv
  <2> QED BY <2>1, <2>2
<1>8. \A q \in Requests : hoPhase'[q] = "asking" => q.kind = "order"
  BY DEF HlAnswer, HoTypeOK
<1> QED BY <1>t, <1>4, <1>6, <1>7, <1>8 DEF Placements

LEMMA SetWallKeeps ==
  ASSUME HoInv, SetWall
  PROVE  HoInv'
<1> USE DEF HoInv
<1>0. UNCHANGED <<hoPhase, nonceOf, net, answers, fate, accepts, result>>
  BY DEF SetWall, theirs
<1>t. HoTypeOK'
  BY HlOrdersAssumption DEF HoTypeOK, SetWall, theirs
<1>1. ASSUME NEW q \in Placements PROVE (FlightInv(q) /\ AnswerInv(q) /\ PhaseInv(q))'
  BY <1>0 DEF FlightInv, AnswerInv, PhaseInv, OnItsWay, Answered, Untouched, Untold, SaysSo
<1> QED BY <1>t, <1>0, <1>1 DEF FateInv

LEMMA HoStep ==
  ASSUME HoInv, [HoNext]_hoVars
  PROVE  HoInv'
<1>1. CASE SetWall
  BY <1>1, SetWallKeeps
<1>2. CASE \E m \in net : Arrive(m)
  BY <1>2, ArriveKeeps
<1>3. CASE \E o \in HlOrderSet : Dies(o)
  BY <1>3, DiesKeeps
<1>4. CASE \E a \in answers : HlAnswer(a)
  BY <1>4, HlAnswerKeeps DEF HoInv, HoTypeOK
<1>5. CASE \E r \in Requests : Begin(r) \/ Lost(r)
  BY <1>5, BeginKeeps, LostKeeps
<1>6. CASE \E r \in Requests, o \in HlOrderSet : AskFor(r, o)
  BY <1>6, AskForKeeps
<1>7. CASE UNCHANGED hoVars
  BY <1>7 DEF hoVars, HoInv, HoTypeOK, FlightInv, AnswerInv, PhaseInv, OnItsWay, Answered,
              Untouched, Untold, SaysSo, FateInv, Placements
<1> QED BY <1>1, <1>2, <1>3, <1>4, <1>5, <1>6, <1>7 DEF HoNext

LEMMA HoResults ==
  ASSUME HoInv
  PROVE  AcceptedAtMostOnce /\ ResultIsTrue
<1>1. AcceptedAtMostOnce
  BY DEF HoInv, FateInv, AcceptedAtMostOnce
<1>2. ASSUME NEW o \in HlOrderSet, result[o] = "refused", NEW m \in net, m.req.kind = "order"
      PROVE  o \notin m.req.of
  <2>1. m.req \in Placements
    BY <1>2 DEF HoInv, HoTypeOK, Placements
  <2>2. Untold(m.req)
    BY <2>1 DEF HoInv, FlightInv, OnItsWay
  <2> QED BY <1>2, <2>2 DEF Untold
<1> QED BY <1>1, <1>2 DEF HoInv, FateInv, ResultIsTrue

-----------------------------------------------------------------------------
(***************************************************************************)
(* Orders of the domestic accounts.  A context that is kept has the code   *)
(* the broker has for that number of that account, and a number named once *)
(* is never given out again.                                               *)
(***************************************************************************)
CodeNames == {Stock} \cup {Codes[i] : i \in DOMAIN Codes}

AccountInv ==
  /\ atBroker \in [AccountIds -> CodeNames \cup {NoNumber}]
  /\ contexts \in [AccountIds -> CodeNames \cup {NoNumber}]
  /\ working \subseteq AccountIds
  /\ \A i \in AccountIds : contexts[i] # NoNumber => contexts[i] = atBroker[i]
  /\ called # NoCall =>
       called.id \in AccountIds /\ called.code = atBroker[called.id] /\ called.code # NoNumber

LEMMA AccountInitInv == LsAccountInit => AccountInv
BY DEF LsAccountInit, AccountInv

LEMMA AdoptedFits ==
  ASSUME AccountInv, NEW S
  PROVE  /\ Adopted(S) \in [AccountIds -> CodeNames \cup {NoNumber}]
         /\ \A i \in AccountIds : Adopted(S)[i] # NoNumber => Adopted(S)[i] = atBroker[i]
BY DEF AccountInv, Adopted

LEMMA TakeOrderKeeps ==
  ASSUME AccountInv, NEW i \in AccountIds, NEW c \in CodesOf(i[1]), NEW ours \in BOOLEAN,
         TakeOrder(i[1], i[2], c, ours)
  PROVE  AccountInv'
<1>1. <<i[1], i[2]>> = i
  BY DEF AccountIds
<1>2. atBroker[i] = NoNumber /\ atBroker' = [atBroker EXCEPT ![i] = c] /\ c \in CodeNames
  BY <1>1 DEF TakeOrder, Numbered, CodesOf, CodeNames
<1>3. contexts[i] = NoNumber
  BY <1>2 DEF AccountInv
<1>4. UNCHANGED <<contexts, called>> /\ working' = working \cup {i}
  BY <1>1 DEF TakeOrder
<1> QED BY <1>2, <1>3, <1>4 DEF AccountInv

LEMMA AmendOrderKeeps ==
  ASSUME AccountInv, NEW i \in AccountIds, NEW n, AmendOrder(i, n)
  PROVE  AccountInv'
<1> DEFINE j == <<i[1], n>>
<1>1. j \in AccountIds /\ atBroker[j] = NoNumber
  BY DEF AmendOrder, Numbered
<1>2. contexts[i] # NoNumber /\ contexts[i] = atBroker[i] /\ i # j
  BY <1>1 DEF AmendOrder, Require, AccountInv
<1>3. /\ atBroker' = [atBroker EXCEPT ![j] = atBroker[i]]
      /\ contexts' = [contexts EXCEPT ![j] = contexts[i]]
      /\ called' = [id |-> i, code |-> contexts[i]]
      /\ working' = (working \ {i}) \cup {j}
  BY DEF AmendOrder, Require
<1> HIDE DEF j
<1> QED BY <1>1, <1>2, <1>3 DEF AccountInv

LEMMA CancelOrderKeeps ==
  ASSUME AccountInv, NEW i \in AccountIds, CancelOrder(i)
  PROVE  AccountInv'
<1>1. /\ UNCHANGED <<atBroker, contexts>> /\ working' \subseteq working
      /\ called' = [id |-> i, code |-> contexts[i]] /\ contexts[i] # NoNumber
  BY DEF CancelOrder, Require
<1> QED BY <1>1 DEF AccountInv

LEMMA AccountStep ==
  ASSUME AccountInv, [LsAccountNext]_accountVars
  PROVE  AccountInv'
<1>1. ASSUME NEW i \in AccountIds, NEW c \in CodesOf(i[1]), NEW ours \in BOOLEAN,
             TakeOrder(i[1], i[2], c, ours)
      PROVE  AccountInv'
  BY <1>1, TakeOrderKeeps
<1>2. ASSUME NEW i \in AccountIds, PlaceAnswered(i) PROVE AccountInv'
  BY <1>2 DEF AccountInv, PlaceAnswered
<1>3. ASSUME NEW i \in AccountIds, OrderEnds(i) PROVE AccountInv'
  BY <1>3 DEF AccountInv, OrderEnds
<1>4. ASSUME NEW i \in AccountIds, NEW n, AmendOrder(i, n) PROVE AccountInv'
  BY <1>4, AmendOrderKeeps
<1>5. CASE ListStock
  BY <1>5, AdoptedFits DEF AccountInv, ListStock
<1>6. CASE PageArrives
  BY <1>6, AdoptedFits DEF AccountInv, PageArrives
<1>7. CASE BeginList \/ PageLimited \/ PageUnsupported \/ ListDone
  BY <1>7 DEF AccountInv, BeginList, PageLimited, PageUnsupported, ListDone
<1>8. CASE CoreRestarts
  BY <1>8 DEF AccountInv, CoreRestarts
<1>9. CASE UNCHANGED accountVars
  BY <1>9 DEF AccountInv, accountVars
<1> QED BY <1>1, <1>2, <1>3, <1>4, <1>5, <1>6, <1>7, <1>8, <1>9, CancelOrderKeeps DEF LsAccountNext

-----------------------------------------------------------------------------
(***************************************************************************)
(* The broker's tokens.  What is left of a token when it is put into a     *)
(* request lasts for every try that request may still make.                *)
(***************************************************************************)
LrTypeOK ==
  /\ lrNow \in Nat /\ lrSince \in [Trs -> Nat]
  /\ task \in [Trs -> {"idle", "lock", "send", "fetch", "answered",
                       "TokenError", "RestError", "RestTimeoutError"}]
  /\ attempts \in [Trs -> Nat] /\ reached \in [Trs -> Nat]
  /\ header \in [Trs -> Int] /\ arrived \in [Trs -> BOOLEAN]
  /\ token \in [good : Int, real : Int]

(* The time that the tries of a request not made yet may take.             *)
ToCome(t) == (Tries(t) - attempts[t]) * SendTime(t)

SendInv(t) ==
  task[t] = "send" =>
    /\ attempts[t] \in 1 .. Tries(t)
    /\ lrNow <= lrSince[t] + SendTime(t)
    /\ lrSince[t] + SendTime(t) + ToCome(t) <= header[t]
FetchInv(t) ==
  task[t] = "fetch" => lrSince[t] <= lrNow /\ lrNow <= lrSince[t] + AttemptTime
ReachInv(t) ==
  /\ task[t] \in {"idle", "lock", "fetch"} => reached[t] = 0 /\ ~arrived[t]
  /\ task[t] = "send" => reached[t] = IF arrived[t] THEN 1 ELSE 0
  /\ reached[t] <= 1

LrInv ==
  /\ LrTypeOK
  /\ \A t \in Trs : SendInv(t) /\ FetchInv(t)
  /\ \A t \in OrderTrs : ReachInv(t)
  /\ token.good > 0 => token.good + RefreshMargin <= token.real + AttemptTime
  /\ ~spare

LEMMA Times ==
  ASSUME NEW k \in Nat, NEW x \in Nat
  PROVE  k * x \in Nat /\ (k + 1) * x = k * x + x
OBVIOUS

LEMMA TimesAreNats ==
  /\ {MaxRetries, FetchRetries, AttemptTime, OrderTime, TokenLife, RefreshMargin} \subseteq Nat
  /\ MaxRetries > 0 /\ OrderTrs \subseteq Trs
  /\ \A t \in Trs : SendTime(t) \in Nat /\ Tries(t) \in Nat /\ Tries(t) >= 1
BY LsRestAssumption DEF SendTime, Tries

(* A fetch and every try together take no longer than the margin.          *)
LEMMA MarginHolds ==
  ASSUME NEW t \in Trs
  PROVE  AttemptTime + Tries(t) * SendTime(t) <= RefreshMargin
<1>1. CASE t \in OrderTrs
  <2>1. Tries(t) * SendTime(t) = OrderTime
    BY <1>1, TimesAreNats DEF Tries, SendTime
  <2> QED BY <2>1, MarginAssumption
<1>2. CASE t \notin OrderTrs
  BY <1>2, MarginAssumption DEF Tries, SendTime
<1> QED BY <1>1, <1>2

(* A request whose first try begins now, with a token that is good for the *)
(* margin less a fetch.                                                    *)
LEMMA UseFits ==
  ASSUME LrInv, NEW t \in Trs, NEW expiry \in Int, Use(t, expiry), UNCHANGED lrNow,
         lrNow + RefreshMargin <= expiry + AttemptTime
  PROVE  SendInv(t)' /\ task' = [task EXCEPT ![t] = "send"]
<1>1. /\ task' = [task EXCEPT ![t] = "send"] /\ task'[t] = "send" /\ attempts'[t] = 1
      /\ lrSince'[t] = lrNow /\ header'[t] = expiry /\ lrNow' = lrNow /\ lrNow \in Nat
  BY DEF Use, To, LrInv, LrTypeOK
<1> DEFINE k == Tries(t) - 1
           x == SendTime(t)
<1>2. k \in Nat /\ x \in Nat /\ Tries(t) = k + 1 /\ Tries(t) \in Nat /\ Tries(t) >= 1
  BY TimesAreNats
<1>3. AttemptTime + (k + 1) * x <= RefreshMargin
  BY <1>2, MarginHolds
<1>4. k * x \in Nat /\ (k + 1) * x = k * x + x
  BY <1>2, Times
<1>5. ToCome(t)' = k * x
  BY <1>1 DEF ToCome, Tries, SendTime
<1> HIDE DEF k, x
<1>6. lrNow + x + k * x <= expiry
  <2> DEFINE y == k * x
  <2>1. y \in Nat /\ AttemptTime + (y + x) <= RefreshMargin
    BY <1>3, <1>4
  <2> HIDE DEF y
  <2>2. lrNow + x + y <= expiry
    BY <2>1, <1>1, <1>2, TimesAreNats
  <2> QED BY <2>2 DEF y
<1> QED BY <1>1, <1>2, <1>5, <1>6 DEF SendInv, Tries, SendTime, k, x

(* What a step does to one request leaves the others as they were.         *)
Same(t) ==
  /\ task'[t] = task[t] /\ attempts'[t] = attempts[t] /\ lrSince'[t] = lrSince[t]
  /\ header'[t] = header[t] /\ arrived'[t] = arrived[t] /\ reached'[t] = reached[t]

LEMMA SameKeeps ==
  ASSUME NEW t, Same(t), UNCHANGED lrNow
  PROVE  /\ SendInv(t) => SendInv(t)'
         /\ FetchInv(t) => FetchInv(t)'
         /\ ReachInv(t) => ReachInv(t)'
BY DEF Same, SendInv, FetchInv, ReachInv, ToCome, Tries, SendTime

LEMMA LrCollect ==
  ASSUME LrInv, NEW t \in Trs, LrTypeOK', UNCHANGED lrNow,
         \A q \in Trs : q # t => Same(q),
         SendInv(t)', FetchInv(t)', t \in OrderTrs => ReachInv(t)',
         (token.good > 0 => token.good + RefreshMargin <= token.real + AttemptTime)',
         ~spare'
  PROVE  LrInv'
BY SameKeeps, TimesAreNats DEF LrInv

LEMMA LrInitInv == LrInit => LrInv
BY TimesAreNats DEF LrInit, LrInv, LrTypeOK, SendInv, FetchInv, ReachInv

(* A cached token is good for the margin less a fetch.                     *)
LEMMA CachedFits ==
  ASSUME LrInv, Cached
  PROVE  lrNow + RefreshMargin <= token.real + AttemptTime
BY TimesAreNats DEF LrInv, LrTypeOK, Cached

LEMMA UseTypes ==
  ASSUME LrTypeOK, NEW t \in Trs, NEW expiry \in Int, Use(t, expiry),
         UNCHANGED <<lrNow, arrived, reached>>, token' \in [good : Int, real : Int]
  PROVE  LrTypeOK' /\ \A q \in Trs : q # t => Same(q)
BY DEF LrTypeOK, Use, To, Same

LEMMA MakeKeeps ==
  ASSUME LrInv, NEW t \in Trs, Make(t)
  PROVE  LrInv'
<1>0. UNCHANGED <<lrNow, token, arrived, reached, spare>> /\ task[t] = "idle" /\ token.real \in Int
  BY DEF Make, LrInv, LrTypeOK
<1>1. CASE Cached
  <2>1. Use(t, token.real)
    BY <1>1 DEF Make
  <2>2. SendInv(t)' /\ task' = [task EXCEPT ![t] = "send"]
    BY <1>0, <1>1, <2>1, CachedFits, UseFits
  <2>3. LrTypeOK' /\ \A q \in Trs : q # t => Same(q)
    BY <1>0, <2>1, UseTypes DEF LrInv, LrTypeOK
  <2>4. task'[t] = "send"
    BY <2>2 DEF LrInv, LrTypeOK
  <2>5. FetchInv(t)' /\ (t \in OrderTrs => ReachInv(t)')
    BY <1>0, <2>4 DEF FetchInv, ReachInv, LrInv
  <2> QED BY <1>0, <2>2, <2>3, <2>5, LrCollect DEF LrInv
<1>2. CASE ~Cached
  <2>1. task' = [task EXCEPT ![t] = "lock"] /\ UNCHANGED <<attempts, lrSince, header>>
    BY <1>2 DEF Make, To
  <2>2. task'[t] = "lock" /\ LrTypeOK' /\ \A q \in Trs : q # t => Same(q)
    BY <1>0, <2>1 DEF LrInv, LrTypeOK, Same
  <2>3. SendInv(t)' /\ FetchInv(t)' /\ (t \in OrderTrs => ReachInv(t)')
    BY <1>0, <2>2 DEF SendInv, FetchInv, ReachInv, LrInv
  <2> QED BY <1>0, <2>2, <2>3, LrCollect DEF LrInv
<1> QED BY <1>1, <1>2

LEMMA EnterKeeps ==
  ASSUME LrInv, NEW t \in Trs, Enter(t)
  PROVE  LrInv'
<1>0. UNCHANGED <<lrNow, token, arrived, reached>> /\ task[t] = "lock" /\ token.real \in Int
  BY DEF Enter, Fetch, LrInv, LrTypeOK
<1>1. CASE Cached
  <2>1. Use(t, token.real) /\ spare' = spare
    BY <1>1 DEF Enter
  <2>2. SendInv(t)' /\ task' = [task EXCEPT ![t] = "send"]
    BY <1>0, <1>1, <2>1, CachedFits, UseFits
  <2>3. LrTypeOK' /\ \A q \in Trs : q # t => Same(q)
    BY <1>0, <2>1, UseTypes DEF LrInv, LrTypeOK
  <2>4. task'[t] = "send"
    BY <2>2 DEF LrInv, LrTypeOK
  <2>5. FetchInv(t)' /\ (t \in OrderTrs => ReachInv(t)')
    BY <1>0, <2>4 DEF FetchInv, ReachInv, LrInv
  <2> QED BY <1>0, <2>1, <2>2, <2>3, <2>5, LrCollect DEF LrInv
<1>2. CASE ~Cached
  <2>1. Fetch(t)
    BY <1>2 DEF Enter
  <2>2. task'[t] = "fetch" /\ lrSince'[t] = lrNow /\ LrTypeOK' /\ (\A q \in Trs : q # t => Same(q)) /\ ~spare'
    BY <1>2, <2>1 DEF Fetch, To, LrInv, LrTypeOK, Same
  <2>3. lrNow \in Nat
    BY DEF LrInv, LrTypeOK
  <2>4. SendInv(t)' /\ FetchInv(t)' /\ (t \in OrderTrs => ReachInv(t)')
    BY <1>0, <2>2, <2>3, TimesAreNats DEF SendInv, FetchInv, ReachInv, LrInv
  <2> QED BY <1>0, <2>2, <2>4, LrCollect DEF LrInv
<1> QED BY <1>1, <1>2

(* A token is dated before it comes.                                       *)
LEMMA FetchedKeeps ==
  ASSUME LrInv, NEW t \in Trs, Fetched(t)
  PROVE  LrInv'
<1>0. /\ UNCHANGED <<lrNow, arrived, reached, spare>> /\ task[t] = "fetch"
      /\ lrNow \in Nat /\ lrSince[t] \in Nat /\ lrSince[t] + TokenLife \in Int
      /\ lrNow <= lrSince[t] + AttemptTime
  BY TimesAreNats DEF Fetched, LrInv, LrTypeOK, FetchInv
<1>1. /\ Use(t, lrSince[t] + TokenLife)
      /\ token' = [good |-> lrNow + TokenLife - RefreshMargin, real |-> lrSince[t] + TokenLife]
  BY DEF Fetched, Expiry
<1>2. SendInv(t)' /\ task' = [task EXCEPT ![t] = "send"]
  <2>1. lrNow + RefreshMargin <= (lrSince[t] + TokenLife) + AttemptTime
    BY <1>0, TimesAreNats, MarginAssumption
  <2> QED BY <1>0, <1>1, <2>1, UseFits
<1>3. LrTypeOK' /\ \A q \in Trs : q # t => Same(q)
  <2>1. token' \in [good : Int, real : Int]
    BY <1>0, <1>1, TimesAreNats
  <2> QED BY <1>0, <1>1, <2>1, UseTypes DEF LrInv
<1>4. task'[t] = "send"
  BY <1>2 DEF LrInv, LrTypeOK
<1>5. FetchInv(t)' /\ (t \in OrderTrs => ReachInv(t)')
  BY <1>0, <1>4 DEF FetchInv, ReachInv, LrInv
<1>6. (token.good > 0 => token.good + RefreshMargin <= token.real + AttemptTime)'
  BY <1>0, <1>1, TimesAreNats
<1> QED BY <1>0, <1>2, <1>3, <1>5, <1>6, LrCollect DEF LrInv

(* A request that ends.                                                    *)
LEMMA EndKeeps ==
  ASSUME LrInv, NEW t \in Trs, NEW why \in {"answered", "TokenError", "RestError", "RestTimeoutError"},
         RequestEnds(t, why), UNCHANGED <<lrNow, token, reached, spare>>
  PROVE  LrInv'
<1>1. task'[t] = why /\ LrTypeOK' /\ \A q \in Trs : q # t => Same(q)
  BY DEF RequestEnds, LrInv, LrTypeOK, Same
<1>2. SendInv(t)' /\ FetchInv(t)' /\ (t \in OrderTrs => ReachInv(t)')
  BY <1>1 DEF SendInv, FetchInv, ReachInv, LrInv
<1> QED BY <1>1, <1>2, LrCollect DEF LrInv

LEMMA FetchFailedKeeps ==
  ASSUME LrInv, NEW t \in Trs, FetchFailed(t)
  PROVE  LrInv'
<1>0. UNCHANGED <<lrNow, token, reached, spare>> /\ task[t] = "fetch" /\ lrNow \in Nat
  BY DEF FetchFailed, LrInv, LrTypeOK
<1>1. CASE attempts[t] < FetchRetries
  <2>1. /\ UNCHANGED <<task, header, arrived>> /\ lrSince' = [lrSince EXCEPT ![t] = lrNow]
        /\ attempts' = [attempts EXCEPT ![t] = @ + 1]
    BY <1>1 DEF FetchFailed
  <2>2. LrTypeOK' /\ lrSince'[t] = lrNow /\ \A q \in Trs : q # t => Same(q)
    BY <1>0, <2>1 DEF LrInv, LrTypeOK, Same
  <2>3. SendInv(t)' /\ FetchInv(t)' /\ (t \in OrderTrs => ReachInv(t)')
    BY <1>0, <2>1, <2>2, TimesAreNats DEF SendInv, FetchInv, ReachInv, LrInv
  <2> QED BY <1>0, <2>2, <2>3, LrCollect DEF LrInv
<1>2. CASE ~(attempts[t] < FetchRetries)
  BY <1>0, <1>2, EndKeeps DEF FetchFailed
<1> QED BY <1>1, <1>2

LEMMA ReachesKeeps ==
  ASSUME LrInv, NEW t \in Trs, Reaches(t)
  PROVE  LrInv'
<1>0. /\ UNCHANGED <<lrNow, task, attempts, lrSince, header, token, spare>>
      /\ task[t] = "send" /\ ~arrived[t]
      /\ arrived' = [arrived EXCEPT ![t] = TRUE] /\ reached' = [reached EXCEPT ![t] = @ + 1]
  BY DEF Reaches
<1>1. LrTypeOK' /\ arrived'[t] /\ reached'[t] = reached[t] + 1 /\ \A q \in Trs : q # t => Same(q)
  BY <1>0 DEF LrInv, LrTypeOK, Same
<1>2. SendInv(t)' /\ FetchInv(t)'
  BY <1>0 DEF SendInv, FetchInv, LrInv, ToCome, Tries, SendTime
<1>3. t \in OrderTrs => ReachInv(t)'
  BY <1>0, <1>1 DEF ReachInv, LrInv
<1> QED BY <1>0, <1>1, <1>2, <1>3, LrCollect DEF LrInv

(* The next try of a query, with the same header; an order has none.       *)
LEMMA RequestFailsKeeps ==
  ASSUME LrInv, NEW t \in Trs, NEW why \in {"silence", "5xx"}, RequestFails(t, why)
  PROVE  LrInv'
<1>0. /\ UNCHANGED <<lrNow, token, reached, spare>> /\ task[t] = "send" /\ SendInv(t)
      /\ lrNow \in Nat /\ lrSince[t] \in Nat /\ header[t] \in Int /\ attempts[t] \in Nat
  BY DEF RequestFails, LrInv, LrTypeOK
<1>1. CASE attempts[t] < Tries(t)
  <2>1. /\ UNCHANGED <<task, header>> /\ lrSince' = [lrSince EXCEPT ![t] = lrNow]
        /\ attempts' = [attempts EXCEPT ![t] = @ + 1] /\ arrived' = [arrived EXCEPT ![t] = FALSE]
    BY <1>1 DEF RequestFails
  <2>2. /\ LrTypeOK' /\ lrSince'[t] = lrNow /\ attempts'[t] = attempts[t] + 1
        /\ \A q \in Trs : q # t => Same(q)
    BY <1>0, <2>1 DEF LrInv, LrTypeOK, Same
  <2> DEFINE k == Tries(t) - (attempts[t] + 1)
             x == SendTime(t)
  <2>3. k \in Nat /\ x \in Nat /\ Tries(t) - attempts[t] = k + 1 /\ attempts[t] + 1 \in 1 .. Tries(t)
    BY <1>0, <1>1, TimesAreNats
  <2>4. k * x \in Nat /\ (k + 1) * x = k * x + x
    BY <2>3, Times
  <2>5. ToCome(t)' = k * x /\ ToCome(t) = (k + 1) * x
    BY <2>2, <2>3 DEF ToCome, Tries, SendTime
  <2>6. lrNow <= lrSince[t] + x /\ lrSince[t] + x + (k + 1) * x <= header[t]
    BY <1>0, <2>5 DEF SendInv
  <2> HIDE DEF k, x
  <2>7. lrNow + x + k * x <= header[t]
    <3> DEFINE y == k * x
    <3>1. y \in Nat /\ lrSince[t] + x + (y + x) <= header[t]
      BY <2>4, <2>6
    <3> HIDE DEF y
    <3>2. lrNow + x + y <= header[t]
      BY <3>1, <2>3, <2>6, <1>0
    <3> QED BY <3>2 DEF y
  <2>8. SendInv(t)'
    BY <1>0, <2>1, <2>2, <2>3, <2>5, <2>7 DEF SendInv, Tries, SendTime, x
  <2>9. t \notin OrderTrs
    BY <1>0, <1>1 DEF Tries, SendInv
  <2> QED BY <1>0, <2>1, <2>2, <2>8, <2>9, LrCollect DEF LrInv, FetchInv
<1>2. CASE ~(attempts[t] < Tries(t))
  BY <1>0, <1>2, EndKeeps DEF RequestFails
<1> QED BY <1>1, <1>2

LEMMA LrTickKeeps ==
  ASSUME LrInv, LrTick
  PROVE  LrInv'
<1>0. /\ lrNow' = lrNow + 1 /\ lrNow \in Nat
      /\ UNCHANGED <<task, attempts, lrSince, header, token, arrived, reached, spare>>
  BY DEF LrTick, LrInv, LrTypeOK
<1>1. ASSUME NEW t \in Trs PROVE SendInv(t)' /\ FetchInv(t)'
  <2>0. lrSince[t] \in Nat /\ SendTime(t) \in Nat /\ AttemptTime \in Nat
    BY TimesAreNats DEF LrInv, LrTypeOK
  <2>1. task[t] = "send" => lrNow < lrSince[t] + SendTime(t)
    BY DEF LrTick, Busy, Longest
  <2>2. task[t] = "fetch" => lrNow < lrSince[t] + AttemptTime
    BY DEF LrTick, Busy, Longest
  <2> QED BY <1>0, <2>0, <2>1, <2>2 DEF LrInv, SendInv, FetchInv, ToCome, Tries, SendTime
<1>2. LrTypeOK'
  BY <1>0 DEF LrInv, LrTypeOK
<1> QED BY <1>0, <1>1, <1>2 DEF LrInv, ReachInv

LEMMA LrStep ==
  ASSUME LrInv, [LrNext]_lrVars
  PROVE  LrInv'
<1>1. ASSUME NEW t \in Trs, Reply(t) PROVE LrInv'
  BY <1>1, EndKeeps DEF Reply
<1>2. CASE UNCHANGED lrVars
  BY <1>2 DEF lrVars, LrInv, LrTypeOK, SendInv, FetchInv, ReachInv, ToCome, Tries, SendTime
<1> QED BY <1>1, <1>2, LrTickKeeps, MakeKeeps, EnterKeeps, FetchedKeeps, FetchFailedKeeps, ReachesKeeps,
           RequestFailsKeeps DEF LrNext

LEMMA LrResults ==
  ASSUME LrInv
  PROVE  TokenHolds /\ NoSpareFetch /\ OrderReachesOnce
<1>1. ASSUME NEW t \in Trs, task[t] = "send" PROVE lrNow <= header[t]
  <2> DEFINE k == Tries(t) - attempts[t]
             x == SendTime(t)
  <2>1. k \in Nat /\ x \in Nat /\ lrNow <= lrSince[t] + x /\ lrSince[t] + x + k * x <= header[t]
    BY <1>1, TimesAreNats DEF LrInv, SendInv, ToCome
  <2>2. k * x \in Nat /\ lrNow \in Nat /\ lrSince[t] \in Nat /\ header[t] \in Int
    BY <2>1, Times DEF LrInv, LrTypeOK
  <2> HIDE DEF k, x
  <2> DEFINE y == k * x
  <2>3. y \in Nat /\ lrSince[t] + x + y <= header[t]
    BY <2>1, <2>2
  <2> HIDE DEF y
  <2> QED BY <2>1, <2>2, <2>3
<1> QED BY <1>1, TimesAreNats DEF LrInv, ReachInv, TokenHolds, NoSpareFetch, OrderReachesOnce

-----------------------------------------------------------------------------
(***************************************************************************)
(* What is stored.  The state file: until it is pushed out, the current    *)
(* file has the text saved last, and from then on the newest generation.   *)
(***************************************************************************)
SfTypeOK ==
  /\ made \in Nat \ {NoText}
  /\ saveStep \in {"idle", "tmp", "drop", "shift", "out", "in"}
  /\ gen \in [Generations -> Nat] /\ slot \in Nat /\ slot < Gens
  /\ {cur, tmp, text, saved} \subseteq Nat /\ inMemory \in Nat \ {NoText}

SfInv ==
  /\ SfTypeOK
  /\ saveStep # "idle" => text # NoText
  /\ saveStep \in {"drop", "shift", "out", "in"} => tmp = text
  /\ saveStep \in {"drop", "shift", "out"} => cur # NoText
  /\ saved # NoText => IF cur = NoText THEN gen[1] = saved ELSE cur = saved

LEMMA SfInitInv == SfInit => SfInv
BY StateAssumption DEF SfInit, SfInv, SfTypeOK, NoText, Defaults, Generations

LEMMA SfStep == SfInv /\ [SfNext]_sfVars => SfInv'
<1> SUFFICES ASSUME SfInv, [SfNext]_sfVars PROVE SfInv'
  OBVIOUS
<1> USE StateAssumption DEF SfInv, SfTypeOK, NoText, Files, Program
<1>1. CASE ChangeText
  BY <1>1 DEF ChangeText
<1>2. CASE BeginSave
  BY <1>2 DEF BeginSave
<1>3. ASSUME NEW n \in Generations, BeginRestore(n) PROVE SfInv'
  BY <1>3 DEF BeginRestore
<1>4. CASE WriteTmp
  BY <1>4 DEF WriteTmp
<1>5. CASE DropOldest
  BY <1>5 DEF DropOldest, Generations
<1>6. CASE Shift
  <2>1. CASE slot = 0
    BY <1>6, <2>1 DEF Shift
  <2>2. CASE slot # 0
    <3>1. slot \in Generations /\ slot + 1 \in Generations
      BY <2>2 DEF Generations
    <3>2. gen' \in [Generations -> Nat]
      BY <1>6, <2>2, <3>1 DEF Shift
    <3>3. UNCHANGED <<cur, tmp, text, saved, saveStep, made, inMemory>> /\ slot' = slot - 1
      BY <1>6, <2>2 DEF Shift
    <3>4. cur # NoText
      BY <1>6 DEF Shift
    <3> QED BY <2>2, <3>2, <3>3, <3>4
  <2> QED BY <2>1, <2>2
<1>7. CASE Out
  BY <1>7 DEF Out, Generations
<1>8. CASE In
  BY <1>8 DEF In
<1>9. CASE DiskFails
  BY <1>9 DEF DiskFails
<1>10. CASE Restart
  BY <1>10 DEF Restart, Defaults
<1>11. CASE UNCHANGED sfVars
  BY <1>11 DEF sfVars
<1> QED BY <1>1, <1>2, <1>3, <1>4, <1>5, <1>6, <1>7, <1>8, <1>9, <1>10, <1>11 DEF SfNext

-----------------------------------------------------------------------------
(* The stored positions: while a cycle stores, a row that it read is stored *)
(* or its turn is to come.                                                 *)
ArbInv ==
  /\ reading \in [Holdings -> Nat] /\ savedRows \in [Holdings -> Nat]
  /\ holds \in [Holdings -> Nat]
  /\ step = "store" =>
       \A h \in Holdings : reading[h] > 0 => h \in fundsLeft \/ savedRows[h] = reading[h]
  /\ StoredAsRead

LEMMA ArbInitInv == ArbInit => ArbInv
BY DEF ArbInit, ArbInv, StoredAsRead

LEMMA ArbStep == ArbInv /\ [ArbNext]_arbVars => ArbInv'
<1> SUFFICES ASSUME ArbInv, [ArbNext]_arbVars PROVE ArbInv'
  OBVIOUS
<1> USE ArbAssumption DEF ArbInv, StoredAsRead
<1>1. ASSUME NEW h \in Holdings, CollectOne(h) PROVE ArbInv'
  BY <1>1 DEF CollectOne
<1>2. ASSUME NEW h \in Holdings, StoreOne(h) PROVE ArbInv'
  BY <1>2 DEF StoreOne, SavePosition
<1>3. ASSUME NEW h \in Holdings, NEW q \in 0 .. MaxHeld, HoldingChanges(h, q) PROVE ArbInv'
  BY <1>3 DEF HoldingChanges
<1>4. ASSUME NEW u \in Names, SessionTurns(u) PROVE ArbInv'
  BY <1>4 DEF SessionTurns
<1>5. ASSUME NEW u \in Names, NEW s \in Orders, EngineStep(u, s) PROVE ArbInv'
  BY <1>5 DEF EngineStep
<1>6. CASE BeginCycle
  BY <1>6 DEF BeginCycle
<1>7. CASE UpdateRiskState
  BY <1>7 DEF UpdateRiskState
<1>8. CASE KillSwitch \/ Route \/ RouteFails
  BY <1>8 DEF KillSwitch, Route, RouteFails
<1>9. CASE CycleJudged
  BY <1>9 DEF CycleJudged
<1>10. CASE EndCycle
  BY <1>10 DEF EndCycle
<1>11. CASE CrashAndRecover
  BY <1>11 DEF CrashAndRecover
<1>12. CASE UNCHANGED arbVars
  BY <1>12 DEF arbVars
<1> QED
  BY <1>1, <1>2, <1>3, <1>4, <1>5, <1>6, <1>7, <1>8, <1>9, <1>10, <1>11, <1>12 DEF ArbNext

-----------------------------------------------------------------------------
(***************************************************************************)
(* The unit of a book.  The messages that wait release what is served, in  *)
(* turn, and end with the unit wanted.                                     *)
(***************************************************************************)
Chained(c, u) ==
  \A i \in 1 .. Len(c) :
    IF c[i].op = "on"
      THEN IF i = Len(c) THEN c[i].arg = u ELSE c[i + 1] = [op |-> "off", arg |-> c[i].arg]
      ELSE i < Len(c) /\ c[i + 1].op = "on"

MergeInv ==
  /\ \E M : control \in Seq(M)
  /\ hlLine = "up" =>
       /\ Chained(control, unit)
       /\ streams = IF control = <<>> THEN {unit}
                    ELSE IF control[1].op = "on" THEN {} ELSE {control[1].arg}

LEMMA MergeInitInv == HlMergeInit => MergeInv
<1> SUFFICES ASSUME HlMergeInit PROVE MergeInv
  OBVIOUS
<1>1. control = <<>> /\ hlLine = "down"
  BY DEF HlMergeInit
<1>2. control \in Seq({})
  BY <1>1
<1> QED BY <1>1, <1>2 DEF MergeInv

(* A change puts two messages behind those that wait.                      *)
Changed(d, c, u, a) == d = c \o <<[op |-> "off", arg |-> u], [op |-> "on", arg |-> a]>>

LEMMA ChangeChains ==
  ASSUME NEW M, NEW c, NEW u, NEW a, NEW d, c \in Seq(M), Chained(c, u), Changed(d, c, u, a)
  PROVE  /\ Chained(d, a) /\ d # <<>>
         /\ IF c = <<>> THEN d[1] = [op |-> "off", arg |-> u] ELSE d[1] = c[1]
<1> DEFINE off == [op |-> "off", arg |-> u]
           on == [op |-> "on", arg |-> a]
           D == M \cup {off, on}
<1>1. off.op = "off" /\ off.arg = u /\ on.op = "on" /\ on.arg = a
  OBVIOUS
<1>2. c \in Seq(D) /\ off \in D /\ on \in D
  OBVIOUS
<1> HIDE DEF off, on, D
<1>3. d = c \o <<off, on>>
  BY DEF Changed, off, on
<1>4. /\ d \in Seq(D) /\ Len(d) = Len(c) + 2
      /\ \A i \in 1 .. Len(c) : d[i] = c[i]
      /\ d[Len(c) + 1] = off /\ d[Len(c) + 2] = on
  BY <1>2, <1>3
<1>5. ASSUME NEW i \in 1 .. Len(d)
      PROVE  IF d[i].op = "on"
               THEN IF i = Len(d) THEN d[i].arg = a ELSE d[i + 1] = [op |-> "off", arg |-> d[i].arg]
               ELSE i < Len(d) /\ d[i + 1].op = "on"
  <2>1. CASE i < Len(c)
    <3>1. i \in 1 .. Len(c) /\ i + 1 \in 1 .. Len(c) /\ Len(c) \in Nat
      BY <2>1, <1>2, <1>4
    <3>2. d[i] = c[i] /\ d[i + 1] = c[i + 1] /\ i # Len(d) /\ i < Len(d) /\ i # Len(c)
      BY <2>1, <3>1, <1>4
    <3>3. IF c[i].op = "on" THEN c[i + 1] = [op |-> "off", arg |-> c[i].arg] ELSE c[i + 1].op = "on"
      BY <3>1, <3>2 DEF Chained
    <3> QED BY <3>2, <3>3
  <2>2. CASE i = Len(c)
    BY <2>2, <1>1, <1>4 DEF Chained, off
  <2>3. CASE i = Len(c) + 1
    BY <2>3, <1>1, <1>4
  <2>4. CASE i = Len(c) + 2
    BY <2>4, <1>1, <1>4
  <2> QED BY <1>4, <2>1, <2>2, <2>3, <2>4
<1>6. Chained(d, a)
  BY <1>5 DEF Chained
<1>7. CASE c = <<>>
  BY <1>4, <1>6, <1>7 DEF off
<1>8. CASE c # <<>>
  BY <1>4, <1>6, <1>8
<1> QED BY <1>7, <1>8

LEMMA ChangeKeeps ==
  ASSUME MergeInv, NEW a, SetAggregation(a), UNCHANGED <<hlLine, streams>>
  PROVE  MergeInv'
<1>1. CASE a = unit
  BY <1>1 DEF SetAggregation, MergeInv
<1>2. CASE a # unit
  <2>1. PICK M : control \in Seq(M)
    BY DEF MergeInv
  <2>2. unit' = a /\ control' = control \o <<[op |-> "off", arg |-> unit], [op |-> "on", arg |-> a]>>
    BY <1>2 DEF SetAggregation, Releases
  <2>3. control' \in Seq(M \cup {[op |-> "off", arg |-> unit], [op |-> "on", arg |-> a]})
    BY <2>1, <2>2
  <2>4. ASSUME hlLine = "up"
        PROVE  /\ Chained(control', a)
               /\ streams = IF control' = <<>> THEN {a}
                            ELSE IF control'[1].op = "on" THEN {} ELSE {control'[1].arg}
    <3>1. /\ Chained(control', a) /\ control' # <<>>
          /\ IF control = <<>> THEN control'[1] = [op |-> "off", arg |-> unit]
                               ELSE control'[1] = control[1]
      <4>1. Chained(control, unit)
        BY <2>4 DEF MergeInv
      <4>2. PICK c, u, d : c = control /\ u = unit /\ d = control'
        OBVIOUS
      <4>3. Changed(d, c, u, a)
        BY <2>2, <4>2 DEF Changed
      <4>4. c \in Seq(M) /\ Chained(c, u)
        BY <2>1, <4>1, <4>2
      <4>5. /\ Chained(d, a) /\ d # <<>>
            /\ IF c = <<>> THEN d[1] = [op |-> "off", arg |-> u] ELSE d[1] = c[1]
        BY <4>3, <4>4, ChangeChains
      <4> QED BY <4>2, <4>5
    <3> QED BY <2>4, <3>1 DEF MergeInv
  <2> QED BY <2>2, <2>3, <2>4 DEF MergeInv
<1> QED BY <1>1, <1>2

(* A message is sent and applied.                                          *)
LEMMA SendKeeps ==
  ASSUME MergeInv, SendControl
  PROVE  MergeInv'
<1>1. PICK M : control \in Seq(M)
  BY DEF MergeInv
<1>2. /\ hlLine = "up" /\ hlLine' = "up" /\ control # <<>> /\ unit' = unit
      /\ control' = Tail(control)
      /\ streams' = IF control[1].op = "on" THEN streams \cup {control[1].arg}
                                           ELSE streams \ {control[1].arg}
  <2>1. control # <<>> /\ Head(control) = control[1]
    BY <1>1 DEF SendControl
  <2>2. streams' = IF Head(control).op = "on" THEN streams \cup {Head(control).arg}
                                              ELSE streams \ {Head(control).arg}
    BY DEF SendControl
  <2>3. hlLine = "up" /\ hlLine' = hlLine /\ unit' = unit /\ control' = Tail(control)
    BY DEF SendControl
  <2> QED BY <2>1, <2>2, <2>3
<1>3. /\ control' \in Seq(M) /\ Len(control') = Len(control) - 1 /\ Len(control) \in Nat \ {0}
      /\ \A i \in 1 .. Len(control') : control'[i] = control[i + 1]
  BY <1>1, <1>2
<1>4. Chained(control, unit)
  BY <1>2 DEF MergeInv
<1>5. ASSUME NEW i \in 1 .. Len(control')
      PROVE  IF control'[i].op = "on"
               THEN IF i = Len(control') THEN control'[i].arg = unit
                    ELSE control'[i + 1] = [op |-> "off", arg |-> control'[i].arg]
               ELSE i < Len(control') /\ control'[i + 1].op = "on"
  <2>1. i + 1 \in 1 .. Len(control) /\ control'[i] = control[i + 1]
        /\ (i < Len(control') => control'[i + 1] = control[i + 1 + 1])
    BY <1>3
  <2> QED BY <1>3, <1>4, <2>1 DEF Chained
<1>6. 1 \in 1 .. Len(control)
  BY <1>3
<1>7. CASE Len(control) = 1
  <2>1. control[1].op = "on" /\ control[1].arg = unit
    BY <1>4, <1>6, <1>7 DEF Chained
  <2>2. control' = <<>> /\ streams = {}
    BY <1>2, <1>3, <1>7, <2>1 DEF MergeInv
  <2>3. streams' = {unit}
    BY <1>2, <2>1, <2>2
  <2> QED BY <1>2, <1>3, <1>5, <2>2, <2>3 DEF Chained, MergeInv
<1>8. CASE Len(control) > 1
  <2>1. control'[1] = control[2] /\ control' # <<>>
    BY <1>3, <1>8
  <2>2. streams' = IF control'[1].op = "on" THEN {} ELSE {control'[1].arg}
    <3>1. CASE control[1].op = "on"
      <4>1. control[2] = [op |-> "off", arg |-> control[1].arg] /\ streams = {}
        BY <3>1, <1>2, <1>4, <1>6, <1>8 DEF Chained, MergeInv
      <4> QED BY <3>1, <4>1, <2>1, <1>2
    <3>2. CASE control[1].op # "on"
      <4>1. control[1 + 1].op = "on"
        BY <3>2, <1>4, <1>6 DEF Chained
      <4>2. streams = {control[1].arg}
        BY <3>2, <1>2 DEF MergeInv
      <4> QED BY <3>2, <4>1, <4>2, <2>1, <1>2
    <3> QED BY <3>1, <3>2
  <2> QED BY <1>2, <1>3, <1>5, <2>1, <2>2 DEF Chained, MergeInv
<1> QED BY <1>3, <1>7, <1>8

LEMMA MergeStep == MergeInv /\ [HlMergeNext]_mergeVars => MergeInv'
<1> SUFFICES ASSUME MergeInv, [HlMergeNext]_mergeVars PROVE MergeInv'
  OBVIOUS
<1>1. ASSUME NEW t \in Ticks, ChooseTick(t) PROVE MergeInv'
  <2>1. CASE ref = NoRefPrice
    BY <1>1, <2>1 DEF ChooseTick, MergeInv
  <2>2. CASE ref # NoRefPrice
    BY <1>1, <2>2, ChangeKeeps DEF ChooseTick
  <2> QED BY <2>1, <2>2
<1>2. ASSUME NEW a \in Args, ChooseArg(a) PROVE MergeInv'
  BY <1>2, ChangeKeeps DEF ChooseArg
<1>3. ASSUME NEW a \in Args, SendBook(a) PROVE MergeInv'
  BY <1>3 DEF SendBook, MergeInv
<1>4. CASE SyncMerge
  <2>1. PICK t : t = tick'
    OBVIOUS
  <2>2. SetAggregation(ChoiceFor(ref, t)) /\ UNCHANGED <<hlLine, streams>>
    BY <1>4, <2>1 DEF SyncMerge
  <2> QED BY <2>2, ChangeKeeps
<1>5. CASE HlConnects
  <2>1. control' = <<>> /\ streams' = {unit'}
    BY <1>5 DEF HlConnects
  <2>2. control' \in Seq({}) /\ Chained(control', unit')
    BY <2>1 DEF Chained
  <2> QED BY <2>1, <2>2 DEF MergeInv
<1>6. CASE HlDrops
  BY <1>6 DEF HlDrops, MergeInv
<1>7. CASE SendControl
  BY <1>7, SendKeeps
<1>8. CASE Bbo \/ L2Book
  BY <1>8 DEF Bbo, L2Book, MergeInv
<1>9. ASSUME NEW b \in Bands, PriceMoves(b) PROVE MergeInv'
  BY <1>9 DEF PriceMoves, MergeInv
<1>10. CASE UNCHANGED mergeVars
  BY <1>10 DEF mergeVars, MergeInv
<1> QED BY <1>1, <1>2, <1>3, <1>4, <1>5, <1>6, <1>7, <1>8, <1>9, <1>10 DEF HlMergeNext

-----------------------------------------------------------------------------
(* Induction up to a number: the least one missing would follow another.   *)
LEMMA UpTo ==
  ASSUME NEW N \in Nat, NEW S, 0 \in S,
         \A n \in 0 .. N : n \in S /\ n < N => n + 1 \in S
  PROVE  \A n \in 0 .. N : n \in S
<1> SUFFICES ASSUME NEW m \in 0 .. N, m \notin S PROVE FALSE
  OBVIOUS
<1> DEFINE Missing == {n \in 0 .. N : n \notin S}
           R == OpToRel(<, Nat)
<1>1. Missing \subseteq Nat /\ Missing # {}
  OBVIOUS
<1> HIDE DEF Missing, R
<1>2. PICK x \in Missing : \A y \in Missing : ~ (<<y, x>> \in R)
  BY <1>1, WFMin, NatLessThanWellFounded DEF R
<1>3. \A y \in Missing : ~ (y < x)
  BY <1>1, <1>2 DEF R, OpToRel
<1>4. x \in 0 .. N /\ x \notin S /\ x # 0
  BY DEF Missing
<1>5. x - 1 \in 0 .. N /\ x - 1 < N /\ x - 1 < x
  BY <1>4
<1>6. x - 1 \in S
  BY <1>3, <1>5 DEF Missing
<1>7. (x - 1) + 1 \in S
  BY <1>5, <1>6
<1> QED BY <1>4, <1>7

(* A function is defined by its value at 0 and by each from the one before.*)
RunBy(t, g, a, X, n) ==
  t \in [0 .. n -> X] /\ t[0] = a /\ \A m \in 1 .. n : t[m] = g[<<t[m - 1], m>>]

LEMMA RunOf ==
  ASSUME NEW X, NEW a \in X, NEW N \in Nat, NEW g, g \in [X \X (1 .. N) -> X]
  PROVE  \E t : RunBy(t, g, a, X, N)
<1> DEFINE Run(t, n) == RunBy(t, g, a, X, n)
           H == {n \in 0 .. N : \E t : Run(t, n)}
<1>1. 0 \in H
  <2>1. Run([m \in 0 .. 0 |-> a], 0)
    BY DEF RunBy
  <2> HIDE DEF Run
  <2>2. \E t : Run(t, 0)
    BY <2>1
  <2> QED BY <2>2
<1>2. ASSUME NEW n \in 0 .. N, n \in H, n < N
      PROVE  n + 1 \in H
  <2>1. PICK t : Run(t, n)
    BY <1>2
  <2>2. n \in Nat /\ n + 1 \in 1 .. N /\ n + 1 \in 0 .. N /\ t[n] \in X
    BY <1>2, <2>1 DEF RunBy
  <2> DEFINE x == g[<<t[n], n + 1>>]
             v == [m \in 0 .. n + 1 |-> IF m = n + 1 THEN x ELSE t[m]]
  <2>3. x \in X
    BY <2>2
  <2>4. \A m \in 0 .. n : t[m] \in X /\ m # n + 1
    BY <2>1, <2>2 DEF RunBy
  <2>5. v \in [0 .. n + 1 -> X] /\ v[n + 1] = x
    <3> HIDE DEF x
    <3> QED BY <2>2, <2>3, <2>4
  <2>6. \A m \in 0 .. n : v[m] = t[m]
    BY <2>2, <2>4
  <2>7. ASSUME NEW m \in 1 .. n + 1 PROVE v[m] = g[<<v[m - 1], m>>]
    <3>1. CASE m = n + 1
      <4>1. m - 1 = n /\ n \in 0 .. n
        BY <2>2, <3>1
      <4> HIDE DEF v
      <4> QED BY <2>5, <2>6, <3>1, <4>1
    <3>2. CASE m # n + 1
      <4>1. m \in 1 .. n /\ m \in 0 .. n /\ m - 1 \in 0 .. n
        BY <2>2, <3>2
      <4> HIDE DEF v
      <4> QED BY <2>1, <2>6, <4>1 DEF RunBy
    <3> QED BY <3>1, <3>2
  <2>8. v[0] = a
    BY <2>1, <2>2, <2>6 DEF RunBy
  <2> HIDE DEF v
  <2>9. Run(v, n + 1)
    BY <2>5, <2>7, <2>8 DEF RunBy
  <2> QED BY <2>2, <2>9
<1> HIDE DEF H, Run
<1>3. N \in H
  <2>1. \A n \in 0 .. N : n \in H
    BY <1>1, <1>2, UpTo
  <2> QED BY <2>1
<1>4. PICK t : Run(t, N)
  BY <1>3 DEF H
<1> QED BY <1>4 DEF Run

-----------------------------------------------------------------------------
(***************************************************************************)
(* The day's rows.  Rows are numbered as they are recorded, so that no row *)
(* of an older page is on the screen already.                              *)
(***************************************************************************)
Distinct(s) == \A i, j \in 1 .. Len(s) : s[i] = s[j] => i = j

LEMMA JoinDistinct ==
  ASSUME NEW R, NEW s \in Seq(R), NEW t \in Seq(R), Distinct(s), Distinct(t),
         \A i \in 1 .. Len(s), j \in 1 .. Len(t) : s[i] # t[j]
  PROVE  s \o t \in Seq(R) /\ Distinct(s \o t)
<1> DEFINE u == s \o t
<1>1. /\ u \in Seq(R) /\ Len(u) = Len(s) + Len(t) /\ Len(s) \in Nat /\ Len(t) \in Nat
      /\ \A i \in 1 .. Len(u) : u[i] = IF i <= Len(s) THEN s[i] ELSE t[i - Len(s)]
  OBVIOUS
<1> HIDE DEF u
<1>2. ASSUME NEW i \in 1 .. Len(u), NEW j \in 1 .. Len(u), u[i] = u[j] PROVE i = j
  <2>1. i \in Nat /\ j \in Nat
    OBVIOUS
  <2>2. CASE i <= Len(s) /\ j <= Len(s)
    BY <1>1, <1>2, <2>1, <2>2 DEF Distinct
  <2>3. CASE i > Len(s) /\ j > Len(s)
    <3>1. i - Len(s) \in 1 .. Len(t) /\ j - Len(s) \in 1 .. Len(t)
      BY <1>1, <2>1, <2>3
    <3>2. t[i - Len(s)] = t[j - Len(s)]
      BY <1>1, <1>2, <2>1, <2>3
    <3>3. i - Len(s) = j - Len(s)
      BY <3>1, <3>2 DEF Distinct
    <3> QED BY <1>1, <2>1, <3>3
  <2>4. CASE i <= Len(s) /\ j > Len(s)
    <3>1. i \in 1 .. Len(s) /\ j - Len(s) \in 1 .. Len(t)
      BY <1>1, <2>1, <2>4
    <3> QED BY <1>1, <1>2, <2>1, <2>4, <3>1
  <2>5. CASE i > Len(s) /\ j <= Len(s)
    <3>1. j \in 1 .. Len(s) /\ i - Len(s) \in 1 .. Len(t)
      BY <1>1, <2>1, <2>5
    <3>2. u[j] = s[j] /\ u[i] = t[i - Len(s)]
      BY <1>1, <2>1, <2>5
    <3>3. s[j] # t[i - Len(s)]
      BY <3>1
    <3> QED BY <1>2, <3>2, <3>3
  <2> QED BY <1>1, <2>1, <2>2, <2>3, <2>4, <2>5
<1> QED BY <1>1, <1>2 DEF Distinct, u

LEMMA FirstDistinct ==
  ASSUME NEW R, NEW s \in Seq(R)
  PROVE  /\ FirstRows(s) \in Seq(R)
         /\ Distinct(s) => Distinct(FirstRows(s))
         /\ \A i \in 1 .. Len(FirstRows(s)) : i \in 1 .. Len(s) /\ FirstRows(s)[i] = s[i]
<1>1. PICK n \in Nat : n = IF Len(s) < PageRows THEN Len(s) ELSE PageRows
  BY DayLogAssumption
<1>2. n <= Len(s) /\ FirstRows(s) = SubSeq(s, 1, n)
  BY <1>1, DayLogAssumption DEF FirstRows
<1>3. /\ FirstRows(s) \in Seq(R) /\ Len(FirstRows(s)) = n
      /\ \A i \in 1 .. n : FirstRows(s)[i] = s[i]
  BY <1>2
<1>4. \A i \in 1 .. n : i \in 1 .. Len(s)
  BY <1>2
<1> QED BY <1>3, <1>4 DEF Distinct

(* a takes those in S of the first n members of s, each once.              *)
Sieve(a, s, S, n) ==
  /\ \A j \in 1 .. n : s[j] \in S => \E i \in 1 .. Len(a) : a[i] = s[j]
  /\ \E p \in [1 .. Len(a) -> 1 .. n] :
       /\ \A i \in 1 .. Len(a) : a[i] = s[p[i]] /\ a[i] \in S
       /\ \A i, j \in 1 .. Len(a) : p[i] = p[j] => i = j

(* t is what Among computes, up to n.                                      *)
Sifts(t, R, s, S, n) ==
  /\ t \in [0 .. n -> Seq(R)]
  /\ \A m \in 0 .. n : t[m] = IF m = 0 THEN <<>>
                              ELSE IF s[m] \in S THEN Append(t[m - 1], s[m]) ELSE t[m - 1]

LEMMA SiftExists ==
  ASSUME NEW R, NEW s \in Seq(R), NEW S
  PROVE  \E t : Sifts(t, R, s, S, Len(s))
<1> DEFINE N == Len(s)
           g == [x \in Seq(R) \X (1 .. N) |->
                   IF s[x[2]] \in S THEN Append(x[1], s[x[2]]) ELSE x[1]]
<1>0. N \in Nat /\ <<>> \in Seq(R)
  OBVIOUS
<1>1. \A q \in Seq(R), m \in 1 .. N :
        g[<<q, m>>] = IF s[m] \in S THEN Append(q, s[m]) ELSE q
  OBVIOUS
<1>2. g \in [Seq(R) \X (1 .. N) -> Seq(R)]
  OBVIOUS
<1> HIDE DEF g, N
<1>r. PICK t : RunBy(t, g, <<>>, Seq(R), N)
  BY <1>0, <1>2, RunOf
<1>3. /\ t \in [0 .. N -> Seq(R)] /\ t[0] = <<>>
      /\ \A m \in 1 .. N : t[m] = g[<<t[m - 1], m>>]
  BY <1>r DEF RunBy
<1>4. ASSUME NEW m \in 0 .. N, m # 0
      PROVE  t[m] = IF s[m] \in S THEN Append(t[m - 1], s[m]) ELSE t[m - 1]
  <2>1. m \in 1 .. N /\ m - 1 \in 0 .. N
    BY <1>0, <1>4
  <2> QED BY <1>1, <1>3, <2>1
<1>5. Sifts(t, R, s, S, N)
  BY <1>3, <1>4 DEF Sifts
<1> QED BY <1>5 DEF N

LEMMA AmongSieves ==
  ASSUME NEW R, NEW s \in Seq(R), NEW S
  PROVE  Among(s, S) \in Seq(R) /\ Sieve(Among(s, S), s, S, Len(s))
<1> DEFINE N == Len(s)
           F(u) == [i \in 0 .. Len(s) |-> IF i = 0 THEN <<>>
                      ELSE IF s[i] \in S THEN Append(u[i - 1], s[i]) ELSE u[i - 1]]
           u == CHOOSE v : v = F(v)
<1>0. N \in Nat
  OBVIOUS
<1>1. PICK t : Sifts(t, R, s, S, N)
  BY SiftExists
<1>2. t = F(t)
  BY <1>1 DEF Sifts
<1>3. u = F(u)
  BY <1>2
<1>4. Among(s, S) = u[N]
  BY DEF Among
<1>5. u = [i \in 0 .. N |-> IF i = 0 THEN <<>>
             ELSE IF s[i] \in S THEN Append(u[i - 1], s[i]) ELSE u[i - 1]]
  BY <1>3
<1> HIDE DEF u, F
<1> DEFINE H == {n \in 0 .. N : u[n] \in Seq(R) /\ Sieve(u[n], s, S, n)}
<1>6. 0 \in H
  <2>1. u[0] = <<>>
    BY <1>0, <1>5
  <2>2. Sieve(<<>>, s, S, 0)
    <3>1. [i \in {} |-> i] \in [1 .. Len(<<>>) -> 1 .. 0]
      OBVIOUS
    <3> QED BY <3>1 DEF Sieve
  <2>3. <<>> \in Seq(R) /\ 0 \in 0 .. N
    BY <1>0
  <2>4. u[0] \in Seq(R) /\ Sieve(u[0], s, S, 0)
    BY <2>1, <2>2, <2>3
  <2> QED BY <2>3, <2>4
<1>7. ASSUME NEW n \in 0 .. N, n \in H, n < N
      PROVE  n + 1 \in H
  <2>1. n + 1 \in 0 .. N /\ n + 1 # 0 /\ (n + 1) - 1 = n /\ n + 1 \in 1 .. N /\ n \in Nat
    BY <1>7
  <2>2. PICK x, a, b : x = s[n + 1] /\ a = u[n] /\ b = u[n + 1]
    OBVIOUS
  <2>3. x \in R /\ a \in Seq(R) /\ Sieve(a, s, S, n)
    BY <1>7, <2>1, <2>2
  <2>4. b = IF x \in S THEN Append(a, x) ELSE a
    BY <1>5, <2>1, <2>2
  <2>5. PICK p \in [1 .. Len(a) -> 1 .. n] :
          /\ \A i \in 1 .. Len(a) : a[i] = s[p[i]] /\ a[i] \in S
          /\ \A i, j \in 1 .. Len(a) : p[i] = p[j] => i = j
    BY <2>3 DEF Sieve
  <2>6. CASE x \notin S
    <3>1. p \in [1 .. Len(a) -> 1 .. n + 1]
      BY <2>1, <2>3
    <3>2. \A j \in 1 .. n + 1 : s[j] \in S => \E i \in 1 .. Len(a) : a[i] = s[j]
      <4>1. \A j \in 1 .. n + 1 : j = n + 1 \/ j \in 1 .. n
        BY <2>1
      <4> QED BY <2>2, <2>3, <2>6, <4>1 DEF Sieve
    <3>3. Sieve(b, s, S, n + 1)
      BY <2>4, <2>5, <2>6, <3>1, <3>2 DEF Sieve
    <3> QED BY <2>1, <2>2, <2>3, <2>4, <2>6, <3>3
  <2>7. CASE x \in S
    <3>1. /\ b \in Seq(R) /\ Len(b) = Len(a) + 1 /\ Len(a) \in Nat /\ b[Len(a) + 1] = x
          /\ \A i \in 1 .. Len(a) : b[i] = a[i]
      BY <2>3, <2>4, <2>7
    <3> DEFINE q == [i \in 1 .. Len(b) |-> IF i = Len(b) THEN n + 1 ELSE p[i]]
    <3>p. /\ \A i \in 1 .. Len(a) : i \in 1 .. Len(b) /\ i # Len(b)
          /\ Len(b) \in 1 .. Len(b)
          /\ \A i \in 1 .. Len(b) : i = Len(b) \/ i \in 1 .. Len(a)
      <4> HIDE DEF q
      <4> QED BY <3>1
    <3>q. q[Len(b)] = n + 1
      BY <3>p
    <3>r. \A i \in 1 .. Len(a) : q[i] = p[i] /\ p[i] \in 1 .. n
      BY <3>p
    <3>2. /\ \A i \in 1 .. Len(a) : i \in 1 .. Len(b) /\ q[i] = p[i] /\ p[i] \in 1 .. n
          /\ Len(b) \in 1 .. Len(b) /\ q[Len(b)] = n + 1
          /\ \A i \in 1 .. Len(b) : i = Len(b) \/ i \in 1 .. Len(a)
      BY <3>p, <3>q, <3>r
    <3>3. q \in [1 .. Len(b) -> 1 .. n + 1]
      BY <3>2, <2>1
    <3> HIDE DEF q
    <3>4. ASSUME NEW i \in 1 .. Len(b) PROVE b[i] = s[q[i]] /\ b[i] \in S
      <4>1. CASE i \in 1 .. Len(a)
        BY <2>5, <3>1, <3>2, <4>1
      <4>2. CASE i = Len(b)
        BY <2>2, <2>7, <3>1, <3>2, <4>2
      <4> QED BY <3>2, <4>1, <4>2
    <3>5. ASSUME NEW i \in 1 .. Len(b), NEW j \in 1 .. Len(b), q[i] = q[j] PROVE i = j
      <4>1. CASE i \in 1 .. Len(a) /\ j \in 1 .. Len(a)
        BY <2>5, <3>2, <3>5, <4>1
      <4>2. CASE i = Len(b) /\ j \in 1 .. Len(a)
        BY <2>1, <3>2, <3>5, <4>2
      <4>3. CASE j = Len(b) /\ i \in 1 .. Len(a)
        BY <2>1, <3>2, <3>5, <4>3
      <4> QED BY <3>2, <4>1, <4>2, <4>3
    <3>6. ASSUME NEW j \in 1 .. n + 1, s[j] \in S PROVE \E i \in 1 .. Len(b) : b[i] = s[j]
      <4>1. CASE j = n + 1
        BY <2>2, <3>1, <3>p, <4>1
      <4>2. CASE j # n + 1
        <5>1. j \in 1 .. n
          BY <2>1, <4>2
        <5>2. PICK i \in 1 .. Len(a) : a[i] = s[j]
          BY <2>3, <3>6, <5>1 DEF Sieve
        <5>3. i \in 1 .. Len(b) /\ b[i] = s[j]
          BY <3>1, <3>p, <5>2
        <5> QED BY <5>3
      <4> QED BY <4>1, <4>2
    <3>7. Sieve(b, s, S, n + 1)
      BY <3>3, <3>4, <3>5, <3>6 DEF Sieve
    <3> QED BY <2>1, <2>2, <3>1, <3>7
  <2> QED BY <2>6, <2>7
<1> HIDE DEF H
<1>8. N \in H
  <2>1. \A n \in 0 .. N : n \in H
    BY <1>0, <1>6, <1>7, UpTo
  <2> QED BY <2>1, <1>0
<1> QED BY <1>4, <1>8 DEF H

LEMMA AmongDistinct ==
  ASSUME NEW R, NEW s \in Seq(R), NEW S
  PROVE  /\ Among(s, S) \in Seq(R) /\ \A i \in 1 .. Len(Among(s, S)) : Among(s, S)[i] \in S
         /\ \A j \in 1 .. Len(s) : s[j] \in S => \E i \in 1 .. Len(Among(s, S)) : Among(s, S)[i] = s[j]
         /\ Distinct(s) => Distinct(Among(s, S))
<1>1. PICK a : a = Among(s, S)
  OBVIOUS
<1>2. a \in Seq(R) /\ Sieve(a, s, S, Len(s))
  BY <1>1, AmongSieves
<1>3. PICK p \in [1 .. Len(a) -> 1 .. Len(s)] :
        /\ \A i \in 1 .. Len(a) : a[i] = s[p[i]] /\ a[i] \in S
        /\ \A i, j \in 1 .. Len(a) : p[i] = p[j] => i = j
  BY <1>2 DEF Sieve
<1>4. ASSUME Distinct(s), NEW i \in 1 .. Len(a), NEW j \in 1 .. Len(a), a[i] = a[j] PROVE i = j
  BY <1>3, <1>4 DEF Distinct
<1>5. \A j \in 1 .. Len(s) : s[j] \in S => \E i \in 1 .. Len(a) : a[i] = s[j]
  BY <1>2 DEF Sieve
<1> QED BY <1>1, <1>2, <1>3, <1>4, <1>5 DEF Distinct

(* The rows: numbered from 1 without repetition, and each end once.        *)
LogRow == [seq : Nat \ {0}, of : LogOrders]
Pages == [RowKinds -> Seq(LogRow)]

RowsInv ==
  /\ rowSeq \in Nat /\ log \in Pages
  /\ \A k \in RowKinds :
       Distinct(log[k]) /\ \A i \in 1 .. Len(log[k]) : log[k][i].seq <= rowSeq
  /\ \A i \in 1 .. Len(log["cancels"]) :
       /\ log["cancels"][i].of.no \in recorded
       /\ \A j \in 1 .. Len(log["cancels"]) :
            log["cancels"][i].of = log["cancels"][j].of => i = j

(* The order list: what is asked for is older than the older pages shown.  *)
Before(r, n) == n = 0 \/ r.seq < n
Fetches == [asked : BOOLEAN, before : Nat, got : Seq(LogRow)]

(* What is under way fits what is shown of its kind.                       *)
FetchFits(k, f) ==
  /\ Distinct(f.got)
  /\ \A i \in 1 .. Len(f.got) : Before(f.got[i], f.before)
  /\ \A i \in 1 .. Len(older[k]) : ~Before(older[k][i], f.before)

ListInv ==
  /\ liveRows \in Pages /\ older \in Pages /\ fetches \in [RowKinds -> Seq(Fetches)]
  /\ \A k \in RowKinds : Distinct(liveRows[k])
  /\ \A k \in RowKinds \ crossed :
       /\ Distinct(older[k]) /\ Len(fetches[k]) <= 1
       /\ \A i \in 1 .. Len(fetches[k]) : FetchFits(k, fetches[k][i])

LEMMA RowFields ==
  ASSUME NEW s \in Seq(LogRow), NEW i \in 1 .. Len(s)
  PROVE  s[i] \in LogRow /\ s[i].seq \in Nat /\ s[i].seq # 0 /\ s[i].of \in LogOrders
<1>1. s[i] \in LogRow
  OBVIOUS
<1> QED BY <1>1 DEF LogRow

LEMMA NothingDistinct == Distinct(<<>>) /\ \A R : <<>> \in Seq(R)
BY DEF Distinct

LEMMA NoRowsPages ==
  NoRows \in Pages /\ \A k \in RowKinds : Len(NoRows[k]) = 0 /\ Distinct(NoRows[k])
<1>1. \A k \in RowKinds : NoRows[k] = <<>>
  BY DEF NoRows
<1>2. NoRows \in Pages
  BY NothingDistinct DEF NoRows, Pages
<1> QED BY <1>1, <1>2, NothingDistinct

LEMMA LogInitInv == DayLogInit => RowsInv /\ ListInv
<1> SUFFICES ASSUME DayLogInit PROVE RowsInv /\ ListInv
  OBVIOUS
<1>1. "cancels" \in RowKinds
  BY DEF RowKinds
<1>2. log = NoRows /\ rowSeq = 0 /\ liveRows = NoRows /\ older = NoRows /\ fetches = NoRows
  BY DEF DayLogInit
<1>3. RowsInv
  BY <1>1, <1>2, NoRowsPages DEF RowsInv
<1>4. fetches \in [RowKinds -> Seq(Fetches)]
  BY <1>2, NothingDistinct DEF NoRows
<1>5. ListInv
  BY <1>2, <1>4, NoRowsPages DEF ListInv
<1> QED BY <1>3, <1>5

(* A new row is put before the others of its kind.                         *)
LEMMA PutFirst ==
  ASSUME NEW R, NEW x \in R, NEW s \in Seq(R), NEW t, t = <<x>> \o s
  PROVE  /\ t \in Seq(R) /\ t[1] = x
         /\ \A i \in 1 .. Len(t) :
              i = 1 \/ (i - 1 \in 1 .. Len(s) /\ t[i] = s[i - 1])
<1>1. <<x>> \in Seq(R) /\ Len(<<x>>) = 1 /\ <<x>>[1] = x
  OBVIOUS
<1>2. PICK u : u = <<x>>
  OBVIOUS
<1>3. /\ t \in Seq(R) /\ Len(t) = 1 + Len(s) /\ Len(s) \in Nat /\ t[1] = x
      /\ \A i \in 1 .. Len(t) : i > 1 => t[i] = s[i - 1]
  BY <1>1, <1>2
<1>4. ASSUME NEW i \in 1 .. Len(t), i # 1 PROVE i - 1 \in 1 .. Len(s) /\ i > 1
  BY <1>3, <1>4
<1> QED BY <1>3, <1>4

LEMMA NumberedFirst ==
  ASSUME NEW s \in Seq(LogRow), Distinct(s), NEW n \in Nat,
         \A i \in 1 .. Len(s) : s[i].seq <= n,
         NEW x \in LogRow, x.seq = n + 1, NEW t, t = <<x>> \o s
  PROVE  t \in Seq(LogRow) /\ Distinct(t) /\ \A i \in 1 .. Len(t) : t[i].seq <= n + 1
<1>1. /\ t \in Seq(LogRow) /\ t[1] = x
      /\ \A i \in 1 .. Len(t) : i = 1 \/ (i - 1 \in 1 .. Len(s) /\ t[i] = s[i - 1])
  BY PutFirst
<1>2. \A i \in 1 .. Len(s) : s[i].seq \in Nat /\ s[i].seq <= n /\ s[i].seq # n + 1
  BY RowFields
<1>3. \A i \in 1 .. Len(t) : i = 1 \/ t[i].seq # n + 1
  BY <1>1, <1>2
<1>4. ASSUME NEW i \in 1 .. Len(t) PROVE t[i].seq <= n + 1
  BY <1>1, <1>2
<1>5. ASSUME NEW i \in 1 .. Len(t), NEW j \in 1 .. Len(t), t[i] = t[j] PROVE i = j
  <2>1. CASE i # 1 /\ j # 1
    <3>1. PICK a, b : a = i - 1 /\ b = j - 1
      OBVIOUS
    <3>2. a \in 1 .. Len(s) /\ b \in 1 .. Len(s) /\ s[a] = s[b]
      <4>1. a \in 1 .. Len(s) /\ t[i] = s[a]
        BY <1>1, <2>1, <3>1
      <4>2. b \in 1 .. Len(s) /\ t[j] = s[b]
        BY <1>1, <2>1, <3>1
      <4> QED BY <4>1, <4>2, <1>5
    <3>3. a = b
      BY <3>2 DEF Distinct
    <3> QED BY <3>1, <3>3
  <2>2. CASE i = 1 \/ j = 1
    BY <1>1, <1>3, <1>5, <2>2
  <2> QED BY <2>1, <2>2
<1> QED BY <1>1, <1>4, <1>5 DEF Distinct

LEMMA EndFirst ==
  ASSUME NEW s \in Seq(LogRow), NEW D,
         \A i \in 1 .. Len(s) : s[i].of.no \in D,
         \A i, j \in 1 .. Len(s) : s[i].of = s[j].of => i = j,
         NEW x \in LogRow, x.of.no \notin D, NEW t, t = <<x>> \o s
  PROVE  /\ \A i \in 1 .. Len(t) : t[i].of.no \in D \cup {x.of.no}
         /\ \A i, j \in 1 .. Len(t) : t[i].of = t[j].of => i = j
<1>1. /\ t[1] = x
      /\ \A i \in 1 .. Len(t) : i = 1 \/ (i - 1 \in 1 .. Len(s) /\ t[i] = s[i - 1])
  BY PutFirst
<1>2. \A i \in 1 .. Len(t) : i = 1 \/ t[i].of.no \in D
  BY <1>1
<1>5. ASSUME NEW i \in 1 .. Len(t), NEW j \in 1 .. Len(t), t[i].of = t[j].of PROVE i = j
  <2>1. CASE i # 1 /\ j # 1
    <3>1. PICK a, b : a = i - 1 /\ b = j - 1
      OBVIOUS
    <3>2. a \in 1 .. Len(s) /\ t[i] = s[a] /\ b \in 1 .. Len(s) /\ t[j] = s[b]
      BY <1>1, <2>1, <3>1
    <3>3. a = b
      BY <1>5, <3>2
    <3> QED BY <3>1, <3>3
  <2>2. CASE i = 1 \/ j = 1
    BY <1>1, <1>2, <1>5, <2>2
  <2> QED BY <2>1, <2>2
<1> QED BY <1>1, <1>2, <1>5

LEMMA NewRowKeeps ==
  ASSUME RowsInv, NEW k \in RowKinds, NEW o \in LogOrders, Add(k, o),
         k = "cancels" => ~Seen(o) /\ recorded' = (IF Rolls THEN {} ELSE recorded) \cup {o.no},
         k # "cancels" => recorded' = recorded
  PROVE  RowsInv'
<1>1. PICK m, n, x, D : /\ m = KeptRows /\ n = rowSeq /\ x = [seq |-> rowSeq + 1, of |-> o]
                        /\ D = IF Rolls THEN {} ELSE recorded
  OBVIOUS
<1>2. n \in Nat /\ x \in LogRow /\ x.seq = n + 1 /\ x.of = o /\ rowSeq' = n + 1
  BY <1>1 DEF LogRow, Add, RowsInv
<1>3. "cancels" \in RowKinds
  BY DEF RowKinds
<1>4. /\ m \in Pages
      /\ \A c \in RowKinds : Distinct(m[c]) /\ \A i \in 1 .. Len(m[c]) : m[c][i].seq <= n
      /\ \A i \in 1 .. Len(m["cancels"]) :
           /\ m["cancels"][i].of.no \in D
           /\ \A j \in 1 .. Len(m["cancels"]) : m["cancels"][i].of = m["cancels"][j].of => i = j
  <2>1. CASE Rolls
    <3>1. m = NoRows
      BY <1>1, <2>1 DEF KeptRows
    <3> QED BY <3>1, <1>3, NoRowsPages
  <2>2. CASE ~Rolls
    <3>1. m = log /\ D = recorded
      BY <1>1, <2>2 DEF KeptRows
    <3> QED BY <3>1, <1>1 DEF RowsInv
  <2> QED BY <2>1, <2>2
<1>5. PICK s, t : s = m[k] /\ t = <<x>> \o m[k]
  OBVIOUS
<1>6. log' = [m EXCEPT ![k] = t]
  BY <1>1, <1>5 DEF Add, NewRow
<1>7. \A c \in RowKinds : log'[c] = IF c = k THEN t ELSE m[c]
  BY <1>4, <1>6 DEF Pages
<1>8. s \in Seq(LogRow) /\ Distinct(s) /\ \A i \in 1 .. Len(s) : s[i].seq <= n
  BY <1>4, <1>5 DEF Pages
<1>9. t \in Seq(LogRow) /\ Distinct(t) /\ \A i \in 1 .. Len(t) : t[i].seq <= n + 1
  BY <1>2, <1>5, <1>8, NumberedFirst
<1>10. log' \in Pages
  BY <1>4, <1>6, <1>9 DEF Pages
<1>11. ASSUME NEW c \in RowKinds
       PROVE  Distinct(log'[c]) /\ \A i \in 1 .. Len(log'[c]) : log'[c][i].seq <= rowSeq'
  <2>1. CASE c # k
    <3>1. PICK w : w = m[c]
      OBVIOUS
    <3>2. log'[c] = w /\ w \in Seq(LogRow) /\ Distinct(w) /\ \A i \in 1 .. Len(w) : w[i].seq <= n
      BY <1>4, <1>7, <2>1, <3>1 DEF Pages
    <3>3. \A i \in 1 .. Len(w) : w[i].seq <= n + 1
      BY <1>2, <3>2, RowFields
    <3> QED BY <1>2, <3>2, <3>3
  <2>2. CASE c = k
    BY <1>2, <1>7, <1>9, <2>2
  <2> QED BY <2>1, <2>2
<1>12. \A i \in 1 .. Len(log'["cancels"]) :
         /\ log'["cancels"][i].of.no \in recorded'
         /\ \A j \in 1 .. Len(log'["cancels"]) :
              log'["cancels"][i].of = log'["cancels"][j].of => i = j
  <2>1. CASE k # "cancels"
    <3>1. log'["cancels"] = m["cancels"] /\ recorded' = recorded /\ D \subseteq recorded
      BY <1>1, <1>3, <1>7, <2>1
    <3> QED BY <1>4, <3>1
  <2>2. CASE k = "cancels"
    <3>1. recorded' = D \cup {x.of.no} /\ x.of.no \notin D
      BY <1>1, <1>2, <2>2 DEF Seen
    <3>2. /\ \A i \in 1 .. Len(t) : t[i].of.no \in D \cup {x.of.no}
          /\ \A i, j \in 1 .. Len(t) : t[i].of = t[j].of => i = j
      BY <1>2, <1>4, <1>5, <1>8, <2>2, <3>1, EndFirst
    <3>3. log'["cancels"] = t
      BY <1>7, <2>2
    <3> QED BY <3>1, <3>2, <3>3
  <2> QED BY <2>1, <2>2
<1> QED BY <1>2, <1>10, <1>11, <1>12 DEF RowsInv

LEMMA SetOfSeq ==
  ASSUME NEW R, NEW s \in Seq(R)
  PROVE  /\ \A i \in 1 .. Len(s) : s[i] \in ToSet(s)
         /\ \A x \in ToSet(s) : \E i \in 1 .. Len(s) : x = s[i]
         /\ ToSet(s) \subseteq R
BY DEF ToSet

(* Some numbers have a least one.                                          *)
LEMMA LeastOf ==
  ASSUME NEW S \in SUBSET Nat, S # {}
  PROVE  \E n \in S : \A m \in S : n <= m
<1> DEFINE R == OpToRel(<, Nat)
<1> HIDE DEF R
<1>1. PICK x \in S : \A y \in S : ~ (<<y, x>> \in R)
  BY WFMin, NatLessThanWellFounded DEF R
<1>2. \A y \in S : ~ (y < x)
  BY <1>1 DEF R, OpToRel
<1> QED BY <1>2

(* The oldest number shown is not above that of any row of an older page.  *)
LEMMA OldestIsLeast ==
  ASSUME ListInv, NEW k \in RowKinds
  PROVE  /\ Oldest(k) \in Nat
         /\ \A i \in 1 .. Len(older[k]) : ~Before(older[k][i], Oldest(k))
<1>1. PICK fresh, old : fresh = liveRows[k] /\ old = older[k]
  OBVIOUS
<1>2. fresh \in Seq(LogRow) /\ old \in Seq(LogRow)
  BY <1>1 DEF ListInv, Pages
<1>3. PICK rest : rest = Among(old, ToSet(old) \ ToSet(fresh))
  OBVIOUS
<1>4. /\ rest \in Seq(LogRow)
      /\ \A j \in 1 .. Len(old) :
           old[j] \in ToSet(old) \ ToSet(fresh) => \E i \in 1 .. Len(rest) : rest[i] = old[j]
  <2>1. PICK S : S = ToSet(old) \ ToSet(fresh)
    OBVIOUS
  <2>2. rest = Among(old, S)
    BY <1>3, <2>1
  <2>3. /\ rest \in Seq(LogRow)
        /\ \A j \in 1 .. Len(old) : old[j] \in S => \E i \in 1 .. Len(rest) : rest[i] = old[j]
    BY <1>2, <2>2, AmongDistinct
  <2> QED BY <2>1, <2>3
<1>5. PICK all : all = fresh \o rest
  OBVIOUS
<1>6. Shown(k) = all
  BY <1>1, <1>3, <1>5 DEF Shown
<1>7. /\ all \in Seq(LogRow) /\ Len(all) = Len(fresh) + Len(rest)
      /\ Len(fresh) \in Nat /\ Len(rest) \in Nat
      /\ \A i \in 1 .. Len(fresh) : all[i] = fresh[i]
      /\ \A i \in 1 .. Len(rest) : all[Len(fresh) + i] = rest[i]
  BY <1>2, <1>4, <1>5
<1>8. ASSUME NEW j \in 1 .. Len(old) PROVE \E i \in 1 .. Len(all) : all[i] = old[j]
  <2>1. CASE old[j] \in ToSet(fresh)
    <3>1. PICK i \in 1 .. Len(fresh) : old[j] = fresh[i]
      BY <1>2, <2>1, SetOfSeq
    <3>2. i \in 1 .. Len(all) /\ all[i] = old[j]
      BY <1>7, <3>1
    <3> QED BY <3>2
  <2>2. CASE old[j] \notin ToSet(fresh)
    <3>1. old[j] \in ToSet(old)
      BY <1>2, SetOfSeq
    <3>2. PICK i \in 1 .. Len(rest) : rest[i] = old[j]
      BY <1>4, <2>2, <3>1
    <3>3. Len(fresh) + i \in 1 .. Len(all) /\ all[Len(fresh) + i] = old[j]
      BY <1>7, <3>2
    <3> QED BY <3>3
  <2> QED BY <2>1, <2>2
<1> DEFINE Q == {r.seq : r \in ToSet(all)}
<1>9. Q \subseteq Nat \ {0}
  <2>1. ToSet(all) \subseteq LogRow
    BY <1>7, SetOfSeq
  <2> QED BY <2>1 DEF LogRow
<1>10. \A j \in 1 .. Len(old) : old[j].seq \in Q
  BY <1>7, <1>8, SetOfSeq
<1>11. Oldest(k) = IF Q = {} THEN 0 ELSE CHOOSE m \in Q : \A t \in Q : m <= t
  BY <1>6 DEF Oldest
<1> HIDE DEF Q
<1>12. CASE Q = {}
  <2>1. \A j \in 1 .. Len(old) : FALSE
    BY <1>10, <1>12
  <2> QED BY <1>1, <1>11, <1>12, <2>1
<1>13. CASE Q # {}
  <2>1. \E m \in Q : \A t \in Q : m <= t
    BY <1>9, <1>13, LeastOf
  <2>2. Oldest(k) \in Q /\ \A t \in Q : Oldest(k) <= t
    BY <1>11, <1>13, <2>1
  <2>3. \A j \in 1 .. Len(old) : old[j].seq \in Nat
    BY <1>9, <1>10
  <2>4. Oldest(k) \in Nat /\ Oldest(k) # 0
    BY <1>9, <2>2
  <2>5. \A j \in 1 .. Len(old) : ~Before(old[j], Oldest(k))
    BY <1>10, <2>2, <2>3, <2>4 DEF Before
  <2> QED BY <1>1, <2>4, <2>5
<1> QED BY <1>12, <1>13

(* An older page is asked for.                                             *)
LEMMA FetchKeeps ==
  ASSUME ListInv, NEW k \in RowKinds, FetchOlder(k)
  PROVE  ListInv'
<1>1. PICK n : n = Oldest(k)
  OBVIOUS
<1>2. PICK f : f = [asked |-> TRUE, before |-> n, got |-> <<>>]
  OBVIOUS
<1>3. /\ fetches' = [fetches EXCEPT ![k] = Append(@, f)]
      /\ crossed' = IF fetches[k] = <<>> THEN crossed ELSE crossed \cup {k}
      /\ liveRows' = liveRows /\ older' = older
  BY <1>1, <1>2 DEF FetchOlder
<1>4. n \in Nat /\ \A i \in 1 .. Len(older[k]) : ~Before(older[k][i], n)
  BY <1>1, OldestIsLeast
<1>5. f.before = n /\ f.got = <<>> /\ Len(f.got) = 0 /\ f \in Fetches
  BY <1>2, <1>4, NothingDistinct DEF Fetches
<1>6. FetchFits(k, f)'
  BY <1>3, <1>4, <1>5, NothingDistinct DEF FetchFits
<1>7. fetches[k] \in Seq(Fetches) /\ fetches'[k] = Append(fetches[k], f)
  BY <1>3 DEF ListInv
<1>8. fetches' \in [RowKinds -> Seq(Fetches)]
  <2>1. Append(fetches[k], f) \in Seq(Fetches)
    BY <1>5, <1>7, AppendProperties
  <2> QED BY <1>3, <2>1 DEF ListInv
<1>9. ASSUME NEW c \in RowKinds \ crossed'
      PROVE  /\ Distinct(older'[c]) /\ Len(fetches'[c]) <= 1
             /\ \A i \in 1 .. Len(fetches'[c]) : FetchFits(c, fetches[c][i])'
  <2>1. c \in RowKinds \ crossed
    BY <1>3, <1>9
  <2>2. CASE c = k
    <3>1. fetches[k] = <<>>
      BY <1>3, <1>9, <2>2
    <3>2. fetches'[k] = <<f>> /\ Len(fetches'[k]) = 1 /\ fetches'[k][1] = f
      BY <1>5, <1>7, <3>1
    <3> QED BY <1>3, <1>6, <2>1, <2>2, <3>2 DEF ListInv
  <2>3. CASE c # k
    <3>1. fetches'[c] = fetches[c]
      BY <1>3, <2>3 DEF ListInv
    <3> QED BY <1>3, <2>1, <3>1 DEF ListInv, FetchFits
  <2> QED BY <2>2, <2>3
<1> QED BY <1>3, <1>8, <1>9 DEF ListInv

(* The core answers with rows that come before, or not at all.             *)
LEMMA AnswerKeeps ==
  ASSUME RowsInv, ListInv, CoreAnswers
  PROVE  ListInv'
<1>1. PICK k \in RowKinds : \E i \in DOMAIN fetches[k] :
        /\ fetches[k][i].asked
        /\ \E got \in {HistoryRows(k, fetches[k][i].before), <<>>} :
             fetches' = [fetches EXCEPT ![k][i].asked = FALSE, ![k][i].got = got]
  BY DEF CoreAnswers
<1>2. PICK n \in DOMAIN fetches[k] : \E got \in {HistoryRows(k, fetches[k][n].before), <<>>} :
        fetches' = [fetches EXCEPT ![k][n].asked = FALSE, ![k][n].got = got]
  BY <1>1
<1>3. PICK f, l, g : /\ f = fetches[k][n] /\ l = log[k]
                     /\ g \in {HistoryRows(k, f.before), <<>>}
                     /\ fetches' = [fetches EXCEPT ![k][n].asked = FALSE, ![k][n].got = g]
  BY <1>2
<1>4. /\ fetches[k] \in Seq(Fetches) /\ n \in 1 .. Len(fetches[k]) /\ f \in Fetches
      /\ f.before \in Nat
  <2>1. fetches[k] \in Seq(Fetches) /\ n \in 1 .. Len(fetches[k])
    BY <1>2 DEF ListInv
  <2>2. f \in Fetches
    BY <1>3, <2>1
  <2> QED BY <2>1, <2>2 DEF Fetches
<1>5. l \in Seq(LogRow) /\ Distinct(l)
  BY <1>3 DEF RowsInv, Pages
<1>6. PICK S : S = {r \in ToSet(l) : f.before = 0 \/ r.seq < f.before}
  OBVIOUS
<1>7. PICK a : a = Among(l, S)
  OBVIOUS
<1>8. PICK h : h = FirstRows(a)
  OBVIOUS
<1>9. a \in Seq(LogRow) /\ Distinct(a) /\ \A i \in 1 .. Len(a) : a[i] \in S
  BY <1>5, <1>7, AmongDistinct
<1>10. h \in Seq(LogRow) /\ Distinct(h) /\ \A i \in 1 .. Len(h) : h[i] \in S
  BY <1>8, <1>9, FirstDistinct
<1>11. \A i \in 1 .. Len(h) : Before(h[i], f.before)
  BY <1>6, <1>10 DEF Before
<1>12. g = h \/ g = <<>>
  BY <1>3, <1>6, <1>7, <1>8 DEF HistoryRows
<1>13. g \in Seq(LogRow) /\ Distinct(g) /\ \A i \in 1 .. Len(g) : Before(g[i], f.before)
  <2>1. CASE g = h
    BY <1>10, <1>11, <2>1
  <2>2. CASE g = <<>>
    BY <2>2, NothingDistinct
  <2> QED BY <1>12, <2>1, <2>2
<1>14. PICK e : e = [f EXCEPT !.asked = FALSE, !.got = g]
  OBVIOUS
<1>15. e \in Fetches /\ e.before = f.before /\ e.got = g
  BY <1>4, <1>13, <1>14 DEF Fetches
<1>16. PICK t : t = [fetches[k] EXCEPT ![n] = e]
  OBVIOUS
<1>17. /\ t \in Seq(Fetches) /\ Len(t) = Len(fetches[k]) /\ t[n] = e
       /\ \A i \in 1 .. Len(t) : i # n => t[i] = fetches[k][i]
  BY <1>4, <1>15, <1>16
<1>18. fetches' = [fetches EXCEPT ![k] = t]
  BY <1>3, <1>4, <1>14, <1>16 DEF ListInv
<1>19. liveRows' = liveRows /\ older' = older /\ crossed' = crossed
  BY DEF CoreAnswers
<1>20. fetches' \in [RowKinds -> Seq(Fetches)]
  BY <1>17, <1>18 DEF ListInv
<1>21. ASSUME NEW c \in RowKinds \ crossed'
      PROVE  /\ Distinct(older'[c]) /\ Len(fetches'[c]) <= 1
             /\ \A i \in 1 .. Len(fetches'[c]) : FetchFits(c, fetches[c][i])'
  <2>1. /\ Distinct(older[c]) /\ Len(fetches[c]) <= 1
        /\ \A i \in 1 .. Len(fetches[c]) : FetchFits(c, fetches[c][i])
    BY <1>19, <1>21 DEF ListInv
  <2>2. CASE c = k
    <3>1. fetches'[c] = t
      BY <1>18, <2>2 DEF ListInv
    <3>2. FetchFits(c, e)
      BY <1>3, <1>4, <1>13, <1>15, <2>1, <2>2 DEF FetchFits
    <3>3. \A i \in 1 .. Len(t) : FetchFits(c, t[i])
      BY <1>17, <2>1, <2>2, <3>2
    <3> QED BY <1>17, <1>19, <2>1, <2>2, <3>1, <3>3 DEF FetchFits
  <2>3. CASE c # k
    <3>1. fetches'[c] = fetches[c]
      BY <1>18, <2>3 DEF ListInv
    <3> QED BY <1>19, <2>1, <3>1 DEF FetchFits
  <2> QED BY <2>2, <2>3
<1> QED BY <1>19, <1>20, <1>21 DEF ListInv

(* They are put behind the older pages.                                    *)
LEMMA DrainKeeps ==
  ASSUME ListInv, DrainOlder
  PROVE  ListInv'
<1>1. PICK k \in RowKinds : \E i \in DOMAIN fetches[k] :
        /\ older' = [older EXCEPT ![k] = @ \o fetches[k][i].got]
        /\ fetches' = [fetches EXCEPT ![k] = RemoveAt(@, i)]
  BY DEF DrainOlder
<1>2. PICK m \in DOMAIN fetches[k] :
        /\ older' = [older EXCEPT ![k] = @ \o fetches[k][m].got]
        /\ fetches' = [fetches EXCEPT ![k] = RemoveAt(@, m)]
  BY <1>1
<1>3. PICK old, q, g, new : /\ old = older[k] /\ q = fetches[k] /\ g = q[m].got
                            /\ new = old \o g
  OBVIOUS
<1>4. /\ q \in Seq(Fetches) /\ m \in 1 .. Len(q) /\ Len(q) \in Nat
      /\ old \in Seq(LogRow) /\ g \in Seq(LogRow)
  <2>1. q \in Seq(Fetches) /\ m \in 1 .. Len(q) /\ Len(q) \in Nat /\ old \in Seq(LogRow)
    BY <1>2, <1>3 DEF ListInv, Pages
  <2>2. q[m] \in Fetches
    BY <2>1
  <2> QED BY <1>3, <2>1, <2>2 DEF Fetches
<1>5. new \in Seq(LogRow) /\ older' = [older EXCEPT ![k] = new]
  BY <1>2, <1>3, <1>4, ConcatProperties
<1>6. older' \in Pages
  BY <1>5 DEF ListInv, Pages
<1>7. PICK s : s = RemoveAt(q, m)
  OBVIOUS
<1>8. s \in Seq(Fetches) /\ Len(s) = Len(q) - 1
  <2>1. s = SubSeq(q, 1, m - 1) \o SubSeq(q, m + 1, Len(q))
    BY <1>7 DEF RemoveAt
  <2>2. /\ SubSeq(q, 1, m - 1) \in Seq(Fetches) /\ Len(SubSeq(q, 1, m - 1)) = m - 1
        /\ SubSeq(q, m + 1, Len(q)) \in Seq(Fetches)
        /\ Len(SubSeq(q, m + 1, Len(q))) = Len(q) - m
    BY <1>4
  <2>3. /\ s \in Seq(Fetches)
        /\ Len(s) = Len(SubSeq(q, 1, m - 1)) + Len(SubSeq(q, m + 1, Len(q)))
    BY <2>1, <2>2, ConcatProperties
  <2> QED BY <1>4, <2>2, <2>3
<1>9. fetches' = [fetches EXCEPT ![k] = s] /\ fetches' \in [RowKinds -> Seq(Fetches)]
  BY <1>2, <1>3, <1>7, <1>8 DEF ListInv
<1>10. liveRows' = liveRows /\ crossed' = crossed
  BY DEF DrainOlder
<1>11. ASSUME NEW c \in RowKinds \ crossed'
      PROVE  /\ Distinct(older'[c]) /\ Len(fetches'[c]) <= 1
             /\ \A i \in 1 .. Len(fetches'[c]) : FetchFits(c, fetches[c][i])'
  <2>1. /\ Distinct(older[c]) /\ Len(fetches[c]) <= 1
        /\ \A i \in 1 .. Len(fetches[c]) : FetchFits(c, fetches[c][i])
    BY <1>10, <1>11 DEF ListInv
  <2>2. CASE c = k
    <3>1. PICK n : n = q[m].before
      OBVIOUS
    <3>2. /\ Distinct(old) /\ Distinct(g)
          /\ \A i \in 1 .. Len(old) : ~Before(old[i], n)
          /\ \A i \in 1 .. Len(g) : Before(g[i], n)
      BY <1>3, <1>4, <2>1, <2>2, <3>1 DEF FetchFits
    <3>3. \A i \in 1 .. Len(old), j \in 1 .. Len(g) : old[i] # g[j]
      BY <3>2
    <3>4. Distinct(new)
      BY <1>3, <1>4, <3>2, <3>3, JoinDistinct
    <3>5. older'[c] = new /\ fetches'[c] = s
      BY <1>5, <1>9, <2>2 DEF ListInv, Pages
    <3>6. Len(s) = 0
      <4>1. fetches[c] = q
        BY <1>3, <2>2
      <4>2. Len(q) <= 1
        BY <2>1, <4>1
      <4> QED BY <1>4, <1>8, <4>2
    <3> QED BY <3>4, <3>5, <3>6
  <2>3. CASE c # k
    <3>1. fetches'[c] = fetches[c] /\ older'[c] = older[c]
      BY <1>5, <1>9, <2>3 DEF ListInv, Pages
    <3> QED BY <2>1, <3>1 DEF FetchFits
  <2> QED BY <2>2, <2>3
<1> QED BY <1>6, <1>9, <1>10, <1>11 DEF ListInv

LEMMA LogStep == RowsInv /\ ListInv /\ [DayLogNext]_logVars => (RowsInv /\ ListInv)'
<1> SUFFICES ASSUME RowsInv, ListInv, [DayLogNext]_logVars PROVE (RowsInv /\ ListInv)'
  OBVIOUS
<1>k. "fills" \in RowKinds /\ "cancels" \in RowKinds /\ "rejects" \in RowKinds
      /\ "fills" # "cancels" /\ "rejects" # "cancels"
  BY DEF RowKinds
<1>r. ASSUME UNCHANGED <<log, recorded, rowSeq>> PROVE RowsInv'
  BY <1>r DEF RowsInv
<1>l. ASSUME UNCHANGED screenVars PROVE ListInv'
  BY <1>l DEF ListInv, FetchFits, screenVars
<1>1. ASSUME NEW o \in LogOrders, RecordFill(o) PROVE (RowsInv /\ ListInv)'
  <2>1. Add("fills", o) /\ recorded' = recorded
    BY <1>1 DEF RecordFill
  <2> QED BY <1>k, <1>l, <2>1, NewRowKeeps DEF Add
<1>2. ASSUME NEW o \in LogOrders, RecordReject(o) PROVE (RowsInv /\ ListInv)'
  <2>1. Add("rejects", o) /\ recorded' = recorded
    BY <1>2 DEF RecordReject
  <2> QED BY <1>k, <1>l, <2>1, NewRowKeeps DEF Add
<1>3. ASSUME NEW o \in LogOrders, RecordCancel(o) PROVE (RowsInv /\ ListInv)'
  <2>1. /\ Add("cancels", o) /\ ~Seen(o)
        /\ recorded' = (IF Rolls THEN {} ELSE recorded) \cup {o.no}
    BY <1>3 DEF RecordCancel
  <2> QED BY <1>k, <1>l, <2>1, NewRowKeeps DEF Add
<1>4. ASSUME NEW o \in LogOrders, CancelKnown(o) PROVE (RowsInv /\ ListInv)'
  BY <1>4, <1>r, <1>l DEF CancelKnown
<1>5. CASE NextDay
  BY <1>5, <1>r, <1>l DEF NextDay
<1>6. CASE LogSnapshot
  <2>1. RowsInv'
    BY <1>6, <1>r DEF LogSnapshot
  <2>2. liveRows' = [k \in RowKinds |-> FirstRows(log[k])] /\ UNCHANGED <<older, fetches, crossed>>
    BY <1>6 DEF LogSnapshot
  <2>3. \A k \in RowKinds : log[k] \in Seq(LogRow) /\ Distinct(log[k])
    BY DEF RowsInv, Pages
  <2>4. \A k \in RowKinds : FirstRows(log[k]) \in Seq(LogRow) /\ Distinct(FirstRows(log[k]))
    BY <2>3, FirstDistinct
  <2>5. liveRows' \in Pages /\ \A k \in RowKinds : Distinct(liveRows'[k])
    BY <2>2, <2>4 DEF Pages
  <2>6. ListInv'
    BY <2>2, <2>5 DEF ListInv, FetchFits
  <2> QED BY <2>1, <2>6
<1>7. CASE CoreAnswers
  BY <1>7, <1>r, AnswerKeeps DEF CoreAnswers
<1>8. CASE DrainOlder
  BY <1>8, <1>r, DrainKeeps DEF DrainOlder
<1>9. CASE ResetOlder
  <2>1. RowsInv'
    BY <1>9, <1>r DEF ResetOlder
  <2>2. /\ older' = NoRows /\ fetches' = fetches /\ liveRows' = liveRows
        /\ crossed' = {k \in crossed : fetches[k] # <<>>}
    BY <1>9 DEF ResetOlder
  <2>3. older' \in Pages /\ \A k \in RowKinds : Len(older'[k]) = 0 /\ Distinct(older'[k])
    BY <2>2, NoRowsPages
  <2>4. ASSUME NEW k \in RowKinds \ crossed'
        PROVE  /\ Distinct(older'[k]) /\ Len(fetches'[k]) <= 1
               /\ \A i \in 1 .. Len(fetches'[k]) : FetchFits(k, fetches[k][i])'
    <3>1. CASE k \in crossed
      BY <2>2, <2>3, <2>4, <3>1
    <3>2. CASE k \notin crossed
      BY <2>2, <2>3, <3>2 DEF ListInv, FetchFits
    <3> QED BY <3>1, <3>2
  <2>5. ListInv'
    BY <2>2, <2>3, <2>4 DEF ListInv
  <2> QED BY <2>1, <2>5
<1>10. ASSUME NEW k \in RowKinds, FetchOlder(k) PROVE (RowsInv /\ ListInv)'
  BY <1>10, <1>r, FetchKeeps DEF FetchOlder
<1>11. CASE UNCHANGED logVars
  BY <1>11, <1>r, <1>l DEF logVars, screenVars
<1> QED BY <1>1, <1>2, <1>3, <1>4, <1>5, <1>6, <1>7, <1>8, <1>9, <1>10, <1>11 DEF DayLogNext

LEMMA LogResults == RowsInv /\ ListInv => CancelListedOnce /\ NoRowTwice
<1> SUFFICES ASSUME RowsInv, ListInv PROVE CancelListedOnce /\ NoRowTwice
  OBVIOUS
<1>1. CancelListedOnce
  <2>1. PICK c : c = log["cancels"]
    OBVIOUS
  <2>2. c \in Seq(LogRow) /\ \A i, j \in 1 .. Len(c) : c[i].of = c[j].of => i = j
    BY <2>1 DEF RowsInv, Pages, RowKinds
  <2>3. \A r, q \in ToSet(c) : r.of = q.of => r = q
    BY <2>2, SetOfSeq
  <2> QED BY <2>1, <2>3 DEF CancelListedOnce
<1>2. ASSUME NEW k \in RowKinds \ crossed PROVE IsInjective(Shown(k))
  <2>1. PICK fresh, old : fresh = liveRows[k] /\ old = older[k]
    OBVIOUS
  <2>2. /\ fresh \in Seq(LogRow) /\ old \in Seq(LogRow) /\ Distinct(fresh) /\ Distinct(old)
    BY <2>1 DEF ListInv, Pages
  <2>3. PICK rest : rest = Among(old, ToSet(old) \ ToSet(fresh))
    OBVIOUS
  <2>4. /\ rest \in Seq(LogRow) /\ Distinct(rest)
        /\ \A i \in 1 .. Len(rest) : rest[i] \notin ToSet(fresh)
    BY <2>2, <2>3, AmongDistinct
  <2>5. \A i \in 1 .. Len(fresh), j \in 1 .. Len(rest) : fresh[i] # rest[j]
    BY <2>2, <2>4, SetOfSeq
  <2>6. fresh \o rest \in Seq(LogRow) /\ Distinct(fresh \o rest)
    BY <2>2, <2>4, <2>5, JoinDistinct
  <2>7. Shown(k) = fresh \o rest
    BY <2>1, <2>3 DEF Shown
  <2> QED BY <2>6, <2>7 DEF Distinct, IsInjective
<1> QED BY <1>1, <1>2 DEF NoRowTwice

-----------------------------------------------------------------------------
(***************************************************************************)
(* The fills from Hyperliquid.  A frame that is on its way brings a fill   *)
(* that was not taken, and that no snapshot before it holds.  The memory   *)
(* of fills is assumed to have room for all of them.                       *)
(***************************************************************************)
Fills == 1 .. MaxHlFills
Memories == {s \in Seq(Fills) : Distinct(s)}

LEMMA FillsFinite == IsFiniteSet(Fills) /\ Cardinality(Fills) = MaxHlFills
<1>1. MaxHlFills \in Nat
  BY HlFeedAssumption
<1>2. 1 \in Int /\ MaxHlFills \in Int /\ MaxHlFills - 1 + 1 = MaxHlFills
  BY <1>1
<1> QED BY <1>1, <1>2, FS_Interval DEF Fills

(* The fills remembered are fewer than all when one is not among them.     *)
LEMMA RoomForOne ==
  ASSUME MaxHlFills <= MaxTids, NEW s \in Memories, NEW i \in Fills, i \notin ToSet(s)
  PROVE  Len(s) < MaxTids
<1>0. MaxHlFills \in Nat /\ MaxTids \in Nat
  BY HlFeedAssumption
<1>1. s \in Seq(Fills) /\ Distinct(s) /\ Len(s) \in Nat
  BY DEF Memories
<1> DEFINE T == Fills \ {i}
<1>2. IsFiniteSet(T) /\ Cardinality(T) = MaxHlFills - 1
  BY FillsFinite, FS_RemoveElement
<1>3. \A j \in 1 .. Len(s) : s[j] \in T
  BY <1>1, SetOfSeq
<1> HIDE DEF T
<1>4. s \in [1 .. Len(s) -> T]
  BY <1>1, <1>3
<1>5. s \in Injection(1 .. Len(s), T)
  BY <1>1, <1>4 DEF Injection, IsInjective, Distinct
<1>6. Cardinality(1 .. Len(s)) <= Cardinality(T)
  BY <1>2, <1>5, FS_Injection
<1>7. Cardinality(1 .. Len(s)) = Len(s)
  <2>1. PICK n \in Nat : n = Len(s)
    BY <1>1
  <2>2. 1 \in Int /\ n \in Int /\ n - 1 + 1 = n /\ (1 <= n \/ n = 0)
    OBVIOUS
  <2>3. Cardinality(1 .. n) = IF 1 > n THEN 0 ELSE n - 1 + 1
    BY <2>2, FS_Interval
  <2> QED BY <2>1, <2>2, <2>3
<1> QED BY <1>0, <1>1, <1>2, <1>6, <1>7

LEMMA RememberOne ==
  ASSUME MaxHlFills <= MaxTids, NEW s \in Memories, NEW i \in Fills
  PROVE  Remember(s, i) \in Memories /\ ToSet(Remember(s, i)) = ToSet(s) \cup {i}
<1>1. s \in Seq(Fills) /\ Distinct(s) /\ Len(s) \in Nat
  BY DEF Memories
<1>2. CASE i \in ToSet(s)
  BY <1>2 DEF Remember
<1>3. CASE i \notin ToSet(s)
  <2>1. Len(s) < MaxTids /\ MaxTids \in Nat
    BY <1>3, RoomForOne, HlFeedAssumption
  <2>2. PICK t : t = Append(s, i)
    OBVIOUS
  <2>3. Remember(s, i) = t
    BY <1>1, <1>3, <2>1, <2>2 DEF Remember
  <2>4. /\ t \in Seq(Fills) /\ Len(t) = Len(s) + 1 /\ t[Len(s) + 1] = i
        /\ \A j \in 1 .. Len(s) : t[j] = s[j]
    BY <1>1, <2>2
  <2>5. \A j \in 1 .. Len(s) : s[j] # i
    BY <1>1, <1>3, SetOfSeq
  <2>6. \A j \in 1 .. Len(t) : j = Len(s) + 1 \/ j \in 1 .. Len(s)
    BY <1>1, <2>4
  <2>7. Distinct(t)
    BY <1>1, <2>4, <2>5, <2>6 DEF Distinct
  <2>8. ASSUME NEW x PROVE x \in ToSet(t) <=> x \in ToSet(s) \cup {i}
    <3>1. ASSUME x \in ToSet(t) PROVE x \in ToSet(s) \cup {i}
      <4>1. PICK j \in 1 .. Len(t) : x = t[j]
        BY <2>4, <3>1, SetOfSeq
      <4> QED BY <1>1, <2>4, <2>6, <4>1, SetOfSeq
    <3>2. ASSUME x \in ToSet(s) \cup {i} PROVE x \in ToSet(t)
      <4>1. CASE x = i
        <5>1. Len(s) + 1 \in 1 .. Len(t)
          BY <1>1, <2>4
        <5> QED BY <2>4, <4>1, <5>1, SetOfSeq
      <4>2. CASE x \in ToSet(s)
        <5>1. PICK j \in 1 .. Len(s) : x = s[j]
          BY <1>1, <4>2, SetOfSeq
        <5>2. j \in 1 .. Len(t) /\ x = t[j]
          BY <1>1, <2>4, <5>1
        <5> QED BY <2>4, <5>2, SetOfSeq
      <4> QED BY <3>2, <4>1, <4>2
    <3> QED BY <3>1, <3>2
  <2> QED BY <2>3, <2>4, <2>7, <2>8 DEF Memories
<1> QED BY <1>2, <1>3

LEMMA RememberAll ==
  ASSUME MaxHlFills <= MaxTids, NEW s \in Memories, NEW news \in SUBSET Fills
  PROVE  /\ Remembered(s, news) \in Memories
         /\ ToSet(Remembered(s, news)) = ToSet(s) \cup news
<1> DEFINE N == MaxHlFills
           F(k) == [i \in 0 .. MaxHlFills |->
                      IF i = 0 THEN s ELSE IF i \in news THEN Remember(k[i - 1], i) ELSE k[i - 1]]
           g == [x \in Memories \X (1 .. N) |->
                   IF x[2] \in news THEN Remember(x[1], x[2]) ELSE x[1]]
           u == CHOOSE k : k = F(k)
<1>0. N \in Nat
  BY HlFeedAssumption
<1>1. \A q \in Memories, m \in 1 .. N : g[<<q, m>>] = IF m \in news THEN Remember(q, m) ELSE q
  OBVIOUS
<1>2. ASSUME NEW q \in Memories, NEW m \in 1 .. N
      PROVE  /\ g[<<q, m>>] \in Memories
             /\ ToSet(g[<<q, m>>]) = ToSet(q) \cup (news \cap {m})
  <2>1. m \in Fills
    BY DEF Fills
  <2>2. CASE m \in news
    BY <1>1, <2>1, <2>2, RememberOne
  <2>3. CASE m \notin news
    BY <1>1, <2>3
  <2> QED BY <2>2, <2>3
<1>3. g \in [Memories \X (1 .. N) -> Memories]
  <2>1. \A x \in Memories \X (1 .. N) : x[1] \in Memories /\ x[2] \in 1 .. N /\ x = <<x[1], x[2]>>
    OBVIOUS
  <2>2. \A x \in Memories \X (1 .. N) : g[x] \in Memories
    <3> SUFFICES ASSUME NEW x \in Memories \X (1 .. N) PROVE g[x] \in Memories
      OBVIOUS
    <3>1. PICK q \in Memories, m \in 1 .. N : x = <<q, m>>
      OBVIOUS
    <3> HIDE DEF g
    <3> QED BY <1>2, <3>1
  <2> QED BY <2>2
<1> HIDE DEF g
<1>r. PICK t : RunBy(t, g, s, Memories, N)
  BY <1>0, <1>3, RunOf
<1>4. /\ t \in [0 .. N -> Memories] /\ t[0] = s
      /\ \A m \in 1 .. N : t[m] = g[<<t[m - 1], m>>]
  BY <1>r DEF RunBy
<1>5. \A i \in 0 .. N :
        t[i] = IF i = 0 THEN s ELSE IF i \in news THEN Remember(t[i - 1], i) ELSE t[i - 1]
  <2> SUFFICES ASSUME NEW i \in 0 .. N, i # 0
               PROVE  t[i] = IF i \in news THEN Remember(t[i - 1], i) ELSE t[i - 1]
    BY <1>4
  <2>1. i \in 1 .. N /\ i - 1 \in 0 .. N
    BY <1>0
  <2> QED BY <1>1, <1>4, <2>1
<1>6. t = F(t)
  BY <1>4, <1>5
<1>7. u = F(u)
  BY <1>6
<1>8. Remembered(s, news) = u[N]
  BY DEF Remembered
<1>9. u = [i \in 0 .. N |->
             IF i = 0 THEN s ELSE IF i \in news THEN Remember(u[i - 1], i) ELSE u[i - 1]]
  BY <1>7
<1> HIDE DEF u, F, N
<1> DEFINE H == {n \in 0 .. N : u[n] \in Memories /\ ToSet(u[n]) = ToSet(s) \cup (news \cap 1 .. n)}
<1>10. 0 \in H
  <2>1. u[0] = s /\ 1 .. 0 = {}
    BY <1>0, <1>9
  <2> QED BY <1>0, <2>1
<1>11. ASSUME NEW n \in 0 .. N, n \in H, n < N
       PROVE  n + 1 \in H
  <2>1. n \in Nat /\ n + 1 \in 0 .. N /\ n + 1 # 0 /\ (n + 1) - 1 = n /\ n + 1 \in 1 .. N
    BY <1>0, <1>11
  <2>2. PICK q, m : q = u[n] /\ m = n + 1
    OBVIOUS
  <2>3. q \in Memories /\ ToSet(q) = ToSet(s) \cup (news \cap 1 .. n) /\ m \in 1 .. N
    BY <1>11, <2>1, <2>2
  <2>4. u[m] = g[<<q, m>>]
    BY <1>1, <1>9, <2>1, <2>2, <2>3
  <2>5. u[m] \in Memories /\ ToSet(u[m]) = ToSet(q) \cup (news \cap {m})
    BY <1>2, <2>3, <2>4
  <2>6. 1 .. m = (1 .. n) \cup {m}
    BY <2>1, <2>2
  <2>7. ToSet(u[m]) = ToSet(s) \cup (news \cap 1 .. m)
    BY <2>3, <2>5, <2>6
  <2> QED BY <2>1, <2>2, <2>5, <2>7
<1> HIDE DEF H
<1>12. N \in H
  <2>1. \A n \in 0 .. N : n \in H
    BY <1>0, <1>10, <1>11, UpTo
  <2> QED BY <2>1, <1>0
<1>13. news \cap 1 .. N = news
  BY DEF N, Fills
<1> QED BY <1>8, <1>12, <1>13 DEF H

-----------------------------------------------------------------------------
HfFrames == [kind : {"fill", "snapshot", "bbo"}, n : Nat]

(* Frames on their way, of k fills made of which those of S are known.     *)
FramesOK(fr, k, S) ==
  /\ fr \in Seq(HfFrames)
  /\ \A p \in 1 .. Len(fr) :
       /\ fr[p].n <= k
       /\ fr[p].kind = "fill" => fr[p].n \in (1 .. k) \ S
       /\ \A q \in 1 .. Len(fr) :
            p < q /\ fr[p].kind # "bbo" /\ fr[q].kind = "fill" => fr[p].n < fr[q].n

FeedInv ==
  /\ hfNow \in Nat /\ fillAt \in Seq(Nat) /\ Len(fillAt) <= MaxHlFills
  /\ tids \in Memories /\ ToSet(tids) \subseteq 1 .. Len(fillAt)
  /\ takenFills \in [Fills -> Nat]
  /\ \A i \in Fills : takenFills[i] = IF i \in ToSet(tids) THEN 1 ELSE 0
  /\ FramesOK(frames, Len(fillAt), ToSet(tids))

LEMMA FrameFields ==
  ASSUME NEW fr \in Seq(HfFrames), NEW p \in 1 .. Len(fr)
  PROVE  fr[p].n \in Nat /\ fr[p].kind \in {"fill", "snapshot", "bbo"}
<1>1. fr[p] \in HfFrames
  OBVIOUS
<1> QED BY <1>1 DEF HfFrames

LEMMA FramesGrow ==
  ASSUME NEW fr, NEW k \in Nat, NEW S, FramesOK(fr, k, S)
  PROVE  FramesOK(fr, k + 1, S)
<1>1. \A p \in 1 .. Len(fr) : fr[p].n \in Nat /\ fr[p].n <= k
  BY FrameFields DEF FramesOK
<1>2. \A p \in 1 .. Len(fr) : fr[p].n <= k + 1
  BY <1>1
<1>3. \A x \in 1 .. k : x \in 1 .. k + 1
  OBVIOUS
<1> QED BY <1>2, <1>3 DEF FramesOK

LEMMA FrameBehind ==
  ASSUME NEW fr, NEW k \in Nat, NEW S, FramesOK(fr, k, S), NEW f \in HfFrames, f.n <= k,
         f.kind = "fill" =>
           f.n \in (1 .. k) \ S /\ \A p \in 1 .. Len(fr) : fr[p].n < f.n
  PROVE  FramesOK(Append(fr, f), k, S)
<1>1. PICK g : g = Append(fr, f)
  OBVIOUS
<1>2. fr \in Seq(HfFrames) /\ Len(fr) \in Nat
  BY DEF FramesOK
<1>3. /\ g \in Seq(HfFrames) /\ Len(g) = Len(fr) + 1 /\ g[Len(fr) + 1] = f
      /\ \A p \in 1 .. Len(fr) : g[p] = fr[p]
  BY <1>1, <1>2
<1>4. \A p \in 1 .. Len(g) : p \in 1 .. Len(fr) \/ p = Len(fr) + 1
  BY <1>2, <1>3
<1>5. ASSUME NEW p \in 1 .. Len(g)
      PROVE  g[p].n <= k /\ (g[p].kind = "fill" => g[p].n \in (1 .. k) \ S)
  BY <1>3, <1>4 DEF FramesOK
<1>6. ASSUME NEW p \in 1 .. Len(g), NEW q \in 1 .. Len(g),
             p < q, g[p].kind # "bbo", g[q].kind = "fill"
      PROVE  g[p].n < g[q].n
  <2>1. p \in 1 .. Len(fr)
    BY <1>2, <1>3, <1>4, <1>6
  <2>2. CASE q \in 1 .. Len(fr)
    BY <1>3, <1>6, <2>1, <2>2 DEF FramesOK
  <2>3. CASE q = Len(fr) + 1
    BY <1>3, <1>6, <2>1, <2>3
  <2> QED BY <1>4, <2>2, <2>3
<1> QED BY <1>1, <1>3, <1>5, <1>6 DEF FramesOK

LEMMA FramesCut ==
  ASSUME NEW fr, NEW k \in Nat, NEW S, FramesOK(fr, k, S), NEW n \in 0 .. Len(fr)
  PROVE  FramesOK(SubSeq(fr, 1, n), k, S)
<1>1. PICK g : g = SubSeq(fr, 1, n)
  OBVIOUS
<1>2. fr \in Seq(HfFrames) /\ Len(fr) \in Nat
  BY DEF FramesOK
<1>3. /\ g \in Seq(HfFrames) /\ Len(g) = n /\ \A p \in 1 .. n : g[p] = fr[p]
  BY <1>1, <1>2
<1>4. \A p \in 1 .. n : p \in 1 .. Len(fr)
  BY <1>2
<1> QED BY <1>1, <1>3, <1>4 DEF FramesOK

(* The first frame is received: the fills that it makes known were not     *)
(* known, and no frame behind it brings one of them.                       *)
Brought(f, S) ==
  {X \in SUBSET Fills : /\ \A i \in X : i \notin S /\ i <= f.n
                        /\ f.kind = "bbo" => X = {}}

LEMMA FrameReceived ==
  ASSUME NEW fr, NEW k \in Nat, NEW S, FramesOK(fr, k, S), fr # <<>>,
         NEW X \in Brought(Head(fr), S)
  PROVE  FramesOK(Tail(fr), k, S \cup X)
<1>1. PICK g, f : g = Tail(fr) /\ f = Head(fr)
  OBVIOUS
<1>2. fr \in Seq(HfFrames) /\ Len(fr) \in Nat /\ Len(fr) # 0
  BY DEF FramesOK
<1>3. f = fr[1] /\ 1 \in 1 .. Len(fr)
  BY <1>1, <1>2
<1>4. /\ g \in Seq(HfFrames) /\ Len(g) = Len(fr) - 1
      /\ \A p \in 1 .. Len(g) : g[p] = fr[p + 1] /\ p + 1 \in 1 .. Len(fr)
  BY <1>1, <1>2
<1>5. ASSUME NEW p \in 1 .. Len(g)
      PROVE  g[p].n <= k /\ (g[p].kind = "fill" => g[p].n \in (1 .. k) \ (S \cup X))
  <2>1. PICK a : a = p + 1
    OBVIOUS
  <2>2. a \in 1 .. Len(fr) /\ g[p] = fr[a] /\ 1 < a
    BY <1>4, <2>1
  <2>3. fr[a].n <= k /\ (fr[a].kind = "fill" => fr[a].n \in (1 .. k) \ S)
    BY <2>2 DEF FramesOK
  <2>4. ASSUME fr[a].kind = "fill" PROVE fr[a].n \notin X
    <3>1. CASE f.kind = "bbo"
      BY <1>1, <3>1 DEF Brought
    <3>2. CASE f.kind # "bbo"
      <4>1. f.n < fr[a].n
        BY <1>3, <2>2, <2>4, <3>2 DEF FramesOK
      <4>2. f.n \in Nat /\ fr[a].n \in Nat
        BY <1>2, <1>3, <2>2, FrameFields
      <4>3. \A i \in X : i \in Nat /\ i <= f.n
        BY <1>1 DEF Brought, Fills
      <4> QED BY <4>1, <4>2, <4>3
    <3> QED BY <3>1, <3>2
  <2> QED BY <2>2, <2>3, <2>4
<1>6. ASSUME NEW p \in 1 .. Len(g), NEW q \in 1 .. Len(g),
             p < q, g[p].kind # "bbo", g[q].kind = "fill"
      PROVE  g[p].n < g[q].n
  <2>1. PICK a, b : a = p + 1 /\ b = q + 1
    OBVIOUS
  <2>2. a \in 1 .. Len(fr) /\ g[p] = fr[a] /\ b \in 1 .. Len(fr) /\ g[q] = fr[b]
    BY <1>4, <2>1
  <2>3. a < b
    BY <1>6, <2>1
  <2> QED BY <1>6, <2>2, <2>3 DEF FramesOK
<1> QED BY <1>1, <1>4, <1>5, <1>6 DEF FramesOK

LEMMA FeedInitInv == HfInit => FeedInv
<1> SUFFICES ASSUME HfInit PROVE FeedInv
  OBVIOUS
<1>1. /\ hfNow = 0 /\ fillAt = <<>> /\ frames = <<>> /\ tids = <<>>
      /\ takenFills = [i \in Fills |-> 0]
  BY DEF HfInit, Fills
<1>2. tids \in Memories /\ ToSet(tids) = {}
  BY <1>1, NothingDistinct DEF Memories, ToSet
<1>3. FramesOK(<<>>, 0, {})
  BY NothingDistinct DEF FramesOK
<1>4. Len(fillAt) = 0 /\ fillAt \in Seq(Nat) /\ 0 <= MaxHlFills
  BY <1>1, HlFeedAssumption
<1> QED BY <1>1, <1>2, <1>3, <1>4 DEF FeedInv

LEMMA TradeKeeps ==
  ASSUME FeedInv, Trade
  PROVE  FeedInv'
<1>1. PICK k, S, fr : k = Len(fillAt) /\ S = ToSet(tids) /\ fr = frames
  OBVIOUS
<1>2. k \in Nat /\ k < MaxHlFills /\ MaxHlFills \in Nat /\ S \subseteq 1 .. k /\ FramesOK(fr, k, S)
  BY <1>1, HlFeedAssumption DEF FeedInv, Trade
<1>3. /\ hfNow' = hfNow /\ tids' = tids /\ takenFills' = takenFills
      /\ fillAt' = Append(fillAt, hfNow)
      /\ frames' = fr \/ frames' = Append(fr, Frame("fill", k + 1))
  BY <1>1 DEF Trade, client
<1>4. fillAt' \in Seq(Nat) /\ Len(fillAt') = k + 1
  BY <1>1, <1>3 DEF FeedInv
<1>5. FramesOK(fr, k + 1, S)
  BY <1>2, FramesGrow
<1>6. FramesOK(Append(fr, Frame("fill", k + 1)), k + 1, S)
  <2>1. PICK f : f = Frame("fill", k + 1)
    OBVIOUS
  <2>2. f \in HfFrames /\ f.n = k + 1
    BY <1>2, <2>1 DEF Frame, HfFrames
  <2>3. fr \in Seq(HfFrames) /\ \A p \in 1 .. Len(fr) : fr[p].n \in Nat /\ fr[p].n <= k
    BY <1>2, FrameFields DEF FramesOK
  <2>4. \A p \in 1 .. Len(fr) : fr[p].n < f.n
    BY <1>2, <2>2, <2>3
  <2>5. f.n \in (1 .. k + 1) \ S /\ k + 1 \in Nat /\ f.n <= k + 1
    BY <1>2, <2>2
  <2>6. FramesOK(Append(fr, f), k + 1, S)
    BY <1>5, <2>2, <2>4, <2>5, FrameBehind
  <2> QED BY <2>1, <2>6
<1>7. S \subseteq 1 .. k + 1
  BY <1>2
<1>8. FramesOK(frames', k + 1, S)
  BY <1>3, <1>5, <1>6
<1> QED BY <1>1, <1>2, <1>3, <1>4, <1>7, <1>8 DEF FeedInv

(* Nothing but the frames on their way changes.                            *)
LEMMA FramesKeep ==
  ASSUME FeedInv, hfNow' \in Nat, UNCHANGED <<fillAt, tids, takenFills>>,
         FramesOK(frames', Len(fillAt), ToSet(tids))
  PROVE  FeedInv'
BY DEF FeedInv

LEMMA ReceiveKeeps ==
  ASSUME MaxHlFills <= MaxTids, FeedInv, Receive
  PROVE  FeedInv'
<1>1. PICK k, S, fr, f : k = Len(fillAt) /\ S = ToSet(tids) /\ fr = frames /\ f = Head(frames)
  OBVIOUS
<1>2. k \in Nat /\ k <= MaxHlFills /\ MaxHlFills \in Nat /\ S \subseteq 1 .. k /\ FramesOK(fr, k, S)
  BY <1>1, HlFeedAssumption DEF FeedInv
<1>3. fr # <<>> /\ frames' = Tail(fr) /\ UNCHANGED <<hfNow, fillAt>>
  BY <1>1 DEF Receive, exchange
<1>4. fr \in Seq(HfFrames) /\ f = fr[1] /\ 1 \in 1 .. Len(fr)
  BY <1>1, <1>2, <1>3 DEF FramesOK
<1>5. /\ f.n \in Nat /\ f.n <= k /\ f.kind \in {"fill", "snapshot", "bbo"}
      /\ f.kind = "fill" => f.n \in (1 .. k) \ S
  BY <1>2, <1>4, FrameFields DEF FramesOK
<1>6. PICK X : /\ X = CASE f.kind = "fill" -> {f.n}
                        [] f.kind = "snapshot" /\ hlConnects > 1 /\ cutAt # Never -> FreshOf(f.n)
                        [] OTHER -> {}
               /\ tids' = Remembered(tids, X)
               /\ takenFills' = [i \in DOMAIN takenFills |->
                                   takenFills[i] + IF i \in X THEN 1 ELSE 0]
  BY <1>1 DEF Receive
<1>7. X \in SUBSET Fills /\ X \subseteq 1 .. k /\ \A i \in X : i \notin S /\ i <= f.n
  <2>1. CASE f.kind = "fill"
    BY <1>2, <1>5, <1>6, <2>1 DEF Fills
  <2>2. CASE f.kind = "snapshot"
    <3>1. X = {} \/ X = FreshOf(f.n)
      BY <1>6, <2>2
    <3>2. \A i \in FreshOf(f.n) : i \in 1 .. f.n /\ i \notin S
      BY <1>1 DEF FreshOf
    <3>3. \A i \in 1 .. f.n : i \in 1 .. k /\ i \in Fills /\ i <= f.n
      BY <1>2, <1>5 DEF Fills
    <3> QED BY <3>1, <3>2, <3>3
  <2>3. CASE f.kind = "bbo"
    BY <1>6, <2>3
  <2> QED BY <1>5, <2>1, <2>2, <2>3
<1>8. X \in Brought(f, S)
  BY <1>6, <1>7 DEF Brought
<1>9. FramesOK(frames', k, S \cup X)
  BY <1>1, <1>2, <1>3, <1>8, FrameReceived
<1>10. tids' \in Memories /\ ToSet(tids') = S \cup X
  BY <1>1, <1>6, <1>7, RememberAll DEF FeedInv
<1>11. takenFills' = [i \in Fills |-> takenFills[i] + IF i \in X THEN 1 ELSE 0]
  BY <1>6 DEF FeedInv
<1>12. takenFills' \in [Fills -> Nat]
  BY <1>11 DEF FeedInv
<1>13. ASSUME NEW i \in Fills
       PROVE  takenFills'[i] = IF i \in ToSet(tids') THEN 1 ELSE 0
  <2>1. takenFills'[i] = takenFills[i] + IF i \in X THEN 1 ELSE 0
    BY <1>11
  <2>2. takenFills[i] = IF i \in S THEN 1 ELSE 0
    BY <1>1 DEF FeedInv
  <2> QED BY <1>7, <1>10, <2>1, <2>2
<1> QED BY <1>1, <1>2, <1>3, <1>7, <1>9, <1>10, <1>12, <1>13 DEF FeedInv

LEMMA FeedStep ==
  ASSUME MaxHlFills <= MaxTids, FeedInv, [HfNext]_hfVars
  PROVE  FeedInv'
<1>1. PICK k, S, fr : k = Len(fillAt) /\ S = ToSet(tids) /\ fr = frames
  OBVIOUS
<1>2. k \in Nat /\ FramesOK(fr, k, S) /\ fr \in Seq(HfFrames) /\ hfNow \in Nat
  BY <1>1 DEF FeedInv, FramesOK
<1>3. FramesOK(<<>>, k, S)
  BY NothingDistinct DEF FramesOK
<1>4. CASE Trade
  BY <1>4, TradeKeeps
<1>5. CASE SendSnapshot
  <2>1. PICK f : f = Frame("snapshot", k)
    OBVIOUS
  <2>2. f \in HfFrames /\ f.n <= k /\ f.kind = "snapshot"
    BY <1>2, <2>1 DEF Frame, HfFrames
  <2>3. FramesOK(Append(fr, f), k, S)
    BY <1>2, <2>2, FrameBehind
  <2> QED BY <1>1, <1>2, <1>5, <2>1, <2>3, FramesKeep DEF SendSnapshot, client
<1>6. CASE SendHlQuote
  <2>1. PICK f : f = Frame("bbo", 0)
    OBVIOUS
  <2>2. f \in HfFrames /\ f.n <= k /\ f.kind = "bbo"
    BY <1>2, <2>1 DEF Frame, HfFrames
  <2>3. FramesOK(Append(fr, f), k, S)
    BY <1>2, <2>2, FrameBehind
  <2> QED BY <1>1, <1>2, <1>6, <2>1, <2>3, FramesKeep DEF SendHlQuote, exchange, client
<1>7. CASE LinkDies
  <2>1. PICK n \in 0 .. Len(fr) : frames' = SubSeq(fr, 1, n)
    BY <1>1, <1>7 DEF LinkDies
  <2>2. FramesOK(SubSeq(fr, 1, n), k, S)
    BY <1>2, FramesCut
  <2> QED BY <1>1, <1>2, <1>7, <2>1, <2>2, FramesKeep DEF LinkDies, client
<1>8. CASE HfTick
  BY <1>1, <1>2, <1>8, FramesKeep DEF HfTick, exchange, client
<1>9. CASE HfConnect
  BY <1>1, <1>2, <1>3, <1>9, FramesKeep DEF HfConnect
<1>10. CASE Disconnected
  BY <1>1, <1>2, <1>10, FramesKeep DEF Disconnected, exchange
<1>11. CASE Receive
  BY <1>11, ReceiveKeeps
<1>12. CASE RingHooks
  BY <1>1, <1>2, <1>12, FramesKeep DEF RingHooks, exchange
<1>13. CASE UNCHANGED hfVars
  BY <1>1, <1>2, <1>13, FramesKeep DEF hfVars
<1> QED BY <1>4, <1>5, <1>6, <1>7, <1>8, <1>9, <1>10, <1>11, <1>12, <1>13 DEF HfNext

-----------------------------------------------------------------------------
(***************************************************************************)
(* The feed by WebSocket.  Who registers everything and who changes the    *)
(* plan exclude each other, so that what the broker streams differs from   *)
(* what is wanted by what is still to send.                                *)
(***************************************************************************)
LfQuiet == keys = {} /\ loop = <<>> /\ ~down

LockFits ==
  /\ runner \in {"login", "lock", "advise", "wait"} /\ lock \in {"none", "run", "plan"}
  /\ runner = "advise" <=> lock = "run"
  /\ runner # "advise" => todo = {}
  /\ lock # "plan" => planner = NoPlan

PlanFits ==
  /\ planner = [add |-> planner.add, remove |-> planner.remove]
  /\ planner.add \subseteq subs /\ planner.remove \cap subs = {}

StreamFits ==
  up =>
    /\ runner = "lock" => server \subseteq subs \cup planner.remove
    /\ runner = "advise" => server \cup todo = subs
    /\ runner = "wait" => server = (subs \ planner.add) \cup planner.remove

LfInv == api = "ws" => LfQuiet /\ LockFits /\ PlanFits /\ StreamFits /\ (connected <=> runner # "login")

LEMMA LfInitInv == LfInit => LfInv
BY DEF LfInit, LfInv, LfQuiet, LockFits, PlanFits, StreamFits, NoPlan

LEMMA LfStep == LfInv /\ [LfNext]_lfVars => LfInv'
<1> SUFFICES ASSUME LfInv, [LfNext]_lfVars, api' = "ws" PROVE LfInv'
  BY DEF LfInv
<1>0. api = "ws" /\ LfQuiet /\ LockFits /\ PlanFits /\ StreamFits /\ (connected <=> runner # "login")
  BY DEF LfNext, lfVars, LfInv, OnLogin, LfDrop, RunLoop, Login, LoggedIn, LfConnect, TakeLock,
         AdviseOne, AdviseDone, LoopEnded, Plan, PlanAdds, PlanRemoves, PlanDone
<1> USE <1>0 DEF LfInv, LfQuiet, LockFits, PlanFits, StreamFits
<1>1. ~OnLogin /\ ~RunLoop /\ ~Login /\ ~LoggedIn
  BY DEF OnLogin, RunLoop, Login, LoggedIn
<1>2. CASE LfDrop
  BY <1>2 DEF LfDrop
<1>3. CASE LfConnect
  BY <1>3 DEF LfConnect
<1>4. CASE TakeLock
  BY <1>4 DEF TakeLock, NoPlan
<1>5. CASE AdviseOne
  BY <1>5 DEF AdviseOne, Advise
<1>6. CASE AdviseDone
  BY <1>6 DEF AdviseDone, LetGo, NoPlan
<1>7. CASE LoopEnded
  BY <1>7 DEF LoopEnded, LetGo
<1>8. CASE Plan
  BY <1>8 DEF Plan, NoPlan
<1>9. CASE PlanAdds
  BY <1>9 DEF PlanAdds, Advise
<1>10. CASE PlanRemoves
  BY <1>10 DEF PlanRemoves, Unadvise
<1>11. CASE PlanDone
  BY <1>11 DEF PlanDone, NoPlan
<1>12. CASE UNCHANGED lfVars
  BY <1>12 DEF lfVars
<1> QED BY <1>1, <1>2, <1>3, <1>4, <1>5, <1>6, <1>7, <1>8, <1>9, <1>10, <1>11, <1>12 DEF LfNext

LEMMA LfResult == LfInv => FeedServesPlan
<1> SUFFICES ASSUME LfInv, api = "ws", Settled PROVE server = subs
  BY DEF FeedServesPlan
<1>1. /\ LockFits /\ StreamFits
      /\ up /\ runner = "wait" /\ lock = "none"
  BY DEF LfInv, Settled
<1>2. server = (subs \ planner.add) \cup planner.remove
  BY <1>1 DEF StreamFits
<1>3. planner.add = {} /\ planner.remove = {}
  BY <1>1 DEF LockFits, NoPlan
<1> QED BY <1>2, <1>3

-----------------------------------------------------------------------------
(***************************************************************************)
(* The list of the futures orders, page by page.  What was at work all the *)
(* while and has a number read past, or a code read past, was listed.      *)
(***************************************************************************)
Listings == [at : Nat, key : Nat, page : Nat, got : SUBSET AccountIds,
             since : SUBSET AccountIds, tries : Nat]

KnownInv ==
  /\ \A i \in AccountIds : atBroker[i] \in CodesOf(i[1]) \cup {NoNumber}
  /\ working \cup answering \subseteq {i \in AccountIds : atBroker[i] # NoNumber}
  /\ listing \in Listings
  /\ listing # NoList => listing.at # 0
  /\ listing.since \subseteq {i \in working : i[1] = "d"}
  /\ ListedIsKnown

(* An order of code c and of number n was read past.                       *)
ReadPast(l, c, n) ==
  \E k \in 1 .. Len(Codes) : c = Codes[k] /\ (k < l.at \/ (k = l.at /\ n <= l.key))

ReadInv ==
  /\ listing.page < MaxPages /\ listing.page * PageSize <= listing.key
  /\ \A i \in listing.since : ReadPast(listing, atBroker[i], i[2]) => i \in listing.got

(* Different futures orders have different numbers.                        *)
LEMMA CountedByNumber ==
  ASSUME NEW T \in SUBSET ({"d"} \X Nat), NEW a \in Nat, NEW m \in Nat, a <= m,
         \A j \in T : a < j[2] /\ j[2] <= m
  PROVE  IsFiniteSet(T) /\ Cardinality(T) \in Nat /\ Cardinality(T) <= m - a
<1> DEFINE N == (a + 1) .. m
           f == [j \in T |-> j[2]]
<1>1. \A j \in T : j = <<"d", j[2]>> /\ j[2] \in N
  OBVIOUS
<1>2. f \in Injection(T, N)
  BY <1>1 DEF Injection, IsInjective
<1>3. IsFiniteSet(N) /\ Cardinality(N) = m - a
  <2>1. a + 1 \in Int /\ m \in Int
    OBVIOUS
  <2>2. IsFiniteSet(N) /\ Cardinality(N) = IF a + 1 > m THEN 0 ELSE m - (a + 1) + 1
    BY <2>1, FS_Interval
  <2> QED BY <2>2
<1> HIDE DEF N, f
<1>4. IsFiniteSet(T) /\ Cardinality(T) <= Cardinality(N)
  BY <1>2, <1>3, FS_Injection
<1> QED BY <1>3, <1>4, FS_CardinalityType

(* A page of p of the orders B, whose numbers are above a: it is all of    *)
(* them, or it reads past p numbers and leaves none of those out.          *)
FirstOf(B, p) == {i \in B : Cardinality({j \in B : j[2] < i[2]}) < p}

LEMMA PageIsFull ==
  ASSUME NEW B \in SUBSET ({"d"} \X Nat), NEW a \in Nat, NEW b \in Nat, NEW p \in Nat \ {0},
         \A i \in B : a < i[2] /\ i[2] <= b
  PROVE  /\ b <= a + p => FirstOf(B, p) = B
         /\ FirstOf(B, p) # B =>
              /\ LastOf(FirstOf(B, p)) \in Nat /\ a + p <= LastOf(FirstOf(B, p))
              /\ \A i \in B : i[2] <= LastOf(FirstOf(B, p)) => i \in FirstOf(B, p)
<1> DEFINE Below(n) == {j \in B : j[2] < n}
           P == FirstOf(B, p)
<1>1. \A i \in B : i[2] \in Nat /\ a < i[2] /\ i[2] <= b
  OBVIOUS
<1>2. P = {i \in B : Cardinality(Below(i[2])) < p}
  BY DEF FirstOf
<1>3. ASSUME NEW n \in Nat, NEW m \in Nat, \A j \in Below(n) : j[2] <= m
      PROVE  /\ IsFiniteSet(Below(n)) /\ Cardinality(Below(n)) \in Nat
             /\ a <= m => Cardinality(Below(n)) <= m - a
             /\ Below(n) # {} => a < m
  <2>1. Below(n) \in SUBSET ({"d"} \X Nat) /\ \A j \in Below(n) : a < j[2] /\ j[2] \in Nat
    BY <1>1
  <2>2. CASE a <= m
    <3>1. \A j \in Below(n) : a < j[2] /\ j[2] <= m
      BY <1>3, <2>1
    <3> HIDE DEF Below
    <3>2. IsFiniteSet(Below(n)) /\ Cardinality(Below(n)) \in Nat /\ Cardinality(Below(n)) <= m - a
      BY <2>1, <2>2, <3>1, CountedByNumber
    <3>3. Below(n) # {} => a < m
      BY <2>1, <3>1
    <3> QED BY <2>2, <3>2, <3>3
  <2>3. CASE ~(a <= m)
    <3>1. Below(n) = {}
      BY <1>3, <2>1, <2>3
    <3> HIDE DEF Below
    <3> QED BY <2>3, <3>1, FS_EmptySet
  <2> QED BY <2>2, <2>3
<1> HIDE DEF Below, P
<1>4. ASSUME NEW i \in B, i \notin P
      PROVE  /\ p <= Cardinality(Below(i[2])) /\ Below(i[2]) # {} /\ a + p < i[2]
  <2>1. PICK n \in Nat : n = i[2] /\ a < n
    BY <1>1
  <2>2. n - 1 \in Nat /\ a <= n - 1
    BY <2>1
  <2>3. \A j \in Below(n) : j[2] <= n - 1
    BY <1>1, <2>1 DEF Below
  <2>4. Cardinality(Below(n)) \in Nat /\ Cardinality(Below(n)) <= n - 1 - a
    BY <1>3, <2>2, <2>3
  <2>5. p <= Cardinality(Below(n))
    BY <1>2, <1>4, <2>1, <2>4
  <2>6. Below(n) # {}
    BY <2>5, FS_EmptySet
  <2>7. a + p < n
    BY <2>4, <2>5
  <2> QED BY <2>1, <2>5, <2>6, <2>7
<1>5. P \subseteq B
  BY <1>2
<1>6. ASSUME b <= a + p PROVE P = B
  <2>1. \A i \in B : i \in P
    BY <1>1, <1>4, <1>6
  <2> QED BY <1>5, <2>1
<1>7. ASSUME P # B
      PROVE  /\ LastOf(P) \in Nat /\ a + p <= LastOf(P)
             /\ \A i \in B : i[2] <= LastOf(P) => i \in P
  <2>1. PICK x \in B : x \notin P /\ \A i \in B : i \notin P => x[2] <= i[2]
    <3>1. PICK S : S = {i[2] : i \in B \ P}
      OBVIOUS
    <3>2. S \in SUBSET Nat /\ S # {}
      BY <1>1, <1>5, <1>7, <3>1
    <3>3. PICK n \in S : \A m \in S : n <= m
      BY <3>2, LeastOf
    <3> QED BY <3>1, <3>3
  <2>2. x[2] \in Nat /\ Below(x[2]) \subseteq P /\ Below(x[2]) # {} /\ p <= Cardinality(Below(x[2]))
    <3>1. \A j \in Below(x[2]) : j \in B /\ j[2] < x[2]
      BY DEF Below
    <3>2. \A j \in Below(x[2]) : j \in P
      BY <1>1, <2>1, <3>1
    <3> QED BY <1>1, <1>4, <2>1, <3>2
  <2>3. PICK y \in P : \A i \in P : i[2] <= y[2]
    <3>1. PICK S : S = {b - i[2] : i \in P}
      OBVIOUS
    <3>2. \A i \in P : b - i[2] \in Nat
      BY <1>1, <1>5
    <3>3. S \in SUBSET Nat /\ S # {}
      BY <2>2, <3>1, <3>2
    <3>4. PICK n \in S : \A m \in S : n <= m
      BY <3>3, LeastOf
    <3>5. PICK y \in P : n = b - y[2]
      BY <3>1, <3>4
    <3>6. \A i \in P : b - y[2] <= b - i[2]
      BY <3>1, <3>4, <3>5
    <3>7. \A i \in P : i[2] <= y[2]
      BY <1>1, <1>5, <3>6
    <3> QED BY <3>5, <3>7
  <2>4. PICK L : L = LastOf(P)
    OBVIOUS
  <2>5. L \in {i[2] : i \in P} /\ \A i \in P : i[2] <= L
    <3>1. \E n \in {i[2] : i \in P} : \A i \in P : i[2] <= n
      BY <2>3
    <3> QED BY <2>4, <3>1 DEF LastOf
  <2>6. PICK z \in P : L = z[2]
    BY <2>5
  <2>7. L \in Nat /\ a < L
    BY <1>1, <1>5, <2>6
  <2>8. \A j \in Below(x[2]) : j[2] <= L
    BY <2>2, <2>5
  <2>9. Cardinality(Below(x[2])) \in Nat /\ Cardinality(Below(x[2])) <= L - a
    BY <1>3, <2>2, <2>7, <2>8
  <2>10. a + p <= L
    BY <2>2, <2>7, <2>9
  <2>11. ASSUME NEW i \in B, i[2] <= L PROVE i \in P
    <3>1. i[2] \in Nat /\ \A j \in Below(i[2]) : j \in Below(L)
      BY <1>1, <2>7, <2>11 DEF Below
    <3>2. \A j \in Below(L) : j[2] <= L
      BY <1>1, <2>7 DEF Below
    <3>3. IsFiniteSet(Below(L)) /\ Cardinality(Below(L)) \in Nat
      BY <1>3, <2>7, <3>2
    <3>4. IsFiniteSet(Below(i[2])) /\ Cardinality(Below(i[2])) <= Cardinality(Below(L))
      BY <3>1, <3>3, FS_Subset
    <3>5. Cardinality(Below(L)) < p
      BY <1>2, <2>6
    <3>6. Cardinality(Below(i[2])) \in Nat
      BY <3>4, FS_CardinalityType
    <3>7. Cardinality(Below(i[2])) < p
      BY <3>3, <3>4, <3>5, <3>6
    <3> QED BY <1>2, <2>11, <3>7
  <2> QED BY <2>4, <2>7, <2>10, <2>11
<1> QED BY <1>6, <1>7 DEF P

LEMMA CodesAreNamed == \A a : NoNumber \notin CodesOf(a)
<1>1. Stock # NoNumber
  BY DEF Stock, NoNumber
<1>2. \A i \in DOMAIN Codes : Codes[i] # NoNumber
  BY LsAccountAssumption
<1> QED BY <1>1, <1>2 DEF CodesOf

LEMMA NoListIsList == NoList \in Listings /\ NoList.since = {} /\ NoList.got = {}
BY DEF NoList, Listings

LEMMA ListingFields ==
  ASSUME NEW l \in Listings
  PROVE  /\ l.at \in Nat /\ l.key \in Nat /\ l.page \in Nat /\ l.tries \in Nat
         /\ l.got \subseteq AccountIds /\ l.since \subseteq AccountIds
BY DEF Listings

LEMMA KnownInitInv == LsAccountInit => KnownInv
BY NoListIsList DEF LsAccountInit, KnownInv, ListedIsKnown

LEMMA ReadInitInv == LsAccountInit => ReadInv
BY LsAccountAssumption, NoListIsList DEF LsAccountInit, ReadInv, NoList

(* Nothing of the list changes but that orders ended.                      *)
LEMMA ListShrinks ==
  ASSUME KnownInv, NEW S, S \subseteq listing.since,
         listing' = [listing EXCEPT !.since = S] \/ (listing' = listing /\ S = listing.since)
  PROVE  /\ listing' \in Listings /\ (listing' # NoList => listing'.at # 0)
         /\ listing'.since = S /\ listing'.got = listing.got /\ listing'.at = listing.at
         /\ listing'.key = listing.key /\ listing'.page = listing.page
<1>1. listing \in Listings
  BY DEF KnownInv
<1>2. listing = NoList => S = {} /\ listing' = NoList
  BY <1>1, NoListIsList DEF NoList
<1>3. listing # NoList => listing.at # 0
  BY DEF KnownInv
<1> QED BY <1>1, <1>2, <1>3 DEF Listings

(* Orders come, are answered and end.                                      *)
LEMMA OrdersMove ==
  ASSUME AccountInv, KnownInv,
         NEW S, S \subseteq listing.since, S \subseteq working',
         listing' = [listing EXCEPT !.since = S] \/ (listing' = listing /\ S = listing.since),
         \A i \in AccountIds : atBroker[i] # NoNumber => atBroker'[i] = atBroker[i],
         \A i \in AccountIds : atBroker'[i] \in CodesOf(i[1]) \cup {NoNumber},
         working' \cup answering' \subseteq {i \in AccountIds : atBroker'[i] # NoNumber},
         \A i \in AccountIds : contexts[i] # NoNumber => contexts'[i] # NoNumber
  PROVE  KnownInv' /\ (ReadInv => ReadInv')
<1>1. /\ listing' \in Listings /\ (listing' # NoList => listing'.at # 0)
      /\ listing'.since = S /\ listing'.got = listing.got /\ listing'.at = listing.at
      /\ listing'.key = listing.key /\ listing'.page = listing.page
  BY ListShrinks
<1>2. S \subseteq {i \in working' : i[1] = "d"}
  BY DEF KnownInv
<1>3. \A i \in listing.got : contexts'[i] # NoNumber
  BY DEF KnownInv, ListedIsKnown, Listings
<1>4. KnownInv'
  BY <1>1, <1>2, <1>3 DEF KnownInv, ListedIsKnown
<1>5. ASSUME ReadInv PROVE ReadInv'
  <2>1. \A i \in S : atBroker'[i] = atBroker[i]
    BY DEF KnownInv
  <2>2. \A c, n : ReadPast(listing', c, n) = ReadPast(listing, c, n)
    BY <1>1 DEF ReadPast
  <2>3. \A i \in S : ReadPast(listing', atBroker'[i], i[2]) => i \in listing'.got
    BY <1>1, <1>5, <2>1, <2>2 DEF ReadInv
  <2>4. listing'.page < MaxPages /\ listing'.page * PageSize <= listing'.key
    BY <1>1, <1>5 DEF ReadInv
  <2> QED BY <1>1, <2>3, <2>4 DEF ReadInv
<1> QED BY <1>4, <1>5

LEMMA AccountMoves ==
  ASSUME AccountInv, KnownInv, NEW i \in AccountIds,
         \/ \E c \in CodesOf(i[1]), ours \in BOOLEAN : TakeOrder(i[1], i[2], c, ours)
         \/ PlaceAnswered(i) \/ OrderEnds(i) \/ CancelOrder(i)
         \/ \E n \in AccountNumbers(i[1]) : AmendOrder(i, n)
  PROVE  KnownInv' /\ (ReadInv => ReadInv')
<1>0. /\ listing.since \subseteq working
      /\ working \cup answering \subseteq {j \in AccountIds : atBroker[j] # NoNumber}
      /\ \A j \in AccountIds : atBroker[j] \in CodesOf(j[1]) \cup {NoNumber}
      /\ atBroker \in [AccountIds -> CodeNames \cup {NoNumber}]
      /\ contexts \in [AccountIds -> CodeNames \cup {NoNumber}]
  BY DEF KnownInv, AccountInv
<1>1. ASSUME NEW c \in CodesOf(i[1]), NEW ours \in BOOLEAN, TakeOrder(i[1], i[2], c, ours)
      PROVE  KnownInv' /\ (ReadInv => ReadInv')
  <2>1. <<i[1], i[2]>> = i
    BY DEF AccountIds
  <2>2. /\ atBroker[i] = NoNumber /\ atBroker' = [atBroker EXCEPT ![i] = c] /\ c # NoNumber
        /\ working' = working \cup {i} /\ answering' \subseteq answering \cup {i}
        /\ UNCHANGED <<contexts, listing>>
    BY <1>1, <2>1, CodesAreNamed DEF TakeOrder, Numbered
  <2> QED BY <1>0, <2>2, OrdersMove
<1>2. CASE PlaceAnswered(i)
  <2>1. /\ UNCHANGED <<atBroker, working, listing>> /\ answering' \subseteq answering
        /\ contexts' = [contexts EXCEPT ![i] = atBroker[i]] /\ atBroker[i] # NoNumber
    BY <1>0, <1>2 DEF PlaceAnswered
  <2>2. \A j \in AccountIds : contexts[j] # NoNumber => contexts'[j] # NoNumber
    BY <1>0, <2>1
  <2> QED BY <1>0, <2>1, <2>2, OrdersMove
<1>3. CASE OrderEnds(i) \/ CancelOrder(i)
  <2>1. UNCHANGED <<atBroker, answering, contexts>>
    BY <1>3 DEF OrderEnds, CancelOrder
  <2>2. CASE UNCHANGED <<working, listing>>
    BY <1>0, <2>1, <2>2, OrdersMove
  <2>3. CASE /\ working' = working \ {i}
             /\ listing' = [listing EXCEPT !.since = listing.since \ {i}]
    <3>1. PICK S : S = listing.since \ {i}
      OBVIOUS
    <3>2. /\ S \subseteq listing.since /\ S \subseteq working'
          /\ listing' = [listing EXCEPT !.since = S]
          /\ working' \cup answering' \subseteq {j \in AccountIds : atBroker'[j] # NoNumber}
      BY <1>0, <2>1, <2>3, <3>1
    <3> QED BY <1>0, <2>1, <3>2, OrdersMove
  <2> QED BY <1>3, <2>2, <2>3 DEF OrderEnds, CancelOrder
<1>4. ASSUME NEW n \in AccountNumbers(i[1]), AmendOrder(i, n)
      PROVE  KnownInv' /\ (ReadInv => ReadInv')
  <2>1. PICK j : j = <<i[1], n>>
    OBVIOUS
  <2>2. /\ j \in AccountIds /\ j[1] = i[1] /\ atBroker[j] = NoNumber /\ atBroker[i] # NoNumber
        /\ atBroker' = [atBroker EXCEPT ![j] = atBroker[i]]
        /\ contexts' = [contexts EXCEPT ![j] = contexts[i]] /\ contexts[i] # NoNumber
        /\ working' = (working \ {i}) \cup {j} /\ answering' = answering
        /\ listing' = [listing EXCEPT !.since = listing.since \ {i}]
    BY <1>0, <1>4, <2>1 DEF AmendOrder, Numbered, Require
  <2>3. \A k \in AccountIds : atBroker'[k] \in CodesOf(k[1]) \cup {NoNumber}
    BY <1>0, <2>2
  <2>4. PICK S : S = listing.since \ {i}
    OBVIOUS
  <2>5. /\ S \subseteq listing.since /\ S \subseteq working'
        /\ listing' = [listing EXCEPT !.since = S]
    BY <1>0, <2>2, <2>4
  <2>6. \A k \in AccountIds : atBroker[k] # NoNumber => atBroker'[k] = atBroker[k]
    BY <1>0, <2>2
  <2>7. atBroker'[j] # NoNumber
    BY <1>0, <2>2
  <2>8. working' \cup answering' \subseteq {k \in AccountIds : atBroker'[k] # NoNumber}
    BY <1>0, <2>2, <2>6, <2>7
  <2>9. \A k \in AccountIds : contexts[k] # NoNumber => contexts'[k] # NoNumber
    BY <1>0, <2>2
  <2> QED BY <2>3, <2>5, <2>6, <2>8, <2>9, OrdersMove
<1> QED BY <1>1, <1>2, <1>3, <1>4

(* The list is another one: none, or one that begins.                      *)
LEMMA ListAnew ==
  ASSUME AccountInv, KnownInv, NEW l \in Listings, listing' = l,
         l # NoList => l.at # 0, l.got = {},
         l.since \subseteq {i \in working' : i[1] = "d"},
         UNCHANGED <<atBroker, working>>, answering' \subseteq answering
  PROVE  KnownInv'
BY DEF KnownInv, ListedIsKnown

LEMMA ReadAnew ==
  ASSUME KnownInv, listing' = NoList \/ BeginList
  PROVE  ReadInv'
<1>0. MaxPages \in Nat \ {0} /\ PageSize \in Nat
  BY LsAccountAssumption
<1>1. listing'.page = 0 /\ listing'.key = 0 /\ listing'.got = {}
  <2>1. NoList.page = 0 /\ NoList.key = 0 /\ NoList.got = {}
    BY DEF NoList
  <2>2. CASE BeginList
    BY <2>2 DEF BeginList, NoList
  <2> QED BY <2>1, <2>2
<1>2. CASE listing' = NoList
  BY <1>0, <1>1, <1>2, NoListIsList DEF ReadInv
<1>3. CASE BeginList
  <2>1. listing'.at = 1 /\ listing'.since \subseteq working /\ atBroker' = atBroker
        /\ \A i \in listing'.since : i[1] = "d"
    BY <1>3 DEF BeginList, NoList
  <2>2. \A i \in listing'.since : i[2] \in Nat /\ i[2] # 0
    BY <2>1 DEF KnownInv, AccountIds, AccountNumbers
  <2>3. \A i \in listing'.since : ~ReadPast(listing', atBroker'[i], i[2])
    BY <1>1, <2>1, <2>2 DEF ReadPast
  <2> QED BY <1>0, <1>1, <2>3 DEF ReadInv
<1> QED BY <1>2, <1>3

LEMMA PageOf ==
  ASSUME AccountInv, KnownInv
  PROVE  /\ Beyond \in SUBSET ({"d"} \X Nat) /\ Beyond \subseteq working
         /\ \A i \in Beyond : listing.key < i[2] /\ i[2] <= FutureOrders
         /\ Page = FirstOf(Beyond, PageSize) /\ Page \subseteq Beyond
<1>1. working \subseteq AccountIds
  BY DEF AccountInv
<1>2. \A i \in AccountIds : i[1] = "d" => i[2] \in 1 .. FutureOrders /\ i = <<"d", i[2]>>
  BY DEF AccountIds, AccountNumbers
<1>3. FutureOrders \in Nat
  BY LsAccountAssumption
<1> QED BY <1>1, <1>2, <1>3 DEF Beyond, OfCode, Page, FirstOf

LEMMA PageKnown ==
  ASSUME AccountInv, KnownInv, PageArrives
  PROVE  KnownInv'
<1>1. /\ listing # NoList /\ listing \in Listings /\ listing.at # 0
      /\ contexts' = Adopted(Page) /\ UNCHANGED <<atBroker, working, answering>>
  BY DEF PageArrives, KnownInv
<1>2. /\ Page \subseteq working /\ working \subseteq AccountIds
      /\ \A i \in Page : atBroker[i] # NoNumber
  BY PageOf DEF KnownInv, AccountInv
<1>3. /\ \A i \in Page : contexts'[i] # NoNumber
      /\ \A i \in AccountIds : contexts[i] # NoNumber => contexts'[i] # NoNumber
  BY <1>1, <1>2 DEF Adopted
<1>4. PICK more \in BOOLEAN : more = (Beyond # Page /\ CanContinue /\ listing.page + 1 < MaxPages)
  OBVIOUS
<1>5. PICK g : g = listing.got \cup Page
  OBVIOUS
<1>6. listing' = [listing EXCEPT !.got = g, !.tries = 0,
                    !.at = IF more THEN @ ELSE @ + 1,
                    !.page = IF more THEN @ + 1 ELSE 0,
                    !.key = IF more THEN LastOf(Page) ELSE 0]
  BY <1>4, <1>5 DEF PageArrives
<1>7. more => LastOf(Page) \in Nat
  <2> SUFFICES ASSUME more PROVE LastOf(Page) \in Nat
    OBVIOUS
  <2>1. PICK B, a : B = Beyond /\ a = listing.key
    OBVIOUS
  <2>2. /\ B \in SUBSET ({"d"} \X Nat) /\ a \in Nat /\ FirstOf(B, PageSize) # B
        /\ \A i \in B : a < i[2] /\ i[2] <= FutureOrders
        /\ FutureOrders \in Nat /\ PageSize \in Nat \ {0}
    BY <1>1, <1>4, <2>1, PageOf, ListingFields, LsAccountAssumption
  <2>3. LastOf(FirstOf(B, PageSize)) \in Nat
    BY <2>2, PageIsFull
  <2> QED BY <2>1, <2>3, PageOf
<1>8. /\ listing' \in Listings /\ listing'.at # 0
      /\ listing'.since = listing.since /\ listing'.got = g
  <2>1. PICK t, q, L : /\ t = IF more THEN listing.at ELSE listing.at + 1
                       /\ q = IF more THEN listing.page + 1 ELSE 0
                       /\ L = IF more THEN LastOf(Page) ELSE 0
    OBVIOUS
  <2>2. listing' = [listing EXCEPT !.got = g, !.tries = 0, !.at = t, !.page = q, !.key = L]
    BY <1>6, <2>1
  <2>3. t \in Nat /\ t # 0 /\ q \in Nat /\ L \in Nat
    BY <1>1, <1>7, <2>1, ListingFields
  <2>4. g \subseteq AccountIds
    BY <1>1, <1>2, <1>5, ListingFields
  <2> QED BY <1>1, <2>2, <2>3, <2>4 DEF Listings
<1>9. \A i \in g : contexts'[i] # NoNumber
  BY <1>1, <1>3, <1>5, ListingFields DEF KnownInv, ListedIsKnown
<1> QED BY <1>1, <1>8, <1>9 DEF KnownInv, ListedIsKnown

LEMMA PageReads ==
  ASSUME CanContinue, FutureOrders <= MaxPages * PageSize, AccountInv, KnownInv, ReadInv, PageArrives
  PROVE  ReadInv'
<1>0. MaxPages \in Nat \ {0} /\ PageSize \in Nat \ {0} /\ FutureOrders \in Nat
  BY LsAccountAssumption
<1>1. /\ listing # NoList /\ listing \in Listings /\ listing.at # 0 /\ listing.at <= Len(Codes)
      /\ UNCHANGED <<atBroker, working, answering>>
  BY DEF PageArrives, KnownInv
<1>2. PICK B, P, a, q, t, L : /\ B = Beyond /\ P = Page /\ L = LastOf(Page)
                               /\ a = listing.key /\ q = listing.page /\ t = listing.at
  OBVIOUS
<1>3. /\ a \in Nat /\ q \in Nat /\ t \in 1 .. Len(Codes) /\ q < MaxPages /\ q * PageSize <= a
  BY <1>1, <1>2, ListingFields DEF ReadInv
<1>4. /\ B \in SUBSET ({"d"} \X Nat) /\ \A i \in B : a < i[2] /\ i[2] <= FutureOrders
      /\ P = FirstOf(B, PageSize) /\ P \subseteq B
  BY <1>2, PageOf
<1>5. /\ FutureOrders <= a + PageSize => P = B
      /\ P # B => L \in Nat /\ a + PageSize <= L /\ \A i \in B : i[2] <= L => i \in P
  BY <1>0, <1>2, <1>3, <1>4, PageIsFull
<1>6. PICK more \in BOOLEAN : more = (B # P /\ q + 1 < MaxPages)
  OBVIOUS
<1>7. PICK g : g = listing.got \cup P
  OBVIOUS
<1>8. listing' = [listing EXCEPT !.got = g, !.tries = 0,
                    !.at = IF more THEN @ ELSE @ + 1,
                    !.page = IF more THEN @ + 1 ELSE 0,
                    !.key = IF more THEN L ELSE 0]
  BY <1>2, <1>6, <1>7 DEF PageArrives
<1>9. /\ listing'.since = listing.since /\ listing'.got = g
      /\ listing'.at = IF more THEN t ELSE t + 1
      /\ listing'.page = IF more THEN q + 1 ELSE 0
      /\ listing'.key = IF more THEN L ELSE 0
  BY <1>1, <1>2, <1>8 DEF Listings
<1>10. /\ \A i \in listing.since : i \in working /\ i[1] = "d" /\ i[2] \in Nat /\ i[2] # 0
       /\ listing.since \subseteq AccountIds
  BY DEF KnownInv, AccountInv, AccountIds, AccountNumbers
<1>11. \A i \in listing.since : atBroker[i] = Codes[t] /\ a < i[2] => i \in B
  BY <1>2, <1>10 DEF Beyond, OfCode
<1>12. \A i \in listing.since : ReadPast(listing, atBroker[i], i[2]) => i \in listing.got
  BY DEF ReadInv
<1>m. ASSUME NEW c, NEW n, NEW k \in 1 .. Len(Codes), c = Codes[k],
             k < listing.at \/ (k = listing.at /\ n <= listing.key)
      PROVE  ReadPast(listing, c, n)
  BY <1>m DEF ReadPast
<1>13. CASE more
  <2>1. listing'.page < MaxPages /\ listing'.page * PageSize <= listing'.key
    <3>1. L \in Nat /\ a + PageSize <= L
      BY <1>5, <1>6, <1>13
    <3>2. (q + 1) * PageSize = q * PageSize + PageSize
      BY <1>0, <1>3
    <3>3. q * PageSize \in Nat
      BY <1>0, <1>3
    <3>4. (q + 1) * PageSize <= L
      BY <1>0, <1>3, <3>1, <3>2, <3>3
    <3> QED BY <1>6, <1>9, <1>13, <3>4
  <2>2. ASSUME NEW i \in listing.since, ReadPast(listing', atBroker[i], i[2]) PROVE i \in g
    <3>1. PICK k \in 1 .. Len(Codes) :
                 atBroker[i] = Codes[k] /\ (k < t \/ (k = t /\ i[2] <= L))
      BY <1>9, <1>13, <2>2 DEF ReadPast
    <3>2. CASE k < t \/ i[2] <= a
      <4>1. k < listing.at \/ (k = listing.at /\ i[2] <= listing.key)
        BY <1>2, <3>1, <3>2
      <4>2. ReadPast(listing, atBroker[i], i[2])
        BY <1>m, <3>1, <4>1
      <4> QED BY <1>7, <1>12, <4>2
    <3>3. CASE k = t /\ ~(i[2] <= a)
      <4>1. a < i[2]
        BY <1>3, <1>10, <3>3
      <4>2. i \in B
        <5>1. atBroker[i] = Codes[t]
          BY <1>3, <3>1, <3>3
        <5> QED BY <1>11, <4>1, <5>1
      <4>3. i[2] <= L
        BY <1>3, <3>1, <3>3
      <4>4. i \in P
        BY <1>5, <1>6, <1>13, <4>2, <4>3
      <4> QED BY <1>7, <4>4
    <3> QED BY <3>1, <3>2, <3>3
  <2> QED BY <1>1, <1>9, <2>1, <2>2 DEF ReadInv
<1>14. CASE ~more
  <2>1. P = B
    <3>1. CASE q + 1 < MaxPages
      BY <1>6, <1>14, <3>1
    <3>2. CASE ~(q + 1 < MaxPages)
      <4>1. MaxPages = q + 1
        BY <1>0, <1>3, <3>2
      <4>2. (q + 1) * PageSize = q * PageSize + PageSize
        BY <1>0, <1>3
      <4>3. q * PageSize \in Nat
        BY <1>0, <1>3
      <4>4. FutureOrders <= q * PageSize + PageSize
        BY <4>1, <4>2
      <4>5. FutureOrders <= a + PageSize
        BY <1>0, <1>3, <4>3, <4>4
      <4> QED BY <1>5, <4>5
    <3> QED BY <3>1, <3>2
  <2>2. listing'.page < MaxPages /\ listing'.page * PageSize <= listing'.key
    BY <1>0, <1>9, <1>14
  <2>3. ASSUME NEW i \in listing.since, ReadPast(listing', atBroker[i], i[2]) PROVE i \in g
    <3>1. PICK k \in 1 .. Len(Codes) :
                 atBroker[i] = Codes[k] /\ (k < t + 1 \/ (k = t + 1 /\ i[2] <= 0))
      BY <1>9, <1>14, <2>3 DEF ReadPast
    <3>2. k < t \/ k = t
      BY <1>3, <1>10, <3>1
    <3>3. CASE k < t \/ i[2] <= a
      <4>1. k < listing.at \/ (k = listing.at /\ i[2] <= listing.key)
        BY <1>2, <3>2, <3>3
      <4>2. ReadPast(listing, atBroker[i], i[2])
        BY <1>m, <3>1, <4>1
      <4> QED BY <1>7, <1>12, <4>2
    <3>4. CASE k = t /\ ~(i[2] <= a)
      <4>1. a < i[2]
        BY <1>3, <1>10, <3>4
      <4> QED BY <1>7, <1>11, <2>1, <3>1, <3>4, <4>1
    <3> QED BY <3>2, <3>3, <3>4
  <2> QED BY <1>1, <1>9, <2>2, <2>3 DEF ReadInv
<1> QED BY <1>13, <1>14

LEMMA ListKept ==
  ASSUME KnownInv, UNCHANGED <<atBroker, working, answering>>,
         listing' = listing \/ \E n \in Nat : listing' = [listing EXCEPT !.tries = n],
         listing' # NoList => listing # NoList,
         \A i \in AccountIds : contexts[i] # NoNumber => contexts'[i] # NoNumber
  PROVE  KnownInv' /\ (ReadInv => ReadInv')
<1>1. /\ listing' \in Listings /\ listing'.at = listing.at /\ listing'.since = listing.since
      /\ listing'.got = listing.got /\ listing'.key = listing.key /\ listing'.page = listing.page
      /\ listing.got \subseteq AccountIds
  BY DEF KnownInv, Listings
<1> QED BY <1>1 DEF KnownInv, ListedIsKnown, ReadInv, ReadPast

LEMMA KnownStep ==
  ASSUME AccountInv, KnownInv, [LsAccountNext]_accountVars
  PROVE  /\ KnownInv'
         /\ CanContinue /\ FutureOrders <= MaxPages * PageSize /\ ReadInv => ReadInv'
<1>1. ASSUME NEW i \in AccountIds,
             \/ \E c \in CodesOf(i[1]), ours \in BOOLEAN : TakeOrder(i[1], i[2], c, ours)
             \/ PlaceAnswered(i) \/ OrderEnds(i) \/ CancelOrder(i)
             \/ \E n \in AccountNumbers(i[1]) : AmendOrder(i, n)
      PROVE  KnownInv' /\ (ReadInv => ReadInv')
  BY <1>1, AccountMoves
<1>2. CASE ListStock
  <2>1. /\ UNCHANGED <<atBroker, working, answering, listing>>
        /\ \A i \in AccountIds : contexts[i] # NoNumber => contexts'[i] # NoNumber
    BY <1>2 DEF ListStock, Adopted
  <2> QED BY <2>1, ListKept
<1>3. CASE BeginList
  <2>1. PICK l : l = listing'
    OBVIOUS
  <2>2. /\ l = [NoList EXCEPT !.at = 1, !.since = {i \in working : i[1] = "d"}]
        /\ UNCHANGED <<atBroker, working, answering, contexts>>
    BY <1>3, <2>1 DEF BeginList
  <2>3. l \in Listings /\ l.at = 1 /\ l.got = {} /\ l.since = {i \in working : i[1] = "d"}
    BY <2>2 DEF NoList, Listings, AccountInv
  <2>4. l.since \subseteq {i \in working' : i[1] = "d"} /\ listing' = l
    BY <2>1, <2>2, <2>3
  <2>5. KnownInv'
    BY <2>2, <2>3, <2>4 DEF KnownInv, ListedIsKnown
  <2> QED BY <1>3, <2>5, ReadAnew
<1>4. CASE PageArrives
  BY <1>4, PageKnown, PageReads
<1>5. ASSUME listing' = NoList, UNCHANGED <<atBroker, working>>, answering' \subseteq answering
      PROVE  KnownInv' /\ ReadInv'
  BY <1>5, NoListIsList, ListAnew, ReadAnew
<1>6. CASE PageLimited
  <2>1. UNCHANGED <<atBroker, working, answering, contexts>> /\ listing # NoList
    BY <1>6 DEF PageLimited
  <2>2. CASE listing' = NoList
    BY <1>5, <2>1, <2>2
  <2>3. CASE listing' = [listing EXCEPT !.tries = @ + 1]
    <3>1. PICK n \in Nat : n = listing.tries + 1
      BY ListingFields DEF KnownInv
    <3>2. listing' = [listing EXCEPT !.tries = n]
      BY <2>3, <3>1
    <3> QED BY <2>1, <3>2, ListKept
  <2> QED BY <1>6, <2>2, <2>3 DEF PageLimited
<1>7. CASE PageUnsupported \/ ListDone \/ CoreRestarts
  BY <1>5, <1>7 DEF PageUnsupported, ListDone, CoreRestarts
<1>8. CASE UNCHANGED accountVars
  BY <1>8, ListKept DEF accountVars
<1> QED BY <1>1, <1>2, <1>3, <1>4, <1>6, <1>7, <1>8 DEF LsAccountNext

LEMMA ListResult == AccountInv /\ KnownInv /\ ReadInv => ListIsWhole
<1> SUFFICES ASSUME AccountInv, KnownInv, ReadInv, listing.at > Len(Codes), NEW i \in listing.since
             PROVE  i \in listing.got
  BY DEF ListIsWhole
<1>1. listing.at \in Nat /\ i \in working /\ i[1] = "d" /\ i \in AccountIds
  BY ListingFields DEF KnownInv, AccountInv
<1>2. atBroker[i] \in CodesOf("d")
  BY <1>1 DEF KnownInv
<1>3. PICK k \in 1 .. Len(Codes) : atBroker[i] = Codes[k]
  BY <1>2, LsAccountAssumption DEF CodesOf
<1>4. k < listing.at
  BY <1>1, <1>3, LsAccountAssumption
<1> QED BY <1>3, <1>4 DEF ReadInv, ReadPast

-----------------------------------------------------------------------------
(***************************************************************************)
(* The fills of the first gap.  None was made before the last frame that   *)
(* was received, which is where the cut is put.                            *)
(***************************************************************************)
(* What is on its way was sent now: frames take less than a tick.          *)
SentNow(fr, at, t) == \A p \in 1 .. Len(fr) : fr[p].kind = "fill" => at[fr[p].n] = t
Behind(fr, n) == \A p \in 1 .. Len(fr) : fr[p].kind = "fill" => n < fr[p].n

GapBase ==
  /\ gap \subseteq 1 .. Len(fillAt) /\ hlConnects \in Nat
  /\ lastRx = Never \/ (lastRx \in Nat /\ lastRx <= hfNow)
  /\ lastRx = Never => gap = {}
  /\ hlConnects = 0 => lastRx = Never /\ ~hfUp
  /\ hlLink => hfUp
  /\ SentNow(frames, fillAt, hfNow)

FirstUp ==
  hlConnects = 1 /\ hfUp =>
    /\ hlLink => gap = {}
    /\ \A i \in gap : lastRx <= fillAt[i] /\ (frames # <<>> => fillAt[i] = hfNow)

CutKept ==
  (hlConnects = 1 /\ ~hfUp) \/ (hlConnects = 2 /\ hfUp) =>
    cutAt \in Nat /\ cutAt <= hfNow /\ \A i \in gap : cutAt <= fillAt[i]

Recovered ==
  hlConnects = 2 /\ snapDone =>
    /\ snapOf \in Nat /\ snapOf <= Len(fillAt) /\ Behind(frames, snapOf)
    /\ \A i \in gap : i <= snapOf => i \in ToSet(tids)

GapInv == GapBase /\ FirstUp /\ CutKept /\ Recovered

LEMMA GapInitInv == HfInit => GapInv
<1> SUFFICES ASSUME HfInit PROVE GapInv
  OBVIOUS
<1>1. gap = {} /\ frames = <<>> /\ Len(frames) = 0 /\ hlConnects = 0 /\ lastRx = Never /\ ~hfUp /\ ~hlLink
  BY DEF HfInit
<1> QED BY <1>1 DEF GapInv, GapBase, FirstUp, CutKept, Recovered, SentNow

(* The state of the feed that the steps speak of.                          *)
LEMMA FeedFields ==
  ASSUME FeedInv
  PROVE  /\ hfNow \in Nat /\ Len(fillAt) \in Nat /\ fillAt \in [1 .. Len(fillAt) -> Nat]
         /\ Len(frames) \in Nat /\ frames \in Seq(HfFrames)
         /\ \A p \in 1 .. Len(frames) :
              /\ frames[p].n \in Nat /\ frames[p].n <= Len(fillAt)
              /\ frames[p].kind = "fill" => frames[p].n \in 1 .. Len(fillAt)
<1>1. fillAt \in Seq(Nat) /\ frames \in Seq(HfFrames) /\ hfNow \in Nat
  BY DEF FeedInv, FramesOK
<1>2. Len(fillAt) \in Nat /\ fillAt \in [1 .. Len(fillAt) -> Nat] /\ Len(frames) \in Nat
  BY <1>1
<1> QED BY <1>1, <1>2, FrameFields DEF FeedInv, FramesOK

(* A frame joins those on their way.                                       *)
LEMMA FrameJoins ==
  ASSUME NEW fr \in Seq(HfFrames), NEW f, NEW at, NEW t, NEW n,
         SentNow(fr, at, t), f.kind = "fill" => at[f.n] = t
  PROVE  /\ SentNow(Append(fr, f), at, t)
         /\ Behind(fr, n) /\ (f.kind = "fill" => n < f.n) => Behind(Append(fr, f), n)
<1>1. PICK g : g = Append(fr, f)
  OBVIOUS
<1>2. /\ Len(fr) \in Nat /\ Len(g) = Len(fr) + 1 /\ g[Len(fr) + 1] = f
      /\ \A p \in 1 .. Len(fr) : g[p] = fr[p]
  BY <1>1
<1>3. \A p \in 1 .. Len(g) : p \in 1 .. Len(fr) \/ p = Len(fr) + 1
  BY <1>2
<1> QED BY <1>1, <1>2, <1>3 DEF SentNow, Behind

LEMMA TradeRecovers ==
  ASSUME FeedInv, GapInv, Trade
  PROVE  GapInv'
<1>1. PICK k, t, fr, at, f : /\ k = Len(fillAt) /\ t = hfNow /\ fr = frames
                             /\ at = Append(fillAt, hfNow) /\ f = Frame("fill", k + 1)
  OBVIOUS
<1>2. /\ k \in Nat /\ t \in Nat /\ fr \in Seq(HfFrames) /\ Len(fr) \in Nat
      /\ fillAt \in [1 .. k -> Nat] /\ fillAt \in Seq(Nat)
      /\ \A p \in 1 .. Len(fr) : fr[p].kind = "fill" => fr[p].n \in 1 .. k
  <2>1. fillAt \in Seq(Nat)
    BY DEF FeedInv
  <2>2. k \in Nat /\ t \in Nat /\ fr \in Seq(HfFrames) /\ Len(fr) \in Nat
    BY <1>1, FeedFields
  <2>3. fillAt \in [1 .. k -> Nat]
    BY <1>1, FeedFields
  <2>4. \A p \in 1 .. Len(fr) : fr[p].kind = "fill" => fr[p].n \in 1 .. k
    BY <1>1, FeedFields
  <2> QED BY <2>1, <2>2, <2>3, <2>4
<1>3. /\ Len(at) = k + 1 /\ at[k + 1] = t /\ \A i \in 1 .. k : at[i] = fillAt[i]
  BY <1>1, <1>2
<1>4. f.kind = "fill" /\ f.n = k + 1
  BY <1>1 DEF Frame
<1>5. /\ UNCHANGED <<hfNow, hlLink, subscribed>> /\ fillAt' = at
      /\ UNCHANGED <<hfUp, hlConnects, lastRx, cutAt, tids, snapDone, snapOf>>
      /\ gap' = IF hlLink \/ lastRx = Never THEN gap ELSE gap \cup {k + 1}
      /\ frames' = IF hlLink /\ subscribed THEN Append(fr, f) ELSE fr
  BY <1>1 DEF Trade, client
<1>6. SentNow(fr, at, t)
  BY <1>1, <1>2, <1>3 DEF GapInv, GapBase, SentNow
<1>7. frames' = fr \/ frames' = Append(fr, f)
  BY <1>5
<1>8. SentNow(frames', at, t)
  BY <1>2, <1>3, <1>4, <1>6, <1>7, FrameJoins
<1>9. gap \subseteq 1 .. k /\ gap' \subseteq 1 .. k + 1 /\ \A i \in gap : at[i] = fillAt[i]
  <2>1. gap \subseteq 1 .. k
    BY <1>1 DEF GapInv, GapBase
  <2>2. \A i \in 1 .. k : i \in 1 .. k + 1
    BY <1>2
  <2>3. k + 1 \in 1 .. k + 1
    BY <1>2
  <2>4. \A i \in gap' : i \in gap \/ i = k + 1
    BY <1>5
  <2> QED BY <1>3, <2>1, <2>2, <2>3, <2>4
<1>10. GapBase'
  <2>1. Len(fillAt') = k + 1
    BY <1>3, <1>5
  <2>2. SentNow(frames', fillAt', hfNow')
    BY <1>1, <1>5, <1>8
  <2>3. lastRx' = Never => gap' = {}
    BY <1>5 DEF GapInv, GapBase
  <2> QED BY <1>5, <1>9, <2>1, <2>2, <2>3 DEF GapInv, GapBase
<1>11. FirstUp'
  <2> SUFFICES ASSUME hlConnects = 1, hfUp
               PROVE  /\ hlLink => gap' = {}
                      /\ \A i \in gap' : lastRx <= at[i] /\ (frames' # <<>> => at[i] = t)
    BY <1>1, <1>5 DEF FirstUp
  <2>1. CASE hlLink
    BY <1>5, <2>1 DEF GapInv, FirstUp
  <2>2. CASE ~hlLink
    <3>1. frames' = fr /\ \A i \in gap' : i \in gap \/ (i = k + 1 /\ lastRx # Never)
      BY <1>5, <2>2
    <3>2. \A i \in gap : lastRx <= at[i] /\ (fr # <<>> => at[i] = t)
      BY <1>1, <1>9 DEF GapInv, FirstUp
    <3>3. lastRx # Never => lastRx <= t
      BY <1>1 DEF GapInv, GapBase
    <3> QED BY <1>3, <2>2, <3>1, <3>2, <3>3
  <2> QED BY <2>1, <2>2
<1>12. CutKept'
  <2> SUFFICES ASSUME (hlConnects = 1 /\ ~hfUp) \/ (hlConnects = 2 /\ hfUp)
               PROVE  cutAt \in Nat /\ cutAt <= t /\ \A i \in gap' : cutAt <= at[i]
    BY <1>1, <1>5 DEF CutKept
  <2>1. cutAt \in Nat /\ cutAt <= t /\ \A i \in gap : cutAt <= at[i]
    BY <1>1, <1>9 DEF GapInv, CutKept
  <2>2. \A i \in gap' : i \in gap \/ i = k + 1
    BY <1>5
  <2> QED BY <1>3, <2>1, <2>2
<1>13. Recovered'
  <2> SUFFICES ASSUME hlConnects = 2, snapDone
               PROVE  /\ snapOf \in Nat /\ snapOf <= k + 1 /\ Behind(frames', snapOf)
                      /\ \A i \in gap' : i <= snapOf => i \in ToSet(tids)
    BY <1>3, <1>5 DEF Recovered
  <2>1. /\ snapOf \in Nat /\ snapOf <= k /\ Behind(fr, snapOf)
        /\ \A i \in gap : i <= snapOf => i \in ToSet(tids)
    BY <1>1 DEF GapInv, Recovered
  <2>2. Behind(frames', snapOf)
    <3>1. PICK n : n = snapOf
      OBVIOUS
    <3>2. n < f.n
      BY <1>2, <1>4, <2>1, <3>1
    <3> QED BY <1>2, <1>3, <1>4, <1>6, <1>7, <2>1, <3>1, <3>2, FrameJoins
  <2>3. \A i \in gap' : i \in gap \/ i = k + 1
    BY <1>5
  <2> QED BY <1>2, <2>1, <2>2, <2>3
<1> QED BY <1>10, <1>11, <1>12, <1>13 DEF GapInv

(* Nothing is traded or received; frames join or are lost, time passes.    *)
LEMMA FramesRecover ==
  ASSUME FeedInv, GapInv, UNCHANGED <<fillAt, hfUp, hlConnects, lastRx, cutAt, tids, snapDone, snapOf>>,
         UNCHANGED <<gap, hlLink>>, hfNow' \in Nat, hfNow <= hfNow',
         SentNow(frames', fillAt, hfNow'), \A n \in Nat : Behind(frames, n) => Behind(frames', n),
         frames' # <<>> => hfNow' = hfNow /\ (frames # <<>> \/ hlLink)
  PROVE  GapInv'
<1>1. hfNow \in Nat
  BY FeedFields
<1>2. GapBase'
  BY <1>1 DEF GapInv, GapBase, Never
<1>3. FirstUp'
  BY DEF GapInv, FirstUp
<1>4. CutKept'
  BY <1>1 DEF GapInv, CutKept
<1>5. Recovered'
  BY DEF GapInv, Recovered
<1> QED BY <1>2, <1>3, <1>4, <1>5 DEF GapInv

LEMMA LinkDiesRecovers ==
  ASSUME FeedInv, GapInv, LinkDies
  PROVE  GapInv'
<1>1. PICK k, t, fr : k = Len(fillAt) /\ t = hfNow /\ fr = frames
  OBVIOUS
<1>2. /\ k \in Nat /\ t \in Nat /\ fr \in Seq(HfFrames) /\ Len(fr) \in Nat
      /\ \A p \in 1 .. Len(fr) : fr[p].kind = "fill" => fr[p].n \in 1 .. k
  BY <1>1, FeedFields
<1>3. PICK n \in 0 .. Len(fr) :
        /\ frames' = SubSeq(fr, 1, n)
        /\ gap' = gap \cup {fr[i].n : i \in {j \in n + 1 .. Len(fr) :
                                               fr[j].kind = "fill" /\ lastRx # Never}}
  BY <1>1 DEF LinkDies
<1>4. /\ hlLink /\ ~hlLink'
      /\ UNCHANGED <<hfNow, fillAt, hfUp, hlConnects, lastRx, cutAt, tids, snapDone, snapOf>>
  BY DEF LinkDies, client
<1>5. PICK g : g = SubSeq(fr, 1, n)
  OBVIOUS
<1>6. Len(g) = n /\ \A p \in 1 .. n : g[p] = fr[p] /\ p \in 1 .. Len(fr)
  BY <1>2, <1>3, <1>5
<1>7. SentNow(fr, fillAt, t)
  BY <1>1 DEF GapInv, GapBase
<1>8. ASSUME NEW i \in gap'
      PROVE  \/ i \in gap
             \/ \E p \in 1 .. Len(fr) : fr[p].kind = "fill" /\ i = fr[p].n /\ lastRx # Never
  <2>1. \A j \in n + 1 .. Len(fr) : j \in 1 .. Len(fr)
    BY <1>2, <1>3
  <2> QED BY <1>3, <1>8, <2>1
<1>9. ASSUME NEW i \in gap'
      PROVE  i \in gap \/ (i \in 1 .. k /\ fillAt[i] = t /\ lastRx # Never)
  BY <1>2, <1>7, <1>8, <1>9 DEF SentNow
<1>10. SentNow(frames', fillAt, t) /\ \A m : Behind(fr, m) => Behind(frames', m)
  BY <1>3, <1>5, <1>6, <1>7 DEF SentNow, Behind
<1>11. GapBase'
  <2>1. gap' \subseteq 1 .. k /\ (lastRx = Never => gap' = {})
    BY <1>1, <1>9 DEF GapInv, GapBase
  <2> QED BY <1>1, <1>4, <1>10, <2>1 DEF GapInv, GapBase
<1>12. FirstUp'
  <2> SUFFICES ASSUME hlConnects = 1, hfUp, NEW i \in gap'
               PROVE  lastRx <= fillAt[i] /\ fillAt[i] = t
    BY <1>1, <1>4 DEF FirstUp
  <2>1. gap = {}
    BY <1>4 DEF GapInv, FirstUp
  <2>2. fillAt[i] = t /\ lastRx # Never
    BY <1>9, <2>1
  <2> QED BY <1>1, <2>2 DEF GapInv, GapBase
<1>13. CutKept'
  <2> SUFFICES ASSUME (hlConnects = 1 /\ ~hfUp) \/ (hlConnects = 2 /\ hfUp)
               PROVE  cutAt \in Nat /\ cutAt <= t /\ \A i \in gap' : cutAt <= fillAt[i]
    BY <1>1, <1>4 DEF CutKept
  <2>1. cutAt \in Nat /\ cutAt <= t /\ \A i \in gap : cutAt <= fillAt[i]
    BY <1>1 DEF GapInv, CutKept
  <2> QED BY <1>9, <2>1
<1>14. Recovered'
  <2> SUFFICES ASSUME hlConnects = 2, snapDone
               PROVE  /\ snapOf \in Nat /\ snapOf <= k /\ Behind(frames', snapOf)
                      /\ \A i \in gap' : i <= snapOf => i \in ToSet(tids)
    BY <1>1, <1>4 DEF Recovered
  <2>1. /\ snapOf \in Nat /\ snapOf <= k /\ Behind(fr, snapOf)
        /\ \A i \in gap : i <= snapOf => i \in ToSet(tids)
    BY <1>1 DEF GapInv, Recovered
  <2>2. ASSUME NEW i \in gap', i \notin gap PROVE ~(i <= snapOf)
    <3>1. PICK p \in 1 .. Len(fr) : fr[p].kind = "fill" /\ i = fr[p].n
      BY <1>8, <2>2
    <3>2. i \in Nat /\ snapOf < i
      BY <1>2, <2>1, <3>1 DEF Behind
    <3> QED BY <2>1, <3>2
  <2> QED BY <1>10, <2>1, <2>2
<1> QED BY <1>11, <1>12, <1>13, <1>14 DEF GapInv

(* The snapshot that follows the gap has its fills since the cut.          *)
LEMMA ReceiveRecovers ==
  ASSUME MaxHlFills <= MaxTids, FeedInv, GapInv, Receive
  PROVE  GapInv'
<1>1. PICK k, S, t, fr, f : /\ k = Len(fillAt) /\ S = ToSet(tids) /\ t = hfNow
                            /\ fr = frames /\ f = Head(frames)
  OBVIOUS
<1>2. /\ k \in Nat /\ t \in Nat /\ fr \in Seq(HfFrames) /\ Len(fr) \in Nat
      /\ \A p \in 1 .. Len(fr) : fr[p].kind = "fill" => fr[p].n \in 1 .. k
  BY <1>1, FeedFields
<1>3. /\ hfUp /\ fr # <<>> /\ frames' = Tail(fr) /\ lastRx' = t
      /\ UNCHANGED <<hfNow, fillAt, gap, hlLink, hfUp, hlConnects, cutAt>>
  BY <1>1 DEF Receive, exchange
<1>4. fr # <<>> /\ f = fr[1] /\ 1 \in 1 .. Len(fr)
  BY <1>1, <1>2, <1>3
<1>5. f.n \in Nat /\ f.n <= k /\ f.kind \in {"fill", "snapshot", "bbo"}
  BY <1>1, <1>2, <1>4, FeedFields, FrameFields
<1>6. PICK X : /\ X = CASE f.kind = "fill" -> {f.n}
                        [] f.kind = "snapshot" /\ hlConnects > 1 /\ cutAt # Never -> FreshOf(f.n)
                        [] OTHER -> {}
               /\ tids' = Remembered(tids, X)
  BY <1>1 DEF Receive
<1>7. X \in SUBSET Fills
  <2>1. k <= MaxHlFills /\ MaxHlFills \in Nat
    BY <1>1, HlFeedAssumption DEF FeedInv
  <2>2. \A i \in 1 .. f.n : i \in Fills
    BY <1>2, <1>5, <2>1 DEF Fills
  <2>3. X = {} \/ X = FreshOf(f.n) \/ (X = {f.n} /\ f.n \in 1 .. k)
    BY <1>2, <1>4, <1>6
  <2>4. \A i \in FreshOf(f.n) : i \in 1 .. f.n
    BY DEF FreshOf
  <2> QED BY <1>2, <1>5, <2>1, <2>2, <2>3, <2>4 DEF Fills
<1>8. ToSet(tids') = S \cup X
  BY <1>1, <1>6, <1>7, RememberAll DEF FeedInv
<1>9. /\ snapDone' = (snapDone \/ f.kind = "snapshot")
      /\ snapOf' = IF f.kind = "snapshot" /\ hlConnects > 1 THEN f.n ELSE snapOf
  BY <1>1 DEF Receive
<1>10. PICK g : g = Tail(fr)
  OBVIOUS
<1>11. /\ Len(g) = Len(fr) - 1
       /\ \A p \in 1 .. Len(g) : g[p] = fr[p + 1] /\ p + 1 \in 1 .. Len(fr) /\ 1 < p + 1
  BY <1>2, <1>4, <1>10
<1>12. SentNow(fr, fillAt, t)
  BY <1>1 DEF GapInv, GapBase
<1>13. SentNow(g, fillAt, t)
  BY <1>11, <1>12 DEF SentNow
<1>14. GapBase'
  <2>1. hlConnects # 0
    BY <1>3 DEF GapInv, GapBase
  <2>2. lastRx' # Never
    BY <1>2, <1>3 DEF Never
  <2> QED BY <1>1, <1>2, <1>3, <1>10, <1>13, <2>1, <2>2 DEF GapInv, GapBase
<1>15. FirstUp'
  <2> SUFFICES ASSUME hlConnects = 1
               PROVE  /\ hlLink => gap = {}
                      /\ \A i \in gap : t <= fillAt[i] /\ fillAt[i] = t
    BY <1>1, <1>3 DEF FirstUp
  <2>1. (hlLink => gap = {}) /\ \A i \in gap : fillAt[i] = t
    BY <1>1, <1>3 DEF GapInv, FirstUp
  <2> QED BY <1>2, <2>1
<1>16. CutKept'
  BY <1>3 DEF GapInv, CutKept
<1>17. Recovered'
  <2> SUFFICES ASSUME hlConnects = 2, snapDone'
               PROVE  /\ snapOf' \in Nat /\ snapOf' <= k /\ Behind(g, snapOf')
                      /\ \A i \in gap : i <= snapOf' => i \in S \cup X
    BY <1>1, <1>3, <1>8, <1>10 DEF Recovered
  <2>1. CASE f.kind = "snapshot"
    <3>1. cutAt \in Nat /\ \A i \in gap : cutAt <= fillAt[i]
      BY <1>3 DEF GapInv, CutKept
    <3>2. snapOf' = f.n /\ X = FreshOf(f.n)
      BY <1>6, <1>9, <2>1, <3>1 DEF Never
    <3>3. FramesOK(fr, k, S)
      BY <1>1 DEF FeedInv
    <3>4. Behind(g, f.n)
      <4> SUFFICES ASSUME NEW p \in 1 .. Len(g), g[p].kind = "fill" PROVE f.n < g[p].n
        BY DEF Behind
      <4>1. PICK q : q = p + 1
        OBVIOUS
      <4>2. q \in 1 .. Len(fr) /\ g[p] = fr[q] /\ 1 < q
        BY <1>11, <4>1
      <4> QED BY <1>4, <2>1, <3>3, <4>2 DEF FramesOK
    <3>5. ASSUME NEW i \in gap, i <= f.n PROVE i \in S \cup X
      <4>1. i \in 1 .. f.n
        BY <1>1, <1>5, <3>5 DEF GapInv, GapBase
      <4>2. fillAt[i] \in Nat
        BY <1>1, <1>2, <1>5, <4>1, FeedFields
      <4>3. fillAt[i] >= cutAt - Margin
        BY <3>1, <4>2, HlFeedAssumption
      <4> QED BY <1>1, <3>2, <4>1, <4>3 DEF FreshOf
    <3> QED BY <1>5, <3>2, <3>4, <3>5
  <2>2. CASE f.kind # "snapshot"
    <3>1. snapDone /\ snapOf' = snapOf
      BY <1>9, <2>2
    <3>2. /\ snapOf \in Nat /\ snapOf <= k /\ Behind(fr, snapOf)
          /\ \A i \in gap : i <= snapOf => i \in S
      BY <1>1, <3>1 DEF GapInv, Recovered
    <3>3. Behind(g, snapOf)
      BY <1>11, <3>2 DEF Behind
    <3> QED BY <3>1, <3>2, <3>3
  <2> QED BY <2>1, <2>2
<1> QED BY <1>14, <1>15, <1>16, <1>17 DEF GapInv

LEMMA ConnectRecovers ==
  ASSUME FeedInv, GapInv, HfConnect
  PROVE  GapInv'
<1>1. /\ ~hfUp /\ hfUp' /\ hlConnects' = hlConnects + 1 /\ frames' = <<>>
      /\ UNCHANGED <<hfNow, fillAt, gap, lastRx, cutAt, tids, snapOf>>
      /\ hlConnects # 0 => ~snapDone'
  BY DEF HfConnect
<1>2. hlConnects \in Nat /\ hfNow \in Nat /\ Len(frames') = 0
  BY <1>1, FeedFields DEF GapInv, GapBase
<1>3. GapBase'
  BY <1>1, <1>2 DEF GapInv, GapBase, SentNow
<1>4. FirstUp'
  <2>1. hlConnects' = 1 => gap' = {}
    BY <1>1, <1>2 DEF GapInv, GapBase
  <2> QED BY <2>1 DEF FirstUp
<1>5. CutKept'
  BY <1>1, <1>2 DEF GapInv, CutKept
<1>6. Recovered'
  BY <1>1, <1>2 DEF Recovered
<1> QED BY <1>3, <1>4, <1>5, <1>6 DEF GapInv

LEMMA DisconnectRecovers ==
  ASSUME FeedInv, GapInv, Disconnected
  PROVE  GapInv'
<1>1. /\ hfUp /\ ~hfUp' /\ ~hlLink /\ ~hlLink' /\ cutAt' = Cut
      /\ UNCHANGED <<hfNow, fillAt, gap, frames, hlConnects, lastRx, tids, snapDone, snapOf>>
  BY DEF Disconnected, exchange
<1>2. hfNow \in Nat
  BY FeedFields
<1>3. GapBase'
  BY <1>1 DEF GapInv, GapBase
<1>4. CutKept'
  BY <1>1, <1>2 DEF GapInv, GapBase, FirstUp, CutKept, Cut
<1>5. Recovered'
  BY <1>1 DEF GapInv, Recovered
<1> QED BY <1>1, <1>3, <1>4, <1>5 DEF GapInv, FirstUp

LEMMA GapStep ==
  ASSUME MaxHlFills <= MaxTids, FeedInv, GapInv, [HfNext]_hfVars
  PROVE  GapInv'
<1>1. hfNow \in Nat /\ frames \in Seq(HfFrames) /\ Len(frames) \in Nat
  BY FeedFields
<1>2. SentNow(frames, fillAt, hfNow)
  BY DEF GapInv, GapBase
<1>3. ASSUME NEW f, f.kind # "fill", frames' = Append(frames, f), hlLink,
             UNCHANGED <<hfNow, fillAt, gap, hlLink, client>>
      PROVE  GapInv'
  <2>1. SentNow(frames', fillAt, hfNow) /\ \A n \in Nat : Behind(frames, n) => Behind(frames', n)
    BY <1>1, <1>2, <1>3, FrameJoins
  <2> QED BY <1>1, <1>3, <2>1, FramesRecover DEF client
<1>4. CASE SendSnapshot
  BY <1>3, <1>4 DEF SendSnapshot, Frame
<1>5. CASE SendHlQuote
  BY <1>3, <1>5 DEF SendHlQuote, Frame, exchange
<1>6. CASE HfTick
  <2>1. SentNow(frames', fillAt, hfNow') /\ frames' = <<>> /\ frames = <<>>
    BY <1>6 DEF HfTick, SentNow
  <2> QED BY <1>1, <1>6, <2>1, FramesRecover DEF HfTick, exchange, client
<1>7. CASE RingHooks
  BY <1>1, <1>2, <1>7, FramesRecover DEF RingHooks, exchange
<1>8. CASE UNCHANGED hfVars
  BY <1>1, <1>2, <1>8, FramesRecover DEF hfVars
<1> QED BY <1>4, <1>5, <1>6, <1>7, <1>8, TradeRecovers, LinkDiesRecovers, ReceiveRecovers,
           ConnectRecovers, DisconnectRecovers DEF HfNext

LEMMA GapResult == FeedInv /\ GapInv => FirstGapIsRecovered
<1> SUFFICES ASSUME FeedInv, GapInv, hlConnects = 2, snapDone, NEW i \in gap, i <= snapOf
             PROVE  takenFills[i] = 1
  BY DEF FirstGapIsRecovered
<1>1. i \in ToSet(tids)
  BY DEF GapInv, Recovered
<1>2. i \in Fills
  BY HlFeedAssumption DEF FeedInv, GapInv, GapBase, Fills
<1> QED BY <1>1, <1>2 DEF FeedInv

(* The notices of cancels and amends: a notice that was sent is on its way   *)
(* or has been heard.                                                        *)
Notices == [tr : {"O01", "H01"}, no : Requested, kind : {"cancel_ack", "amend"} \cup Verdicts,
            named : BOOLEAN]
Events == [kind : {"cancel_ack", "amend"} \cup Verdicts, no : Requested, org : Originals]
ToldAt(p, c) == {i \in DOMAIN p : p[i].no = c /\ p[i].kind \in Verdicts}
Holds(dict, c) == \E i \in DOMAIN dict : dict[i].no = c
Heard == {x \in Requested \X {"O01", "H01"} :
            x[2] \in sentNotices[x[1]] /\ \A n \in onWay : n.no = x[1] => n.tr # x[2]}

LnTypes ==
    /\ sentNotices \in [Requested -> SUBSET {"O01", "H01"}]
    /\ onWay \subseteq Notices
    /\ orgBy \in Seq([no : Requested, org : Originals])
    /\ heldNotices \in Seq([no : Requested, msg : Notices])
    /\ passed \in Seq(Events)

(* One notice of each kind, and each is what its kind says.                  *)
NoticesDiffer ==
    /\ \A n \in onWay : n.tr \in sentNotices[n.no]
    /\ \A m, n \in onWay : m.no = n.no /\ m.tr = n.tr => m = n
    /\ \A n \in onWay : IF n.tr = "O01" THEN n.kind = AcceptKind(n.no) ELSE n.kind \in Verdicts

(* The map names the order of every cancel that was accepted and is not      *)
(* confirmed.                                                                *)
MapIsRight(heard, map) ==
    /\ \A i \in DOMAIN map : map[i].org = OrgOf[map[i].no] /\ <<map[i].no, "O01">> \in heard
    /\ \A c \in Requested \ Amends :
         <<c, "O01">> \in heard /\ <<c, "H01">> \notin heard => Holds(map, c)

(* A confirmation is kept only as long as the acceptance has not come.       *)
HeldAreEarly(heard, held) ==
    /\ \A i \in DOMAIN held :
         /\ held[i].msg.no = held[i].no /\ held[i].msg.kind \in Verdicts
         /\ <<held[i].no, "H01">> \in heard
         /\ held[i].no \notin Amends => <<held[i].no, "O01">> \notin heard
    /\ \A i, j \in DOMAIN held : held[i].no = held[j].no => i = j

(* What has been heard of and is not kept was passed on, once.               *)
HeardAreTold(heard, held, events) ==
    \A c \in Requested :
      /\ \A i, j \in ToldAt(events, c) : i = j
      /\ \A i \in ToldAt(events, c) : events[i].org = OrgOf[c]
      /\ ToldAt(events, c) # {} => <<c, "H01">> \in heard /\ ~Holds(held, c)
      /\ c \notin Amends /\ <<c, "H01">> \in heard /\ ~Holds(held, c) => ToldAt(events, c) # {}

LnMap == MapIsRight(Heard, orgBy)
LnHeld == HeldAreEarly(Heard, heldNotices)
LnTold == HeardAreTold(Heard, heldNotices, passed)

LnInv == LnTypes /\ NoticesDiffer /\ LnMap /\ LnHeld /\ LnTold

(* No confirmation is dropped for want of room, and the map drops no order   *)
(* whose confirmation has not come (_PENDING_H01_CAP, _CANCEL_MAP_CAP).      *)
NoticesInTime ==
    /\ Len(heldNotices) < PendingCap
    /\ Len(orgBy) >= CancelMapCap => <<orgBy[1].no, "H01">> \in Heard

(* A new entry of a dict comes last, whether or not the oldest has to go.    *)
LEMMA StoredLast ==
    ASSUME NEW S, NEW d \in Seq(S), NEW cap \in Nat \ {0}, NEW e \in S,
           \A i \in DOMAIN d : d[i].no # e.no
    PROVE  LET t == Stored(d, cap, e)
               k == IF Len(d) >= cap THEN 1 ELSE 0
           IN /\ t \in Seq(S) /\ Len(t) = Len(d) - k + 1
              /\ k <= Len(d)
              /\ t[Len(t)] = e
              /\ \A i \in 1..Len(d) - k : t[i] = d[i + k]
<1> DEFINE room == IF Len(d) >= cap THEN Tail(d) ELSE d
           k == IF Len(d) >= cap THEN 1 ELSE 0
<1>1. Len(d) \in Nat /\ DOMAIN d = 1..Len(d) /\ (Len(d) >= cap => d # <<>>)
  OBVIOUS
<1>2. room \in Seq(S) /\ Len(room) = Len(d) - k /\ k <= Len(d) /\ k \in {0, 1}
  BY <1>1
<1>3. \A i \in 1..Len(d) - k : room[i] = d[i + k]
  <2>1. CASE Len(d) >= cap
    BY <1>1, <2>1
  <2>2. CASE ~(Len(d) >= cap)
    BY <1>1, <2>2
  <2> QED BY <2>1, <2>2
<1>4. {i \in DOMAIN room : room[i].no = e.no} = {}
  <2> SUFFICES ASSUME NEW i \in DOMAIN room, room[i].no = e.no PROVE FALSE
    OBVIOUS
  <2>1. i \in 1..Len(d) - k
    BY <1>2
  <2> QED BY <1>1, <1>2, <1>3, <2>1
<1>5. Stored(d, cap, e) = Append(room, e)
  BY <1>4 DEF Stored
<1> HIDE DEF room
<1>6. DOMAIN room = 1..Len(room) /\ Append(room, e) \in Seq(S) /\ Len(Append(room, e)) = Len(room) + 1
  BY <1>2
<1>7. Append(room, e)[Len(room) + 1] = e /\ \A i \in 1..Len(room) : Append(room, e)[i] = room[i]
  BY <1>2
<1>8. \A i \in 1..Len(d) - k : Append(room, e)[i] = d[i + k]
  BY <1>2, <1>3, <1>7
<1> HIDE DEF k
<1> QED BY <1>1, <1>2, <1>5, <1>6, <1>7, <1>8 DEF k

(* What is left once an entry is taken out.                                  *)
LEMMA TakenOut ==
    ASSUME NEW S, NEW d \in Seq(S), NEW k \in 1..Len(d)
    PROVE  LET t == RemoveAt(d, k)
           IN /\ t \in Seq(S) /\ Len(t) = Len(d) - 1
              /\ \A i \in 1..Len(t) : t[i] = d[IF i < k THEN i ELSE i + 1]
<1> DEFINE a == SubSeq(d, 1, k - 1)
           b == SubSeq(d, k + 1, Len(d))
<1>1. a \in Seq(S) /\ Len(a) = k - 1 /\ \A i \in 1..k - 1 : a[i] = d[i]
  OBVIOUS
<1>2. b \in Seq(S) /\ Len(b) = Len(d) - k
  OBVIOUS
<1>3. \A i \in 1..Len(d) - k : b[i] = d[i + k]
  OBVIOUS
<1>4. RemoveAt(d, k) = a \o b
  BY DEF RemoveAt
<1> HIDE DEF a, b
<1>5. Len(d) \in Nat /\ a \o b \in Seq(S) /\ Len(a \o b) = Len(a) + Len(b)
  BY <1>1, <1>2
<1>6. \A i \in 1..Len(d) - 1 : (a \o b)[i] = IF i <= Len(a) THEN a[i] ELSE b[i - Len(a)]
  BY <1>1, <1>2, <1>5
<1>7. ASSUME NEW i \in 1..Len(d) - 1
      PROVE  (a \o b)[i] = d[IF i < k THEN i ELSE i + 1]
  <2>1. CASE i < k
    BY <1>1, <1>6, <2>1
  <2>2. CASE ~(i < k)
    <3>1. i - Len(a) \in 1..Len(d) - k /\ i - Len(a) + k = i + 1
      BY <1>1, <1>5, <2>2
    <3>2. ~(i <= Len(a))
      BY <1>1, <1>5, <2>2
    <3>3. (a \o b)[i] = b[i - Len(a)]
      BY <1>6, <3>2, Zenon
    <3>4. b[i - Len(a)] = d[i - Len(a) + k]
      BY <1>3, <3>1
    <3> QED BY <2>2, <3>1, <3>3, <3>4
  <2> QED BY <2>1, <2>2
<1>8. Len(a \o b) = Len(d) - 1
  BY <1>1, <1>2, <1>5
<1> QED BY <1>4, <1>5, <1>7, <1>8

(* What an event handed on says of a number.                                 *)
LEMMA OneMoreTold ==
    ASSUME NEW p \in Seq(Events), NEW e \in Events
    PROVE  LET q == Append(p, e)
           IN /\ q \in Seq(Events) /\ q[Len(p) + 1] = e /\ Len(p) + 1 \notin DOMAIN p
              /\ \A i \in DOMAIN p : q[i] = p[i]
              /\ \A c : ToldAt(q, c) = IF c = e.no /\ e.kind \in Verdicts
                                       THEN ToldAt(p, c) \cup {Len(p) + 1} ELSE ToldAt(p, c)
<1> DEFINE q == Append(p, e)
<1>1. q \in Seq(Events) /\ q[Len(p) + 1] = e /\ Len(p) + 1 \notin DOMAIN p
  OBVIOUS
<1>2. DOMAIN q = DOMAIN p \cup {Len(p) + 1} /\ \A i \in DOMAIN p : q[i] = p[i]
  OBVIOUS
<1> HIDE DEF q
<1>3. ASSUME NEW c
      PROVE  ToldAt(q, c) = IF c = e.no /\ e.kind \in Verdicts
                            THEN ToldAt(p, c) \cup {Len(p) + 1} ELSE ToldAt(p, c)
  BY <1>1, <1>2 DEF ToldAt
<1> QED BY <1>1, <1>2, <1>3 DEF q

LEMMA TwoMore ==
    ASSUME NEW S, NEW p \in Seq(S), NEW a \in S, NEW b \in S
    PROVE  p \o <<a, b>> = Append(Append(p, a), b)
OBVIOUS

LEMMA LnInitInv ==
    ASSUME LnInit PROVE LnInv
<1>1. LnTypes
  BY DEF LnInit, LnTypes
<1>2. Heard = {}
  BY DEF LnInit, Heard
<1>3. /\ onWay = {} /\ DOMAIN orgBy = {} /\ DOMAIN heldNotices = {} /\ DOMAIN passed = {}
  BY DEF LnInit
<1>4. NoticesDiffer
  BY <1>3 DEF NoticesDiffer
<1>5. LnMap /\ LnHeld
  BY <1>2, <1>3 DEF LnMap, LnHeld, MapIsRight, HeldAreEarly
<1>6. LnTold
  BY <1>2, <1>3 DEF LnTold, HeardAreTold, ToldAt
<1> QED BY <1>1, <1>4, <1>5, <1>6 DEF LnInv

LEMMA NoticeSent ==
    ASSUME NEW c \in Requested, LnInv, SendNotice(c)
    PROVE  LnInv'
<1>1. PICK n \in NoticesOf(c) :
        /\ n.tr \notin sentNotices[c]
        /\ sentNotices' = [sentNotices EXCEPT ![c] = @ \cup {n.tr}]
        /\ onWay' = onWay \cup {n}
  BY DEF SendNotice
<1>2. orgBy' = orgBy /\ heldNotices' = heldNotices /\ passed' = passed
  BY DEF SendNotice
<1>3. /\ n \in Notices /\ n.no = c
      /\ IF n.tr = "O01" THEN n.kind = AcceptKind(n.no) ELSE n.kind \in Verdicts
  <2>1. CASE n = OrderNotice("O01", c, AcceptKind(c), TRUE)
    BY <2>1 DEF OrderNotice, Notices, AcceptKind
  <2>2. ASSUME NEW v \in Verdicts, NEW b \in BOOLEAN, n = OrderNotice("H01", c, v, b)
        PROVE  n \in Notices /\ n.no = c /\ n.kind \in Verdicts /\ n.tr # "O01"
    BY <2>2 DEF OrderNotice, Notices
  <2> QED BY <1>1, <2>1, <2>2 DEF NoticesOf, OrderNotice
<1>4. LnTypes /\ NoticesDiffer
  BY DEF LnInv
<1>5. n.tr \in {"O01", "H01"}
  BY <1>3 DEF Notices
<1>6. sentNotices' \in [Requested -> SUBSET {"O01", "H01"}]
  BY <1>1, <1>4, <1>5 DEF LnTypes
<1>7. LnTypes'
  BY <1>1, <1>2, <1>3, <1>4, <1>6 DEF LnTypes
<1>8. \A d \in Requested : sentNotices'[d] = IF d = c THEN sentNotices[c] \cup {n.tr} ELSE sentNotices[d]
  BY <1>1, <1>4 DEF LnTypes
<1>9. \A m \in onWay : m.no \in Requested /\ m.tr \in sentNotices[m.no]
  BY <1>4 DEF LnTypes, Notices, NoticesDiffer
<1>10. NoticesDiffer'
  <2>1. (\A m \in onWay : m.tr \in sentNotices[m.no])'
    BY <1>1, <1>3, <1>8, <1>9
  <2>2. \A m \in onWay : m.no = c => m.tr # n.tr
    BY <1>1, <1>9
  <2>3. (\A m, k \in onWay : m.no = k.no /\ m.tr = k.tr => m = k)'
    BY <1>1, <1>3, <1>4, <2>2 DEF NoticesDiffer
  <2> QED BY <1>1, <1>3, <1>4, <2>1, <2>3 DEF NoticesDiffer
<1>11. Heard' = Heard
  <2>1. ASSUME NEW x \in Requested \X {"O01", "H01"}
        PROVE  (x[2] \in sentNotices'[x[1]] /\ \A m \in onWay' : m.no = x[1] => m.tr # x[2])
               <=> (x[2] \in sentNotices[x[1]] /\ \A m \in onWay : m.no = x[1] => m.tr # x[2])
    BY <1>1, <1>3, <1>8, <1>9
  <2> QED BY <2>1 DEF Heard
<1>12. LnMap'
  BY <1>2, <1>11 DEF LnInv, LnMap, MapIsRight
<1>13. LnHeld'
  BY <1>2, <1>11 DEF LnInv, LnHeld, HeldAreEarly
<1>14. LnTold'
  BY <1>2, <1>11 DEF LnInv, LnTold
<1> QED BY <1>7, <1>10, <1>12, <1>13, <1>14 DEF LnInv

(* A notice that is delivered has been heard then, and not before.           *)
LEMMA HearsOne ==
    ASSUME LnTypes, NoticesDiffer, NEW n \in onWay,
           onWay' = onWay \ {n}, sentNotices' = sentNotices
    PROVE  /\ Heard' = Heard \cup {<<n.no, n.tr>>} /\ <<n.no, n.tr>> \notin Heard
           /\ NoticesDiffer' /\ onWay' \subseteq Notices /\ n \in Notices
           /\ n.no \in Requested
<1>1. n \in Notices /\ onWay' \subseteq Notices
  BY DEF LnTypes
<1>2. n.no \in Requested /\ n.tr \in {"O01", "H01"} /\ n.tr \in sentNotices[n.no]
  BY <1>1 DEF Notices, NoticesDiffer
<1>3. NoticesDiffer'
  BY DEF NoticesDiffer
<1>4. <<n.no, n.tr>> \notin Heard
  BY DEF Heard
<1>5. ASSUME NEW x \in Requested \X {"O01", "H01"}
      PROVE  (x[2] \in sentNotices'[x[1]] /\ \A m \in onWay' : m.no = x[1] => m.tr # x[2])
             <=> (x \in Heard \/ (x[1] = n.no /\ x[2] = n.tr))
  <2>1. \A m \in onWay : m.no = n.no /\ m.tr = n.tr => m = n
    BY DEF NoticesDiffer
  <2>2. x \in Heard <=> x[2] \in sentNotices[x[1]] /\ \A m \in onWay : m.no = x[1] => m.tr # x[2]
    BY DEF Heard
  <2> QED BY <1>2, <2>1, <2>2
<1>6. \A x \in Requested \X {"O01", "H01"} : x[1] = n.no /\ x[2] = n.tr <=> x = <<n.no, n.tr>>
  BY <1>2
<1>7. Heard' = Heard \cup {<<n.no, n.tr>>}
  <2>1. Heard' = {x \in Requested \X {"O01", "H01"} :
                    x[2] \in sentNotices'[x[1]] /\ \A m \in onWay' : m.no = x[1] => m.tr # x[2]}
    BY DEF Heard
  <2>2. Heard \subseteq Requested \X {"O01", "H01"} /\ <<n.no, n.tr>> \in Requested \X {"O01", "H01"}
    BY <1>2 DEF Heard
  <2> QED BY <1>5, <1>6, <2>1, <2>2
<1> QED BY <1>1, <1>2, <1>3, <1>4, <1>7

(* The map once an acceptance has come: what had to go for it was confirmed. *)
LEMMA MapGrows ==
    ASSUME NEW heard, NEW map \in Seq([no : Requested, org : Originals]), NEW c \in Requested,
           MapIsRight(heard, map), <<c, "O01">> \notin heard,
           Len(map) >= CancelMapCap => <<map[1].no, "H01">> \in heard
    PROVE  LET m == Stored(map, CancelMapCap, [no |-> c, org |-> OrgOf[c]])
           IN /\ m \in Seq([no : Requested, org : Originals])
              /\ MapIsRight(heard \cup {<<c, "O01">>}, m) /\ Holds(m, c)
<1>0. PICK e : e = [no |-> c, org |-> OrgOf[c]]
  OBVIOUS
<1> DEFINE m == Stored(map, CancelMapCap, e)
           k == IF Len(map) >= CancelMapCap THEN 1 ELSE 0
<1>1. e \in [no : Requested, org : Originals] /\ e.no = c /\ e.org = OrgOf[c]
  BY <1>0, LsNoticesAssumption
<1>2. \A i \in DOMAIN map : map[i].no # e.no
  BY <1>1 DEF MapIsRight
<1>3. CancelMapCap \in Nat \ {0}
  BY LsNoticesAssumption
<1>4. /\ m \in Seq([no : Requested, org : Originals]) /\ Len(m) = Len(map) - k + 1
      /\ k <= Len(map) /\ m[Len(m)] = e
      /\ \A i \in 1..Len(map) - k : m[i] = map[i + k]
  <2>1. PICK S : S = [no : Requested, org : Originals]
    OBVIOUS
  <2>2. map \in Seq(S) /\ e \in S
    BY <1>1, <2>1
  <2>3. PICK cap : cap = CancelMapCap
    OBVIOUS
  <2>4. LET t == Stored(map, cap, e)
            j == IF Len(map) >= cap THEN 1 ELSE 0
        IN /\ t \in Seq(S) /\ Len(t) = Len(map) - j + 1
           /\ j <= Len(map)
           /\ t[Len(t)] = e
           /\ \A i \in 1..Len(map) - j : t[i] = map[i + j]
    BY <1>2, <1>3, <2>2, <2>3, StoredLast
  <2> QED BY <2>1, <2>3, <2>4
<1>5. /\ k \in {0, 1} /\ Len(map) \in Nat /\ DOMAIN map = 1..Len(map)
      /\ DOMAIN m = 1..Len(m) /\ Len(m) \in Nat
  BY <1>4
<1>6. k = 1 => <<map[1].no, "H01">> \in heard
  OBVIOUS
<1> HIDE DEF m, k
<1>7. \A i \in DOMAIN m : m[i] = e \/ \E j \in DOMAIN map : m[i] = map[j]
  <2> SUFFICES ASSUME NEW i \in DOMAIN m, i # Len(m) PROVE \E j \in DOMAIN map : m[i] = map[j]
    BY <1>4
  <2>1. i \in 1..Len(m) /\ i # Len(m) /\ Len(m) = Len(map) - k + 1
    BY <1>4, <1>5
  <2>2. i \in 1..Len(map) - k /\ i + k \in DOMAIN map
    BY <1>5, <2>1
  <2> QED BY <1>4, <2>2
<1>8. \A j \in DOMAIN map : j # k => \E i \in DOMAIN m : m[i] = map[j]
  <2> SUFFICES ASSUME NEW j \in DOMAIN map, j # k PROVE \E i \in DOMAIN m : m[i] = map[j]
    OBVIOUS
  <2>1. j - k \in 1..Len(map) - k /\ j - k \in DOMAIN m /\ j - k + k = j
    BY <1>4, <1>5
  <2> QED BY <1>4, <2>1
<1>9. Holds(m, c)
  <2>1. Len(m) \in DOMAIN m
    BY <1>4, <1>5
  <2> QED BY <1>1, <1>4, <2>1 DEF Holds
<1>10. \A i \in DOMAIN m : m[i].org = OrgOf[m[i].no] /\ <<m[i].no, "O01">> \in heard \cup {<<c, "O01">>}
  BY <1>1, <1>7 DEF MapIsRight
<1>11. ASSUME NEW d \in Requested \ Amends, <<d, "O01">> \in heard \cup {<<c, "O01">>},
              <<d, "H01">> \notin heard \cup {<<c, "O01">>}
       PROVE  Holds(m, d)
  <2>1. CASE d = c
    BY <1>9, <2>1
  <2>2. CASE d # c
    <3>1. <<d, "O01">> \in heard /\ <<d, "H01">> \notin heard
      BY <1>11, <2>2
    <3>2. PICK j \in DOMAIN map : map[j].no = d
      BY <3>1 DEF MapIsRight, Holds
    <3>3. j # k
      BY <1>5, <1>6, <3>1, <3>2
    <3> QED BY <1>8, <3>2, <3>3 DEF Holds
  <2> QED BY <2>1, <2>2
<1>12. MapIsRight(heard \cup {<<c, "O01">>}, m)
  BY <1>10, <1>11 DEF MapIsRight
<1> QED BY <1>0, <1>4, <1>9, <1>12 DEF m

(* A confirmation is kept last, and what is taken out is all of its number.  *)
LEMMA HeldGrows ==
    ASSUME NEW heard, NEW held \in Seq([no : Requested, msg : Notices]), NEW n \in Notices,
           HeldAreEarly(heard, held), Len(held) < PendingCap,
           n.kind \in Verdicts, <<n.no, "H01">> \notin heard,
           n.no \notin Amends => <<n.no, "O01">> \notin heard
    PROVE  LET t == Stored(held, PendingCap, [no |-> n.no, msg |-> n])
           IN /\ t \in Seq([no : Requested, msg : Notices])
              /\ HeldAreEarly(heard \cup {<<n.no, "H01">>}, t)
              /\ \A d : Holds(t, d) <=> Holds(held, d) \/ d = n.no
<1>0. PICK e : e = [no |-> n.no, msg |-> n]
  OBVIOUS
<1> DEFINE t == Stored(held, PendingCap, e)
<1>1. e \in [no : Requested, msg : Notices] /\ e.no = n.no /\ e.msg = n
  BY <1>0 DEF Notices
<1>2. \A i \in DOMAIN held : held[i].no # e.no
  BY <1>1 DEF HeldAreEarly
<1>3. PendingCap \in Nat \ {0} /\ Len(held) \in Nat /\ ~(Len(held) >= PendingCap)
  BY LsNoticesAssumption
<1>4. /\ t \in Seq([no : Requested, msg : Notices]) /\ Len(t) = Len(held) + 1
      /\ t[Len(t)] = e
      /\ \A i \in 1..Len(held) : t[i] = held[i]
  <2>1. PICK S : S = [no : Requested, msg : Notices]
    OBVIOUS
  <2>2. held \in Seq(S) /\ e \in S
    BY <1>1, <2>1
  <2>3. PICK cap : cap = PendingCap
    OBVIOUS
  <2>4. LET l == Stored(held, cap, e)
            j == IF Len(held) >= cap THEN 1 ELSE 0
        IN /\ l \in Seq(S) /\ Len(l) = Len(held) - j + 1
           /\ j <= Len(held)
           /\ l[Len(l)] = e
           /\ \A i \in 1..Len(held) - j : l[i] = held[i + j]
    BY <1>2, <1>3, <2>2, <2>3, StoredLast
  <2> QED BY <1>3, <2>1, <2>3, <2>4
<1> HIDE DEF t
<1>5. DOMAIN t = DOMAIN held \cup {Len(t)} /\ Len(t) \notin DOMAIN held /\ \A i \in DOMAIN held : t[i] = held[i]
  <2>1. DOMAIN held = 1..Len(held)
    OBVIOUS
  <2>2. DOMAIN t = 1..Len(held) + 1
    BY <1>4
  <2>3. 1..Len(held) + 1 = 1..Len(held) \cup {Len(held) + 1} /\ Len(held) + 1 \notin 1..Len(held)
    BY <1>3
  <2> QED BY <1>4, <2>1, <2>2, <2>3
<1>6. \A d : Holds(t, d) <=> Holds(held, d) \/ d = n.no
  BY <1>1, <1>4, <1>5 DEF Holds
<1>7. HeldAreEarly(heard \cup {<<n.no, "H01">>}, t)
  <2>1. ASSUME NEW i \in DOMAIN t
        PROVE  /\ t[i].msg.no = t[i].no /\ t[i].msg.kind \in Verdicts
               /\ <<t[i].no, "H01">> \in heard \cup {<<n.no, "H01">>}
               /\ t[i].no \notin Amends => <<t[i].no, "O01">> \notin heard \cup {<<n.no, "H01">>}
    <3>1. CASE i = Len(t)
      BY <1>1, <1>4, <3>1
    <3>2. CASE i \in DOMAIN held
      BY <1>5, <3>2 DEF HeldAreEarly
    <3> QED BY <1>5, <3>1, <3>2
  <2>2. \A i, j \in DOMAIN t : t[i].no = t[j].no => i = j
    BY <1>1, <1>2, <1>4, <1>5 DEF HeldAreEarly
  <2> QED BY <2>1, <2>2 DEF HeldAreEarly
<1> QED BY <1>4, <1>6, <1>7, <1>0 DEF t

LEMMA HeldShrinks ==
    ASSUME NEW heard, NEW held \in Seq([no : Requested, msg : Notices]), NEW c \in Requested,
           NEW k \in DOMAIN held, HeldAreEarly(heard, held), held[k].no = c
    PROVE  LET t == RemoveAt(held, k)
           IN /\ t \in Seq([no : Requested, msg : Notices])
              /\ HeldAreEarly(heard \cup {<<c, "O01">>}, t)
              /\ \A d : Holds(t, d) <=> Holds(held, d) /\ d # c
<1> DEFINE t == RemoveAt(held, k)
           At(i) == IF i < k THEN i ELSE i + 1
<1>1. k \in 1..Len(held) /\ Len(held) \in Nat /\ DOMAIN held = 1..Len(held)
  OBVIOUS
<1>2. /\ t \in Seq([no : Requested, msg : Notices]) /\ Len(t) = Len(held) - 1
      /\ \A i \in 1..Len(t) : t[i] = held[At(i)]
  BY <1>1, TakenOut
<1> HIDE DEF t
<1>3. DOMAIN t = 1..Len(t)
  BY <1>2
<1>4. \A i \in DOMAIN t : At(i) \in DOMAIN held /\ At(i) # k /\ t[i] = held[At(i)]
  BY <1>1, <1>2, <1>3
<1>5. \A i, j \in DOMAIN t : At(i) = At(j) => i = j
  BY <1>1, <1>2, <1>3
<1>6. \A j \in DOMAIN held : j # k => \E i \in DOMAIN t : At(i) = j
  <2> SUFFICES ASSUME NEW j \in DOMAIN held, j # k PROVE \E i \in DOMAIN t : At(i) = j
    OBVIOUS
  <2>1. CASE j < k
    <3>1. j \in DOMAIN t /\ At(j) = j
      BY <1>1, <1>2, <1>3, <2>1
    <3> QED BY <3>1
  <2>2. CASE ~(j < k)
    <3>1. j - 1 \in DOMAIN t /\ At(j - 1) = j
      BY <1>1, <1>2, <1>3, <2>2
    <3> QED BY <3>1
  <2> QED BY <2>1, <2>2
<1> HIDE DEF At
<1>7. \A i \in DOMAIN t : t[i].no # c
  BY <1>4 DEF HeldAreEarly
<1>8. \A d : Holds(t, d) <=> Holds(held, d) /\ d # c
  BY <1>4, <1>6, <1>7 DEF Holds
<1>9. HeldAreEarly(heard \cup {<<c, "O01">>}, t)
  <2>1. \A i, j \in DOMAIN t : t[i].no = t[j].no => i = j
    BY <1>4, <1>5 DEF HeldAreEarly
  <2>2. ASSUME NEW i \in DOMAIN t
        PROVE  /\ t[i].msg.no = t[i].no /\ t[i].msg.kind \in Verdicts
               /\ <<t[i].no, "H01">> \in heard \cup {<<c, "O01">>}
               /\ t[i].no \notin Amends => <<t[i].no, "O01">> \notin heard \cup {<<c, "O01">>}
    BY <1>4, <1>7 DEF HeldAreEarly
  <2> QED BY <2>1, <2>2 DEF HeldAreEarly
<1> QED BY <1>2, <1>8, <1>9 DEF t

(* An event that is no verdict tells nothing; a verdict tells once, if       *)
(* nothing was told of its number before.                                    *)
LEMMA NothingTold ==
    ASSUME NEW heard, NEW heard2, NEW held, NEW held2, NEW p \in Seq(Events), NEW e \in Events,
           HeardAreTold(heard, held, p), e.kind \notin Verdicts,
           \A d \in Requested : /\ <<d, "H01">> \in heard2 <=> <<d, "H01">> \in heard
                                /\ Holds(held2, d) <=> Holds(held, d)
    PROVE  HeardAreTold(heard2, held2, Append(p, e))
<1>1. /\ \A i \in DOMAIN p : Append(p, e)[i] = p[i]
      /\ \A c : ToldAt(Append(p, e), c) = ToldAt(p, c)
  BY OneMoreTold
<1>2. \A c : ToldAt(p, c) \subseteq DOMAIN p
  BY DEF ToldAt
<1> QED BY <1>1, <1>2 DEF HeardAreTold

LEMMA ToldNow ==
    ASSUME NEW heard, NEW heard2, NEW held, NEW held2, NEW p \in Seq(Events), NEW e \in Events,
           NEW c \in Requested,
           HeardAreTold(heard, held, p), e.kind \in Verdicts, e.no = c, e.org = OrgOf[c],
           ToldAt(p, c) = {}, <<c, "H01">> \in heard2, ~Holds(held2, c),
           \A d \in Requested : d # c => /\ <<d, "H01">> \in heard2 <=> <<d, "H01">> \in heard
                                         /\ Holds(held2, d) <=> Holds(held, d)
    PROVE  HeardAreTold(heard2, held2, Append(p, e))
<1> DEFINE q == Append(p, e)
<1>1. /\ \A i \in DOMAIN p : q[i] = p[i]
      /\ q[Len(p) + 1] = e
      /\ ToldAt(q, c) = {Len(p) + 1}
      /\ \A d : d # c => ToldAt(q, d) = ToldAt(p, d)
  BY OneMoreTold
<1>2. \A d : ToldAt(p, d) \subseteq DOMAIN p
  BY DEF ToldAt
<1> HIDE DEF q
<1>3. ASSUME NEW d \in Requested
      PROVE  /\ \A i, j \in ToldAt(q, d) : i = j
             /\ \A i \in ToldAt(q, d) : q[i].org = OrgOf[d]
             /\ ToldAt(q, d) # {} => <<d, "H01">> \in heard2 /\ ~Holds(held2, d)
             /\ d \notin Amends /\ <<d, "H01">> \in heard2 /\ ~Holds(held2, d) => ToldAt(q, d) # {}
  <2>1. CASE d = c
    BY <1>1, <2>1
  <2>2. CASE d # c
    BY <1>1, <1>2, <2>2 DEF HeardAreTold
  <2> QED BY <2>1, <2>2
<1> QED BY <1>3 DEF HeardAreTold, q

LEMMA NotToldYet ==
    ASSUME NEW heard, NEW heard2, NEW held, NEW held2, NEW p \in Seq(Events), NEW c \in Requested,
           HeardAreTold(heard, held, p), ToldAt(p, c) = {}, Holds(held2, c),
           \A d \in Requested : d # c => /\ <<d, "H01">> \in heard2 <=> <<d, "H01">> \in heard
                                         /\ Holds(held2, d) <=> Holds(held, d)
    PROVE  HeardAreTold(heard2, held2, p)
<1>1. ASSUME NEW d \in Requested
      PROVE  /\ \A i, j \in ToldAt(p, d) : i = j
             /\ \A i \in ToldAt(p, d) : p[i].org = OrgOf[d]
             /\ ToldAt(p, d) # {} => <<d, "H01">> \in heard2 /\ ~Holds(held2, d)
             /\ d \notin Amends /\ <<d, "H01">> \in heard2 /\ ~Holds(held2, d) => ToldAt(p, d) # {}
  BY DEF HeardAreTold
<1> QED BY <1>1 DEF HeardAreTold

(* An acceptance is remembered, passed on, and lets go what was kept for it. *)
LEMMA AcceptKeeps ==
    ASSUME LnInv, NoticesInTime, NEW n \in onWay, Deliver(n), DeliverO01(n)
    PROVE  LnInv'
<1>1. onWay' = onWay \ {n} /\ sentNotices' = sentNotices /\ n.tr = "O01"
  BY DEF Deliver, DeliverO01
<1>2. /\ LnTypes /\ NoticesDiffer /\ MapIsRight(Heard, orgBy)
      /\ HeldAreEarly(Heard, heldNotices) /\ HeardAreTold(Heard, heldNotices, passed)
  BY DEF LnInv, LnMap, LnHeld, LnTold
<1>3. /\ Heard' = Heard \cup {<<n.no, "O01">>} /\ <<n.no, "O01">> \notin Heard
      /\ NoticesDiffer' /\ onWay' \subseteq Notices /\ n \in Notices /\ n.no \in Requested
  BY <1>1, <1>2, HearsOne
<1>4. PICK c \in Requested : c = n.no
  BY <1>3
<1>5. PICK heard, map, held, p : heard = Heard /\ map = orgBy /\ held = heldNotices /\ p = passed
  OBVIOUS
<1>6. /\ map \in Seq([no : Requested, org : Originals])
      /\ held \in Seq([no : Requested, msg : Notices]) /\ p \in Seq(Events)
      /\ MapIsRight(heard, map) /\ HeldAreEarly(heard, held) /\ HeardAreTold(heard, held, p)
  BY <1>2, <1>5 DEF LnTypes
<1>7. /\ orgBy' = Stored(map, CancelMapCap, [no |-> c, org |-> OrgOf[c]])
      /\ Len(map) >= CancelMapCap => <<map[1].no, "H01">> \in heard
      /\ <<c, "O01">> \notin heard /\ Heard' = heard \cup {<<c, "O01">>}
  BY <1>3, <1>4, <1>5 DEF DeliverO01, NoticesInTime
<1>8. /\ orgBy' \in Seq([no : Requested, org : Originals])
      /\ MapIsRight(Heard', orgBy') /\ Holds(orgBy', c)
  BY <1>6, <1>7, MapGrows
<1>9. PICK a : a = Accepted(n)
  OBVIOUS
<1>10. n.kind = AcceptKind(c)
  BY <1>1, <1>2, <1>4 DEF NoticesDiffer
<1>11. a \in Events /\ a.kind \notin Verdicts
  BY <1>4, <1>9, <1>10, LsNoticesAssumption DEF Accepted, Event, Events, AcceptKind, Verdicts
<1>12. \A d \in Requested : <<d, "H01">> \in Heard' <=> <<d, "H01">> \in heard
  BY <1>7
<1>13. /\ heldNotices' \in Seq([no : Requested, msg : Notices]) /\ passed' \in Seq(Events)
       /\ HeldAreEarly(Heard', heldNotices') /\ HeardAreTold(Heard', heldNotices', passed')
  <2>1. CASE n.kind = "cancel_ack" /\ Of(held, c) # {}
    <3>1. PICK k : k = EntryOf(held, c)
      OBVIOUS
    <3>2. k \in DOMAIN held /\ held[k].no = c
      BY <2>1, <3>1, Zenon DEF EntryOf, Of
    <3>3. PICK b : b = Confirmed(orgBy', held[k].msg)
      OBVIOUS
    <3>4. passed' = p \o <<a, b>> /\ heldNotices' = RemoveAt(held, k)
      BY <1>4, <1>5, <1>9, <2>1, <3>1, <3>3 DEF DeliverO01
    <3>5. /\ heldNotices' \in Seq([no : Requested, msg : Notices])
          /\ HeldAreEarly(Heard', heldNotices')
          /\ \A d : Holds(heldNotices', d) <=> Holds(held, d) /\ d # c
      BY <1>6, <1>7, <3>2, <3>4, HeldShrinks
    <3>6. PICK m \in Notices : m = held[k].msg
      <4>1. PICK S : S = [no : Requested, msg : Notices]
        OBVIOUS
      <4>2. held \in Seq(S)
        BY <1>6, <4>1
      <4>3. held[k] \in S
        BY <3>2, <4>2
      <4> QED BY <4>1, <4>3
    <3>7. m.no = c /\ m.kind \in Verdicts /\ <<c, "H01">> \in heard
      BY <1>6, <3>2, <3>6 DEF HeldAreEarly
    <3>8. OrgIn(orgBy', m) = OrgOf[c]
      <4>1. Of(orgBy', c) # {}
        BY <1>8 DEF Holds, Of
      <4>2. EntryOf(orgBy', c) \in Of(orgBy', c)
        BY <4>1, Zenon DEF EntryOf
      <4>3. orgBy'[EntryOf(orgBy', c)].org = OrgOf[c]
        BY <1>8, <4>2 DEF Of, MapIsRight
      <4> QED BY <3>7, <4>1, <4>3 DEF OrgIn
    <3>9. b \in Events /\ b.kind \in Verdicts /\ b.no = c /\ b.org = OrgOf[c]
      BY <3>3, <3>6, <3>7, <3>8, LsNoticesAssumption DEF Confirmed, Event, Events
    <3>10. Holds(held, c)
      BY <3>2 DEF Holds
    <3>11. ToldAt(p, c) = {}
      BY <1>6, <3>10 DEF HeardAreTold
    <3>12. PICK q : q = Append(p, a)
      OBVIOUS
    <3>13. q \in Seq(Events) /\ ToldAt(q, c) = {}
      BY <1>6, <1>11, <3>11, <3>12, OneMoreTold
    <3>14. HeardAreTold(heard, held, q)
      BY <1>6, <1>11, <3>12, NothingTold
    <3>15. passed' = Append(q, b) /\ passed' \in Seq(Events)
      BY <1>6, <1>11, <3>4, <3>9, <3>12, <3>13, TwoMore, OneMoreTold
    <3>16. HeardAreTold(Heard', heldNotices', passed')
      BY <1>12, <3>5, <3>7, <3>9, <3>13, <3>14, <3>15, ToldNow
    <3> QED BY <3>5, <3>15, <3>16
  <2>2. CASE ~(n.kind = "cancel_ack" /\ Of(held, c) # {})
    <3>1. passed' = Append(p, a) /\ heldNotices' = held
      BY <1>4, <1>5, <1>9, <2>2 DEF DeliverO01
    <3>2. passed' \in Seq(Events)
      BY <1>6, <1>11, <3>1, OneMoreTold
    <3>3. HeardAreTold(Heard', heldNotices', passed')
      BY <1>6, <1>11, <1>12, <3>1, NothingTold
    <3>4. \A i \in DOMAIN held : held[i].no \notin Amends => held[i].no # c
      BY <1>10, <2>2 DEF AcceptKind, Of
    <3>5. HeldAreEarly(Heard', held)
      BY <1>6, <1>7, <3>4 DEF HeldAreEarly
    <3> QED BY <1>6, <3>1, <3>2, <3>3, <3>5
  <2> QED BY <2>1, <2>2
<1>14. LnTypes'
  BY <1>1, <1>2, <1>3, <1>8, <1>13 DEF LnTypes
<1>15. LnMap' /\ LnHeld' /\ LnTold'
  BY <1>8, <1>13 DEF LnMap, LnHeld, LnTold
<1> QED BY <1>3, <1>14, <1>15 DEF LnInv

(* A confirmation is passed on if the order it is about is known, and kept   *)
(* if it is not.                                                             *)
LEMMA ConfirmKeeps ==
    ASSUME LnInv, NoticesInTime, NEW n \in onWay, Deliver(n), DeliverH01(n)
    PROVE  LnInv'
<1>1. onWay' = onWay \ {n} /\ sentNotices' = sentNotices /\ n.tr = "H01" /\ orgBy' = orgBy
  BY DEF Deliver, DeliverH01
<1>2. /\ LnTypes /\ NoticesDiffer /\ MapIsRight(Heard, orgBy)
      /\ HeldAreEarly(Heard, heldNotices) /\ HeardAreTold(Heard, heldNotices, passed)
  BY DEF LnInv, LnMap, LnHeld, LnTold
<1>3. /\ Heard' = Heard \cup {<<n.no, "H01">>} /\ <<n.no, "H01">> \notin Heard
      /\ NoticesDiffer' /\ onWay' \subseteq Notices /\ n \in Notices /\ n.no \in Requested
  BY <1>1, <1>2, HearsOne
<1>4. PICK c \in Requested : c = n.no
  BY <1>3
<1>5. PICK heard, map, held, p : heard = Heard /\ map = orgBy /\ held = heldNotices /\ p = passed
  OBVIOUS
<1>6. /\ map \in Seq([no : Requested, org : Originals])
      /\ held \in Seq([no : Requested, msg : Notices]) /\ p \in Seq(Events)
      /\ MapIsRight(heard, map) /\ HeldAreEarly(heard, held) /\ HeardAreTold(heard, held, p)
  BY <1>2, <1>5 DEF LnTypes
<1>7. n.kind \in Verdicts
  BY <1>1, <1>2 DEF NoticesDiffer
<1>8. <<c, "H01">> \notin heard /\ Heard' = heard \cup {<<c, "H01">>}
  BY <1>3, <1>4, <1>5
<1>9. ToldAt(p, c) = {} /\ ~Holds(held, c)
  BY <1>6, <1>8 DEF HeardAreTold, HeldAreEarly, Holds
<1>10. MapIsRight(Heard', map)
  BY <1>6, <1>8 DEF MapIsRight
<1>11. \A d \in Requested : d # c => (<<d, "H01">> \in Heard' <=> <<d, "H01">> \in heard)
  BY <1>8
<1>12. /\ heldNotices' \in Seq([no : Requested, msg : Notices]) /\ passed' \in Seq(Events)
       /\ HeldAreEarly(Heard', heldNotices') /\ HeardAreTold(Heard', heldNotices', passed')
  <2>1. CASE OrgIn(map, n) = UnknownOrder
    <3>1. OrgOf[c] \in Originals /\ OrgOf[c] # UnknownOrder
      BY LsNoticesAssumption
    <3>2. Of(map, c) = {}
      <4> SUFFICES ASSUME Of(map, c) # {} PROVE FALSE
        OBVIOUS
      <4>1. EntryOf(map, c) \in Of(map, c)
        BY Zenon DEF EntryOf
      <4>2. map[EntryOf(map, c)].org = OrgOf[c]
        BY <1>6, <4>1 DEF Of, MapIsRight
      <4> QED BY <1>4, <2>1, <3>1, <4>2 DEF OrgIn
    <3>3. c \notin Amends => <<c, "O01">> \notin heard
      BY <1>6, <1>8, <3>2 DEF MapIsRight, Holds, Of
    <3>4. /\ heldNotices' = Stored(held, PendingCap, [no |-> n.no, msg |-> n]) /\ passed' = p
          /\ Len(held) < PendingCap
      BY <1>5, <2>1 DEF DeliverH01, NoticesInTime
    <3>5. /\ heldNotices' \in Seq([no : Requested, msg : Notices])
          /\ HeldAreEarly(Heard', heldNotices')
          /\ \A d : Holds(heldNotices', d) <=> Holds(held, d) \/ d = c
      <4>1. /\ <<n.no, "H01">> \notin heard /\ (n.no \notin Amends => <<n.no, "O01">> \notin heard)
            /\ Heard' = heard \cup {<<n.no, "H01">>}
        BY <1>4, <1>8, <3>3
      <4>2. /\ n \in Notices /\ held \in Seq([no : Requested, msg : Notices])
            /\ HeldAreEarly(heard, held) /\ Len(held) < PendingCap
        BY <1>3, <1>6, <3>4
      <4>3. LET t == Stored(held, PendingCap, [no |-> n.no, msg |-> n])
            IN /\ t \in Seq([no : Requested, msg : Notices])
               /\ HeldAreEarly(heard \cup {<<n.no, "H01">>}, t)
               /\ \A d : Holds(t, d) <=> Holds(held, d) \/ d = n.no
        BY <1>7, <4>1, <4>2, HeldGrows
      <4> QED BY <1>4, <3>4, <4>1, <4>3
    <3>6. HeardAreTold(Heard', heldNotices', p)
      BY <1>6, <1>9, <1>11, <3>5, NotToldYet
    <3> QED BY <1>6, <3>4, <3>5, <3>6
  <2>2. CASE OrgIn(map, n) # UnknownOrder
    <3>1. PICK e : e = Confirmed(map, n)
      OBVIOUS
    <3>2. passed' = Append(p, e) /\ heldNotices' = held
      BY <1>5, <2>2, <3>1 DEF DeliverH01
    <3>3. OrgIn(map, n) = OrgOf[c]
      <4>1. CASE n.named
        BY <1>4, <4>1 DEF OrgIn
      <4>2. CASE ~n.named
        <5>1. Of(map, c) # {} /\ OrgIn(map, n) = map[EntryOf(map, c)].org
          BY <1>4, <2>2, <4>2 DEF OrgIn
        <5>2. EntryOf(map, c) \in Of(map, c)
          BY <5>1, Zenon DEF EntryOf
        <5> QED BY <1>6, <5>1, <5>2 DEF Of, MapIsRight
      <4> QED BY <4>1, <4>2
    <3>4. e \in Events /\ e.kind \in Verdicts /\ e.no = c /\ e.org = OrgOf[c]
      BY <1>4, <1>7, <3>1, <3>3, LsNoticesAssumption DEF Confirmed, Event, Events
    <3>5. passed' \in Seq(Events)
      BY <1>6, <3>2, <3>4, OneMoreTold
    <3>6. <<c, "H01">> \in Heard'
      BY <1>8
    <3>7. HeardAreTold(Heard', heldNotices', passed')
      BY <1>6, <1>9, <1>11, <3>2, <3>4, <3>6, ToldNow
    <3>8. \A i \in DOMAIN held : held[i].no # c
      BY <1>9 DEF Holds
    <3>9. HeldAreEarly(Heard', held)
      BY <1>6, <1>8 DEF HeldAreEarly
    <3> QED BY <1>6, <3>2, <3>5, <3>7, <3>9
  <2> QED BY <2>1, <2>2
<1>13. LnTypes'
  BY <1>1, <1>2, <1>3, <1>12 DEF LnTypes
<1>14. LnMap' /\ LnHeld' /\ LnTold'
  BY <1>1, <1>5, <1>10, <1>12 DEF LnMap, LnHeld, LnTold
<1> QED BY <1>3, <1>13, <1>14 DEF LnInv

LEMMA LnStep ==
    ASSUME LnInv, NoticesInTime, [LnNext]_lnVars
    PROVE  LnInv'
<1>1. ASSUME NEW c \in Requested, SendNotice(c) PROVE LnInv'
  BY <1>1, NoticeSent
<1>2. ASSUME NEW n \in onWay, Deliver(n) PROVE LnInv'
  <2>1. DeliverO01(n) \/ DeliverH01(n)
    BY <1>2 DEF Deliver
  <2> QED BY <1>2, <2>1, AcceptKeeps, ConfirmKeeps
<1>3. CASE UNCHANGED lnVars
  <2>1. /\ sentNotices' = sentNotices /\ onWay' = onWay /\ orgBy' = orgBy
        /\ heldNotices' = heldNotices /\ passed' = passed
    BY <1>3 DEF lnVars
  <2>2. LnTypes' /\ NoticesDiffer'
    BY <2>1 DEF LnInv, LnTypes, NoticesDiffer
  <2>3. Heard' = Heard
    BY <2>1 DEF Heard
  <2>4. LnMap' /\ LnHeld' /\ LnTold'
    BY <2>1, <2>3 DEF LnInv, LnMap, LnHeld, LnTold
  <2> QED BY <2>2, <2>4 DEF LnInv
<1> QED BY <1>1, <1>2, <1>3 DEF LnNext

LEMMA LnResult ==
    ASSUME LnInv PROVE EveryConfirmationArrives
<1> SUFFICES ASSUME NEW c \in Requested \ Amends
             PROVE  /\ \A i, j \in ToldAt(passed, c) : i = j
                    /\ \A i \in ToldAt(passed, c) : passed[i].org = OrgOf[c]
                    /\ sentNotices[c] = {"O01", "H01"} /\ (\A n \in onWay : n.no # c)
                       => ToldAt(passed, c) # {}
  BY DEF EveryConfirmationArrives, ToldAt
<1>1. HeldAreEarly(Heard, heldNotices) /\ HeardAreTold(Heard, heldNotices, passed)
  BY DEF LnInv, LnHeld, LnTold
<1>2. ASSUME sentNotices[c] = {"O01", "H01"}, \A n \in onWay : n.no # c
      PROVE  ToldAt(passed, c) # {}
  <2>1. <<c, "O01">> \in Heard /\ <<c, "H01">> \in Heard
    BY <1>2 DEF Heard
  <2>2. ~Holds(heldNotices, c)
    BY <1>1, <2>1 DEF HeldAreEarly, Holds
  <2> QED BY <1>1, <2>1, <2>2 DEF HeardAreTold
<1> QED BY <1>1, <1>2 DEF HeardAreTold

-----------------------------------------------------------------------------
(***************************************************************************)
(* The components together: each of them takes its own steps and no other. *)
(***************************************************************************)
LEMMA PartSteps ==
  ASSUME [MCNext]_<<part, lsSide, hlSide, ownSide>>
  PROVE  /\ [LsAccountNext]_accountVars /\ [LrNext]_lrVars
         /\ [HoNext]_hoVars /\ [HfNext]_hfVars /\ [HlMergeNext]_mergeVars
         /\ [SfNext]_sfVars /\ [DayLogNext]_logVars /\ [ArbNext]_arbVars
         /\ [LfNext]_lfVars /\ [LnNext]_lnVars
<1>1. ASSUME UNCHANGED lsSide PROVE UNCHANGED <<accountVars, lrVars, lfVars, lnVars>>
  BY <1>1 DEF lsSide
<1>2. ASSUME UNCHANGED hlSide PROVE UNCHANGED <<hoVars, hfVars, mergeVars>>
  BY <1>2 DEF hlSide
<1>o. ASSUME UNCHANGED ownSide PROVE UNCHANGED <<sfVars, logVars, arbVars>>
  BY <1>o DEF ownSide
<1>3. CASE LsFeeds
  BY <1>3, <1>2, <1>o DEF LsFeeds
<1>n. CASE LsNotified
  BY <1>n, <1>2, <1>o DEF LsNotified
<1>4. CASE LsRequests
  BY <1>4, <1>2, <1>o DEF LsRequests
<1>5. CASE LsAccounts
  BY <1>5, <1>2, <1>o DEF LsAccounts
<1>6. CASE HlFeeds \/ HlMerges
  BY <1>6, <1>1, <1>o DEF HlFeeds, HlMerges
<1>7. CASE HlPlaces
  BY <1>7, <1>1, <1>o DEF HlPlaces
<1>8. CASE Saves \/ Records \/ Cycles
  BY <1>8, <1>1, <1>2 DEF Saves, Records, Cycles
<1>9. CASE UNCHANGED <<part, lsSide, hlSide, ownSide>>
  BY <1>9, <1>1, <1>2, <1>o
<1> QED BY <1>3, <1>n, <1>4, <1>5, <1>6, <1>7, <1>8, <1>9 DEF MCNext

RequestsInv == HoInv /\ AccountInv /\ LrInv

(* The inductive invariant of the requests: a request is at one place at a *)
(* time and the exchange has what its answer says (_exchange_action,       *)
(* _recover_by_cloid), a context has its order's code (_require), a token  *)
(* in a request outlives every try of it (_refresh).                       *)
THEOREM RequestsSound == MCSpec => []RequestsInv
<1>1. MCInit => RequestsInv
  BY HoInitInv, AccountInitInv, LrInitInv DEF MCInit, RequestsInv
<1>2. RequestsInv /\ [MCNext]_<<part, lsSide, hlSide, ownSide>> => RequestsInv'
  BY PartSteps, HoStep, AccountStep, LrStep DEF RequestsInv
<1> QED BY <1>1, <1>2, PTL DEF MCSpec

(* What is said of an order is true of it: an order with a number was      *)
(* accepted once, an order refused is not at the exchange and will not be  *)
(* (PlaceResult), and a cancel names the code of its order (_require).     *)
THEOREM SaidIsTrue == MCSpec => []SaidOfTheOrder
<1>1. RequestsInv => SaidOfTheOrder
  BY HoResults DEF RequestsInv, AccountInv, SaidOfTheOrder, CallNamesItsOrder
<1> QED BY <1>1, RequestsSound, PTL

(* No send carries a token past its expiry, and no token is fetched while  *)
(* a good one is cached (get_token, _refresh, request).                    *)
THEOREM TokenStaysGood == MCSpec => []TokenIsGood
<1>1. RequestsInv => TokenIsGood
  BY LrResults DEF RequestsInv, TokenIsGood
<1> QED BY <1>1, RequestsSound, PTL

(* However sending fails and answers are lost, an order is taken once at   *)
(* most: by the exchange (_place_group) and by the broker (is_order_tr).   *)
THEOREM OrdersGoOnce == MCSpec => [](AcceptedAtMostOnce /\ OrderReachesOnce)
<1>1. RequestsInv => AcceptedAtMostOnce /\ OrderReachesOnce
  BY HoResults, LrResults DEF RequestsInv
<1> QED BY <1>1, RequestsSound, PTL

(* What was saved last is in one of the two files a start reads            *)
(* (write_if_changed), and the position that is stored is the one that was *)
(* read (save_position).                                                   *)
THEOREM SavedIsThere == MCSpec => []StoredIsKept
<1> DEFINE Inv == SfInv /\ ArbInv
<1>1. MCInit => Inv
  BY SfInitInv, ArbInitInv DEF MCInit
<1>2. Inv /\ [MCNext]_<<part, lsSide, hlSide, ownSide>> => Inv'
  BY PartSteps, SfStep, ArbStep
<1>3. Inv => StoredIsKept
  BY DEF SfInv, ArbInv, StoredIsKept, LastSaveIsKept
<1> QED BY <1>1, <1>2, <1>3, PTL DEF MCSpec

(* However fast the unit of a book changes and the connection breaks, the  *)
(* exchange serves one stream of it, in the unit wanted, once nothing      *)
(* waits to be sent (set_l2_aggregation, _control_loop).                   *)
THEOREM OneStreamServed == MCSpec => []OneStream
<1>1. MCInit => MergeInv
  BY MergeInitInv DEF MCInit
<1>2. MergeInv /\ [MCNext]_<<part, lsSide, hlSide, ownSide>> => MergeInv'
  BY PartSteps, MergeStep
<1>3. MergeInv => OneStream
  BY DEF MergeInv, OneStream
<1> QED BY <1>1, <1>2, <1>3, PTL DEF MCSpec

(* While the memory of fills has room (it drops the oldest of MaxTids),    *)
(* nothing counts twice: no order at the exchange or the broker, no fill   *)
(* in the book (_seen_tids), no end of an order in the day's list          *)
(* (_cancel_recorded), no row on the screen and no stream of a book.       *)
THEOREM NothingCountsAgain ==
  ASSUME MaxHlFills <= MaxTids
  PROVE  MCSpec => []NothingCountsTwice
<1> DEFINE Inv == FeedInv /\ RowsInv /\ ListInv
<1>1. MCInit => Inv
  BY FeedInitInv, LogInitInv DEF MCInit
<1>2. Inv /\ [MCNext]_<<part, lsSide, hlSide, ownSide>> => Inv'
  BY PartSteps, FeedStep, LogStep
<1>3. FeedInv => NoFillTwice
  BY DEF FeedInv, NoFillTwice
<1>4. Inv => NoFillTwice /\ CancelListedOnce /\ NoRowTwice
  BY <1>3, LogResults
<1>5. /\ NoFillTwice /\ CancelListedOnce /\ NoRowTwice
      /\ AcceptedAtMostOnce /\ OrderReachesOnce /\ OneStream
      => NothingCountsTwice
  BY DEF NothingCountsTwice
<1> QED BY <1>1, <1>2, <1>4, <1>5, OrdersGoOnce, OneStreamServed, PTL DEF MCSpec

(* Once a WebSocket channel has settled the broker streams the keys of the *)
(* plan, and whatever else the order of connections, drops and changes of  *)
(* plan was (_sub_lock); and a list read in pages names orders that a core *)
(* just started can cancel (_adopt).                                       *)
THEOREM PlanIsServed == MCSpec => [](FeedServesPlan /\ ListedIsKnown)
<1> DEFINE Inv == LfInv /\ AccountInv /\ KnownInv
<1>1. MCInit => Inv
  BY LfInitInv, AccountInitInv, KnownInitInv DEF MCInit
<1>2. Inv /\ [MCNext]_<<part, lsSide, hlSide, ownSide>> => Inv'
  BY PartSteps, LfStep, AccountStep, KnownStep
<1>3. Inv => FeedServesPlan /\ ListedIsKnown
  BY LfResult DEF KnownInv
<1> QED BY <1>1, <1>2, <1>3, PTL DEF MCSpec

(* Nothing is missed for good: the fills of the first gap                  *)
(* (_mark_disconnected), the keys of the plan (_sub_lock), a confirmation  *)
(* that overtook its order (_pending_h01), the orders of a list in pages   *)
(* (_deriv_open_orders).  It holds as long as what is kept has room: the   *)
(* memory of fills, the broker's pages for the orders there are, and the   *)
(* two dicts of notices for those that wait.                               *)
THEOREM NothingGoesMissing ==
  ASSUME MaxHlFills <= MaxTids, CanContinue, FutureOrders <= MaxPages * PageSize
  PROVE  MCSpec /\ []NoticesInTime => []NothingIsMissed
<1> DEFINE Inv == /\ LfInv /\ AccountInv /\ KnownInv /\ ReadInv
                  /\ FeedInv /\ GapInv /\ LnInv
<1>1. MCInit => Inv
  BY LfInitInv, AccountInitInv, KnownInitInv, ReadInitInv, FeedInitInv, GapInitInv, LnInitInv
     DEF MCInit
<1>2. Inv /\ NoticesInTime /\ [MCNext]_<<part, lsSide, hlSide, ownSide>> => Inv'
  <2> SUFFICES ASSUME Inv, NoticesInTime, [MCNext]_<<part, lsSide, hlSide, ownSide>>
               PROVE  Inv'
    OBVIOUS
  <2>1. /\ [LfNext]_lfVars /\ [LsAccountNext]_accountVars /\ [HfNext]_hfVars
        /\ [LnNext]_lnVars
    BY PartSteps
  <2>2. LfInv' /\ AccountInv'
    BY <2>1, LfStep, AccountStep
  <2>3. KnownInv' /\ ReadInv'
    BY <2>1, KnownStep
  <2>4. FeedInv' /\ GapInv'
    BY <2>1, FeedStep, GapStep
  <2>5. LnInv'
    BY <2>1, LnStep
  <2> QED BY <2>2, <2>3, <2>4, <2>5
<1>3. Inv => NothingIsMissed
  BY LfResult, ListResult, GapResult, LnResult DEF KnownInv, NothingIsMissed
<1> QED BY <1>1, <1>2, <1>3, PTL DEF MCSpec
=============================================================================
