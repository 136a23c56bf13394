---------------------------- MODULE OrderLedger ----------------------------
(***************************************************************************)
(* What the order book promises about the orders it follows, whatever the  *)
(* responses and notices do on their way: every lot an exchange executes   *)
(* is announced to the engines at most once and never before it is         *)
(* executed, and an order is closed in the book only when the exchange has *)
(* ended it and every executed lot has been announced.                     *)
(***************************************************************************)
EXTENDS Naturals

CONSTANTS Keys, Size

VARIABLES executed,  \* lots the exchange executed
          ended,     \* orders the exchange will execute no more of
          counted,   \* lots the book announced
          closed     \* orders closed in the book

vars == <<executed, ended, counted, closed>>

Init ==
  /\ executed = [k \in Keys |-> 0] /\ ended = {}
  /\ counted = [k \in Keys |-> 0] /\ closed = {}

Execute(k) ==
  /\ k \notin ended
  /\ \E n \in executed[k] .. Size[k] : executed' = [executed EXCEPT ![k] = n]
  /\ ended' \in {ended, ended \cup {k}}
  /\ UNCHANGED <<counted, closed>>

Count(k) ==
  /\ k \notin closed
  /\ \E n \in counted[k] .. executed[k] : counted' = [counted EXCEPT ![k] = n]
  /\ \/ closed' = closed
     \/ k \in ended /\ counted'[k] = executed[k] /\ closed' = closed \cup {k}
  /\ UNCHANGED <<executed, ended>>

Next == \E k \in Keys : Execute(k) \/ Count(k)

Spec == Init /\ [][Next]_vars
=============================================================================
