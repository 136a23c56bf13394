---------------------------- MODULE MCOneResync -----------------------------
(* Small instances of OrderResync in which a single order is placed, one   *)
(* of either exchange, and its account is refreshed.                       *)
EXTENDS OrderResync

CONSTANTS a, b

VARIABLE only   \* the order that is placed

HlOne == {a}
LsOne == {b}
QtyThree == [k \in {a, b} |-> 3]

OneInit == RInit /\ only \in Keys

OneNext ==
  /\ RNext
  /\ \A k \in Keys \ {only} : resp'[k] = resp[k]
  /\ snap'.scope # {} => only \in snap'.scope
  /\ UNCHANGED only

OneSpec == OneInit /\ [][OneNext]_<<rvars, only>>
=============================================================================
