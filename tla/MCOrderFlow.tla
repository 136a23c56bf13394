---------------------------- MODULE MCOrderFlow ----------------------------
(* Small instances of OrderFlow for TLC, of one order at either exchange   *)
(* or of one at each.  Two orders share a buffer of early notices that     *)
(* holds one; they are smaller, and no notice of theirs comes twice.       *)
EXTENDS OrderFlow

CONSTANTS a, b,
          MaxShared   \* bound: lots executed of an order that has another beside it

VARIABLE placed   \* the orders that are placed

HlOne == {a}
LsOne == {b}
QtyThree == [k \in {a, b} |-> 3]

MCInit == Init /\ placed \in SUBSET Keys \ {{}}

MCNext ==
  /\ Next
  /\ \A k \in Keys \ placed : resp'[k] = resp[k]
  /\ placed = Keys => repeats' = 0 /\ \A k \in Keys : xfilled'[k] <= MaxShared
  /\ UNCHANGED placed

MCSpec == MCInit /\ [][MCNext]_<<vars, placed>> /\ Fairness
=============================================================================
