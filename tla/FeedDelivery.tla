---------------------------- MODULE FeedDelivery ----------------------------
(***************************************************************************)
(* What a feed promises: the publisher numbers its updates 1, 2, 3...      *)
(* without a gap, and a subscriber obtains each update at most once, from  *)
(* a node that has it already.  Nothing is said of order: subscribers may  *)
(* have gaps.  Dissemination implements this.                              *)
(***************************************************************************)
EXTENDS Integers

CONSTANTS Node, Publisher

VARIABLES
  published,  \* how many updates the publisher has published
  got         \* the updates each node has obtained

vars == <<published, got>>

Init ==
  /\ published = 0
  /\ got = [n \in Node |-> {}]

Publish ==
  /\ published' = published + 1
  /\ got' = [got EXCEPT ![Publisher] = @ \cup {published + 1}]

Obtain(n, d, s) ==
  /\ s \in got[d]
  /\ s \notin got[n]
  /\ got' = [got EXCEPT ![n] = @ \cup {s}]
  /\ UNCHANGED published

Next ==
  \/ Publish
  \/ \E n, d \in Node : \E s \in 1..published : Obtain(n, d, s)

Spec == Init /\ [][Next]_vars

=============================================================================
