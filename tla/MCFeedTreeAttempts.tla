------------------------- MODULE MCFeedTreeAttempts -------------------------
(* TLC instance of FeedTree: those of its behaviours in which no message is *)
(* lost, nobody restarts and only the publisher is ever held to have failed.*)
EXTENDS FeedTree

CONSTANTS p, a, b, c, d

\* the nearer to the publisher, the smaller
Ranks == [n \in Node |-> CASE n = p -> 0 [] n = a -> 1 [] n = b -> 2 [] n = c -> 3 [] n = d -> 4]

CalmNext ==
  \/ \E m \in msgs : Deliver(m)
  \/ \E n \in Node : NextFeedJoin(n) \/ PeerTimeout(n, Publisher)

CalmSpec == Init /\ [][CalmNext]_vars

=============================================================================
