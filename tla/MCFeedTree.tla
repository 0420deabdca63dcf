----------------------------- MODULE MCFeedTree -----------------------------
(* TLC instances of FeedTree. *)
EXTENDS FeedTree

CONSTANTS p, a, b

\* a lies between the publisher and b
Ranks == [n \in {p, a, b} |-> CASE n = p -> 0 [] n = a -> 1 [] n = b -> 2]

=============================================================================
