--------------------------- MODULE MCDissemination ---------------------------
(* TLC instances of Dissemination. *)
EXTENDS Dissemination, TLC

\* subscribers other than the publisher are interchangeable
Symmetry == Permutations(Node \ {Publisher})

=============================================================================
