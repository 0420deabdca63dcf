--------------------------- MODULE MCJoinSchedule ---------------------------
(* TLC instances of JoinSchedule. *)
EXTENDS JoinSchedule

=============================================================================
