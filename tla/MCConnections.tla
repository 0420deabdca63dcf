---------------------------- MODULE MCConnections ----------------------------
(* TLC instance of Connections. *)
EXTENDS Connections

=============================================================================
