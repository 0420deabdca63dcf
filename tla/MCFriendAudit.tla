---------------------------- MODULE MCFriendAudit ----------------------------
(* TLC instances of FriendAudit. *)
EXTENDS FriendAudit

CONSTANTS a, b, c, z

=============================================================================
