---------------------------- MODULE MCFriendship ----------------------------
(* Instances of Friendship for TLC. *)
EXTENDS Friendship

CONSTANTS a, b
=============================================================================
