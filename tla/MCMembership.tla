---------------------------- MODULE MCMembership ----------------------------
(* Instances of Membership for TLC. *)
EXTENDS Membership, TLC

CONSTANTS r1, r2, m1, m2

Interchangeable == Permutations(Requests) \cup Permutations(Mutators)
=============================================================================
