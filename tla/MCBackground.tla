---------------------------- MODULE MCBackground ----------------------------
(* Two contents, two files outside and two nested sources: what both hold  *)
(* is shared, what the first alone holds is not.                           *)
EXTENDS Background

CONSTANTS p1, p2, h1, h2, s1, s2

MCOriginal == p1 :> h1 @@ p2 :> h2
MCRoots == s1 :> {p1, p2} @@ s2 :> {p2}
=============================================================================
