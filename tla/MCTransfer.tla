----------------------------- MODULE MCTransfer -----------------------------
(* Instances of Transfer for TLC. *)
EXTENDS Transfer, TLC

CONSTANTS f1, f2, r1, r2, q1

Whole(n)  == [size |-> n, good |-> TRUE]
Bad(n) == [size |-> n, good |-> FALSE]
Man(o, quorum) == [size |-> o.size, good |-> o.good, quorum |-> quorum]

AnyManifest ==
  {NoManifest, Man(Whole(2), TRUE), Man(Bad(2), FALSE), Man(Whole(1), FALSE), Man(Whole(1), TRUE)}
RightOrLying == {Man(Whole(2), TRUE), Man(Bad(2), FALSE)}
HonestManifest == {NoManifest, Man(Whole(2), TRUE)}

AnyOffer    == <<{Whole(2), Bad(2), Whole(1)}, {Whole(2), Bad(2)}>>
HonestOffer == <<{Whole(2)}, {Whole(2)}>>
OneHonest   == <<{Whole(2)}>>

RelaySymmetry == Permutations(Readers) \cup Permutations(Fetches)
=============================================================================
