-------------------------- MODULE MCServeLimits ---------------------------
(* Instances of ServeLimits for TLC. *)
EXTENDS ServeLimits, TLC

Edited  == <<"share", "total">>
Shipped == [k \in Knobs |-> IF k \in {"up", "share", "each"} THEN 1 ELSE 0]
Choices == [k \in Knobs |-> CASE k = "total" -> {0, 1}
                              [] k = "share" -> {0, 1, 2}
                              [] OTHER -> {Shipped[k]}]
Kept    == [Shipped EXCEPT !["share"] = 2, !["total"] = 1]

MemberSymmetry == Permutations(Serves) \cup Permutations(Requesters)
============================================================================
