------------------------------ MODULE MCGossip ------------------------------
(* An instance of Gossip for TLC: b is a friend, c is behind b and d behind c; *)
(* we once published a distrust list that names d.                             *)
EXTENDS Gossip

CONSTANTS a, b, c, d

MCOthers == {b, c, d}
MCStart  == [o \in MCOthers |-> IF o = b THEN "friend" ELSE "none"]
MCMarked == {d}
MCKeys  == <<d, c, b, a>>
MCGraph == [o \in MCOthers |-> IF o = b THEN <<{a, c}>> ELSE IF o = c THEN <<{}, {b, d}>> ELSE <<{c}>>]
MCMark  == [o \in MCOthers |-> IF o = c THEN <<{b}>> ELSE << >>]
MCLists == [k \in Kinds |-> IF k = "graph" THEN MCGraph ELSE MCMark]
MCFading == [k \in Kinds |-> [o \in Keys |-> IF k = "graph" /\ o = b THEN 1 ELSE 0]]
=============================================================================
