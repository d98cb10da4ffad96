---------------------------- MODULE MCChunkPlan ----------------------------
(* Instances of ChunkPlan for TLC. *)
EXTENDS ChunkPlan

CONSTANTS h1, h2, w1, w2

Mixed     == [h \in Holders |->
                IF h = h1 THEN {"ok", "corrupt", "busy"} ELSE {"ok", "absent", "transient"}]
OneGood   == [h \in Holders |-> IF h = h1 THEN {"ok"} ELSE {"ok", "transient", "corrupt", "busy"}]

Ramp == [c \in Chunks |-> c + 1]
Whole == {Chunks}
FirstOnly == {{0}}

WorkerSymmetry == Permutations(Workers)
============================================================================
