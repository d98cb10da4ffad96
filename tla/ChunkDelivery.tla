---------------------------- MODULE ChunkDelivery ----------------------------
(***************************************************************************)
(* What a swarm fetch promises whoever follows it (federation.Transfer):    *)
(* chunks land verified and once, are published to readers after they have  *)
(* landed, the published prefix never shrinks and never covers a hole, and  *)
(* the fetch ends either whole or with an error.  Which holder delivers     *)
(* what, and in which order, is left open; ChunkPlan is the scheduler that  *)
(* decides it.                                                              *)
(***************************************************************************)
EXTENDS Integers

CONSTANT NumChunks

VARIABLES
  landed,    \* chunks verified and written at their offset
  readable,  \* chunks published to readers
  prefix,    \* the published contiguous prefix, in chunks
  outcome    \* "running", "whole" or "failed"

deliveryVars == <<landed, readable, prefix, outcome>>

Fresh ==
  /\ landed = {} /\ readable = {} /\ prefix = 0
  /\ outcome = "running"

Land(c) ==
  /\ outcome = "running" /\ c \notin landed
  /\ landed' = landed \cup {c}
  /\ UNCHANGED <<readable, prefix, outcome>>

\* A fetch may be called whole only when everything is published.
MayEnd(how, shown, mark) ==
  how = "whole" => shown = 0 .. NumChunks - 1 /\ mark = NumChunks

\* Publishing c also publishes a prefix computed when some chunk landed, which
\* may by now be behind the prefix already published.  A chunk that landed twice
\* is published twice.  The last publication may be the end of the fetch.
PublishUpTo(c, mark) ==
  /\ outcome = "running" /\ c \in landed
  /\ readable' = readable \cup {c}
  /\ 0 .. mark - 1 \subseteq landed
  /\ prefix' = IF mark > prefix THEN mark ELSE prefix
  /\ outcome' \in {"running", "whole", "failed"} /\ MayEnd(outcome', readable', prefix')
  /\ UNCHANGED landed

End ==
  /\ outcome = "running" /\ outcome' \in {"whole", "failed"}
  /\ MayEnd(outcome', readable, prefix)
  /\ UNCHANGED <<landed, readable, prefix>>

Deliver ==
  \/ \E c \in 0 .. NumChunks - 1 : Land(c) \/ \E mark \in 0 .. NumChunks : PublishUpTo(c, mark)
  \/ End

Delivery == Fresh /\ [][Deliver]_deliveryVars

==============================================================================
