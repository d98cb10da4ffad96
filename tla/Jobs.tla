-------------------------------- MODULE Jobs --------------------------------
(***************************************************************************)
(* The two persistent job queues: media analysis (one active job per file) *)
(* and cover variants (one active job per image).  Both tables have the    *)
(* same life: a row is pending, running, done or failed, a claim takes the *)
(* oldest pending row, a failure re-queues it until it has been tried      *)
(* MaxTries times, and a start of the program puts running rows back.      *)
(* A queue is the set of its rows; of two rows the later has the greater id. *)
(***************************************************************************)
EXTENDS Naturals, Sequences, SequencesExt, FiniteSetsExt

CONSTANTS
  MaxTries,  \* maxAnalysisJobRetries, maxImageJobRetries
  MaxOps     \* bound: requests and outside events of one behaviour

ASSUME JobsAssumption == MaxTries \in Nat \ {0} /\ MaxOps \in Nat

VARIABLE ops  \* requests and outside events so far

Idle == [pc |-> "idle"]
Spend == ops < MaxOps /\ ops' = ops + 1

Job(Keys, Ids) == [id : Ids, key : Keys, status : {"pending", "running", "done", "failed"},
                   tries : 0..MaxTries]

IsActive(j) == j.status \in {"pending", "running"}
ActiveKeys(q) == {j.key : j \in {k \in q : IsActive(k)}}
JobKeys(q) == {j.key : j \in q}

(* Row ids are not kept: the row after the last one is the one that was    *)
(* deleted, if the last one was.                                           *)
NextJobId(q) == 1 + Max({0} \cup {j.id : j \in q})
NewJob(i, k) == [id |-> i, key |-> k, status |-> "pending", tries |-> 0]

Enqueue(q, k) ==
  IF k \in ActiveKeys(q) THEN q ELSE q \cup {NewJob(NextJobId(q), k)}

(* Several keys one after the other, in an order of the query's.           *)
EnqueueAll(q, keys) ==
  LET order == SetToSeq(keys \ ActiveKeys(q))
  IN q \cup {NewJob(NextJobId(q) + n - 1, order[n]) : n \in DOMAIN order}

Pending(q) == {j \in q : j.status = "pending"}
Claimed(q) == CHOOSE j \in Pending(q) : \A k \in Pending(q) : j.id <= k.id
Claim(q) == (q \ {Claimed(q)}) \cup {[Claimed(q) EXCEPT !.status = "running"]}

FinishDone(q, id) == {IF j.id = id THEN [j EXCEPT !.status = "done"] ELSE j : j \in q}

Tried(j) == [j EXCEPT !.tries = Min({@ + 1, MaxTries}),
                      !.status = IF j.tries + 1 >= MaxTries THEN "failed" ELSE "pending"]
FinishFailed(q, id) == {IF j.id = id THEN Tried(j) ELSE j : j \in q}

ResetStale(q) == {IF j.status = "running" THEN [j EXCEPT !.status = "pending"] ELSE j : j \in q}

(* ON DELETE CASCADE from the file a job is for.                           *)
DropJobs(q, k) == {j \in q : j.key # k}
=============================================================================
