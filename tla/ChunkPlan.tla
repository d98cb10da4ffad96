------------------------------ MODULE ChunkPlan ------------------------------
(***************************************************************************)
(* The chunk scheduler of one swarm fetch: federation/scheduler.go driven   *)
(* by the goroutines of fetchSwarm (federation/swarm.go).                   *)
(*                                                                         *)
(* One chunkPlan is shared by the fetch workers and by the goroutine that   *)
(* settles the speculative chunk-0 fetch.  Every action below is one        *)
(* critical section of chunkPlan.mu, or a step a goroutine takes outside    *)
(* it.  Abstracted: measured speeds (the last tie-breaks of rankLocked are  *)
(* left open) and the length of a pause (only the order in which pauses     *)
(* and the wake-up timer fall due is kept, in clock).                       *)
(***************************************************************************)
EXTENDS Integers, Sequences, FiniteSets, SequencesExt

CONSTANTS
  Holders,       \* the plan's providers
  FirstHolder,   \* holders[0], which the speculative fetch is sent to
  Answers,       \* the ways each holder may answer a request
  Covers,        \* the coverages a GET /have may report (chunks, complete = all)
  NumChunks,     \* layout.count()
  ChunkBytes,    \* the length of each chunk
  Workers,       \* the fetch goroutines
  Prefetch,      \* the settleSpeculation goroutine
  FailureLimit,  \* providerFailureLimit
  None,          \* no holder, no job
  Timer          \* the armed wake-up, as an entry of clock

Chunks == 0 .. NumChunks - 1
Procs  == Workers \cup {Prefetch}

MaxHolderRequests == 2
MaxChunkCopies    == 2

ASSUME PlanAssumption ==
  /\ IsFiniteSet(Holders) /\ FirstHolder \in Holders
  /\ Answers \in [Holders -> SUBSET {"ok", "corrupt", "absent", "busy", "transient"}]
  /\ Covers \subseteq SUBSET (0 .. NumChunks - 1)
  /\ IsFiniteSet(Workers) /\ Workers # {} /\ Prefetch \notin Workers
  /\ NumChunks \in Nat \ {0}
  /\ ChunkBytes \in [Chunks -> Nat \ {0}]
  /\ FailureLimit \in Nat \ {0}
  /\ None \notin Holders \cup Workers \cup {Prefetch} /\ Timer \notin Holders

VARIABLES
  pending,       \* chunks awaiting dispatch, in dispatch order
  done,          \* chunks delivered
  remaining,     \* the code's count of chunks not delivered
  watermark,     \* contiguous delivered chunks from 0
  flight,        \* holders with an attempt registered, per chunk
  wanted,        \* chunks in flight a reader is blocked on
  inFlight,      \* the code's count of unresolved dispatches
  attempts,      \* failed tries spent, per chunk
  aborted, err,  \* the plan's outcome
  dead,          \* holders retired for this transfer
  fails,         \* consecutive failures, per holder
  have, lacks,   \* coverage believed, and chunks answered 416, per holder
  reqs, load,    \* requests and bytes charged, per holder
  tried,         \* holders handed a chunk at least once
  corruptFrom, firstCorrupt,
  probing,       \* holders whose coverage probe is still out
  clock,         \* resting holders and the timer, in the order they fall due
  overdue,       \* Timeouts.Transfer has passed since the last delivery
  cancelled,     \* the transfer's context is dead
  pc, job,       \* where each goroutine is, and the attempt it holds
  chunkOK, progress   \* what the transfer publishes to readers

queueVars   == <<pending, done, remaining, watermark, flight, wanted, inFlight, attempts>>
outcomeVars == <<aborted, err>>
holderVars  == <<dead, fails, have, lacks, reqs, load, tried, corruptFrom, firstCorrupt>>
timeVars    == <<clock, overdue, cancelled, probing>>
procVars    == <<pc, job>>
readVars    == <<chunkOK, progress>>
vars == <<queueVars, outcomeVars, holderVars, timeVars, procVars, readVars>>

Reasons == {"none", "noHolder", "unschedulable", "patience", "suspect", "attempts",
            "corrupt", "absent", "busy", "transient"}
Attempt == [chunk : Chunks, holder : Holders, mark : 0 .. NumChunks]
AttemptLimitOfOneHolder == FailureLimit
AttemptLimit == FailureLimit * Cardinality(Holders)

------------------------------------------------------------------------------
Without(s, x) ==
  LET at == {i \in DOMAIN s : s[i] = x}
  IN  IF at = {} THEN s ELSE RemoveAt(s, CHOOSE i \in at : TRUE)
Queued(c)     == \E i \in DOMAIN pending : pending[i] = c
Resting(h)    == \E i \in DOMAIN clock : clock[i] = h
TimerArmed    == \E i \in DOMAIN clock : clock[i] = Timer
Live          == Holders \ dead
Awaited       == {h \in Live : Resting(h)}

\* cond.Broadcast: everyone asleep in take() re-evaluates; w moves to `next`.
Broadcast(w, next) ==
  pc' = [p \in Procs |-> IF p = w THEN next ELSE IF pc[p] = "wait" THEN "take" ELSE pc[p]]

CanServe(h, c) == c \notin lacks[h] /\ c \in have[h]

\* A plan with one live holder asks it for one chunk at a time.
RequestCap == IF Cardinality(Live) <= 1 THEN 1 ELSE MaxHolderRequests

Askable == {h \in Live : ~Resting(h) /\ reqs[h] < RequestCap}

\* Fewest bytes outstanding, then never asked; speed is left open.
RanksBefore(g, h) ==
  \/ load[g] < load[h]
  \/ load[g] = load[h] /\ g \notin tried /\ h \in tried

Best(S) == {h \in S : \A g \in S : ~RanksBefore(g, h)}

\* The two passes of matchLocked: <<position, holder>> pairs it may return.
FirstServable(h) ==
  CHOOSE i \in DOMAIN pending :
    CanServe(h, pending[i]) /\ \A j \in 1 .. i - 1 : ~CanServe(h, pending[j])

MatchFirstPassOnly ==
  {<<FirstServable(h), h>> : h \in {g \in Askable : \E i \in DOMAIN pending : CanServe(g, pending[i])}}

Match ==
  LET able == {h \in Askable : \E i \in DOMAIN pending : CanServe(h, pending[i])}
  IN  IF pending = <<>> THEN {}
      ELSE IF able # {} THEN {<<FirstServable(h), h>> : h \in Best(able)}
      ELSE {<<1, h>> : h \in Best(Askable)}

\* Who may fetch a second copy of chunk c.

Hedge(c) ==
  IF c \in done \/ flight[c] = {} \/ Cardinality(flight[c]) >= MaxChunkCopies THEN {}
  ELSE Best({h \in Askable \ flight[c] : CanServe(h, c)})

------------------------------------------------------------------------------
Init ==
  /\ \E adopted \in BOOLEAN :
       /\ pending = [i \in 1 .. NumChunks - (IF adopted THEN 1 ELSE 0) |->
                       IF adopted THEN i ELSE i - 1]
       /\ flight = [c \in Chunks |-> IF adopted /\ c = 0 THEN {FirstHolder} ELSE {}]
       /\ inFlight = IF adopted THEN 1 ELSE 0
       /\ reqs = [h \in Holders |-> IF adopted /\ h = FirstHolder THEN 1 ELSE 0]
       /\ load = [h \in Holders |-> IF adopted /\ h = FirstHolder THEN ChunkBytes[0] ELSE 0]
       /\ tried = IF adopted THEN {FirstHolder} ELSE {}
       /\ pc = [p \in Procs |-> IF p # Prefetch THEN "take" ELSE IF adopted THEN "fetch" ELSE "exit"]
       /\ job = [p \in Procs |-> IF p = Prefetch /\ adopted
                   THEN [chunk |-> 0, holder |-> FirstHolder, mark |-> 0] ELSE None]
  /\ done = {} /\ remaining = NumChunks /\ watermark = 0
  /\ wanted = {} /\ attempts = [c \in Chunks |-> 0]
  /\ aborted = FALSE /\ err = "none"
  /\ dead = {} /\ fails = [h \in Holders |-> 0]
  /\ have = [h \in Holders |-> Chunks] /\ lacks = [h \in Holders |-> {}]
  /\ corruptFrom = {} /\ firstCorrupt = None
  /\ clock = <<>> /\ overdue = FALSE /\ cancelled = FALSE /\ probing = Holders
  /\ chunkOK = {} /\ progress = 0

------------------------------------------------------------------------------
(* take() *)

CanTake(w) == pc[w] = "take" /\ ~aborted /\ remaining # 0 /\ Live # {}

Abort(why) == aborted' = TRUE /\ err' = IF aborted THEN err ELSE why

\* The transfer is over, or (were it ever so) nobody is left to ask.
TakeStops(w) ==
  /\ pc[w] = "take"
  /\ aborted \/ remaining = 0 \/ Live = {}
  /\ IF aborted \/ remaining = 0 THEN UNCHANGED outcomeVars ELSE Abort("noHolder")
  /\ pc' = [pc EXCEPT ![w] = "exit"]
  /\ UNCHANGED <<queueVars, holderVars, timeVars, job, readVars>>

Dispatch(w, c, h) ==
  /\ inFlight' = inFlight + 1
  /\ flight' = [flight EXCEPT ![c] = @ \cup {h}]
  /\ reqs' = [reqs EXCEPT ![h] = @ + 1]
  /\ load' = [load EXCEPT ![h] = @ + ChunkBytes[c]]
  /\ tried' = tried \cup {h}
  /\ pc' = [pc EXCEPT ![w] = "fetch"]
  /\ job' = [job EXCEPT ![w] = [chunk |-> c, holder |-> h, mark |-> 0]]
  /\ UNCHANGED <<done, remaining, watermark, wanted, attempts, outcomeVars, dead, fails,
                 have, lacks, corruptFrom, firstCorrupt, timeVars, readVars>>

\* A second copy of a chunk a reader is blocked on, before anything new.
TakeWanted(w) ==
  /\ CanTake(w)
  /\ \E c \in wanted : \E h \in Hedge(c) : Dispatch(w, c, h)
  /\ UNCHANGED pending

NoneWanted == \A c \in wanted : Hedge(c) = {}

TakePending(w) ==
  /\ CanTake(w) /\ NoneWanted
  /\ \E m \in Match :
       /\ Dispatch(w, pending[m[1]], m[2])
       /\ pending' = RemoveAt(pending, m[1])

\* The endgame: the queue is empty, so help with something in flight.
TakeEndgame(w) ==
  /\ CanTake(w) /\ NoneWanted /\ pending = <<>>
  /\ \E c \in Chunks : \E h \in Hedge(c) : Dispatch(w, c, h)
  /\ UNCHANGED pending

\* armBackoffLocked: set the wake-up for the first live holder to come back,
\* unless a wake-up is already set.
ArmBackoff ==
  clock' = IF Awaited = {} \/ TimerArmed THEN clock
           ELSE LET i == CHOOSE i \in DOMAIN clock :
                          clock[i] \in Awaited /\ \A j \in 1 .. i - 1 : clock[j] \notin Awaited
                IN  InsertAt(clock, i + 1, Timer)

\* Nothing to hand out: end a plan that cannot or should not go on, or sleep.
TakeIdlesUnarmed(w) ==
  /\ CanTake(w) /\ NoneWanted /\ Match = {}
  /\ pending = <<>> => \A c \in Chunks : Hedge(c) = {}
  /\ IF overdue /\ inFlight = 0
     THEN Abort("patience") /\ pc' = [pc EXCEPT ![w] = "exit"]
     ELSE UNCHANGED outcomeVars /\ pc' = [pc EXCEPT ![w] = "wait"]
  /\ UNCHANGED <<queueVars, holderVars, timeVars, job, readVars>>

TakeIdles(w) ==
  /\ CanTake(w) /\ NoneWanted /\ Match = {}
  /\ pending = <<>> => \A c \in Chunks : Hedge(c) = {}
  /\ ArmBackoff
  /\ IF Awaited = {} /\ inFlight = 0
     THEN Abort("unschedulable") /\ pc' = [pc EXCEPT ![w] = "exit"]
     ELSE IF overdue /\ inFlight = 0
     THEN Abort("patience") /\ pc' = [pc EXCEPT ![w] = "exit"]
     ELSE UNCHANGED outcomeVars /\ pc' = [pc EXCEPT ![w] = "wait"]
  /\ UNCHANGED <<queueVars, holderVars, overdue, cancelled, probing, job, readVars>>

------------------------------------------------------------------------------
(* succeed() and fail() *)

\* An answer the holder may give; once the transfer's context is dead there is
\* only the error.  (An answer that came first is a step taken first.)
MayAnswer(w, a) == ~cancelled /\ a \in Answers[job[w].holder]

NotBelowZero(n) == IF n < 0 THEN 0 ELSE n

LandedDroppingTheRival(c, h, won) ==
  /\ inFlight' = inFlight - 1
  /\ flight' = [flight EXCEPT ![c] = {}]
  /\ wanted' = wanted \ {c}
  /\ reqs' = [reqs EXCEPT ![h] = NotBelowZero(@ - 1)]
  /\ load' = [load EXCEPT ![h] = NotBelowZero(@ - ChunkBytes[c])]

\* landedLocked: the attempt leaves the flight table and its holder gets its
\* bytes back; a win takes every other copy out of the table with it.
Landed(c, h, won) ==
  LET kept == IF won THEN {} ELSE flight[c] \ {h}
  IN  /\ inFlight' = inFlight - 1
      /\ flight' = [flight EXCEPT ![c] = kept]
      /\ wanted' = IF kept = {} THEN wanted \ {c} ELSE wanted
      /\ reqs' = [reqs EXCEPT ![h] = NotBelowZero(@ - 1)]
      /\ load' = [load EXCEPT ![h] = NotBelowZero(@ - ChunkBytes[c])]

\* Where the watermark loop stops once d is delivered.
WatermarkOf(d) ==
  CHOOSE m \in watermark .. NumChunks :
    /\ watermark .. m - 1 \subseteq d
    /\ m = NumChunks \/ m \notin d

Succeed(w) ==
  /\ pc[w] = "fetch" /\ MayAnswer(w, "ok")
  /\ LET c == job[w].chunk
         h == job[w].holder
         fresh == c \notin done
     IN  /\ Landed(c, h, fresh)
         /\ fails' = [fails EXCEPT ![h] = 0]
         /\ clock' = Without(clock, h)
         /\ done' = done \cup {c}
         /\ remaining' = IF fresh THEN remaining - 1 ELSE remaining
         /\ overdue' = IF fresh THEN FALSE ELSE overdue
         /\ watermark' = WatermarkOf(done')
         /\ job' = [job EXCEPT ![w].mark = watermark']
  /\ Broadcast(w, "publish")
  /\ UNCHANGED <<pending, attempts, outcomeVars, dead, have, lacks, tried,
                 corruptFrom, firstCorrupt, cancelled, probing, readVars>>

AfterAnswer(w) == IF w = Prefetch THEN "exit" ELSE "take"

PublishOwnMark(w) ==
  /\ pc[w] = "publish"
  /\ chunkOK' = chunkOK \cup {job[w].chunk}
  /\ progress' = job[w].mark
  /\ pc' = [pc EXCEPT ![w] = AfterAnswer(w)]
  /\ job' = [job EXCEPT ![w] = None]
  /\ UNCHANGED <<queueVars, outcomeVars, holderVars, timeVars>>

\* chunkDone runs after chunkPlan.mu is released, so two deliveries may be
\* published in either order.
Publish(w) ==
  /\ pc[w] = "publish"
  /\ chunkOK' = chunkOK \cup {job[w].chunk}
  /\ progress' = IF job[w].mark > progress THEN job[w].mark ELSE progress
  /\ pc' = [pc EXCEPT ![w] = AfterAnswer(w)]
  /\ job' = [job EXCEPT ![w] = None]
  /\ UNCHANGED <<queueVars, outcomeVars, holderVars, timeVars>>

\* A copy of a chunk that was delivered meanwhile: blamed on nobody.
FailLost(w) ==
  /\ pc[w] = "fetch" /\ job[w].chunk \in done
  /\ Landed(job[w].chunk, job[w].holder, FALSE)
  /\ Broadcast(w, AfterAnswer(w))
  /\ job' = [job EXCEPT ![w] = None]
  /\ UNCHANGED <<pending, done, remaining, watermark, attempts, outcomeVars, dead, fails, have,
                 lacks, tried, corruptFrom, firstCorrupt, timeVars, readVars>>

SettleAndRequeue(c, suspect, why) ==
  /\ IF suspect THEN Abort("suspect")
     ELSE IF dead' = Holders THEN Abort(why)
     ELSE IF attempts'[c] >= AttemptLimit THEN Abort("attempts") ELSE UNCHANGED outcomeVars
  /\ pending' = IF aborted' THEN pending ELSE Append(pending, c)

\* The end of fail(): give up, leave the chunk to its other copy, or re-queue.
SettleFailure(c, suspect, why) ==
  LET over == CASE aborted \/ suspect                -> "none"
                [] dead' = Holders                   -> why
                [] attempts'[c] >= AttemptLimit      -> "attempts"
                [] OTHER                             -> "none"
  IN  /\ IF suspect THEN Abort("suspect")
         ELSE IF over # "none" THEN Abort(over) ELSE UNCHANGED outcomeVars
      /\ pending' = IF aborted' \/ (flight')[c] # {} THEN pending ELSE Append(pending, c)

FailCommon(w, spend) ==
  /\ pc[w] = "fetch" /\ job[w].chunk \notin done
  /\ Landed(job[w].chunk, job[w].holder, FALSE)
  /\ attempts' = [attempts EXCEPT ![job[w].chunk] = @ + spend]
  /\ Broadcast(w, AfterAnswer(w))
  /\ job' = [job EXCEPT ![w] = None]
  /\ UNCHANGED <<done, remaining, watermark, have, tried, overdue, cancelled, probing, readVars>>

\* The first holder caught is retired; a second one convicts the manifest
\* instead, and the first is reinstated.
FailCorrupt(w) ==
  LET h == job[w].holder
      suspect == corruptFrom \cup {h} # {h}
  IN  /\ FailCommon(w, 1) /\ MayAnswer(w, "corrupt")
      /\ corruptFrom' = corruptFrom \cup {h}
      /\ dead' = IF suspect THEN dead \ {firstCorrupt} ELSE dead \cup {h}
      /\ firstCorrupt' = IF suspect THEN None ELSE h
      /\ SettleFailure(job[w].chunk, suspect, "corrupt")
      /\ UNCHANGED <<fails, lacks, clock>>

\* 416: a fact about the chunk.
FailAbsent(w) ==
  LET c == job[w].chunk
  IN  /\ w # Prefetch
      /\ FailCommon(w, 1) /\ MayAnswer(w, "absent")
      /\ lacks' = [lacks EXCEPT ![job[w].holder] = @ \cup {c}]
      /\ UNCHANGED <<dead, fails, corruptFrom, firstCorrupt, clock>>
      /\ SettleFailure(c, FALSE, "absent")

\* A pause of some length: h falls due again at some place in the order.
Rest(h) ==
  LET others == Without(clock, h)
  IN  \E i \in 1 .. Len(others) + 1 : clock' = InsertAt(others, i, h)

\* 429: a wait, and no attempt spent.
FailBusy(w) ==
  LET h == job[w].holder
  IN  /\ w # Prefetch
      /\ FailCommon(w, 0) /\ MayAnswer(w, "busy")
      /\ Rest(h)
      /\ UNCHANGED <<dead, fails, lacks, corruptFrom, firstCorrupt>>
      /\ SettleFailure(job[w].chunk, FALSE, "busy")

Asking(h) == \E p \in Procs : pc[p] = "fetch" /\ job[p].holder = h

\* worseThanPeers for a streak of n, `recent` being who was asked within
\* Timeouts.PerChunk.
WorseThanPeers(h, n, recent) ==
  LET peers == (recent \cap Live) \ {h}
  IN  peers = {} \/ \E g \in peers :
        n >= fails[g] + FailureLimit /\ \A k \in peers : fails[g] <= fails[k]

\* A stall, a timeout, a refused connection, a dead context.  The speculative
\* fetch reports every unexpected status this way, a 429 and a 416 included.
FailTransient(w) ==
  LET h == job[w].holder
  IN  /\ FailCommon(w, 1)
      /\ \/ cancelled
         \/ MayAnswer(w, "transient")
         \/ w = Prefetch /\ (MayAnswer(w, "absent") \/ MayAnswer(w, "busy"))
      /\ fails' = [fails EXCEPT ![h] = @ + 1]
      /\ \E recent \in SUBSET tried :
           /\ {g \in Holders : Asking(g)} \subseteq recent
           /\ dead' = IF fails[h] + 1 >= FailureLimit /\ WorseThanPeers(h, fails[h] + 1, recent)
                      THEN dead \cup {h} ELSE dead
      /\ Rest(h)
      /\ SettleFailure(job[w].chunk, FALSE, "transient")
      /\ UNCHANGED <<lacks, corruptFrom, firstCorrupt>>

------------------------------------------------------------------------------
(* What reaches the plan from outside the workers *)

\* A reader blocked on chunk c pokes the plan (transfer.WaitFor).
Prioritize(c) ==
  /\ c \notin done
  /\ IF Queued(c)
     THEN pending' = <<c>> \o Without(pending, c) /\ UNCHANGED wanted
     ELSE /\ wanted' = IF flight[c] # {} THEN wanted \cup {c} ELSE wanted
          /\ UNCHANGED pending
  /\ Broadcast(None, "take")
  /\ UNCHANGED <<done, remaining, watermark, flight, inFlight, attempts, outcomeVars,
                 holderVars, timeVars, job, readVars>>

\* The answer to GET /have, which supersedes what single 416s taught.
SetCoverage(h) ==
  /\ h \in probing /\ probing' = probing \ {h}
  /\ \E cover \in Covers : have' = [have EXCEPT ![h] = cover]
  /\ lacks' = [lacks EXCEPT ![h] = {}]
  /\ Broadcast(None, "take")
  /\ UNCHANGED <<queueVars, outcomeVars, dead, fails, reqs, load, tried, corruptFrom,
                 firstCorrupt, clock, overdue, cancelled, job, readVars>>

\* No answer: the holder rests, and nobody is woken.
ProbeUnanswered(h) ==
  /\ h \in probing /\ probing' = probing \ {h}
  /\ Rest(h)
  /\ UNCHANGED <<queueVars, outcomeVars, holderVars, overdue, cancelled, procVars, readVars>>

\* The next pause, or the timer, falls due.
ClockTick ==
  /\ clock # <<>>
  /\ clock' = Tail(clock)
  /\ IF Head(clock) = Timer THEN Broadcast(None, "take") ELSE UNCHANGED pc
  /\ UNCHANGED <<queueVars, outcomeVars, holderVars, overdue, cancelled, probing, job, readVars>>

PatienceElapses ==
  /\ ~overdue /\ overdue' = TRUE
  /\ UNCHANGED <<queueVars, outcomeVars, holderVars, clock, cancelled, probing, procVars, readVars>>

\* transfer.Abandon, or the node stopping.
Abandon ==
  /\ ~cancelled /\ cancelled' = TRUE
  /\ UNCHANGED <<queueVars, outcomeVars, holderVars, clock, overdue, probing, procVars, readVars>>

Finished   == \A p \in Procs : pc[p] = "exit"
Terminated == Finished /\ UNCHANGED vars

------------------------------------------------------------------------------
Take(w)   == TakeStops(w) \/ TakeWanted(w) \/ TakePending(w) \/ TakeEndgame(w) \/ TakeIdles(w)
Answer(w) == Succeed(w) \/ FailLost(w) \/ FailCorrupt(w) \/ FailAbsent(w) \/ FailBusy(w)
               \/ FailTransient(w)

Step ==
  \/ \E w \in Procs : Take(w) \/ Answer(w) \/ Publish(w)
  \/ \E c \in Chunks : Prioritize(c)
  \/ \E h \in Holders : SetCoverage(h) \/ ProbeUnanswered(h)
  \/ PatienceElapses \/ Abandon

Next == Step \/ ClockTick \/ Terminated

\* A pause lasts at least half a second (Timeouts.Retry), so a goroutine that
\* can run looks at the plan before the pause is over.
PromptTick == ClockTick /\ \A w \in Workers : pc[w] # "take"
PromptNext == Step \/ PromptTick \/ Terminated

\* Every goroutine runs, every attempt ends (Timeouts.PerChunk bounds it) and
\* time passes.  Nothing obliges a probe to answer or a reader to poke.
Fairness ==
  /\ \A w \in Procs : WF_vars(Take(w)) /\ WF_vars(Answer(w)) /\ WF_vars(Publish(w))
  /\ SF_vars(PromptTick) /\ WF_vars(PatienceElapses)

Spec == Init /\ [][Next]_vars
FairSpec == Init /\ [][PromptNext]_vars /\ Fairness

------------------------------------------------------------------------------
(* Properties *)

Fetching     == {p \in Procs : pc[p] = "fetch"}
FetchingOf(h) == {p \in Fetching : job[p].holder = h}
CopiesOf(c)  == {p \in Fetching : job[p].chunk = c}

TypeOK ==
  /\ pending \in Seq(Chunks) /\ done \subseteq Chunks
  /\ remaining \in Int /\ watermark \in 0 .. NumChunks
  /\ flight \in [Chunks -> SUBSET Holders] /\ wanted \subseteq Chunks
  /\ inFlight \in Int /\ attempts \in [Chunks -> Nat]
  /\ aborted \in BOOLEAN
  /\ err \in Reasons
  /\ dead \subseteq Holders /\ fails \in [Holders -> Nat]
  /\ have \in [Holders -> SUBSET Chunks] /\ lacks \in [Holders -> SUBSET Chunks]
  /\ reqs \in [Holders -> Nat] /\ load \in [Holders -> Nat] /\ tried \subseteq Holders
  /\ corruptFrom \subseteq Holders /\ firstCorrupt \in Holders \cup {None}
  /\ clock \in Seq(Holders \cup {Timer}) /\ overdue \in BOOLEAN /\ cancelled \in BOOLEAN
  /\ probing \subseteq Holders
  /\ pc \in [Procs -> {"take", "wait", "fetch", "publish", "exit"}]
  /\ job \in [Procs -> Attempt \cup {None}]
  /\ \A p \in Procs : pc[p] \in {"fetch", "publish"} => job[p] \in Attempt
  /\ chunkOK \subseteq Chunks /\ progress \in 0 .. NumChunks

(***************************************************************************)
(* Until the plan is given up, an undelivered chunk is in exactly one       *)
(* place: queued once, or in somebody's hands.  Hedging, lost copies and    *)
(* re-queueing all move chunks between the two; a chunk in neither is       *)
(* never fetched and take() would index an empty queue.                     *)
(***************************************************************************)
ChunkAccounted ==
  /\ \A i, j \in DOMAIN pending : pending[i] = pending[j] => i = j
  /\ \A c \in Chunks :
       /\ Queued(c) => c \notin done /\ flight[c] = {}
       /\ c \in done => flight[c] = {}
       /\ ~aborted /\ c \notin done => Queued(c) \/ flight[c] # {}

(***************************************************************************)
(* The flight table of a chunk still wanted names exactly the holders       *)
(* fetching it: hedging reads it to choose whom not to ask, and fail() to   *)
(* decide whether the chunk is lost or merely one copy short.               *)
(***************************************************************************)
FlightIsFetching ==
  \A c \in Chunks \ done : flight[c] = {job[p].holder : p \in CopiesOf(c)}

(***************************************************************************)
(* What the plan charges is what is on the wire: every unresolved fetch,    *)
(* including copies that already lost, is charged to its holder once, and   *)
(* the clamps at zero in landedLocked never act.                            *)
(***************************************************************************)
ChargesExact ==
  /\ inFlight = Cardinality(Fetching)
  /\ \A h \in Holders : reqs[h] = Cardinality(FetchingOf(h))
  /\ remaining = NumChunks - Cardinality(done)

BytesExact ==
  \A h \in Holders :
    LET out == FetchingOf(h)
    IN  \/ out = {} /\ load[h] = 0
        \/ \E p \in out : out = {p} /\ load[h] = ChunkBytes[job[p].chunk]
        \/ \E p, q \in out :
             /\ p # q /\ out = {p, q}
             /\ load[h] = ChunkBytes[job[p].chunk] + ChunkBytes[job[q].chunk]

(***************************************************************************)
(* Hedging never puts more than two copies of one chunk on the wire, never  *)
(* two of them at one holder, and no holder has more than two requests.     *)
(***************************************************************************)
HedgingBounded ==
  /\ \A c \in Chunks : \A p, q, r \in CopiesOf(c) : p = q \/ q = r \/ p = r
  /\ \A p, q \in Fetching : job[p].chunk = job[q].chunk /\ p # q => job[p].holder # job[q].holder
  /\ \A h \in Holders : reqs[h] <= MaxHolderRequests

(***************************************************************************)
(* Whoever sleeps in take() will be woken: an attempt is out, or the timer  *)
(* is armed.  take() itself aborts without a broadcast, so this has to hold *)
(* of an aborted plan too or fetchSwarm waits for its workers for ever.     *)
(***************************************************************************)
SleepersAreWoken ==
  (\E p \in Procs : pc[p] = "wait") => TimerArmed \/ Fetching # {}

\* The inductive invariant behind the theorems of ChunkPlanProofs.
PlanInv ==
  /\ TypeOK /\ ChunkAccounted /\ FlightIsFetching /\ ChargesExact /\ HedgingBounded
  /\ SleepersAreWoken

\* What the goroutines and the readers have been told has landed, what no
\* reader has been told is still to be published, and no worker leaves a plan
\* that is neither done nor given up.
Told ==
  /\ 0 .. watermark - 1 \subseteq done /\ (watermark = NumChunks \/ watermark \notin done)
  /\ chunkOK \subseteq done /\ progress <= watermark
  /\ \A p \in Procs : pc[p] = "publish" => job[p].chunk \in done /\ job[p].mark <= watermark
ToBeTold ==
  /\ \A c \in done \ chunkOK : \E p \in Procs : pc[p] = "publish" /\ job[p].chunk = c
  /\ progress < watermark => \E p \in Procs : pc[p] = "publish" /\ job[p].mark = watermark
Leaving == \A w \in Workers : pc[w] = "exit" => aborted \/ remaining = 0
DeliveryInv == Told /\ ToBeTold /\ Leaving

(***************************************************************************)
(* What the plan reads when it dispatches, hedges and gives up is what is   *)
(* on the wire: the table and the counters are exact and hedging is bound.  *)
(***************************************************************************)
FlightExact == TypeOK /\ FlightIsFetching /\ ChargesExact /\ HedgingBounded

\* The two ends take() has for a plan it cannot schedule are never reached.
NeverUnschedulable == err \notin {"noHolder", "unschedulable"}

\* take() ranks the holders by exact books and runs into neither dead end.
TakeIsSound == BytesExact /\ NeverUnschedulable

\* ChunkDelivery with the plan's variables in it; fetchSwarm returns once every
\* goroutine has, with the plan's error if there is one.
Promise == INSTANCE ChunkDelivery WITH
  landed <- done, readable <- chunkOK, prefix <- progress,
  outcome <- IF ~Finished THEN "running" ELSE IF aborted THEN "failed" ELSE "whole"

(***************************************************************************)
(* The plan keeps the promise of ChunkDelivery, whatever the holders        *)
(* answer: hedged copies that land twice, publications that overtake each   *)
(* other and aborts in mid-flight are steps of it or stutter.               *)
(***************************************************************************)
KeepsThePromise == Promise!Delivery

\* Every fetch ends: delivered, given up or abandoned.
FetchEnds == <>Finished

\* With a holder that always delivers, the fetch delivers whatever the others
\* answer, unless it is abandoned or nothing arrives for Timeouts.Transfer.
GoodHolderFinishes ==
  (\E h \in Holders : Answers[h] = {"ok"}) =>
    <>(cancelled \/ remaining = 0 \/ err = "patience")

==============================================================================
