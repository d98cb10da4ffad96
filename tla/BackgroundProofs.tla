-------------------------- MODULE BackgroundProofs ---------------------------
(***************************************************************************)
(* What holds of the background work of an instance, whatever its number   *)
(* of contents, directories, albums, requests and crashes.                 *)
(***************************************************************************)
EXTENDS Background, FiniteSetTheorems, WellFoundedInduction, TLAPS

(***************************************************************************)
(* Queues.                                                                 *)
(***************************************************************************)
\* A finite nonempty set of naturals has its maximum.
LEMMA MaxOfFinite ==
  ASSUME NEW S, IsFiniteSet(S), S \subseteq Nat, S # {}
  PROVE  Max(S) \in S /\ \A y \in S : y <= Max(S)
<1> DEFINE Above(x) == {y \in S : y >= x}
           Aboves == {Above(x) : x \in S}
<1>1. Aboves \subseteq FiniteSubsetsOf(S) /\ Aboves # {}
  <2>1. ASSUME NEW x \in S PROVE Above(x) \in FiniteSubsetsOf(S)
    <3>1. Above(x) \in SUBSET S
      OBVIOUS
    <3> HIDE DEF Above
    <3> QED
      BY <3>1, FS_Subset DEF FiniteSubsetsOf
  <2> QED
    BY <2>1
<1>2. IsWellFoundedOn(StrictSubsetOrdering(S), FiniteSubsetsOf(S))
  BY FS_StrictSubsetOrderingWellFounded
<1>3. PICK A \in Aboves : \A B \in Aboves : ~(<<B, A>> \in StrictSubsetOrdering(S))
  <2> HIDE DEF Aboves
  <2> QED
    BY <1>1, <1>2, WFMin
<1>4. PICK x \in S : A = Above(x)
  OBVIOUS
<1>5. ASSUME NEW y \in S, ~(y <= x) PROVE FALSE
  <2>1. x \in Nat /\ y \in Nat /\ x < y
    BY <1>5
  <2>2. Above(y) \subseteq Above(x) /\ x \in Above(x) /\ x \notin Above(y)
    <3>1. x >= x /\ ~(x >= y)
      BY <2>1
    <3>2. \A z \in S : z \in Nat /\ (z >= y => z >= x)
      BY <2>1
    <3> QED
      BY <3>1, <3>2
  <2>3. <<Above(y), Above(x)>> \in StrictSubsetOrdering(S)
    BY <2>2 DEF StrictSubsetOrdering
  <2> QED
    BY <1>3, <1>4, <2>3
<1>6. \E m \in S : \A y \in S : m >= y
  <2>1. \A y \in S : x >= y
    BY <1>5
  <2> QED
    BY <2>1
<1> QED
  BY <1>6 DEF Max

\* What a finite set is mapped to is finite.
LEMMA FiniteImage ==
  ASSUME NEW S, IsFiniteSet(S), NEW f, DOMAIN f = S, f = [x \in S |-> f[x]]
  PROVE  IsFiniteSet({f[x] : x \in S})
<1> DEFINE T == {f[x] : x \in S}
<1>1. f \in Surjection(S, T)
  BY DEF Surjection
<1> QED
  BY <1>1, FS_Surjection

\* The id of a new job is above those there are.
LEMMA JobIdIsFresh ==
  ASSUME NEW K, NEW q, Queue(q, K)
  PROVE  NextJobId(q) \in Nat /\ \A j \in q : j.id < NextJobId(q)
<1> DEFINE ids == {j.id : j \in q}
           f == [j \in q |-> j.id]
<1>1. \A j \in q : j.id \in Nat
  BY DEF Queue, Job
<1>2. IsFiniteSet({f[j] : j \in q})
  <2>1. IsFiniteSet(q) /\ DOMAIN f = q /\ f = [j \in q |-> f[j]]
    BY DEF Queue
  <2> HIDE DEF f
  <2> QED
    BY <2>1, FiniteImage
<1>3. {f[j] : j \in q} = ids
  OBVIOUS
<1>4. IsFiniteSet({0} \cup ids)
  BY <1>2, <1>3, FS_AddElement
<1>5. {0} \cup ids \subseteq Nat /\ {0} \cup ids # {}
  BY <1>1
<1> HIDE DEF ids
<1>6. Max({0} \cup ids) \in Nat /\ \A i \in {0} \cup ids : i <= Max({0} \cup ids)
  BY <1>4, <1>5, MaxOfFinite
<1>7. \A j \in q : j.id \in ids
  BY DEF ids
<1>8. NextJobId(q) = 1 + Max({0} \cup ids)
  BY DEF NextJobId, ids
<1> QED
  BY <1>1, <1>6, <1>7, <1>8

\* Adding a fresh pending job for k.
LEMMA NewJobKeepsQueue ==
  ASSUME NEW K, NEW q, Queue(q, K), NEW k \in K, MaxTries \in Nat
  PROVE  /\ Queue(q \cup {NewJob(NextJobId(q), k)}, K)
<1> DEFINE n == NewJob(NextJobId(q), k)
<1>1. NextJobId(q) \in Nat /\ \A j \in q : j.id < NextJobId(q)
  BY JobIdIsFresh
<1>2. n \in Job(K, Nat) /\ n.id = NextJobId(q)
  BY <1>1 DEF NewJob, Job
<1>3. \A j \in q : j.id \in Nat
  BY DEF Queue, Job
<1>4. IsFiniteSet(q \cup {n})
  BY FS_AddElement DEF Queue
<1> HIDE DEF n
<1> QED
  BY <1>1, <1>2, <1>3, <1>4 DEF Queue, n

LEMMA EnqueueFacts ==
  ASSUME NEW K, NEW q, Queue(q, K), NEW k \in K, MaxTries \in Nat
  PROVE  /\ Queue(Enqueue(q, k), K)
         /\ q \subseteq Enqueue(q, k)
         /\ JobKeys(Enqueue(q, k)) = JobKeys(q) \cup {k}
<1>1. CASE k \in ActiveKeys(q)
  BY <1>1 DEF Enqueue, ActiveKeys, JobKeys
<1>2. CASE k \notin ActiveKeys(q)
  <2>1. Enqueue(q, k) = q \cup {NewJob(NextJobId(q), k)}
    BY <1>2 DEF Enqueue
  <2>2. NewJob(NextJobId(q), k).key = k
    BY DEF NewJob
  <2> QED
    BY <2>1, <2>2, NewJobKeepsQueue DEF JobKeys
<1> QED
  BY <1>1, <1>2

\* A finite set listed as a sequence: every element, at one place.
LEMMA SetToSeqFacts ==
  ASSUME NEW S, IsFiniteSet(S)
  PROVE  /\ Cardinality(S) \in Nat /\ DOMAIN SetToSeq(S) = 1 .. Cardinality(S)
         /\ \A n \in DOMAIN SetToSeq(S) : SetToSeq(S)[n] \in S
         /\ \A m, n \in DOMAIN SetToSeq(S) : SetToSeq(S)[m] = SetToSeq(S)[n] => m = n
         /\ \A x \in S : \E n \in DOMAIN SetToSeq(S) : SetToSeq(S)[n] = x
<1> DEFINE c == Cardinality(S)
           f == SetToSeq(S)
<1>1. c \in Nat /\ ExistsBijection(1 .. c, S)
  BY FS_CardinalityType
<1>2. \E g \in [1 .. c -> S] : IsInjective(g)
  BY <1>1 DEF ExistsBijection, Bijection, Injection, IsInjective
<1>3. f \in [1 .. c -> S] /\ IsInjective(f)
  BY <1>2 DEF SetToSeq
<1> HIDE DEF f
<1>4. f \in Injection(1 .. c, S)
  BY <1>3 DEF Injection, IsInjective
<1>5. IsFiniteSet(1 .. c) /\ Cardinality(1 .. c) = c
  BY <1>1, FS_Interval
<1>6. f \in Surjection(1 .. c, S)
  BY <1>4, <1>5, FS_Injection
<1> QED
  BY <1>1, <1>3, <1>6 DEF Surjection, IsInjective, f

LEMMA EnqueueAllFacts ==
  ASSUME NEW K, NEW q, Queue(q, K), NEW S, IsFiniteSet(S), S \subseteq K, MaxTries \in Nat
  PROVE  /\ Queue(EnqueueAll(q, S), K)
         /\ q \subseteq EnqueueAll(q, S)
         /\ JobKeys(EnqueueAll(q, S)) = JobKeys(q) \cup S
<1> DEFINE new == S \ ActiveKeys(q)
           order == SetToSeq(new)
           f == [n \in DOMAIN order |-> NewJob(NextJobId(q) + n - 1, order[n])]
           added == {f[n] : n \in DOMAIN order}
<1>1. IsFiniteSet(new)
  BY FS_Subset
<1>2. /\ Cardinality(new) \in Nat /\ DOMAIN order = 1 .. Cardinality(new)
      /\ \A n \in DOMAIN order : order[n] \in new
      /\ \A x \in new : \E n \in DOMAIN order : order[n] = x
  <2> HIDE DEF new
  <2> QED
    BY <1>1, SetToSeqFacts
<1>3. NextJobId(q) \in Nat /\ \A j \in q : j.id \in Nat /\ j.id < NextJobId(q)
  BY JobIdIsFresh DEF Queue, Job
<1>4. EnqueueAll(q, S) = q \cup added
  BY DEF EnqueueAll
<1>5. ASSUME NEW n \in DOMAIN order
      PROVE  /\ n \in Nat /\ f[n] \in Job(K, Nat) /\ f[n].key = order[n]
             /\ f[n].id = NextJobId(q) + n - 1 /\ f[n].id >= NextJobId(q)
  <2> HIDE DEF order
  <2>1. n \in Nat /\ n >= 1 /\ order[n] \in K
    BY <1>2
  <2>2. NextJobId(q) + n - 1 \in Nat /\ NextJobId(q) + n - 1 >= NextJobId(q)
    BY <1>3, <2>1
  <2>3. f[n] = NewJob(NextJobId(q) + n - 1, order[n])
    OBVIOUS
  <2> HIDE DEF f
  <2> QED
    BY <2>1, <2>2, <2>3 DEF NewJob, Job
<1>6. IsFiniteSet(added)
  <2>1. IsFiniteSet(DOMAIN order)
    BY <1>2, FS_Interval
  <2>2. DOMAIN f = DOMAIN order /\ f = [n \in DOMAIN order |-> f[n]]
    OBVIOUS
  <2> HIDE DEF f, order
  <2> QED
    BY <2>1, <2>2, FiniteImage
<1> HIDE DEF f, order
<1>7. IsFiniteSet(q \cup added)
  BY <1>6, FS_Union DEF Queue
<1>8. added \subseteq Job(K, Nat)
  BY <1>5
<1>9. ASSUME NEW j \in q \cup added, NEW k \in q \cup added, j.id = k.id PROVE j = k
  <2>1. CASE j \in q /\ k \in q
    BY <1>9, <2>1 DEF Queue
  <2>2. CASE j \in added /\ k \in added
    <3>1. PICK m \in DOMAIN order, n \in DOMAIN order : j = f[m] /\ k = f[n]
      BY <2>2
    <3>2. m \in Nat /\ n \in Nat /\ m = n
      <4>1. f[m].id = NextJobId(q) + m - 1 /\ f[n].id = NextJobId(q) + n - 1 /\ f[m].id = f[n].id
        BY <1>5, <1>9, <3>1
      <4>2. m \in Nat /\ n \in Nat
        BY <1>5
      <4> QED
        BY <1>3, <4>1, <4>2
    <3> QED
      BY <3>1, <3>2
  <2>3. \A i \in added : i.id \in Nat /\ i.id >= NextJobId(q)
    BY <1>5 DEF Job
  <2> HIDE DEF added
  <2> QED
    BY <1>3, <1>9, <2>1, <2>2, <2>3
<1>10. JobKeys(q \cup added) = JobKeys(q) \cup S
  <2>1. \A k \in JobKeys(q \cup added) : k \in JobKeys(q) \cup S
    <3>1. \A n \in DOMAIN order : f[n].key \in S
      BY <1>2, <1>5
    <3>2. \A j \in q \cup added : j.key \in JobKeys(q) \cup S
      BY <3>1 DEF JobKeys
    <3> QED
      BY <3>2 DEF JobKeys
  <2>2. ASSUME NEW k \in S PROVE k \in JobKeys(q \cup added)
    <3>1. CASE k \in ActiveKeys(q)
      BY <3>1 DEF JobKeys, ActiveKeys
    <3>2. CASE k \in new
      <4>1. PICK n \in DOMAIN order : order[n] = k
        BY <1>2, <3>2
      <4>2. f[n] \in added /\ f[n].key = k
        BY <1>5, <4>1
      <4> QED
        BY <4>2 DEF JobKeys
    <3> QED
      BY <3>1, <3>2
  <2>3. JobKeys(q) \subseteq JobKeys(q \cup added)
    BY DEF JobKeys
  <2> QED
    BY <2>1, <2>2, <2>3
<1> HIDE DEF added
<1> QED
  BY <1>4, <1>7, <1>8, <1>9, <1>10 DEF Queue

\* Rows are changed by a function that keeps ids and keys.
LEMMA ChangedQueue ==
  ASSUME NEW K, NEW q, Queue(q, K), NEW f, f = [j \in q |-> f[j]],
         \A j \in q : f[j] \in Job(K, Nat) /\ f[j].id = j.id /\ f[j].key = j.key
  PROVE  LET r == {f[j] : j \in q}
         IN Queue(r, K) /\ JobKeys(r) = JobKeys(q)
<1> DEFINE r == {f[j] : j \in q}
<1>1. IsFiniteSet(r)
  BY FiniteImage DEF Queue
<1>2. r \subseteq Job(K, Nat)
  OBVIOUS
<1>3. \A j, k \in r : j.id = k.id => j = k
  BY DEF Queue
<1>4. JobKeys(r) = JobKeys(q)
  BY DEF JobKeys
<1> QED
  BY <1>1, <1>2, <1>3, <1>4 DEF Queue

LEMMA FinishDoneFacts ==
  ASSUME NEW K, NEW q, Queue(q, K), NEW id
  PROVE  Queue(FinishDone(q, id), K) /\ JobKeys(FinishDone(q, id)) = JobKeys(q)
<1> DEFINE f == [j \in q |-> IF j.id = id THEN [j EXCEPT !.status = "done"] ELSE j]
<1>1. \A j \in q : f[j] \in Job(K, Nat) /\ f[j].id = j.id /\ f[j].key = j.key
  BY DEF Queue, Job
<1>2. FinishDone(q, id) = {f[j] : j \in q}
  BY DEF FinishDone
<1>3. f = [j \in q |-> f[j]]
  OBVIOUS
<1> HIDE DEF f
<1> QED
  BY <1>1, <1>2, <1>3, ChangedQueue

LEMMA TriedFacts ==
  ASSUME NEW K, NEW j \in Job(K, Nat), MaxTries \in Nat
  PROVE  /\ Tried(j) \in Job(K, Nat) /\ Tried(j).id = j.id /\ Tried(j).key = j.key
         /\ Tried(j).status \in {"pending", "failed"}
<1>1. j.tries \in Nat /\ j.tries + 1 \in Nat
  BY DEF Job
<1>2. Min({j.tries + 1, MaxTries}) \in 0 .. MaxTries
  <2>1. \E m \in {j.tries + 1, MaxTries} : \A y \in {j.tries + 1, MaxTries} : m =< y
    BY <1>1
  <2>2. /\ Min({j.tries + 1, MaxTries}) \in {j.tries + 1, MaxTries}
        /\ \A y \in {j.tries + 1, MaxTries} : Min({j.tries + 1, MaxTries}) =< y
    BY <2>1 DEF Min
  <2> QED
    BY <1>1, <2>2
<1> QED
  BY <1>2 DEF Tried, Job

LEMMA FinishFailedFacts ==
  ASSUME NEW K, NEW q, Queue(q, K), NEW id, MaxTries \in Nat
  PROVE  Queue(FinishFailed(q, id), K) /\ JobKeys(FinishFailed(q, id)) = JobKeys(q)
<1> DEFINE f == [j \in q |-> IF j.id = id THEN Tried(j) ELSE j]
<1>1. \A j \in q : f[j] \in Job(K, Nat) /\ f[j].id = j.id /\ f[j].key = j.key
  BY TriedFacts DEF Queue
<1>2. FinishFailed(q, id) = {f[j] : j \in q}
  BY DEF FinishFailed
<1>3. f = [j \in q |-> f[j]]
  OBVIOUS
<1> HIDE DEF f
<1> QED
  BY <1>1, <1>2, <1>3, ChangedQueue

LEMMA ResetStaleFacts ==
  ASSUME NEW K, NEW q, Queue(q, K)
  PROVE  Queue(ResetStale(q), K) /\ JobKeys(ResetStale(q)) = JobKeys(q)
<1> DEFINE f == [j \in q |-> IF j.status = "running" THEN [j EXCEPT !.status = "pending"] ELSE j]
<1>1. \A j \in q : f[j] \in Job(K, Nat) /\ f[j].id = j.id /\ f[j].key = j.key
  BY DEF Queue, Job
<1>2. ResetStale(q) = {f[j] : j \in q}
  BY DEF ResetStale
<1>3. f = [j \in q |-> f[j]]
  OBVIOUS
<1> HIDE DEF f
<1> QED
  BY <1>1, <1>2, <1>3, ChangedQueue

\* The oldest pending row is there, and is claimed in place.
LEMMA ClaimFacts ==
  ASSUME NEW K, NEW q, Queue(q, K), Pending(q) # {}
  PROVE  /\ Claimed(q) \in q /\ Claimed(q).status = "pending"
         /\ Queue(Claim(q), K) /\ JobKeys(Claim(q)) = JobKeys(q)
         /\ \E j \in Claim(q) : j.id = Claimed(q).id /\ j.key = Claimed(q).key /\ j.status = "running"
<1> DEFINE ids == {j.id : j \in Pending(q)}
           c == Claimed(q)
<1>1. ids \subseteq Nat /\ ids # {} /\ Pending(q) \subseteq q
  BY DEF Queue, Job, Pending
<1>2. PICK i \in ids : \A k \in ids : i <= k
  <2>1. IsWellFoundedOn(OpToRel(<, Nat), Nat)
    BY NatLessThanWellFounded
  <2>2. PICK i \in ids : \A k \in ids : ~(<<k, i>> \in OpToRel(<, Nat))
    <3> HIDE DEF ids
    <3> QED
      BY <1>1, <2>1, WFMin
  <2>3. \A k \in ids : i \in Nat /\ k \in Nat /\ ~(k < i)
    BY <1>1, <2>2 DEF OpToRel
  <2> QED
    BY <2>3
<1>3. c \in Pending(q)
  <2>1. PICK j \in Pending(q) : j.id = i
    OBVIOUS
  <2>2. \A k \in Pending(q) : j.id <= k.id
    BY <1>2, <2>1
  <2> QED
    BY <2>2 DEF Claimed
<1>4. c \in q /\ c.status = "pending"
  BY <1>3 DEF Pending
<1> DEFINE f == [j \in q |-> IF j = c THEN [c EXCEPT !.status = "running"] ELSE j]
<1> HIDE DEF c, ids
<1>5. \A j \in q : f[j] \in Job(K, Nat) /\ f[j].id = j.id /\ f[j].key = j.key
  BY <1>4 DEF Queue, Job
<1>6. Claim(q) = {f[j] : j \in q}
  BY <1>4 DEF Claim, c
<1>7. f = [j \in q |-> f[j]]
  OBVIOUS
<1>8. f[c] \in Claim(q) /\ f[c].id = c.id /\ f[c].key = c.key /\ f[c].status = "running"
  BY <1>4, <1>6 DEF Queue, Job
<1> HIDE DEF f
<1>9. Queue(Claim(q), K) /\ JobKeys(Claim(q)) = JobKeys(q)
  BY <1>5, <1>6, <1>7, ChangedQueue, SMTT(60)
<1> QED
  BY <1>4, <1>8, <1>9 DEF c

LEMMA DropJobsFacts ==
  ASSUME NEW K, NEW q, Queue(q, K), NEW k
  PROVE  Queue(DropJobs(q, k), K) /\ JobKeys(DropJobs(q, k)) = JobKeys(q) \ {k}
<1>1. DropJobs(q, k) \subseteq q
  BY DEF DropJobs
<1>2. IsFiniteSet(DropJobs(q, k))
  BY <1>1, FS_Subset DEF Queue
<1>3. Queue(DropJobs(q, k), K)
  BY <1>1, <1>2 DEF Queue
<1>4. JobKeys(DropJobs(q, k)) = JobKeys(q) \ {k}
  BY DEF DropJobs, JobKeys
<1> QED
  BY <1>3, <1>4

(***************************************************************************)
(* Covers.                                                                 *)
(***************************************************************************)
USE JobsAssumption, CoversAssumption

\* A served cover's image is derived, or its job is at work or has failed.
AtWork(i, q) == \E j \in q : j.key = i /\ (IsActive(j) \/ j.status = "failed")
Served(d, q) == \A a \in Albums : cover[a] # NoCover /\ cover[a].ready => cover[a].img \in d \/ AtWork(cover[a].img, q)

LEMMA ReadyMeansServed == ReadyMeansDerived <=> Served(derived, imgs)
BY DEF ReadyMeansDerived, Served, AtWork, JobsOf

\* Jobs that are added or kept at work leave a cover served.
LEMMA StaysAtWork ==
  ASSUME NEW i, NEW q, NEW r, AtWork(i, q),
         \A j \in q : \E k \in r : k.key = j.key /\ (IsActive(j) => IsActive(k)) /\ (j.status = "failed" => k.status = "failed")
  PROVE  AtWork(i, r)
<1>1. PICK j \in q : j.key = i /\ (IsActive(j) \/ j.status = "failed")
  BY DEF AtWork
<1>2. PICK k \in r : k.key = j.key /\ (IsActive(j) => IsActive(k)) /\ (j.status = "failed" => k.status = "failed")
  OBVIOUS
<1> QED
  BY <1>1, <1>2 DEF AtWork

LEMMA CoversInit == InitCovers => CoversInv
<1> SUFFICES ASSUME InitCovers PROVE CoversInv
  OBVIOUS
<1>1. CoverTypes
  BY DEF InitCovers, CoverTypes, Idle
<1>2. Queue(imgs, Images)
  BY FS_EmptySet DEF InitCovers, Queue
<1>3. WorkerHasJob
  BY DEF InitCovers, WorkerHasJob, Idle
<1> QED
  BY <1>1, <1>2, <1>3 DEF InitCovers, CoversInv, ReadyMeansDerived, OriginalsStay

\* What a request does to its own entry.
LEMMA AsksKeepCovers ==
  ASSUME CoversInv, NEW w \in Writers, NEW a \in Albums, NEW i \in Images,
         FillCover(w, a, i) \/ \E as \in {"editor", "uploader"} : UploadAlbumImage(w, a, i, as)
  PROVE  CoversInv'
<1>1. PICK as \in {"fill", "editor", "uploader"} :
        writer' = [writer EXCEPT ![w] = [pc |-> "write", album |-> a, img |-> i, as |-> as]]
  BY DEF FillCover, UploadAlbumImage, Write
<1>2. UNCHANGED <<albums, cover, imgs, orig, derived, iw>>
  BY DEF FillCover, UploadAlbumImage
<1>3. CoverTypes'
  BY <1>1, <1>2 DEF CoversInv, CoverTypes
<1>4. WorkerHasJob'
  BY <1>1, <1>2 DEF CoversInv, CoverTypes, WorkerHasJob
<1>5. (Queue(imgs, Images) /\ ReadyMeansDerived /\ OriginalsStay)'
  BY <1>2 DEF CoversInv, ReadyMeansDerived, OriginalsStay, JobsOf, Queue
<1> QED
  BY <1>3, <1>4, <1>5 DEF CoversInv

LEMMA WriteKeepsCovers ==
  ASSUME CoversInv, NEW w \in Writers, WriteOriginal(w)
  PROVE  CoversInv'
<1>1. writer[w].img \in Images /\ writer[w].pc = "write" /\ writer[w] # Idle
  BY DEF CoversInv, CoverTypes, WriteOriginal, Idle
<1>2. /\ writer' = [writer EXCEPT ![w].pc = "claim"] /\ orig' = orig \cup {writer[w].img}
      /\ UNCHANGED <<albums, cover, imgs, derived, iw>>
  BY DEF WriteOriginal, Step
<1>3. CoverTypes'
  BY <1>1, <1>2 DEF CoversInv, CoverTypes
<1>4. WorkerHasJob'
  BY <1>1, <1>2 DEF CoversInv, CoverTypes, WorkerHasJob
<1>5. (Queue(imgs, Images) /\ ReadyMeansDerived /\ OriginalsStay)'
  BY <1>2 DEF CoversInv, ReadyMeansDerived, OriginalsStay, JobsOf, Queue
<1> QED
  BY <1>3, <1>4, <1>5 DEF CoversInv

LEMMA ClaimKeepsCovers ==
  ASSUME CoversInv, NEW w \in Writers, ClaimRow(w)
  PROVE  CoversInv'
<1>1. /\ writer[w].img \in Images /\ writer[w].album \in Albums /\ writer[w].pc = "claim"
      /\ writer[w].img \in orig
  BY DEF CoversInv, CoverTypes, ClaimRow, WorkerHasJob, Idle
<1>2. UNCHANGED <<albums, imgs, orig, derived, iw>>
  BY DEF ClaimRow
<1>3. \/ writer' = [writer EXCEPT ![w].pc = "enqueue"]
      \/ writer' = [writer EXCEPT ![w] = Idle]
  BY DEF ClaimRow, Step, Stop
<1>4. \/ cover' = [cover EXCEPT ![writer[w].album] = Cover(writer[w].img, FALSE)]
      \/ cover' = cover
  BY DEF ClaimRow
<1>5. CoverTypes'
  <2>1. writer' \in [Writers -> {Idle} \cup [pc : {"write", "claim", "enqueue"}, album : Albums,
                                         img : Images, as : {"fill", "editor", "uploader"}]]
    BY <1>1, <1>3 DEF CoversInv, CoverTypes, Idle
  <2>2. cover' \in [Albums -> [img : Images, ready : BOOLEAN] \cup {NoCover}]
    <3>1. Cover(writer[w].img, FALSE) \in [img : Images, ready : BOOLEAN]
      BY <1>1 DEF Cover
    <3>2. cover \in [Albums -> [img : Images, ready : BOOLEAN] \cup {NoCover}]
      BY DEF CoversInv, CoverTypes
    <3> QED
      BY <1>1, <1>4, <3>1, <3>2
  <2> QED
    BY <1>2, <2>1, <2>2 DEF CoversInv, CoverTypes
<1>6. WorkerHasJob'
  BY <1>1, <1>2, <1>3 DEF CoversInv, CoverTypes, WorkerHasJob, Idle
<1>7. (ReadyMeansDerived /\ OriginalsStay)'
  <2>1. \A a \in Albums : cover'[a] = cover[a] \/ cover'[a] = Cover(writer[w].img, FALSE)
    BY <1>1, <1>4 DEF CoversInv, CoverTypes
  <2> QED
    BY <1>1, <1>2, <2>1 DEF CoversInv, ReadyMeansDerived, OriginalsStay, JobsOf, Cover
<1>8. Queue(imgs, Images)'
  BY <1>2 DEF CoversInv, Queue
<1> QED
  BY <1>5, <1>6, <1>7, <1>8 DEF CoversInv

LEMMA EnqueueKeepsCovers ==
  ASSUME CoversInv, NEW w \in Writers, EnqueueImageJob(w)
  PROVE  CoversInv'
<1>1. writer[w].img \in Images /\ Queue(imgs, Images)
  BY DEF CoversInv, CoverTypes, EnqueueImageJob, Idle
<1>2. /\ imgs' = Enqueue(imgs, writer[w].img) /\ writer' = [writer EXCEPT ![w] = Idle]
      /\ UNCHANGED <<albums, cover, orig, derived, iw>>
  BY DEF EnqueueImageJob, Stop
<1>3. Queue(imgs', Images) /\ imgs \subseteq imgs'
  BY <1>1, <1>2, EnqueueFacts
<1>4. CoverTypes'
  BY <1>2 DEF CoversInv, CoverTypes
<1>5. WorkerHasJob'
  BY <1>2, <1>3 DEF CoversInv, CoverTypes, WorkerHasJob, Idle
<1>6. (ReadyMeansDerived /\ OriginalsStay)'
  BY <1>2, <1>3 DEF CoversInv, ReadyMeansDerived, OriginalsStay, JobsOf
<1> QED
  BY <1>3, <1>4, <1>5, <1>6 DEF CoversInv

LEMMA MergeKeepsCovers ==
  ASSUME CoversInv, NEW a \in Albums, NEW b \in Albums, MergeAlbums(a, b)
  PROVE  CoversInv'
<1>1. /\ albums' = albums \ {a} /\ UNCHANGED <<imgs, orig, derived, writer, iw>>
      /\ cover' = [cover EXCEPT ![a] = NoCover, ![b] = IF @ = NoCover THEN cover[a] ELSE @]
  BY DEF MergeAlbums
<1>2. \A c \in Albums : cover'[c] = NoCover \/ \E e \in Albums : cover'[c] = cover[e]
  BY <1>1 DEF CoversInv, CoverTypes
<1>3. CoverTypes'
  BY <1>1 DEF CoversInv, CoverTypes
<1>4. (WorkerHasJob /\ Queue(imgs, Images))'
  BY <1>1 DEF CoversInv, WorkerHasJob, Queue
<1>5. (ReadyMeansDerived /\ OriginalsStay)'
  <2>1. \A i : JobsOf(i)' = JobsOf(i)
    BY <1>1 DEF JobsOf
  <2>2. ASSUME NEW c \in Albums, cover'[c] # NoCover
        PROVE  /\ cover'[c].img \in orig
               /\ cover'[c].ready => \/ cover'[c].img \in derived
                                    \/ \E j \in JobsOf(cover'[c].img) : IsActive(j) \/ j.status = "failed"
    <3>1. PICK e \in Albums : cover'[c] = cover[e]
      BY <1>2, <2>2
    <3> QED
      BY <2>2, <3>1 DEF CoversInv, ReadyMeansDerived, OriginalsStay
  <2> QED
    BY <1>1, <2>1, <2>2 DEF ReadyMeansDerived, OriginalsStay
<1> QED
  BY <1>3, <1>4, <1>5 DEF CoversInv

LEMMA ImageClaimKeepsCovers ==
  ASSUME CoversInv, ClaimImageJob
  PROVE  CoversInv'
<1> DEFINE c == Claimed(imgs)
<1>1. /\ Pending(imgs) # {} /\ Queue(imgs, Images)
      /\ iw' = [pc |-> "generate", job |-> c.id, img |-> c.key]
      /\ imgs' = Claim(imgs) /\ UNCHANGED <<albums, cover, orig, derived, writer>>
  BY DEF CoversInv, ClaimImageJob
<1>2. /\ c \in imgs /\ c.status = "pending" /\ Queue(imgs', Images)
      /\ \E j \in imgs' : j.id = c.id /\ j.key = c.key /\ j.status = "running"
  BY <1>1, ClaimFacts
<1>3. c.id \in Nat /\ c.key \in Images
  BY <1>1, <1>2 DEF Queue, Job
<1>4. imgs' = (imgs \ {c}) \cup {[c EXCEPT !.status = "running"]}
  BY <1>1 DEF Claim
<1> HIDE DEF c
<1>5. CoverTypes'
  BY <1>1, <1>3 DEF CoversInv, CoverTypes
<1>6. WorkerHasJob'
  BY <1>1, <1>2 DEF CoversInv, WorkerHasJob
<1>7. ReadyMeansDerived'
  <2>1. c \in Job(Images, Nat)
    BY <1>1, <1>2 DEF Queue
  <2>2. \A j \in imgs : \E k \in imgs' : k.key = j.key /\ (IsActive(j) => IsActive(k)) /\ (j.status = "failed" => k.status = "failed")
    BY <1>2, <1>4, <2>1 DEF IsActive, Job
  <2>3. Served(derived, imgs)
    BY ReadyMeansServed DEF CoversInv
  <2>4. \A i : AtWork(i, imgs) => AtWork(i, imgs')
    BY <2>2, StaysAtWork
  <2>5. Served(derived, imgs)'
    BY <1>1, <2>3, <2>4 DEF Served, AtWork
  <2> QED
    BY <2>5 DEF ReadyMeansDerived, Served, AtWork, JobsOf
<1>8. OriginalsStay'
  BY <1>1 DEF CoversInv, OriginalsStay
<1> QED
  BY <1>2, <1>5, <1>6, <1>7, <1>8 DEF CoversInv

\* An attempt that fails half way leaves its job running.
LEMMA GenerateKeepsCovers ==
  ASSUME CoversInv, Generate
  PROVE  CoversInv'
<1>1. /\ iw.pc = "generate" /\ iw # Idle /\ iw.img \in Images
      /\ UNCHANGED <<albums, cover, imgs, orig, writer>>
  BY DEF CoversInv, CoverTypes, Generate, Idle
<1>2. \/ /\ derived' = derived \cup {iw.img} /\ iw.img \in Images
         /\ iw' = [iw EXCEPT !.pc = "done"]
      \/ derived' \in {derived, derived \ {iw.img}} /\ iw' = [iw EXCEPT !.pc = "fail"]
  BY <1>1 DEF Generate
<1>3. PICK j \in imgs : j.id = iw.job /\ j.key = iw.img /\ j.status = "running"
  BY <1>1 DEF CoversInv, WorkerHasJob
<1>4. CoverTypes'
  BY <1>1, <1>2 DEF CoversInv, CoverTypes, Idle
<1>5. iw'.img = iw.img /\ iw'.job = iw.job /\ (iw'.pc = "done" => iw.img \in derived')
  BY <1>1, <1>2 DEF CoversInv, CoverTypes
<1>6. WorkerHasJob'
  BY <1>1, <1>3, <1>5 DEF CoversInv, WorkerHasJob
<1>7. ReadyMeansDerived'
  <2>1. j \in JobsOf(iw.img) /\ IsActive(j)
    BY <1>3 DEF JobsOf, IsActive
  <2>2. \A i : i \in derived => i \in derived' \/ i = iw.img
    BY <1>2
  <2> QED
    BY <1>1, <2>1, <2>2 DEF CoversInv, ReadyMeansDerived, JobsOf
<1>8. (OriginalsStay /\ Queue(imgs, Images))'
  BY <1>1 DEF CoversInv, OriginalsStay, Queue
<1> QED
  BY <1>4, <1>6, <1>7, <1>8 DEF CoversInv

\* The job the worker finishes is its image's alone, for ids are not shared.
LEMMA ImageFinishKeepsCovers ==
  ASSUME CoversInv, FinishImageJob
  PROVE  CoversInv'
<1>1. /\ iw.pc \in {"done", "fail"} /\ iw # Idle /\ iw.img \in Images /\ Queue(imgs, Images)
      /\ iw' = Idle /\ UNCHANGED <<albums, orig, derived, writer>>
  BY DEF CoversInv, CoverTypes, FinishImageJob, Idle
<1>2. PICK j \in imgs : j.id = iw.job /\ j.key = iw.img /\ j.status = "running"
  BY <1>1 DEF CoversInv, WorkerHasJob
<1>3. \A k \in imgs : k.id = iw.job => k = j
  BY <1>1, <1>2 DEF Queue
<1>4. Queue(imgs', Images)
  BY <1>1, FinishDoneFacts, FinishFailedFacts DEF FinishImageJob
<1>5. \A a \in Albums : /\ cover'[a] # NoCover <=> cover[a] # NoCover
                        /\ cover[a] # NoCover => cover'[a].img = cover[a].img
                        /\ \/ cover'[a] = cover[a]
                           \/ iw.pc = "done" /\ cover'[a].img = iw.img
  <2>1. CASE iw.pc = "fail"
    BY <1>1, <2>1 DEF FinishImageJob
  <2>2. CASE iw.pc = "done"
    <3> SUFFICES ASSUME NEW a \in Albums
                 PROVE  /\ cover'[a] # NoCover <=> cover[a] # NoCover
                        /\ cover[a] # NoCover => cover'[a].img = cover[a].img
                        /\ cover'[a] = cover[a] \/ cover'[a].img = iw.img
      BY <2>2
    <3>1. cover'[a] = IF cover[a] # NoCover /\ cover[a].img = iw.img THEN Cover(iw.img, TRUE) ELSE cover[a]
      BY <2>2 DEF FinishImageJob
    <3>2. Cover(iw.img, TRUE).img = iw.img /\ Cover(iw.img, TRUE) \in [img : Images, ready : BOOLEAN]
      BY <1>1 DEF Cover
    <3>3. Cover(iw.img, TRUE) # NoCover
      BY <3>2
    <3> QED
      BY <3>1, <3>2, <3>3
  <2> QED
    BY <1>1, <2>1, <2>2
<1>6. cover' \in [Albums -> [img : Images, ready : BOOLEAN] \cup {NoCover}]
  BY <1>1 DEF CoversInv, CoverTypes, FinishImageJob, Cover
<1>7. CoverTypes'
  BY <1>1, <1>6 DEF CoversInv, CoverTypes
<1>8. WorkerHasJob'
  BY <1>1 DEF CoversInv, WorkerHasJob, Idle
<1>9. OriginalsStay'
  BY <1>1, <1>5 DEF CoversInv, OriginalsStay
<1>10. ReadyMeansDerived'
  <2>1. CASE iw.pc = "done"
    <3>1. iw.img \in derived
      BY <2>1 DEF CoversInv, WorkerHasJob
    <3>2. \A k \in imgs : k.key # iw.img => k \in imgs'
      BY <1>1, <1>2, <1>3, <2>1 DEF FinishImageJob, FinishDone
    <3> QED
      BY <1>1, <1>5, <3>1, <3>2 DEF CoversInv, ReadyMeansDerived, JobsOf
  <2>2. CASE iw.pc = "fail"
    <3>1. imgs' = FinishFailed(imgs, iw.job) /\ cover' = cover
      BY <2>2 DEF FinishImageJob
    <3>2. j \in Job(Images, Nat)
      BY <1>1 DEF Queue
    <3>3. Tried(j) \in imgs' /\ Tried(j).key = iw.img /\ Tried(j).status \in {"pending", "failed"}
      BY <1>2, <3>1, <3>2, TriedFacts DEF FinishFailed
    <3>4. \A k \in imgs : k # j => k \in imgs'
      BY <1>3, <3>1 DEF FinishFailed
    <3>5. \A i : AtWork(i, imgs) => AtWork(i, imgs')
      BY <1>2, <3>3, <3>4 DEF AtWork, IsActive
    <3>6. Served(derived, imgs)
      BY ReadyMeansServed DEF CoversInv
    <3>7. Served(derived, imgs)'
      BY <1>1, <3>1, <3>5, <3>6 DEF Served, AtWork
    <3> QED
      BY <3>7 DEF ReadyMeansDerived, Served, AtWork, JobsOf
  <2> QED
    BY <1>1, <2>1, <2>2
<1> QED
  BY <1>4, <1>7, <1>8, <1>9, <1>10 DEF CoversInv

\* A start spares the images that a cover names.
LEMMA RestartKeepsCovers ==
  ASSUME CoversInv, RestartCovers
  PROVE  CoversInv'
<1> DEFINE q == ResetStale(imgs)
           never == Stuck(cover) \ JobKeys(q)
<1>1. /\ imgs' = RequeueStuckImageJobs(cover, q)
      /\ orig' = orig \cap Referenced(cover, q) /\ derived' = derived \cap Referenced(cover, q)
      /\ writer' = [w \in Writers |-> Idle] /\ iw' = Idle /\ UNCHANGED <<albums, cover>>
  BY DEF RestartCovers
<1>2. Queue(imgs, Images)
  BY DEF CoversInv
<1>3. Queue(q, Images)
  BY <1>2, ResetStaleFacts
<1>4. Stuck(cover) \subseteq Images
  BY DEF CoversInv, CoverTypes, Stuck
<1>5. never \subseteq Images /\ IsFiniteSet(never)
  BY <1>4, FS_Subset
<1>6. imgs' = EnqueueAll(q, never)
  BY <1>1 DEF RequeueStuckImageJobs
<1>7. \A j \in imgs : \E k \in q : k.key = j.key /\ (IsActive(j) => IsActive(k)) /\ (j.status = "failed" => k.status = "failed")
  BY <1>2 DEF ResetStale, IsActive, Queue, Job
<1>8. Covered(cover) \subseteq Referenced(cover, q)
  BY DEF Referenced
<1> HIDE DEF q, never
<1>9. Queue(imgs', Images) /\ q \subseteq imgs'
  BY <1>3, <1>5, <1>6, EnqueueAllFacts
<1>10. \A i : AtWork(i, imgs) => AtWork(i, imgs')
  <2>1. \A i : AtWork(i, imgs) => AtWork(i, q)
    BY <1>7, StaysAtWork
  <2> QED
    BY <1>9, <2>1 DEF AtWork
<1>11. \A a \in Albums : cover[a] # NoCover => cover[a].img \in Covered(cover)
  BY DEF Covered
<1>12. CoverTypes'
  BY <1>1 DEF CoversInv, CoverTypes
<1>13. WorkerHasJob'
  BY <1>1 DEF WorkerHasJob, Idle
<1>14. OriginalsStay'
  BY <1>1, <1>8, <1>11 DEF CoversInv, OriginalsStay
<1>15. ReadyMeansDerived'
  <2>1. Served(derived, imgs)
    BY ReadyMeansServed DEF CoversInv
  <2>2. Served(derived, imgs)'
    BY <1>1, <1>8, <1>10, <1>11, <2>1 DEF Served, AtWork
  <2> QED
    BY <2>2 DEF ReadyMeansDerived, Served, AtWork, JobsOf
<1> QED
  BY <1>9, <1>12, <1>13, <1>14, <1>15 DEF CoversInv

LEMMA CoversNextKeepsCovers ==
  ASSUME CoversInv, CoversNext \/ RestartCovers \/ UNCHANGED covers
  PROVE  CoversInv'
<1>1. CASE UNCHANGED covers
  <2>1. CoverTypes'
    BY <1>1 DEF covers, CoversInv, CoverTypes
  <2>2. (Queue(imgs, Images) /\ WorkerHasJob)'
    BY <1>1 DEF covers, CoversInv, Queue, WorkerHasJob
  <2>3. (ReadyMeansDerived /\ OriginalsStay)'
    BY <1>1 DEF covers, CoversInv, ReadyMeansDerived, OriginalsStay, JobsOf
  <2> QED
    BY <2>1, <2>2, <2>3 DEF CoversInv
<1>2. CASE CoversNext
  BY <1>2, AsksKeepCovers, WriteKeepsCovers, ClaimKeepsCovers, EnqueueKeepsCovers, MergeKeepsCovers,
     ImageClaimKeepsCovers, GenerateKeepsCovers, ImageFinishKeepsCovers
  DEF CoversNext, Writing, Deriving, CoverRequest
<1> QED
  BY <1>1, <1>2, RestartKeepsCovers

LEMMA CoversInvHolds == Spec => []CoversInv
<1>1. Init => CoversInv
  BY CoversInit DEF Init
<1>2. CoversInv /\ [Next]_vars => CoversInv'
  BY CoversNextKeepsCovers DEF Next, CrashAndRestart, vars
<1> QED
  BY <1>1, <1>2, PTL DEF Spec

(* Through every interleaving of requests, attempts and crashes, a cover   *)
(* that is served has its variants or a job that is about them, and a      *)
(* cover's original is on disk (Background!CoversAreKept).                 *)
THEOREM CoversHold == Spec => []CoversAreKept
<1>1. CoversInv => CoversAreKept
  BY DEF CoversInv, CoversAreKept
<1> QED
  BY <1>1, CoversInvHolds, PTL

(***************************************************************************)
(* The tables.  Each operation keeps rows keyed; what else it does to a    *)
(* row is said by name.                                                    *)
(***************************************************************************)
USE IngestAssumption

Db == [src : [Sources -> {"none", "scanning", "active", "error"}],
       jobs : SUBSET Job(Nat, Nat), files : [Hashes -> File \cup {None}]]
Keyed(d) == /\ \A h, g \in Rows(d) : d.files[h].id = d.files[g].id => h = g
            /\ \A j \in d.jobs : WithId(d, j.key) # {}
DbInv(d) == d \in Db /\ Queue(d.jobs, Nat) /\ Keyed(d)

\* The rows are the same but for their fingerprints and what they are attributed to.
SameFiles(d, e) ==
  /\ Rows(e) = Rows(d) /\ \A h \in Rows(d) : /\ e.files[h].id = d.files[h].id
                                             /\ e.files[h].at = d.files[h].at

LEMMA RowsAreFiles ==
  ASSUME NEW d \in Db
  PROVE  \A h \in Rows(d) : h \in Hashes /\ d.files[h] \in File /\ d.files[h].id \in Nat
BY DEF Db, Rows, File

LEMMA RowsOf ==
  ASSUME NEW d, NEW e, e.files = d.files
  PROVE  Rows(e) = Rows(d) /\ \A i : WithId(e, i) = WithId(d, i)
BY DEF Rows, WithId

\* Keys stay keys when rows and jobs are the same.
LEMMA SameFilesKeyed ==
  ASSUME NEW d, NEW e, Keyed(d), SameFiles(d, e), \A j \in e.jobs : j.key \in JobKeys(d.jobs)
  PROVE  Keyed(e)
<1>1. \A i : WithId(e, i) = WithId(d, i)
  BY DEF SameFiles, WithId
<1>2. \A j \in e.jobs : WithId(e, j.key) # {}
  BY <1>1 DEF Keyed, JobKeys
<1> QED
  BY <1>2 DEF Keyed, SameFiles

\* A new row's id is above those there are.
LEMMA FileIdIsFresh ==
  ASSUME NEW d, DbInv(d)
  PROVE  NextFileId(d) \in Nat /\ \A h \in Rows(d) : d.files[h].id < NextFileId(d)
<1> DEFINE ids == {d.files[h].id : h \in Rows(d)}
           f == [h \in Rows(d) |-> d.files[h].id]
<1>1. \A h \in Rows(d) : d.files[h].id \in Nat
  BY RowsAreFiles DEF DbInv
<1>2. IsFiniteSet(Rows(d))
  BY FS_Subset DEF Rows
<1>3. IsFiniteSet({f[h] : h \in Rows(d)})
  <2>1. DOMAIN f = Rows(d) /\ f = [h \in Rows(d) |-> f[h]]
    OBVIOUS
  <2> HIDE DEF f
  <2> QED
    BY <1>2, <2>1, FiniteImage
<1>4. {f[h] : h \in Rows(d)} = ids
  OBVIOUS
<1>5. IsFiniteSet({0} \cup ids)
  <2>1. IsFiniteSet(ids)
    BY <1>3, <1>4
  <2> HIDE DEF ids
  <2>2. IsFiniteSet(ids \cup {0})
    BY <2>1, FS_AddElement
  <2>3. ids \cup {0} = {0} \cup ids
    OBVIOUS
  <2> QED
    BY <2>2, <2>3
<1>6. {0} \cup ids \subseteq Nat /\ {0} \cup ids # {} /\ \A h \in Rows(d) : d.files[h].id \in ids
  BY <1>1
<1>7. NextFileId(d) = 1 + Max({0} \cup ids)
  BY DEF NextFileId
<1> DEFINE m == Max({0} \cup ids)
<1> HIDE DEF ids, f
<1>8. m \in Nat /\ \A i \in {0} \cup ids : i <= m
  BY <1>5, <1>6, MaxOfFinite
<1>9. NextFileId(d) = 1 + m
  BY <1>7
<1> HIDE DEF m
<1>10. ASSUME NEW h \in Rows(d) PROVE d.files[h].id < NextFileId(d)
  <2>1. d.files[h].id \in Nat /\ d.files[h].id <= m
    BY <1>1, <1>6, <1>8
  <2> QED
    BY <1>8, <1>9, <2>1
<1> QED
  BY <1>8, <1>9, <1>10

LEMMA InsertFacts ==
  ASSUME NEW d, DbInv(d), NEW h \in Hashes, h \notin Rows(d), NEW at \in At, NEW target \in Paths \cup {None}
  PROVE  LET e == InsertFile(d, h, at, target) IN
         /\ DbInv(e) /\ e.src = d.src /\ e.jobs = d.jobs /\ Rows(e) = Rows(d) \cup {h}
         /\ \A g \in Rows(d) : e.files[g] = d.files[g]
         /\ e.files[h].id = NextFileId(d) /\ e.files[h].at = at /\ e.files[h].by = {}
<1> DEFINE e == InsertFile(d, h, at, target)
           r == [id |-> NextFileId(d), at |-> at, target |-> target, fp |-> None, by |-> {}]
<1>1. NextFileId(d) \in Nat /\ \A g \in Rows(d) : d.files[g].id < NextFileId(d) /\ d.files[g].id \in Nat
  BY FileIdIsFresh, RowsAreFiles DEF DbInv
<1>2. r \in File /\ r # None
  BY <1>1 DEF File, At
<1>3. e = [d EXCEPT !.files[h] = r]
  BY DEF InsertFile
<1>4. d \in Db
  BY DEF DbInv
<1> HIDE DEF e, r
<1>5. /\ e \in Db /\ e.src = d.src /\ e.jobs = d.jobs /\ e.files = [d.files EXCEPT ![h] = r]
  BY <1>2, <1>3, <1>4 DEF Db
<1>6. Rows(e) = Rows(d) \cup {h} /\ e.files[h] = r /\ \A g \in Rows(d) : e.files[g] = d.files[g]
  BY <1>2, <1>4, <1>5 DEF Rows, Db
<1>7. r.id = NextFileId(d) /\ r.at = at /\ r.by = {}
  BY DEF r
<1>8. Keyed(e)
  <2>1. \A i : WithId(d, i) \subseteq WithId(e, i)
    BY <1>6 DEF WithId
  <2>2. \A j \in e.jobs : WithId(e, j.key) # {}
    BY <1>5, <2>1 DEF DbInv, Keyed
  <2>3. \A f, g \in Rows(e) : e.files[f].id = e.files[g].id => f = g
    BY <1>1, <1>6, <1>7 DEF DbInv, Keyed
  <2> QED
    BY <2>2, <2>3 DEF Keyed
<1> QED
  BY <1>5, <1>6, <1>7, <1>8 DEF DbInv, e

\* The jobs of a row go with it, and no other row's do.
LEMMA DeleteFacts ==
  ASSUME NEW d, DbInv(d), NEW h \in Hashes
  PROVE  LET e == HardDeleteFile(d, h) IN
         /\ DbInv(e) /\ e.src = d.src /\ Rows(e) = Rows(d) \ {h}
         /\ \A g \in Rows(e) : e.files[g] = d.files[g]
         /\ \A g \in Rows(e) : d.files[g].id \in JobKeys(d.jobs) => d.files[g].id \in JobKeys(e.jobs)
<1> DEFINE e == HardDeleteFile(d, h)
<1>1. CASE d.files[h] = None
  BY <1>1 DEF HardDeleteFile, Rows
<1>2. CASE d.files[h] # None
  <2>1. e = [d EXCEPT !.files[h] = None, !.jobs = DropJobs(@, d.files[h].id)]
    BY <1>2 DEF HardDeleteFile
  <2>2. d \in Db /\ Queue(d.jobs, Nat) /\ h \in Rows(d)
    BY <1>2 DEF DbInv, Rows
  <2>3. /\ Queue(DropJobs(d.jobs, d.files[h].id), Nat)
        /\ JobKeys(DropJobs(d.jobs, d.files[h].id)) = JobKeys(d.jobs) \ {d.files[h].id}
    BY <2>2, DropJobsFacts
  <2> HIDE DEF e
  <2>4. DropJobs(d.jobs, d.files[h].id) \in SUBSET Job(Nat, Nat)
    BY <2>3 DEF Queue
  <2>5. /\ e \in Db /\ e.src = d.src /\ e.jobs = DropJobs(d.jobs, d.files[h].id)
        /\ e.files = [d.files EXCEPT ![h] = None]
    BY <2>1, <2>2, <2>4 DEF Db
  <2>6. Rows(e) = Rows(d) \ {h} /\ \A g \in Rows(e) : e.files[g] = d.files[g]
    BY <2>2, <2>5 DEF Rows, Db
  <2>7. \A g \in Rows(e) : d.files[g].id # d.files[h].id
    BY <2>2, <2>6 DEF DbInv, Keyed
  <2>8. Keyed(e)
    <3>1. ASSUME NEW j \in e.jobs PROVE WithId(e, j.key) # {}
      <4>1. j \in d.jobs /\ j.key # d.files[h].id
        BY <2>5 DEF DropJobs
      <4>2. PICK g \in WithId(d, j.key) : TRUE
        BY <4>1 DEF DbInv, Keyed
      <4>3. g \in WithId(e, j.key)
        BY <2>6, <4>1, <4>2 DEF WithId
      <4> QED
        BY <4>3
    <3> QED
      BY <2>6, <3>1 DEF DbInv, Keyed
  <2> QED
    BY <2>3, <2>5, <2>6, <2>7, <2>8 DEF DbInv, e
<1> QED
  BY <1>1, <1>2

\* The row i is attributed to s too, if s is there.
Gains(d, e, s, i) ==
  \A h \in Rows(d) : /\ e.files[h].fp = d.files[h].fp
                     /\ e.files[h].by = IF Known(d, s) /\ d.files[h].id = i
                                        THEN d.files[h].by \cup {s} ELSE d.files[h].by

LEMMA AttributeFacts ==
  ASSUME NEW d, DbInv(d), NEW s \in Sources, NEW i, NEW e, e = AttributeSourceFile(d, s, i)
  PROVE  /\ DbInv(e) /\ e.src = d.src /\ e.jobs = d.jobs /\ SameFiles(d, e) /\ Gains(d, e, s, i)
<1>1. CASE ~Known(d, s)
  BY <1>1 DEF AttributeSourceFile, SameFiles, Gains
<1>2. CASE Known(d, s)
  <2> DEFINE fs == [h \in Hashes |-> IF h \in WithId(d, i)
                                     THEN [d.files[h] EXCEPT !.by = @ \cup {s}] ELSE d.files[h]]
  <2>1. e = [d EXCEPT !.files = fs]
    BY <1>2 DEF AttributeSourceFile
  <2>2. d \in Db
    BY DEF DbInv
  <2>3. ASSUME NEW h \in Rows(d)
        PROVE  /\ h \in Hashes /\ fs[h] \in File /\ fs[h] # None
               /\ fs[h].id = d.files[h].id /\ fs[h].at = d.files[h].at /\ fs[h].fp = d.files[h].fp
               /\ fs[h].by = IF d.files[h].id = i THEN d.files[h].by \cup {s} ELSE d.files[h].by
    <3>1. h \in Hashes /\ d.files[h] \in File /\ (h \in WithId(d, i) <=> d.files[h].id = i)
      BY <2>2, RowsAreFiles DEF WithId
    <3>2. d.files[h] # None
      BY DEF Rows
    <3> QED
      BY <3>1, <3>2 DEF File
  <2>4. \A h \in Hashes : h \notin Rows(d) => fs[h] = None
    BY DEF Rows, WithId
  <2> HIDE DEF fs
  <2>5. fs \in [Hashes -> File \cup {None}]
    <3>1. fs = [h \in Hashes |-> fs[h]]
      BY DEF fs
    <3> QED
      BY <2>3, <2>4, <3>1
  <2>6. e \in Db /\ e.src = d.src /\ e.jobs = d.jobs /\ e.files = fs
    BY <2>1, <2>2, <2>5 DEF Db
  <2>7. Rows(e) = Rows(d)
    BY <2>3, <2>4, <2>6 DEF Rows
  <2>8. SameFiles(d, e)
    BY <2>3, <2>6, <2>7 DEF SameFiles
  <2>9. Keyed(e)
    BY <2>6, <2>8, SameFilesKeyed DEF DbInv, JobKeys
  <2> QED
    BY <1>2, <2>3, <2>6, <2>8, <2>9 DEF DbInv, Gains
<1> QED
  BY <1>1, <1>2

LEMMA EnqueueAnalysisFacts ==
  ASSUME NEW d, DbInv(d), NEW i \in Nat
  PROVE  LET e == EnqueueAnalysis(d, i) IN
         /\ DbInv(e) /\ e.src = d.src /\ e.files = d.files
         /\ JobKeys(d.jobs) \subseteq JobKeys(e.jobs)
         /\ WithId(d, i) # {} => i \in JobKeys(e.jobs)
<1> DEFINE e == EnqueueAnalysis(d, i)
<1>1. CASE WithId(d, i) = {}
  BY <1>1 DEF EnqueueAnalysis
<1>2. CASE WithId(d, i) # {}
  <2>1. e = [d EXCEPT !.jobs = Enqueue(@, i)]
    BY <1>2 DEF EnqueueAnalysis
  <2>2. Queue(Enqueue(d.jobs, i), Nat) /\ JobKeys(Enqueue(d.jobs, i)) = JobKeys(d.jobs) \cup {i}
    BY EnqueueFacts DEF DbInv
  <2>3. d \in Db /\ Enqueue(d.jobs, i) \in SUBSET Job(Nat, Nat)
    BY <2>2 DEF DbInv, Queue
  <2> HIDE DEF e
  <2>4. e \in Db /\ e.src = d.src /\ e.files = d.files /\ e.jobs = Enqueue(d.jobs, i)
    BY <2>1, <2>3 DEF Db
  <2>5. ASSUME NEW j \in e.jobs PROVE WithId(e, j.key) # {}
    <3>1. j.key \in JobKeys(d.jobs) \cup {i}
      BY <2>2, <2>4 DEF JobKeys
    <3>2. WithId(d, j.key) # {}
      BY <1>2, <3>1 DEF DbInv, Keyed, JobKeys
    <3> QED
      BY <2>4, <3>2, RowsOf
  <2>6. Keyed(e)
    BY <2>4, <2>5, RowsOf DEF DbInv, Keyed
  <2> QED
    BY <2>2, <2>4, <2>6 DEF DbInv, e
<1> QED
  BY <1>1, <1>2

LEMMA DeleteSourceFacts ==
  ASSUME NEW d, DbInv(d), NEW s \in Sources
  PROVE  LET e == DeleteDataSource(d, s) IN
         /\ DbInv(e) /\ e.jobs = d.jobs /\ SameFiles(d, e)
         /\ \A t \in Sources : e.src[t] = IF t = s THEN "none" ELSE d.src[t]
         /\ \A h \in Rows(d) : /\ e.files[h].fp = d.files[h].fp
                               /\ e.files[h].by = d.files[h].by \ {s}
<1> DEFINE e == DeleteDataSource(d, s)
           fs == [h \in Hashes |-> IF d.files[h] = None THEN None
                                   ELSE [d.files[h] EXCEPT !.by = @ \ {s}]]
<1>1. e = [d EXCEPT !.src[s] = "none", !.files = fs]
  BY DEF DeleteDataSource
<1>2. d \in Db
  BY DEF DbInv
<1>3. ASSUME NEW h \in Rows(d)
      PROVE  /\ h \in Hashes /\ fs[h] \in File /\ fs[h] # None
             /\ fs[h].id = d.files[h].id /\ fs[h].at = d.files[h].at /\ fs[h].fp = d.files[h].fp
             /\ fs[h].by = d.files[h].by \ {s}
  <2>1. h \in Hashes /\ d.files[h] \in File /\ d.files[h] # None
    BY <1>2, RowsAreFiles DEF Rows
  <2> QED
    BY <2>1 DEF File
<1>4. \A h \in Hashes : h \notin Rows(d) => fs[h] = None
  BY DEF Rows
<1>5. fs = [h \in Hashes |-> fs[h]]
  OBVIOUS
<1> HIDE DEF e, fs
<1>6. fs \in [Hashes -> File \cup {None}]
  BY <1>3, <1>4, <1>5
<1>7. e \in Db /\ e.src = [d.src EXCEPT ![s] = "none"] /\ e.jobs = d.jobs /\ e.files = fs
  BY <1>1, <1>2, <1>6 DEF Db
<1>8. Rows(e) = Rows(d)
  BY <1>3, <1>4, <1>7 DEF Rows
<1>9. SameFiles(d, e)
  BY <1>3, <1>7, <1>8 DEF SameFiles
<1>10. Keyed(e)
  BY <1>7, <1>9, SameFilesKeyed DEF DbInv, JobKeys
<1> QED
  BY <1>2, <1>3, <1>7, <1>9, <1>10 DEF DbInv, Db, e

\* The source says what it is told, if it is there.
Says(d, e, s, status) ==
  \A t \in Sources : /\ Known(e, t) <=> Known(d, t)
                     /\ e.src[t] = IF t = s /\ Known(d, s) THEN status ELSE d.src[t]

LEMMA SetStatusFacts ==
  ASSUME NEW d, DbInv(d), NEW s \in Sources, NEW status \in {"scanning", "active", "error"}
  PROVE  LET e == SetStatus(d, s, status) IN
         DbInv(e) /\ e.jobs = d.jobs /\ e.files = d.files /\ Says(d, e, s, status)
<1> DEFINE e == SetStatus(d, s, status)
<1>1. CASE ~Known(d, s)
  BY <1>1 DEF SetStatus, Says
<1>2. CASE Known(d, s)
  <2>1. e = [d EXCEPT !.src[s] = status]
    BY <1>2 DEF SetStatus
  <2>2. d \in Db
    BY DEF DbInv
  <2> HIDE DEF e
  <2>3. e \in Db /\ e.src = [d.src EXCEPT ![s] = status] /\ e.jobs = d.jobs /\ e.files = d.files
    BY <2>1, <2>2 DEF Db
  <2>4. Keyed(e)
    BY <2>3, RowsOf DEF DbInv, Keyed
  <2>5. DbInv(e)
    BY <2>3, <2>4 DEF DbInv
  <2>6. \A t \in Sources : e.src[t] = IF t = s THEN status ELSE d.src[t]
    BY <2>2, <2>3 DEF Db
  <2> QED
    BY <1>2, <2>3, <2>5, <2>6 DEF Known, e, Says
<1> QED
  BY <1>1, <1>2

LEMMA AddSourceFacts ==
  ASSUME NEW d, DbInv(d), NEW s \in Sources
  PROVE  LET e == [d EXCEPT !.src[s] = "scanning"] IN
         /\ DbInv(e) /\ e.jobs = d.jobs /\ e.files = d.files
         /\ \A t \in Sources : e.src[t] = IF t = s THEN "scanning" ELSE d.src[t]
<1> DEFINE e == [d EXCEPT !.src[s] = "scanning"]
<1>1. d \in Db
  BY DEF DbInv
<1>2. e \in Db /\ e.src = [d.src EXCEPT ![s] = "scanning"] /\ e.jobs = d.jobs /\ e.files = d.files
  BY <1>1 DEF Db
<1> HIDE DEF e
<1>3. Keyed(e)
  BY <1>2, RowsOf DEF DbInv, Keyed
<1> QED
  BY <1>1, <1>2, <1>3 DEF DbInv, Db, e

LEMMA WorkClaimFacts ==
  ASSUME NEW d, DbInv(d), Pending(d.jobs) # {}
  PROVE  LET e == [d EXCEPT !.jobs = Claim(@)] IN
         /\ DbInv(e) /\ e.src = d.src /\ e.files = d.files /\ JobKeys(e.jobs) = JobKeys(d.jobs)
<1> DEFINE e == [d EXCEPT !.jobs = Claim(@)]
<1>1. d \in Db /\ Queue(Claim(d.jobs), Nat) /\ JobKeys(Claim(d.jobs)) = JobKeys(d.jobs)
  BY ClaimFacts DEF DbInv
<1>2. Claim(d.jobs) \in SUBSET Job(Nat, Nat)
  BY <1>1 DEF Queue
<1>3. e \in Db /\ e.src = d.src /\ e.files = d.files /\ e.jobs = Claim(d.jobs)
  BY <1>1, <1>2 DEF Db
<1> HIDE DEF e
<1>4. Keyed(e)
  <2>1. SameFiles(d, e)
    BY <1>3, RowsOf DEF SameFiles
  <2> QED
    BY <1>1, <1>3, <2>1, SameFilesKeyed DEF DbInv, JobKeys
<1> QED
  BY <1>1, <1>3, <1>4 DEF DbInv, e

LEMMA FingerprintFacts ==
  ASSUME NEW d, DbInv(d), NEW i, NEW fp \in Hashes \cup {None}
  PROVE  LET e == StoreFingerprint(d, i, fp) IN
         /\ DbInv(e) /\ e.src = d.src /\ e.jobs = d.jobs /\ SameFiles(d, e)
         /\ \A h \in Rows(d) : /\ e.files[h].by = d.files[h].by
                               /\ e.files[h].fp = None => d.files[h].fp = None
<1> DEFINE e == StoreFingerprint(d, i, fp)
           fs == [h \in Hashes |-> IF fp # None /\ h \in WithId(d, i)
                                   THEN [d.files[h] EXCEPT !.fp = fp] ELSE d.files[h]]
<1>1. e = [d EXCEPT !.files = fs]
  BY DEF StoreFingerprint
<1>2. d \in Db
  BY DEF DbInv
<1>3. ASSUME NEW h \in Rows(d)
      PROVE  /\ h \in Hashes /\ fs[h] \in File /\ fs[h] # None
             /\ fs[h].id = d.files[h].id /\ fs[h].at = d.files[h].at /\ fs[h].by = d.files[h].by
             /\ fs[h].fp = None => d.files[h].fp = None
  <2>1. h \in Hashes /\ d.files[h] \in File /\ d.files[h] # None
    BY <1>2, RowsAreFiles DEF Rows
  <2> QED
    BY <2>1 DEF File
<1>4. \A h \in Hashes : h \notin Rows(d) => fs[h] = None
  BY DEF Rows, WithId
<1>5. fs = [h \in Hashes |-> fs[h]]
  OBVIOUS
<1> HIDE DEF e, fs
<1>6. fs \in [Hashes -> File \cup {None}]
  BY <1>3, <1>4, <1>5
<1>7. e \in Db /\ e.src = d.src /\ e.jobs = d.jobs /\ e.files = fs
  BY <1>1, <1>2, <1>6 DEF Db
<1>8. Rows(e) = Rows(d)
  BY <1>3, <1>4, <1>7 DEF Rows
<1>9. SameFiles(d, e)
  BY <1>3, <1>7, <1>8 DEF SameFiles
<1>10. Keyed(e)
  BY <1>7, <1>9, SameFilesKeyed DEF DbInv, JobKeys
<1> QED
  BY <1>2, <1>3, <1>7, <1>9, <1>10 DEF DbInv, Db, e

LEMMA JobsChangeFacts ==
  ASSUME NEW d, DbInv(d), NEW q, Queue(q, Nat), \A j \in q : WithId(d, j.key) # {}
  PROVE  LET e == [d EXCEPT !.jobs = q] IN
         DbInv(e) /\ e.src = d.src /\ e.files = d.files /\ e.jobs = q
<1> DEFINE e == [d EXCEPT !.jobs = q]
<1>1. d \in Db /\ q \in SUBSET Job(Nat, Nat)
  BY DEF DbInv, Queue
<1>2. e \in Db /\ e.src = d.src /\ e.files = d.files /\ e.jobs = q
  BY <1>1 DEF Db
<1> HIDE DEF e
<1>3. Keyed(e)
  BY <1>2, RowsOf DEF DbInv, Keyed
<1> QED
  BY <1>2, <1>3 DEF DbInv, e

\* The worker's last step: the fingerprint, and its job done or tried again.
LEMMA FinishFacts ==
  ASSUME NEW d, DbInv(d), NEW i, NEW fp \in Hashes \cup {None}, NEW job, NEW q,
         q = FinishDone(d.jobs, job) \/ q = FinishFailed(d.jobs, job)
  PROVE  LET e == [StoreFingerprint(d, i, fp) EXCEPT !.jobs = q] IN
         /\ DbInv(e) /\ e.src = d.src /\ JobKeys(e.jobs) = JobKeys(d.jobs) /\ SameFiles(d, e)
         /\ \A h \in Rows(d) : /\ e.files[h].by = d.files[h].by
                               /\ e.files[h].fp = None => d.files[h].fp = None
<1> DEFINE c == StoreFingerprint(d, i, fp)
           e == [c EXCEPT !.jobs = q]
<1>1. /\ DbInv(c) /\ c.src = d.src /\ c.jobs = d.jobs /\ SameFiles(d, c)
      /\ \A h \in Rows(d) : /\ c.files[h].by = d.files[h].by
                            /\ c.files[h].fp = None => d.files[h].fp = None
  BY FingerprintFacts
<1>2. Queue(q, Nat) /\ JobKeys(q) = JobKeys(d.jobs)
  BY FinishDoneFacts, FinishFailedFacts DEF DbInv
<1>3. \A j \in q : WithId(c, j.key) # {}
  <2>1. \A j \in q : j.key \in JobKeys(c.jobs)
    BY <1>1, <1>2 DEF JobKeys
  <2> QED
    BY <1>1, <2>1 DEF DbInv, Keyed, JobKeys
<1> HIDE DEF c
<1>4. DbInv(e) /\ e.src = c.src /\ e.files = c.files /\ e.jobs = q
  BY <1>1, <1>2, <1>3, JobsChangeFacts
<1> HIDE DEF e
<1>5. SameFiles(d, e)
  BY <1>1, <1>4, RowsOf DEF SameFiles
<1> QED
  BY <1>1, <1>2, <1>4, <1>5 DEF e, c

\* A start queues what lacks a fingerprint, ends what was scanning, and only adds to attributions.
LEMMA StartedFacts ==
  ASSUME NEW d, DbInv(d)
  PROVE  /\ DbInv(Started(d)) /\ SameFiles(d, Started(d))
         /\ \A s \in Sources : Started(d).src[s] # "scanning"
         /\ \A h \in Rows(d) : Started(d).files[h].fp = None
                               => Started(d).files[h].id \in JobKeys(Started(d).jobs)
<1> DEFINE a == [d EXCEPT !.jobs = ResetStale(@)]
           b == BackfillAnalysis(a)
           c == ResetStaleScans(b)
           e == BackfillAttribution(c)
<1>1. DbInv(a) /\ a.src = d.src /\ a.files = d.files /\ JobKeys(a.jobs) = JobKeys(d.jobs)
  <2>1. Queue(ResetStale(d.jobs), Nat) /\ JobKeys(ResetStale(d.jobs)) = JobKeys(d.jobs)
    BY ResetStaleFacts DEF DbInv
  <2>2. \A j \in ResetStale(d.jobs) : WithId(d, j.key) # {}
    BY <2>1 DEF DbInv, Keyed, JobKeys
  <2>3. a = [d EXCEPT !.jobs = ResetStale(d.jobs)]
    OBVIOUS
  <2> HIDE DEF a
  <2> QED
    BY <2>1, <2>2, <2>3, JobsChangeFacts
<1> HIDE DEF a
<1>2. DbInv(b) /\ b.src = d.src /\ b.files = d.files
      /\ \A h \in Rows(d) : d.files[h].fp = None => d.files[h].id \in JobKeys(b.jobs)
  <2> DEFINE need == FilesNeedingAnalysis(a)
             q == EnqueueAll(a.jobs, need)
             f == [h \in {r \in Rows(a) : a.files[r].fp = None} |-> a.files[h].id]
  <2>1. b = [a EXCEPT !.jobs = q]
    BY DEF BackfillAnalysis
  <2>2. need \subseteq Nat /\ \A i \in need : WithId(a, i) # {}
    BY <1>1, RowsAreFiles DEF DbInv, FilesNeedingAnalysis, WithId
  <2>3. IsFiniteSet(need)
    <3>1. IsFiniteSet(DOMAIN f)
      BY FS_Subset DEF Rows
    <3>2. f = [h \in DOMAIN f |-> f[h]] /\ need = {f[h] : h \in DOMAIN f}
      BY DEF FilesNeedingAnalysis
    <3> HIDE DEF f, need
    <3> QED
      BY <3>1, <3>2, FiniteImage
  <2>4. \A h \in Rows(a) : a.files[h].fp = None => a.files[h].id \in need
    BY DEF FilesNeedingAnalysis
  <2> HIDE DEF need
  <2>5. Queue(q, Nat) /\ JobKeys(q) = JobKeys(a.jobs) \cup need
    <3>1. Queue(a.jobs, Nat)
      BY <1>1 DEF DbInv
    <3>2. need \subseteq Nat
      BY <2>2
    <3>3. MaxTries \in Nat
      OBVIOUS
    <3>4. \A K, r, S : Queue(r, K) /\ IsFiniteSet(S) /\ S \subseteq K =>
            Queue(EnqueueAll(r, S), K) /\ JobKeys(EnqueueAll(r, S)) = JobKeys(r) \cup S
      BY <3>3, EnqueueAllFacts
    <3> DEFINE N == Nat
               r == a.jobs
    <3>5. Queue(r, N) /\ need \subseteq N
      BY <3>1, <3>2
    <3>6. q = EnqueueAll(r, need)
      OBVIOUS
    <3> HIDE DEF q, N, r
    <3>7. Queue(q, N) /\ JobKeys(q) = JobKeys(r) \cup need
      BY <2>3, <3>4, <3>5, <3>6
    <3> QED
      BY <3>7 DEF N, r
  <2> HIDE DEF q, b
  <2>6. \A j \in q : WithId(a, j.key) # {}
    <3>1. \A k \in JobKeys(q) : WithId(a, k) # {}
      BY <1>1, <2>2, <2>5 DEF DbInv, Keyed, JobKeys
    <3> QED
      BY <3>1 DEF JobKeys
  <2>7. DbInv(b) /\ b.src = a.src /\ b.files = a.files /\ b.jobs = q
    BY <1>1, <2>1, <2>5, <2>6, JobsChangeFacts
  <2>8. Rows(a) = Rows(d)
    BY <1>1, RowsOf
  <2> QED
    BY <1>1, <2>4, <2>5, <2>7, <2>8
<1> HIDE DEF b
<1>3. /\ DbInv(c) /\ c.files = d.files /\ c.jobs = b.jobs
      /\ \A s \in Sources : c.src[s] # "scanning"
  <2> DEFINE ss == [s \in Sources |-> IF b.src[s] = "scanning" THEN "error" ELSE b.src[s]]
  <2>1. c = [b EXCEPT !.src = ss]
    BY DEF ResetStaleScans
  <2>2. b \in Db /\ ss \in [Sources -> {"none", "scanning", "active", "error"}]
        /\ \A s \in Sources : ss[s] # "scanning"
    BY <1>2 DEF DbInv, Db
  <2> HIDE DEF c, ss
  <2>3. c \in Db /\ c.src = ss /\ c.files = b.files /\ c.jobs = b.jobs
    BY <2>1, <2>2 DEF Db
  <2>4. Keyed(c)
    BY <1>2, <2>3, RowsOf DEF DbInv, Keyed
  <2> QED
    BY <1>2, <2>2, <2>3, <2>4 DEF DbInv
<1> HIDE DEF c
<1>4. /\ DbInv(e) /\ e.src = c.src /\ e.jobs = c.jobs /\ SameFiles(c, e)
      /\ \A h \in Rows(c) : e.files[h].fp = c.files[h].fp
  <2> DEFINE need == {s \in Sources : Known(c, s) /\ \A h \in Rows(c) : s \notin c.files[h].by}
             of(f) == {s \in need : f.at = "links" /\ f.target \in Roots[s]}
             fs == [h \in Hashes |-> IF c.files[h] = None THEN None
                                     ELSE [c.files[h] EXCEPT !.by = @ \cup of(c.files[h])]]
  <2>1. e = [c EXCEPT !.files = fs]
    BY DEF BackfillAttribution
  <2>2. c \in Db
    BY <1>3 DEF DbInv
  <2>3. \A f : of(f) \subseteq Sources
    OBVIOUS
  <2> HIDE DEF of
  <2>4. ASSUME NEW h \in Rows(c)
        PROVE  /\ h \in Hashes /\ fs[h] \in File /\ fs[h] # None
               /\ fs[h].id = c.files[h].id /\ fs[h].at = c.files[h].at /\ fs[h].fp = c.files[h].fp
    <3>1. h \in Hashes /\ c.files[h] \in File /\ c.files[h] # None
      BY <2>2, RowsAreFiles DEF Rows
    <3>2. fs[h] = [c.files[h] EXCEPT !.by = @ \cup of(c.files[h])]
      BY <3>1
    <3> QED
      BY <2>3, <3>1, <3>2 DEF File
  <2>5. \A h \in Hashes : h \notin Rows(c) => fs[h] = None
    BY DEF Rows
  <2>6. fs = [h \in Hashes |-> fs[h]]
    OBVIOUS
  <2> HIDE DEF e, fs
  <2>7. fs \in [Hashes -> File \cup {None}]
    BY <2>4, <2>5, <2>6
  <2>8. e \in Db /\ e.src = c.src /\ e.jobs = c.jobs /\ e.files = fs
    BY <2>1, <2>2, <2>7 DEF Db
  <2>9. Rows(e) = Rows(c)
    BY <2>4, <2>5, <2>8 DEF Rows
  <2>10. SameFiles(c, e)
    BY <2>4, <2>8, <2>9 DEF SameFiles
  <2>11. Keyed(e)
    BY <1>3, <2>8, <2>10, SameFilesKeyed DEF DbInv, JobKeys
  <2> QED
    BY <1>3, <2>4, <2>8, <2>10, <2>11 DEF DbInv
<1>5. Started(d) = e
  BY DEF Started, a, b, c
<1> HIDE DEF e
<1>6. Rows(c) = Rows(d) /\ SameFiles(d, e)
  BY <1>3, <1>4, RowsOf DEF SameFiles
<1> QED
  BY <1>2, <1>3, <1>4, <1>5, <1>6 DEF SameFiles

(***************************************************************************)
(* What the slot and an upload have in hand, as functions of the tables.   *)
(***************************************************************************)
SlotT == {Idle} \cup Scanning \cup Removing
UpT == {Idle} \cup [pc : {"put", "insert"}, hash : Hashes] \cup [pc : {"enqueue"}, row : Nat]

Brings(p, i) == p.pc \in {"attribute", "enqueue"} /\ p.row = i
Scanned(d, s) == \A t \in Sources : d.src[t] = "scanning" => s # Idle /\ s.src = t
Remembered(d, s, u) ==
  \A h \in Rows(d) : d.files[h].fp = None =>
    Brings(s, d.files[h].id) \/ Brings(u, d.files[h].id) \/ d.files[h].id \in JobKeys(d.jobs)
Holding(d, s, h) == \/ s.pc = "link" /\ h = s.hash /\ d.files[h].id = s.row
                    \/ s.pc \in {"keep", "attribute"} /\ d.files[h].id = s.row
Attributed(d, s) ==
  s \in Scanning /\ Known(d, s.src) =>
    \A h \in s.seen \cap Rows(d) :
      d.files[h].at = "links" => s.src \in d.files[h].by \/ Holding(d, s, h)
Listed(d, s) ==
  s \in Removing =>
    /\ \A h \in Rows(d) : (\E ref \in s.left : ref.hash = h) => d.files[h].by \subseteq {s.src}
    /\ s.pc = "delete" /\ s.hash \in Rows(d) => d.files[s.hash].by \subseteq {s.src}
    /\ \A h \in Rows(d) : d.files[h].at = "links" /\ d.files[h].by = {s.src} =>
         \/ s.pc = "delete" /\ s.hash = h
         \/ \E ref \in s.left : ref.hash = h /\ ref.at = "links"
Sound(d, s, u) == Scanned(d, s) /\ Remembered(d, s, u) /\ Attributed(d, s) /\ Listed(d, s)

Sourced == ScanningIsScanned /\ NoneForgotten /\ SeenIsAttributed /\ ListIsExact

LEMMA SourcedIsSound == Sourced <=> Sound(db, slot, up)
<1>1. ScanningIsScanned <=> Scanned(db, slot)
  BY DEF ScanningIsScanned, Scanned
<1>2. NoneForgotten <=> Remembered(db, slot, up)
  BY DEF NoneForgotten, Remembered, Arriving, Brings, Live
<1>3. SeenIsAttributed <=> Attributed(db, slot)
  BY DEF SeenIsAttributed, Attributed, InHand, Holding, Live
<1>4. ListIsExact <=> Listed(db, slot)
  BY DEF ListIsExact, Listed, Live
<1> QED
  BY <1>1, <1>2, <1>3, <1>4 DEF Sourced, Sound

LEMMA SourcedIsSoundNext == Sourced' <=> Sound(db', slot', up')
<1>1. ScanningIsScanned' <=> Scanned(db', slot')
  BY DEF ScanningIsScanned, Scanned
<1>2. NoneForgotten' <=> Remembered(db', slot', up')
  BY DEF NoneForgotten, Remembered, Arriving, Brings, Live
<1>3. SeenIsAttributed' <=> Attributed(db', slot')
  BY DEF SeenIsAttributed, Attributed, InHand, Holding, Live
<1>4. ListIsExact' <=> Listed(db', slot')
  BY DEF ListIsExact, Listed, Live
<1> QED
  BY <1>1, <1>2, <1>3, <1>4 DEF Sourced, Sound

\* The places of the slot, and what it knows in each.
LEMMA SlotPlaces ==
  ASSUME NEW s \in SlotT
  PROVE  /\ s = Idle <=> s.pc = "idle"
         /\ s \in Scanning <=> s.pc \in {"walk", "link", "insert", "keep", "attribute", "enqueue"}
         /\ s \in Removing <=> s.pc \in {"unlink", "delete"}
         /\ s # Idle => s.src \in Sources
         /\ s \in Scanning => s.left \subseteq Paths /\ s.seen \subseteq Hashes
         /\ s \in Removing => s.left \subseteq Ref0
         /\ s.pc \in {"link", "insert"} => s.hash \in Hashes /\ s.path \in Paths /\ s.row \in Nat \cup {None}
         /\ s.pc \in {"keep", "attribute", "enqueue"} => s.row \in Nat
         /\ s.pc = "delete" => s.hash \in Hashes
<1>1. CASE s = Idle
  BY <1>1 DEF Idle, Scanning, Removing
<1>2. CASE s \in Scanning
  BY <1>2 DEF Idle, Scanning, Removing
<1>3. CASE s \in Removing
  BY <1>3 DEF Idle, Scanning, Removing
<1> QED
  BY <1>1, <1>2, <1>3 DEF SlotT

LEMMA NewPlaces ==
  ASSUME NEW k, k.src \in Sources, k.left \subseteq Paths, k.seen \subseteq Hashes
  PROVE  /\ Back(k) \in Scanning /\ Back(k).pc = "walk"
         /\ Back(k).src = k.src /\ Back(k).left = k.left /\ Back(k).seen = k.seen
         /\ \A i \in Nat, pc \in {"keep", "attribute", "enqueue"} :
              /\ Row(pc, k, i) \in Scanning /\ Row(pc, k, i).pc = pc /\ Row(pc, k, i).row = i
              /\ Row(pc, k, i).src = k.src /\ Row(pc, k, i).seen = k.seen
         /\ \A h \in Hashes, p \in Paths, i \in Nat \cup {None}, pc \in {"link", "insert"} :
              /\ Linking(pc, k, h, p, i) \in Scanning /\ Linking(pc, k, h, p, i).pc = pc
              /\ Linking(pc, k, h, p, i).src = k.src /\ Linking(pc, k, h, p, i).seen = k.seen
              /\ Linking(pc, k, h, p, i).hash = h /\ Linking(pc, k, h, p, i).row = i
BY DEF Back, Row, Linking, Scanning

\* Scanning and removing are different.
LEMMA Apart == Scanning \cap Removing = {} /\ Idle \notin Scanning \cup Removing
BY DEF Scanning, Removing, Idle

\* The slot stays, rows stay, and nothing is forgotten.
LEMMA RowsStaySound ==
  ASSUME NEW d, NEW e, NEW s, NEW u, NEW v, Sound(d, s, u), SameFiles(d, e),
         \A t \in Sources : e.src[t] = d.src[t], s \in SlotT,
         \A h \in Rows(d) : /\ e.files[h].by = d.files[h].by
                            /\ e.files[h].fp = None => d.files[h].fp = None
                            /\ Brings(u, d.files[h].id) => Brings(v, d.files[h].id) \/ d.files[h].id \in JobKeys(e.jobs),
         JobKeys(d.jobs) \subseteq JobKeys(e.jobs)
  PROVE  Sound(e, s, v)
<1>1. Scanned(e, s)
  BY DEF Sound, Scanned
<1>2. Remembered(e, s, v)
  BY DEF Sound, Remembered, SameFiles
<1>3. Attributed(e, s)
  BY SlotPlaces DEF Sound, Attributed, SameFiles, Known, Holding, SlotT, Idle
<1>4. Listed(e, s)
  BY DEF Sound, Listed, SameFiles
<1> QED
  BY <1>1, <1>2, <1>3, <1>4 DEF Sound

LEMMA DeleteSound ==
  ASSUME NEW d, NEW e, NEW s, NEW u, Sound(d, s, u), e.src = d.src, Rows(e) \subseteq Rows(d),
         \A g \in Rows(e) : e.files[g] = d.files[g],
         \A g \in Rows(e) : d.files[g].id \in JobKeys(d.jobs) => d.files[g].id \in JobKeys(e.jobs)
  PROVE  Sound(e, s, u)
<1>1. Scanned(e, s)
  BY DEF Sound, Scanned
<1>2. Remembered(e, s, u)
  BY DEF Sound, Remembered
<1>3. Attributed(e, s)
  BY DEF Sound, Attributed, Known, Holding
<1>4. Listed(e, s)
  BY DEF Sound, Listed
<1> QED
  BY <1>1, <1>2, <1>3, <1>4 DEF Sound

\* A row that is uploaded is nobody's import.
LEMMA UploadSound ==
  ASSUME NEW d, NEW e, NEW s, NEW u, NEW v, NEW h, Sound(d, s, u), e.src = d.src, e.jobs = d.jobs,
         Rows(e) = Rows(d) \cup {h}, h \notin Rows(d), \A g \in Rows(d) : e.files[g] = d.files[g],
         e.files[h].at = "local", e.files[h].by = {}, Brings(v, e.files[h].id),
         \A i : ~Brings(u, i)
  PROVE  Sound(e, s, v)
<1>1. Scanned(e, s)
  BY DEF Sound, Scanned
<1>2. Remembered(e, s, v)
  BY DEF Sound, Remembered
<1>3. Attributed(e, s)
  BY DEF Sound, Attributed, Known, Holding
<1>4. Listed(e, s)
  BY DEF Sound, Listed
<1> QED
  BY <1>1, <1>2, <1>3, <1>4 DEF Sound

(***************************************************************************)
(* The steps of a scan.                                                    *)
(***************************************************************************)
LEMMA WalkSound ==
  ASSUME NEW d, NEW e, NEW s \in Sources, NEW u, DbInv(d), Sound(d, Idle, u),
         e.jobs = d.jobs, e.files = d.files, \A t \in Sources : e.src[t] = "scanning" => t = s \/ d.src[t] = "scanning"
  PROVE  Walk(s) \in SlotT /\ Sound(e, Walk(s), u)
<1>1. Walk(s) \in Scanning /\ Walk(s).src = s /\ Walk(s).seen = {}
  BY DEF Walk, Scanning
<1>2. Rows(e) = Rows(d) /\ \A i : ~Brings(Idle, i)
  BY RowsOf DEF Brings, Idle
<1>3. Scanned(e, Walk(s))
  BY <1>1, Apart DEF Sound, Scanned
<1>4. Remembered(e, Walk(s), u)
  BY <1>2 DEF Sound, Remembered
<1>5. Attributed(e, Walk(s)) /\ Listed(e, Walk(s))
  BY <1>1, Apart DEF Attributed, Listed
<1> QED
  BY <1>1, <1>3, <1>4, <1>5 DEF Sound, SlotT

\* What is read and not linked is in hand; what is linked is attributed at once.
LEMMA LookSound ==
  ASSUME NEW d, NEW e, NEW s \in SlotT, s.pc = "walk", NEW t \in Scanning, t.src = s.src, NEW u, DbInv(d),
         Sound(d, s, u), NEW h, t.seen \subseteq s.seen \cup {h},
         \/ t.pc = "walk" /\ e = d /\ (h \notin Rows(d) \/ h \in s.seen)
         \/ t.pc = "walk" /\ h \in Rows(d) /\ e = AttributeSourceFile(d, s.src, d.files[h].id)
         \/ t.pc = "link" /\ e = d /\ t.hash = h /\ (h \in Rows(d) => t.row = d.files[h].id)
  PROVE  DbInv(e) /\ Sound(e, t, u)
<1>1. s \in Scanning /\ s.src \in Sources /\ s # Idle /\ t # Idle
  BY SlotPlaces, Apart DEF SlotT
<1>2. /\ DbInv(e) /\ e.src = d.src /\ e.jobs = d.jobs /\ SameFiles(d, e)
      /\ \A g \in Rows(d) : /\ e.files[g].fp = d.files[g].fp
                            /\ d.files[g].by \subseteq e.files[g].by
  <2>1. CASE e = d
    BY <2>1 DEF SameFiles
  <2>2. CASE h \in Rows(d) /\ e = AttributeSourceFile(d, s.src, d.files[h].id)
    <3>1. s.src \in Sources /\ e = AttributeSourceFile(d, s.src, d.files[h].id)
      BY <1>1, <2>2
    <3>2. /\ DbInv(e) /\ e.src = d.src /\ e.jobs = d.jobs /\ SameFiles(d, e)
          /\ Gains(d, e, s.src, d.files[h].id)
      BY <3>1, AttributeFacts
    <3> QED
      BY <3>2 DEF Gains
  <2> QED
    BY <2>1, <2>2
<1>3. Scanned(e, t)
  BY <1>1, <1>2 DEF Sound, Scanned
<1>4. Remembered(e, t, u)
  BY <1>2 DEF Sound, Remembered, SameFiles, Brings
<1>5. Listed(e, t)
  BY Apart DEF Listed
<1>6. Attributed(e, t)
  <2> SUFFICES ASSUME Known(d, s.src), NEW g \in t.seen \cap Rows(d), d.files[g].at = "links"
               PROVE  s.src \in e.files[g].by \/ Holding(e, t, g)
    BY <1>2 DEF Attributed, SameFiles, Known
  <2>1. CASE g \in s.seen
    <3>1. s.src \in d.files[g].by
      BY <1>1, <2>1 DEF Sound, Attributed, Holding
    <3> QED
      BY <1>2, <3>1
  <2>2. CASE g = h /\ g \notin s.seen
    <3>1. CASE t.pc = "walk"
      <4>1. e = AttributeSourceFile(d, s.src, d.files[h].id)
        BY <2>2, <3>1
      <4>2. e.files[g].by = d.files[g].by \cup {s.src}
        <5>1. s.src \in Sources /\ g \in Rows(d) /\ d.files[g].id = d.files[h].id
          BY <1>1, <2>2
        <5>2. Gains(d, e, s.src, d.files[h].id)
          BY <4>1, <5>1, AttributeFacts
        <5> QED
          BY <2>2, <5>1, <5>2 DEF Gains
      <4> QED
        BY <4>2
    <3>2. CASE t.pc = "link"
      BY <2>2, <3>2 DEF Holding
    <3> QED
      BY <3>1, <3>2
  <2> QED
    BY <2>1, <2>2
<1> QED
  BY <1>2, <1>3, <1>4, <1>5, <1>6 DEF Sound

\* The row that was read before the link was made is the one kept; without one there is no import.
LEMMA LinkSound ==
  ASSUME NEW d, NEW s \in SlotT, s.pc = "link", NEW t \in Scanning, t.src = s.src, t.seen = s.seen, NEW u, DbInv(d),
         Sound(d, s, u),
         \/ s.row # None /\ t.pc = "keep" /\ t.row = s.row
         \/ s.row = None /\ t.pc = "insert"
  PROVE  Sound(d, t, u)
<1>1. s \in Scanning /\ s.src \in Sources /\ s # Idle /\ t # Idle
  BY SlotPlaces, Apart DEF SlotT
<1>2. Scanned(d, t) /\ Remembered(d, t, u) /\ Listed(d, t)
  BY <1>1, Apart DEF Sound, Scanned, Remembered, Brings, Listed
<1>3. \A h \in Rows(d) : d.files[h].id # None
  BY RowsAreFiles DEF DbInv
<1>4. Attributed(d, t)
  BY <1>1, <1>3 DEF Sound, Attributed, Holding
<1> QED
  BY <1>2, <1>4 DEF Sound

\* The new row is in hand.
LEMMA InsertSound ==
  ASSUME NEW d, NEW s \in SlotT, s.pc = "insert", s.hash \notin Rows(d), NEW u, DbInv(d), Sound(d, s, u),
         NEW target \in Paths \cup {None}
  PROVE  LET e == InsertFile(d, s.hash, "links", target)
             t == Row("attribute", s, NextFileId(d))
         IN DbInv(e) /\ t \in Scanning /\ Sound(e, t, u)
<1> DEFINE e == InsertFile(d, s.hash, "links", target)
           t == Row("attribute", s, NextFileId(d))
<1>1. /\ s \in Scanning /\ s.src \in Sources /\ s # Idle /\ s.hash \in Hashes
      /\ s.left \subseteq Paths /\ s.seen \subseteq Hashes
  BY SlotPlaces
<1>2. NextFileId(d) \in Nat
  BY FileIdIsFresh
<1>3. t \in Scanning /\ t.pc = "attribute" /\ t.row = NextFileId(d) /\ t.src = s.src /\ t.seen = s.seen
  BY <1>1, <1>2, NewPlaces
<1>4. /\ DbInv(e) /\ e.src = d.src /\ e.jobs = d.jobs /\ Rows(e) = Rows(d) \cup {s.hash}
      /\ \A g \in Rows(d) : e.files[g] = d.files[g]
      /\ e.files[s.hash].id = NextFileId(d)
  BY <1>1, InsertFacts DEF At
<1> HIDE DEF e, t
<1>5. Scanned(e, t)
  BY <1>1, <1>3, <1>4, Apart DEF Sound, Scanned
<1>6. Remembered(e, t, u)
  BY <1>3, <1>4 DEF Sound, Remembered, Brings
<1>7. Attributed(e, t)
  BY <1>1, <1>3, <1>4 DEF Sound, Attributed, Known, Holding
<1>8. Listed(e, t)
  BY <1>3, Apart DEF Listed
<1> QED
  BY <1>3, <1>4, <1>5, <1>6, <1>7, <1>8 DEF Sound, e, t

\* Nothing is in hand that was not inserted: a row that is there is an upload's.
LEMMA RefusedSound ==
  ASSUME NEW d, NEW s \in SlotT, s.pc \in {"insert", "walk"}, NEW t \in Scanning, t.pc = "walk",
         t.src = s.src, t.seen = s.seen, NEW u, Sound(d, s, u)
  PROVE  Sound(d, t, u)
<1>1. s \in Scanning /\ s.src \in Sources /\ s # Idle /\ t # Idle
  BY SlotPlaces, Apart DEF SlotT
<1> QED
  BY <1>1, Apart DEF Sound, Scanned, Remembered, Brings, Listed, Attributed, Holding

LEMMA AttributeSound ==
  ASSUME NEW d, NEW s \in SlotT, s.pc \in {"keep", "attribute"}, NEW t \in Scanning, t.src = s.src, t.seen = s.seen,
         NEW u, DbInv(d), Sound(d, s, u),
         \/ s.pc = "keep" /\ t.pc = "walk"
         \/ s.pc = "attribute" /\ t.pc = "enqueue" /\ t.row = s.row
  PROVE  LET e == AttributeSourceFile(d, s.src, s.row) IN DbInv(e) /\ Sound(e, t, u)
<1> DEFINE e == AttributeSourceFile(d, s.src, s.row)
<1>1. s \in Scanning /\ s.src \in Sources /\ s # Idle /\ t # Idle
  BY SlotPlaces, Apart DEF SlotT
<1>2. /\ DbInv(e) /\ e.src = d.src /\ e.jobs = d.jobs /\ SameFiles(d, e)
      /\ Gains(d, e, s.src, s.row)
  <2>1. s.src \in Sources /\ e = AttributeSourceFile(d, s.src, s.row)
    BY <1>1
  <2> HIDE DEF e
  <2> QED
    BY <2>1, AttributeFacts
<1> HIDE DEF e
<1>3. Scanned(e, t)
  BY <1>1, <1>2 DEF Sound, Scanned
<1>4. Remembered(e, t, u)
  BY <1>2 DEF Sound, Remembered, SameFiles, Brings, Gains
<1>5. Listed(e, t)
  BY Apart DEF Listed
<1>6. Attributed(e, t)
  BY <1>1, <1>2, ZenonT(60) DEF Gains, Sound, Attributed, Holding, SameFiles, Known
<1> QED
  BY <1>2, <1>3, <1>4, <1>5, <1>6 DEF Sound, e

LEMMA ScanEnqueueSound ==
  ASSUME NEW d, NEW s \in SlotT, s.pc = "enqueue", NEW t \in Scanning, t.pc = "walk", t.src = s.src, t.seen = s.seen,
         NEW u, DbInv(d), Sound(d, s, u)
  PROVE  LET e == EnqueueAnalysis(d, s.row) IN DbInv(e) /\ Sound(e, t, u)
<1> DEFINE e == EnqueueAnalysis(d, s.row)
<1>1. s \in Scanning /\ s.src \in Sources /\ s # Idle /\ t # Idle /\ s.row \in Nat
  BY SlotPlaces, Apart DEF SlotT
<1>2. /\ DbInv(e) /\ e.src = d.src /\ e.files = d.files
      /\ JobKeys(d.jobs) \subseteq JobKeys(e.jobs)
      /\ WithId(d, s.row) # {} => s.row \in JobKeys(e.jobs)
  BY <1>1, EnqueueAnalysisFacts
<1> HIDE DEF e
<1>3. Rows(e) = Rows(d)
  BY <1>2, RowsOf
<1>4. \A h \in Rows(d) : d.files[h].id = s.row => h \in WithId(d, s.row)
  BY DEF WithId
<1>5. Scanned(e, t)
  BY <1>1, <1>2 DEF Sound, Scanned
<1>6. Remembered(e, t, u)
  BY <1>2, <1>3, <1>4 DEF Sound, Remembered, Brings
<1>7. Listed(e, t)
  BY Apart DEF Listed
<1>8. Attributed(e, t)
  BY <1>1, <1>2, <1>3 DEF Sound, Attributed, Holding, Known
<1> QED
  BY <1>2, <1>5, <1>6, <1>7, <1>8 DEF Sound, e

\* The slot comes free: nothing is scanning, and nothing was in hand.
LEMMA FreeSound ==
  ASSUME NEW d, NEW e, NEW s \in SlotT, s.pc \in {"walk", "unlink"}, NEW u, Sound(d, s, u),
         e.jobs = d.jobs, SameFiles(d, e), \A h \in Rows(d) : e.files[h].fp = d.files[h].fp,
         \A t \in Sources : e.src[t] = "scanning" => d.src[t] = "scanning" /\ t # s.src
  PROVE  Sound(e, Idle, u)
<1>1. Scanned(e, Idle)
  BY DEF Sound, Scanned
<1>2. Remembered(e, Idle, u)
  BY DEF Sound, Remembered, SameFiles, Brings
<1>3. Attributed(e, Idle) /\ Listed(e, Idle)
  BY Apart DEF Attributed, Listed
<1> QED
  BY <1>1, <1>2, <1>3 DEF Sound

(***************************************************************************)
(* The steps of a removal.                                                 *)
(***************************************************************************)
LEMMA ListSound ==
  ASSUME DbInv(db), Sound(db, Idle, up), client.src \in Sources
  PROVE  Removal \in Removing /\ Removal.src = client.src /\ Sound(db, Removal, up)
<1> DEFINE s == client.src
           left == {Ref(h) : h \in ExclusiveTo(db, s)}
<1>1. \A h \in ExclusiveTo(db, s) : h \in Rows(db) /\ db.files[h].by = {s}
  BY DEF ExclusiveTo
<1>2. \A h : Ref(h).hash = h /\ Ref(h).at = db.files[h].at
  BY DEF Ref
<1>3. left \subseteq Ref0
  <2>1. \A h \in Rows(db) : h \in Hashes /\ db.files[h] \in File
    BY RowsAreFiles DEF DbInv
  <2>2. \A h \in Rows(db) : Ref(h) \in Ref0
    BY <2>1 DEF Ref, Ref0, File
  <2> QED
    BY <1>1, <2>2
<1>4. Removal \in Removing /\ Removal.src = s /\ Removal.left = left /\ Removal.pc = "unlink"
  BY <1>3 DEF Removal, Unlinking, Removing
<1> DEFINE r == Removal
<1> HIDE DEF r
<1>5. Scanned(db, r)
  BY DEF Sound, Scanned
<1>6. Remembered(db, r, up)
  BY DEF Sound, Remembered, Brings, Idle
<1>7. Attributed(db, r)
  BY <1>4, Apart DEF Attributed, r
<1>8. Listed(db, r)
  <2>1. ASSUME NEW h \in Rows(db), \E ref \in left : ref.hash = h PROVE db.files[h].by \subseteq {s}
    BY <1>1, <1>2, <2>1
  <2>2. ASSUME NEW h \in Rows(db), db.files[h].at = "links", db.files[h].by = {s}
        PROVE  \E ref \in left : ref.hash = h /\ ref.at = "links"
    <3>1. h \in ExclusiveTo(db, s)
      BY <2>2 DEF ExclusiveTo
    <3>2. Ref(h) \in left
      BY <3>1
    <3> HIDE DEF left
    <3> QED
      BY <1>2, <2>2, <3>2
  <2> HIDE DEF left, s
  <2> QED
    BY <1>4, <2>1, <2>2 DEF Listed, r
<1> QED
  BY <1>4, <1>5, <1>6, <1>7, <1>8 DEF Sound, r

\* An entry is taken from the list once it is in hand, or was no import.
LEMMA UnlinkSound ==
  ASSUME NEW d, NEW s \in SlotT, s.pc = "unlink", NEW ref \in s.left, NEW t \in Removing, t.src = s.src, NEW u,
         Sound(d, s, u), t.left = s.left \ {ref},
         \/ t.pc = "unlink" /\ ref.at = "local"
         \/ t.pc = "delete" /\ t.hash = ref.hash
  PROVE  Sound(d, t, u)
<1>1. s \in Removing /\ s # Idle /\ t # Idle
  BY SlotPlaces, Apart
<1>2. Scanned(d, t) /\ Remembered(d, t, u)
  <2>1. t.pc \in {"unlink", "delete"}
    BY DEF Removing
  <2> QED
    BY <1>1, <2>1 DEF Sound, Scanned, Remembered, Brings
<1>3. Attributed(d, t)
  BY Apart DEF Attributed
<1>4. Listed(d, t)
  <2>1. \A h \in Rows(d) : (\E r \in s.left : r.hash = h) => d.files[h].by \subseteq {s.src}
    BY <1>1 DEF Sound, Listed
  <2>2. \A h \in Rows(d) : d.files[h].at = "links" /\ d.files[h].by = {s.src} =>
          \E r \in s.left : r.hash = h /\ r.at = "links"
    BY <1>1 DEF Sound, Listed
  <2> QED
    BY <2>1, <2>2 DEF Listed
<1> QED
  BY <1>2, <1>3, <1>4 DEF Sound

LEMMA RemoveDeleteSound ==
  ASSUME NEW d, NEW e, NEW s \in SlotT, s.pc = "delete", NEW t \in Removing, t.pc = "unlink", t.src = s.src, t.left = s.left,
         NEW u, Sound(d, s, u), e.src = d.src, Rows(e) = Rows(d) \ {s.hash},
         \A g \in Rows(e) : e.files[g] = d.files[g],
         \A g \in Rows(e) : d.files[g].id \in JobKeys(d.jobs) => d.files[g].id \in JobKeys(e.jobs)
  PROVE  Sound(e, t, u)
<1>1. s \in Removing /\ s # Idle /\ t # Idle
  BY SlotPlaces, Apart
<1>2. Scanned(e, t)
  BY <1>1 DEF Sound, Scanned
<1>3. Remembered(e, t, u)
  BY DEF Sound, Remembered, Brings
<1>4. Attributed(e, t)
  BY Apart DEF Attributed
<1>5. Listed(e, t)
  BY <1>1 DEF Sound, Listed
<1> QED
  BY <1>2, <1>3, <1>4, <1>5 DEF Sound

(***************************************************************************)
(* The shapes of the processes and the state of the disk.                  *)
(***************************************************************************)
OtherTypes ==
  /\ disk \in [blob : [Hashes -> {"good", "bad", "none"}], link : [Hashes -> Paths \cup {None}]]
  /\ outside \in [Paths -> Hashes \cup {None}]
  /\ client \in {Idle} \cup [pc : {"rescan", "remove"}, src : Sources]
                  \cup [pc : {"prune"}, deep : BOOLEAN, refs : SUBSET Ref0]
  /\ pr \in {Idle} \cup Running
  /\ held \in {None} \cup Held
  /\ sweep \in {Idle} \cup [pc : {"reclaim"}, hash : Hashes, at : At]
  /\ wk \in {Idle} \cup [pc : {"analyze"}, job : Nat, row : Nat, hash : Hashes]
              \cup [pc : {"store", "fail"}, job : Nat, row : Nat, fp : Hashes \cup {None}]
Inv == DbInv(db) /\ slot \in SlotT /\ up \in UpT /\ OtherTypes
         /\ Sound(db, slot, up) /\ LinkIsFree /\ CondemnedIsDamaged

LEMMA InvIsFilesInv == Inv <=> FilesInv
<1>1. DbInv(db) /\ slot \in SlotT /\ up \in UpT /\ OtherTypes
      <=> FileTypes /\ ProcessTypes /\ Queue(db.jobs, Nat) /\ RowsKeyed
  BY DEF DbInv, Db, Keyed, SlotT, UpT, OtherTypes, FileTypes, ProcessTypes, RowsKeyed, Live
<1> QED
  BY <1>1, SourcedIsSound DEF Inv, FilesInv, Sourced

LEMMA InvIsFilesInvNext == Inv' <=> FilesInv'
<1>1. (DbInv(db) /\ slot \in SlotT /\ up \in UpT /\ OtherTypes)'
      <=> (FileTypes /\ ProcessTypes /\ Queue(db.jobs, Nat) /\ RowsKeyed)'
  BY DEF DbInv, Db, Keyed, SlotT, UpT, OtherTypes, FileTypes, ProcessTypes, RowsKeyed, Live, Queue
<1>2. Sound(db, slot, up)' <=> Sourced'
  BY SourcedIsSoundNext
<1> QED
  BY <1>1, <1>2 DEF Inv, FilesInv, Sourced

LEMMA RunPlaces ==
  ASSUME NEW r \in {Idle} \cup Running
  PROVE  /\ r = Idle <=> r.pc = "idle"
         /\ r.pc \in {"scan", "prune"} => r \in [pc : {"scan", "prune"}, deep : BOOLEAN, left : SUBSET Ref0,
                                                 found : SUBSET Ref0, cut : BOOLEAN]
         /\ r.pc \in {"delete", "sweep"} => r \in [pc : {"delete", "sweep"}, deep : BOOLEAN, left : SUBSET Ref0,
                                                   cut : BOOLEAN, ref : Ref0, gap : BOOLEAN]
         /\ r # Idle => r.left \subseteq Ref0 /\ r.deep \in BOOLEAN /\ r.cut \in BOOLEAN
BY DEF Running, Idle

\* What only loses bytes and links does not mend an entry.
Loses ==
  /\ \A h \in Hashes : disk'.link[h] \in {disk.link[h], None}
  /\ \A h \in Hashes : disk'.blob[h] \in {disk.blob[h], "none"} \/ disk.blob[h] = "good"
  /\ \A p \in Paths : outside'[p] \in {outside[p], None}
SameCondemned == pr'.pc = "delete" => /\ pr.pc = "delete" /\ pr'.gap = pr.gap
                                      /\ pr'.ref = pr.ref /\ pr'.deep = pr.deep

LEMMA DamageStays ==
  ASSUME Inv, Loses, SameCondemned
  PROVE  CondemnedIsDamaged'
<1> SUFFICES ASSUME pr'.pc = "delete", ~pr'.gap
             PROVE  Damaged(pr.ref, pr.deep)'
  BY DEF CondemnedIsDamaged
<1>1. pr.pc = "delete" /\ ~pr.gap /\ pr'.ref = pr.ref /\ pr'.deep = pr.deep
  BY DEF SameCondemned
<1>2. pr.ref \in Ref0 /\ pr.ref.hash \in Hashes
  <2>1. pr \in {Idle} \cup Running
    BY DEF Inv, OtherTypes
  <2>2. pr.ref \in Ref0
    BY <1>1, <2>1, RunPlaces
  <2> QED
    BY <2>2 DEF Ref0
<1>3. Damaged(pr.ref, pr.deep)
  BY <1>1 DEF Inv, CondemnedIsDamaged
<1> DEFINE h == pr.ref.hash
<1>4. disk.link[h] \in Paths \cup {None} /\ disk'.link[h] \in {disk.link[h], None}
  BY <1>2 DEF Inv, OtherTypes, Loses
<1>5. ASSUME NEW C \in {Hashes, {h}}, disk'.link[h] # None, outside'[disk'.link[h]] \in C
      PROVE  disk.link[h] # None /\ outside[disk.link[h]] \in C /\ disk'.link[h] = disk.link[h]
  <2>1. None \notin C
    BY <1>2, <1>5
  <2>2. disk'.link[h] = disk.link[h] /\ disk.link[h] # None /\ disk.link[h] \in Paths
    BY <1>4, <1>5
  <2>3. outside'[disk.link[h]] \in {outside[disk.link[h]], None}
    BY <2>2 DEF Loses
  <2> QED
    BY <1>5, <2>1, <2>2, <2>3
<1>6. CASE pr.ref.at = "local"
  <2>1. disk.blob[h] = "none" \/ (pr.deep /\ disk.blob[h] = "bad")
    BY <1>3, <1>6 DEF Damaged
  <2>2. disk'.blob[h] \in {disk.blob[h], "none"}
    BY <1>2, <2>1 DEF Loses
  <2>3. disk'.blob[h] = "none" \/ (pr'.deep /\ disk'.blob[h] = "bad")
    BY <1>1, <2>1, <2>2
  <2> QED
    BY <1>1, <1>6, <2>3 DEF Damaged
<1>7. CASE pr.ref.at # "local"
  <2>1. \/ ~(disk.link[h] # None /\ outside[disk.link[h]] \in Hashes)
        \/ disk.link[h] # pr.ref.target
        \/ pr.deep /\ ~(disk.link[h] # None /\ outside[disk.link[h]] \in {h})
    BY <1>3, <1>7 DEF Damaged, LinkWorks, TargetIs
  <2>2. \/ ~(disk'.link[h] # None /\ outside'[disk'.link[h]] \in Hashes)
        \/ disk'.link[h] # pr.ref.target
        \/ pr.deep /\ ~(disk'.link[h] # None /\ outside'[disk'.link[h]] \in {h})
    <3> HIDE DEF h
    <3>1. Hashes \in {Hashes, {h}} /\ {h} \in {Hashes, {h}}
      OBVIOUS
    <3> QED
      BY <2>1, <1>5, <3>1
  <2>3. (\/ ~LinkWorks(pr.ref.hash)
         \/ disk.link[pr.ref.hash] # pr.ref.target
         \/ pr.deep /\ ~TargetIs(pr.ref.hash, {pr.ref.hash}))'
    BY <1>1, <2>2 DEF LinkWorks, TargetIs
  <2> QED
    BY <1>1, <1>7, <2>3 DEF Damaged
<1> QED
  BY <1>6, <1>7

LEMMA PutBackIsNoted ==
  ASSUME Inv, PutBack
  PROVE  CondemnedIsDamaged' /\ pr' \in {Idle} \cup Running
<1>1. pr \in {Idle} \cup Running
  BY DEF Inv, OtherTypes
<1>2. CASE pr.pc = "delete"
  <2>1. pr' = [pr EXCEPT !.gap = TRUE]
    BY <1>2 DEF PutBack
  <2> QED
    BY <1>1, <1>2, <2>1, RunPlaces DEF CondemnedIsDamaged, Running
<1>3. CASE pr.pc # "delete"
  BY <1>1, <1>3 DEF PutBack, CondemnedIsDamaged
<1> QED
  BY <1>2, <1>3

(***************************************************************************)
(* The steps that leave the tables and the slot alone.                     *)
(***************************************************************************)
LEMMA Quiet ==
  ASSUME Inv, db' = db, slot' = slot, up' \in UpT, OtherTypes', CondemnedIsDamaged',
         \A i : Brings(up, i) => Brings(up', i),
         \A h \in Hashes : disk'.link[h] \in {disk.link[h], None}
  PROVE  Inv'
<1>1. DbInv(db) /\ slot \in SlotT /\ Sound(db, slot, up)
  BY DEF Inv
<1>2. Sound(db, slot, up')
  BY <1>1, RowsStaySound DEF SameFiles
<1>3. LinkIsFree'
  <2>1. slot.pc = "link" => slot.hash \in Hashes
    BY <1>1, SlotPlaces
  <2> QED
    BY <2>1 DEF Inv, LinkIsFree
<1>4. Sound(db, slot, up)'
  BY <1>2
<1>5. DbInv(db)'
  BY <1>1 DEF Inv, DbInv, Keyed, Queue, WithId, Rows
<1> QED
  BY <1>1, <1>3, <1>4, <1>5 DEF Inv

\* Nothing is put anywhere, and no check is made.
LEMMA SamePlaces ==
  ASSUME disk' = disk, outside' = outside
  PROVE  Loses
BY DEF Loses

LEMMA AskRescanKeeps ==
  ASSUME Inv, NEW s \in Sources, AskRescan(s) PROVE Inv'
<1>1. client' \in [pc : {"rescan", "remove"}, src : Sources]
  BY DEF AskRescan
<1>2. OtherTypes'
  BY <1>1 DEF Inv, OtherTypes, AskRescan
<1>3. CondemnedIsDamaged'
  BY SamePlaces, DamageStays DEF AskRescan, SameCondemned
<1> QED
  BY <1>2, <1>3, Quiet DEF Inv, AskRescan

LEMMA AskRemoveKeeps ==
  ASSUME Inv, NEW s \in Sources, AskRemove(s) PROVE Inv'
<1>1. client' \in [pc : {"rescan", "remove"}, src : Sources]
  BY DEF AskRemove
<1>2. OtherTypes'
  BY <1>1 DEF Inv, OtherTypes, AskRemove
<1>3. CondemnedIsDamaged'
  BY SamePlaces, DamageStays DEF AskRemove, SameCondemned
<1> QED
  BY <1>2, <1>3, Quiet DEF Inv, AskRemove

LEMMA AskPruneKeeps ==
  ASSUME Inv, AskPrune PROVE Inv'
<1>1. client' \in [pc : {"prune"}, deep : BOOLEAN, refs : SUBSET Ref0]
  <2>1. held \in Held
    BY DEF AskPrune, Inv, OtherTypes
  <2>2. held.deep \in BOOLEAN /\ held.refs \in SUBSET Ref0
    BY <2>1 DEF Held
  <2> QED
    BY <2>2 DEF AskPrune
<1>2. OtherTypes'
  BY <1>1 DEF Inv, OtherTypes, AskPrune
<1>3. CondemnedIsDamaged'
  BY SamePlaces, DamageStays DEF AskPrune, SameCondemned
<1> QED
  BY <1>2, <1>3, Quiet DEF Inv, AskPrune

LEMMA UploadLookKeeps ==
  ASSUME Inv, NEW h \in Hashes, UploadLook(h) PROVE Inv'
<1>1. up' \in UpT /\ \A i : ~Brings(up, i)
  BY DEF UploadLook, UpT, Brings, Idle
<1>2. OtherTypes'
  BY DEF Inv, OtherTypes, UploadLook
<1>3. CondemnedIsDamaged'
  BY SamePlaces, DamageStays DEF UploadLook, SameCondemned
<1> QED
  BY <1>1, <1>2, <1>3, Quiet DEF Inv, UploadLook

LEMMA UploadPutKeeps ==
  ASSUME Inv, UploadPut PROVE Inv'
<1>1. up \in UpT /\ up.pc = "put"
  BY DEF Inv, UploadPut
<1>2. up' \in UpT /\ up.hash \in Hashes /\ \A i : ~Brings(up, i)
  BY <1>1 DEF UploadPut, UpT, Brings, Idle
<1>3. disk' \in [blob : [Hashes -> {"good", "bad", "none"}], link : [Hashes -> Paths \cup {None}]]
      /\ disk'.link = disk.link
  BY <1>2 DEF Inv, OtherTypes, UploadPut
<1>4. CondemnedIsDamaged' /\ pr' \in {Idle} \cup Running
  BY PutBackIsNoted DEF UploadPut
<1>5. OtherTypes'
  BY <1>3, <1>4 DEF Inv, OtherTypes, UploadPut
<1> QED
  BY <1>2, <1>3, <1>4, <1>5, Quiet DEF Inv, UploadPut

LEMMA ReclaimedFacts ==
  ASSUME Inv, NEW h \in Hashes, NEW at, disk' = Reclaimed(disk, h, at)
  PROVE  /\ disk' \in [blob : [Hashes -> {"good", "bad", "none"}], link : [Hashes -> Paths \cup {None}]]
         /\ \A g \in Hashes : disk'.link[g] \in {disk.link[g], None}
         /\ \A g \in Hashes : disk'.blob[g] \in {disk.blob[g], "none"}
BY DEF Inv, OtherTypes, Reclaimed

LEMMA ReclaimStorageKeeps ==
  ASSUME Inv, ReclaimStorage PROVE Inv'
<1>1. sweep.hash \in Hashes
  BY DEF Inv, OtherTypes, ReclaimStorage, Idle
<1>2. /\ disk' \in [blob : [Hashes -> {"good", "bad", "none"}], link : [Hashes -> Paths \cup {None}]]
      /\ \A g \in Hashes : disk'.link[g] \in {disk.link[g], None}
      /\ \A g \in Hashes : disk'.blob[g] \in {disk.blob[g], "none"}
  BY <1>1, ReclaimedFacts DEF ReclaimStorage
<1>3. OtherTypes'
  BY <1>2 DEF Inv, OtherTypes, ReclaimStorage
<1>4. CondemnedIsDamaged'
  BY <1>2, DamageStays DEF ReclaimStorage, SameCondemned, Loses
<1> QED
  BY <1>2, <1>3, <1>4, Quiet DEF Inv, ReclaimStorage

LEMMA RunFacts ==
  ASSUME NEW pc \in {"scan", "prune"}, NEW deep \in BOOLEAN, NEW left \in SUBSET Ref0, NEW cut \in BOOLEAN
  PROVE  /\ Run(pc, deep, left) \in Running /\ Run(pc, deep, left).pc = pc
         /\ [Run(pc, deep, left) EXCEPT !.cut = cut] \in Running
         /\ [Run(pc, deep, left) EXCEPT !.cut = cut].pc = pc
BY DEF Run, Running

LEMMA LiveRefs ==
  ASSUME Inv
  PROVE  \A h \in Live : Ref(h) \in Ref0
<1>1. \A h \in Rows(db) : h \in Hashes /\ db.files[h] \in File
  BY RowsAreFiles DEF Inv, DbInv
<1> QED
  BY <1>1 DEF Ref, Ref0, File, Live

LEMMA StartScanKeeps ==
  ASSUME Inv, NEW deep \in BOOLEAN, StartScan(deep) PROVE Inv'
<1> DEFINE refs == {Ref(h) : h \in Live}
<1>1. refs \in SUBSET Ref0
  BY LiveRefs
<1> HIDE DEF refs
<1>2. pr' \in Running /\ pr'.pc = "scan"
  BY <1>1, RunFacts, ZenonT(60) DEF StartScan, refs
<1>3. OtherTypes'
  BY <1>2 DEF Inv, OtherTypes, StartScan
<1>4. CondemnedIsDamaged'
  BY <1>2 DEF CondemnedIsDamaged
<1> QED
  BY <1>3, <1>4, Quiet DEF Inv, StartScan

LEMMA ScanProbeKeeps ==
  ASSUME Inv, NEW ref, ScanProbe(ref) PROVE Inv'
<1>1. pr \in {Idle} \cup Running /\ pr.pc = "scan" /\ ref \in pr.left
  BY DEF Inv, OtherTypes, ScanProbe
<1>2. pr \in [pc : {"scan", "prune"}, deep : BOOLEAN, left : SUBSET Ref0, found : SUBSET Ref0, cut : BOOLEAN]
  BY <1>1, RunPlaces
<1> DEFINE more == IF Damaged(ref, pr.deep) THEN pr.found \cup {ref} ELSE pr.found
<1>3. more \in SUBSET Ref0
  BY <1>1, <1>2
<1>4. pr' = [pr EXCEPT !.left = pr.left \ {ref}, !.found = more]
  BY DEF ScanProbe
<1> HIDE DEF more
<1>5. pr' \in Running /\ pr'.pc = "scan"
  BY <1>1, <1>2, <1>3, <1>4 DEF Running
<1>6. OtherTypes'
  BY <1>5 DEF Inv, OtherTypes, ScanProbe
<1>7. CondemnedIsDamaged'
  BY <1>5 DEF CondemnedIsDamaged
<1> QED
  BY <1>6, <1>7, Quiet DEF Inv, ScanProbe

LEMMA IdleRun ==
  ASSUME pr' = Idle
  PROVE  CondemnedIsDamaged'
BY DEF CondemnedIsDamaged, Idle

LEMMA ScanRunEndKeeps ==
  ASSUME Inv, ScanRunEnd PROVE Inv'
<1>1. pr \in {Idle} \cup Running /\ pr.pc = "scan"
  BY DEF Inv, OtherTypes, ScanRunEnd
<1>2. pr.deep \in BOOLEAN /\ pr.found \in SUBSET Ref0
  BY <1>1, RunPlaces
<1>3. held' \in Held
  BY <1>2 DEF ScanRunEnd, Held
<1>4. OtherTypes'
  BY <1>3 DEF Inv, OtherTypes, ScanRunEnd
<1> QED
  BY <1>4, IdleRun, Quiet DEF Inv, ScanRunEnd

LEMMA StartPruneKeeps ==
  ASSUME Inv, StartPrune PROVE Inv'
<1>1. client.deep \in BOOLEAN /\ client.refs \in SUBSET Ref0
  BY DEF Inv, OtherTypes, StartPrune, Idle
<1>2. \/ pr' = pr /\ held' = held
      \/ pr' \in Running /\ pr'.pc = "prune" /\ held' = None
  <2>1. Run("prune", client.deep, client.refs) \in Running /\ Run("prune", client.deep, client.refs).pc = "prune"
    BY <1>1 DEF Run, Running
  <2> QED
    BY <2>1 DEF StartPrune
<1>3. OtherTypes'
  BY <1>2 DEF Inv, OtherTypes, StartPrune
<1>4. CondemnedIsDamaged'
  BY <1>2, SamePlaces, DamageStays DEF StartPrune, SameCondemned
<1> QED
  BY <1>3, <1>4, Quiet DEF Inv, StartPrune

LEMMA PruneCheckKeeps ==
  ASSUME Inv, NEW ref, PruneCheck(ref) PROVE Inv'
<1>1. pr \in {Idle} \cup Running /\ pr.pc = "prune" /\ ref \in pr.left
  BY DEF Inv, OtherTypes, PruneCheck
<1>2. pr \in [pc : {"scan", "prune"}, deep : BOOLEAN, left : SUBSET Ref0, found : SUBSET Ref0, cut : BOOLEAN]
      /\ ref \in Ref0
  BY <1>1, RunPlaces
<1> DEFINE rest == [pr EXCEPT !.left = @ \ {ref}]
<1>3. /\ rest \in [pc : {"scan", "prune"}, deep : BOOLEAN, left : SUBSET Ref0, found : SUBSET Ref0, cut : BOOLEAN]
      /\ rest.pc = "prune" /\ rest.deep = pr.deep
  BY <1>1, <1>2
<1>4. \/ pr' = rest
      \/ Damaged(ref, pr.deep) /\ pr' = Condemned("delete", rest, ref, FALSE)
  BY DEF PruneCheck, StillDamaged
<1> HIDE DEF rest
<1>5. /\ pr' \in Running
      /\ pr'.pc = "delete" => Damaged(ref, pr.deep) /\ pr'.ref = ref /\ pr'.deep = pr.deep
  <2>1. CASE pr' = rest
    BY <1>3, <2>1 DEF Running
  <2>2. CASE Damaged(ref, pr.deep) /\ pr' = Condemned("delete", rest, ref, FALSE)
    <3>1. rest.deep \in BOOLEAN /\ rest.left \in SUBSET Ref0 /\ rest.cut \in BOOLEAN
      BY <1>3
    <3> QED
      BY <1>2, <1>3, <2>2, <3>1 DEF Running, Condemned
  <2> QED
    BY <1>4, <2>1, <2>2
<1>6. OtherTypes'
  BY <1>5 DEF Inv, OtherTypes, PruneCheck
<1>7. CondemnedIsDamaged'
  <2> SUFFICES ASSUME pr'.pc = "delete" PROVE Damaged(pr.ref, pr.deep)'
    BY DEF CondemnedIsDamaged
  <2> QED
    BY <1>5 DEF PruneCheck, Damaged, LinkWorks, TargetIs
<1> QED
  BY <1>6, <1>7, Quiet DEF Inv, PruneCheck

LEMMA PruneSweepKeeps ==
  ASSUME Inv, PruneSweep PROVE Inv'
<1>1. pr \in {Idle} \cup Running /\ pr.pc = "sweep"
  BY DEF Inv, OtherTypes, PruneSweep
<1>2. pr.ref.hash \in Hashes /\ pr.deep \in BOOLEAN /\ pr.left \in SUBSET Ref0 /\ pr.cut \in BOOLEAN
  BY <1>1, RunPlaces DEF Ref0
<1>3. /\ disk' \in [blob : [Hashes -> {"good", "bad", "none"}], link : [Hashes -> Paths \cup {None}]]
      /\ \A g \in Hashes : disk'.link[g] \in {disk.link[g], None}
  BY <1>2, ReclaimedFacts DEF PruneSweep
<1>4. pr' \in Running /\ pr'.pc = "prune"
  BY <1>2, RunFacts DEF PruneSweep
<1>5. OtherTypes'
  BY <1>3, <1>4 DEF Inv, OtherTypes, PruneSweep
<1>6. CondemnedIsDamaged'
  BY <1>4 DEF CondemnedIsDamaged
<1> QED
  BY <1>3, <1>5, <1>6, Quiet DEF Inv, PruneSweep

LEMMA PruneEndKeeps ==
  ASSUME Inv, PruneEnd PROVE Inv'
<1>1. OtherTypes'
  BY DEF Inv, OtherTypes, PruneEnd
<1> QED
  BY <1>1, IdleRun, Quiet DEF Inv, PruneEnd

LEMMA CancelKeeps ==
  ASSUME Inv, Cancel PROVE Inv'
<1>1. pr \in Running
  BY DEF Inv, OtherTypes, Cancel
<1>2. pr' \in Running /\ SameCondemned
  <2>1. CASE pr \in [pc : {"scan", "prune"}, deep : BOOLEAN, left : SUBSET Ref0, found : SUBSET Ref0, cut : BOOLEAN]
    BY <2>1 DEF Cancel, Running, SameCondemned
  <2>2. CASE pr \in [pc : {"delete", "sweep"}, deep : BOOLEAN, left : SUBSET Ref0, cut : BOOLEAN,
                     ref : Ref0, gap : BOOLEAN]
    BY <2>2 DEF Cancel, Running, SameCondemned
  <2> QED
    BY <1>1, <2>1, <2>2 DEF Running
<1>3. OtherTypes'
  BY <1>2 DEF Inv, OtherTypes, Cancel
<1>4. CondemnedIsDamaged'
  BY <1>2, SamePlaces, DamageStays DEF Cancel
<1> QED
  BY <1>3, <1>4, Quiet DEF Inv, Cancel

LEMMA ContentFacts ==
  ASSUME Inv, NEW h \in Hashes, Resolves(h)
  PROVE  Content(h) \in Hashes \cup {None}
<1>1. disk.blob[h] \in {"good", "bad", "none"}
  BY DEF Inv, OtherTypes
<1> QED
  BY <1>1 DEF Resolves, LinkWorks, TargetIs, Content

LEMMA WorkAnalyzeKeeps ==
  ASSUME Inv, WorkAnalyze PROVE Inv'
<1>1. wk.job \in Nat /\ wk.row \in Nat /\ wk.hash \in Hashes
  BY DEF Inv, OtherTypes, WorkAnalyze, Idle
<1>2. wk' \in [pc : {"store", "fail"}, job : Nat, row : Nat, fp : Hashes \cup {None}]
  BY <1>1, ContentFacts DEF WorkAnalyze
<1>3. OtherTypes'
  BY <1>2 DEF Inv, OtherTypes, WorkAnalyze
<1>4. CondemnedIsDamaged'
  BY SamePlaces, DamageStays DEF WorkAnalyze, SameCondemned
<1> QED
  BY <1>3, <1>4, Quiet DEF Inv, WorkAnalyze

LEMMA UnmountKeeps ==
  ASSUME Inv, NEW p \in Paths, Unmount(p) PROVE Inv'
<1>1. outside' \in [Paths -> Hashes \cup {None}] /\ \A q \in Paths : outside'[q] \in {outside[q], None}
  BY DEF Inv, OtherTypes, Unmount
<1>2. OtherTypes'
  BY <1>1 DEF Inv, OtherTypes, Unmount
<1>3. CondemnedIsDamaged'
  BY <1>1, DamageStays DEF Unmount, SameCondemned, Loses
<1> QED
  BY <1>2, <1>3, Quiet DEF Inv, Unmount

LEMMA MountKeeps ==
  ASSUME Inv, NEW p \in Paths, Mount(p) PROVE Inv'
<1>1. outside' \in [Paths -> Hashes \cup {None}]
  BY DEF Inv, OtherTypes, Mount
<1>2. CondemnedIsDamaged' /\ pr' \in {Idle} \cup Running
  BY PutBackIsNoted DEF Mount
<1>3. OtherTypes'
  BY <1>1, <1>2 DEF Inv, OtherTypes, Mount
<1> QED
  BY <1>2, <1>3, Quiet DEF Inv, Mount

LEMMA ReplaceKeeps ==
  ASSUME Inv, NEW p \in Paths, Replace(p) PROVE Inv'
<1>1. outside' \in [Paths -> Hashes \cup {None}]
  BY DEF Inv, OtherTypes, Replace
<1>2. CondemnedIsDamaged' /\ pr' \in {Idle} \cup Running
  BY PutBackIsNoted DEF Replace
<1>3. OtherTypes'
  BY <1>1, <1>2 DEF Inv, OtherTypes, Replace
<1> QED
  BY <1>2, <1>3, Quiet DEF Inv, Replace

LEMMA DecayKeeps ==
  ASSUME Inv, NEW h \in Hashes, Decay(h) PROVE Inv'
<1>1. /\ disk' \in [blob : [Hashes -> {"good", "bad", "none"}], link : [Hashes -> Paths \cup {None}]]
      /\ disk'.link = disk.link
      /\ \A g \in Hashes : disk'.blob[g] = disk.blob[g] \/ disk.blob[g] = "good"
  BY DEF Inv, OtherTypes, Decay
<1>2. OtherTypes'
  BY <1>1 DEF Inv, OtherTypes, Decay
<1>3. CondemnedIsDamaged'
  BY <1>1, DamageStays DEF Decay, SameCondemned, Loses
<1> QED
  BY <1>1, <1>2, <1>3, Quiet DEF Inv, Decay

(***************************************************************************)
(* The steps of the slot, and those that change the tables.                *)
(***************************************************************************)
\* What is damaged stays damaged when the disk and the run stay.
LEMMA SameRun ==
  ASSUME Inv, disk' = disk, outside' = outside, pr' = pr
  PROVE  CondemnedIsDamaged'
BY SamePlaces, DamageStays DEF SameCondemned

LEMMA NotLinking ==
  ASSUME slot'.pc # "link"
  PROVE  LinkIsFree'
BY DEF LinkIsFree

\* The parts, put together.
LEMMA Together ==
  ASSUME DbInv(db'), slot' \in SlotT, up' \in UpT, OtherTypes', Sound(db', slot', up'), LinkIsFree', CondemnedIsDamaged'
  PROVE  Inv'
<1>1. DbInv(db)' /\ Sound(db, slot, up)'
  OBVIOUS
<1> QED
  BY <1>1 DEF Inv

LEMMA AddSourceKeeps ==
  ASSUME Inv, NEW s \in Sources, AddSource(s) PROVE Inv'
<1>1. /\ DbInv(db') /\ db'.jobs = db.jobs /\ db'.files = db.files
      /\ \A t \in Sources : db'.src[t] = IF t = s THEN "scanning" ELSE db.src[t]
  BY AddSourceFacts DEF Inv, AddSource
<1>2. slot' \in SlotT /\ Sound(db', slot', up) /\ slot'.pc = "walk"
  BY <1>1, WalkSound DEF Inv, AddSource, Walk
<1>3. OtherTypes'
  BY DEF Inv, OtherTypes, AddSource
<1> QED
  BY <1>1, <1>2, <1>3, NotLinking, SameRun, Together DEF Inv, AddSource

LEMMA StartRescanKeeps ==
  ASSUME Inv, StartRescan PROVE Inv'
<1> DEFINE s == client.src
<1>1. s \in Sources
  BY DEF Inv, OtherTypes, StartRescan, Idle
<1>2. OtherTypes'
  BY DEF Inv, OtherTypes, StartRescan
<1>3. CondemnedIsDamaged'
  BY SameRun DEF StartRescan
<1>4. CASE slot # Idle
  <2>1. db' = db /\ slot' = slot /\ up' = up /\ disk' = disk
    BY <1>4 DEF StartRescan
  <2> QED
    BY <1>2, <1>3, <2>1, Quiet DEF Inv
<1>5. CASE slot = Idle
  <2>1. slot' = Walk(s) /\ db' = SetStatus(db, s, "scanning") /\ up' = up
    BY <1>5 DEF StartRescan
  <2>2. /\ DbInv(db') /\ db'.jobs = db.jobs /\ db'.files = db.files
        /\ \A t \in Sources : db'.src[t] = "scanning" => t = s \/ db.src[t] = "scanning"
    <3>1. DbInv(db) /\ "scanning" \in {"scanning", "active", "error"}
      BY DEF Inv
    <3>2. DbInv(db') /\ db'.jobs = db.jobs /\ db'.files = db.files /\ Says(db, db', s, "scanning")
      BY <1>1, <2>1, <3>1, SetStatusFacts
    <3> QED
      BY <3>2 DEF Says
  <2> HIDE DEF s
  <2>3. slot' \in SlotT /\ Sound(db', slot', up') /\ slot'.pc = "walk"
    BY <1>1, <1>5, <2>1, <2>2, WalkSound DEF Inv, Walk
  <2> QED
    BY <1>2, <1>3, <2>1, <2>2, <2>3, NotLinking, Together DEF Inv
<1> QED
  BY <1>4, <1>5

LEMMA ScanLookKeeps ==
  ASSUME Inv, NEW p \in Paths, ScanLook(p) PROVE Inv'
<1> DEFINE h == outside[p]
           rest == [slot EXCEPT !.left = @ \ {p}, !.seen = @ \cup ({h} \ {None})]
<1>1. slot \in SlotT /\ slot.pc = "walk" /\ DbInv(db) /\ Sound(db, slot, up) /\ h \in Hashes \cup {None}
  BY DEF Inv, OtherTypes, ScanLook
<1>2. slot \in [pc : {"walk"}, src : Sources, left : SUBSET Paths, seen : SUBSET Hashes]
  BY <1>1 DEF SlotT, Scanning, Removing, Idle
<1>3. /\ rest \in Scanning /\ rest.pc = "walk" /\ rest.src = slot.src
      /\ rest.src \in Sources /\ rest.left \subseteq Paths /\ rest.seen \subseteq Hashes
      /\ rest.seen = slot.seen \cup ({h} \ {None})
  BY <1>1, <1>2 DEF Scanning
<1>4. OtherTypes'
  BY DEF Inv, OtherTypes, ScanLook
<1>5. CondemnedIsDamaged'
  BY SameRun DEF ScanLook
<1>6. up' = up /\ up \in UpT
  BY DEF Inv, ScanLook
<1>7. \/ h = None /\ slot' = rest /\ db' = db
      \/ h # None /\ slot' = rest /\ db' = Skipped(db, slot.src, h)
      \/ /\ h # None /\ disk.link[h] = None /\ db' = db
         /\ slot' = Linking("link", rest, h, p, IF h \in Live THEN db.files[h].id ELSE None)
  BY DEF ScanLook
<1>8. \A i \in Hashes : i \in Rows(db) <=> db.files[i] # None
  BY DEF Rows
<1> HIDE DEF h, rest
<1>9. CASE h = None /\ slot' = rest /\ db' = db
  <2>1. Sound(db, rest, up)
    BY <1>1, <1>3, <1>9, RefusedSound
  <2> QED
    BY <1>1, <1>3, <1>4, <1>5, <1>6, <1>9, <2>1, NotLinking, Together DEF SlotT
<1>10. CASE h # None /\ slot' = rest /\ db' = Skipped(db, slot.src, h)
  <2>1. \/ db' = db /\ h \notin Rows(db)
        \/ h \in Rows(db) /\ db' = AttributeSourceFile(db, slot.src, db.files[h].id)
    BY <1>1, <1>8, <1>10 DEF Skipped
  <2>2. DbInv(db') /\ Sound(db', rest, up)
    BY <1>1, <1>3, <2>1, LookSound
  <2> QED
    BY <1>3, <1>4, <1>5, <1>6, <1>10, <2>2, NotLinking, Together DEF SlotT
<1>11. CASE /\ h # None /\ disk.link[h] = None /\ db' = db
            /\ slot' = Linking("link", rest, h, p, IF h \in Live THEN db.files[h].id ELSE None)
  <2> DEFINE i == IF h \in Live THEN db.files[h].id ELSE None
  <2>1. i \in Nat \cup {None} /\ (h \in Rows(db) => i = db.files[h].id)
    BY <1>1, RowsAreFiles DEF DbInv, Live
  <2>2. slot' = Linking("link", rest, h, p, i)
    BY <1>11
  <2> HIDE DEF i
  <2>3. h \in Hashes
    BY <1>1, <1>11
  <2>4. slot' \in Scanning /\ slot'.pc = "link" /\ slot'.src = slot.src /\ slot'.seen = rest.seen
        /\ slot'.hash = h /\ slot'.row = i
    BY <1>3, <2>1, <2>2, <2>3, NewPlaces
  <2>5. DbInv(db') /\ Sound(db', slot', up)
    BY <1>1, <1>3, <1>11, <2>1, <2>4, LookSound
  <2>6. LinkIsFree'
    BY <1>11, <2>4 DEF LinkIsFree, ScanLook
  <2> QED
    BY <1>4, <1>5, <1>6, <2>4, <2>5, <2>6, Together DEF SlotT
<1> QED
  BY <1>7, <1>9, <1>10, <1>11

LEMMA ScanLinkKeeps ==
  ASSUME Inv, ScanLink PROVE Inv'
<1>1. slot \in SlotT /\ slot.pc = "link" /\ DbInv(db) /\ Sound(db, slot, up)
  BY DEF Inv, ScanLink
<1>2. /\ slot.hash \in Hashes /\ slot.path \in Paths /\ slot.row \in Nat \cup {None}
      /\ slot.src \in Sources /\ slot.left \subseteq Paths /\ slot.seen \subseteq Hashes
  BY <1>1, SlotPlaces DEF Idle
<1>3. disk.link[slot.hash] = None
  BY <1>1 DEF Inv, LinkIsFree
<1>4. /\ disk' = [disk EXCEPT !.link[slot.hash] = slot.path]
      /\ slot' = IF slot.row # None THEN Row("keep", slot, slot.row)
                 ELSE Linking("insert", slot, slot.hash, slot.path, None)
      /\ PutBack /\ db' = db /\ up' = up
  BY <1>3 DEF ScanLink
<1>5. disk' \in [blob : [Hashes -> {"good", "bad", "none"}], link : [Hashes -> Paths \cup {None}]]
  BY <1>2, <1>4 DEF Inv, OtherTypes
<1>6. CondemnedIsDamaged' /\ pr' \in {Idle} \cup Running
  BY <1>4, PutBackIsNoted
<1>7. OtherTypes'
  BY <1>5, <1>6 DEF Inv, OtherTypes, ScanLink
<1>8. /\ slot' \in Scanning /\ slot'.src = slot.src /\ slot'.seen = slot.seen
      /\ \/ slot.row # None /\ slot'.pc = "keep" /\ slot'.row = slot.row
         \/ slot.row = None /\ slot'.pc = "insert"
  <2>1. CASE slot.row # None
    BY <1>2, <1>4, <2>1, NewPlaces
  <2>2. CASE slot.row = None
    BY <1>2, <1>4, <2>2, NewPlaces
  <2> QED
    BY <2>1, <2>2
<1>9. Sound(db, slot', up)
  BY <1>1, <1>8, LinkSound
<1> QED
  BY <1>1, <1>4, <1>6, <1>7, <1>8, <1>9, NotLinking, Together DEF SlotT, Inv

LEMMA ScanInsertKeeps ==
  ASSUME Inv, ScanInsert PROVE Inv'
<1>1. slot \in SlotT /\ slot.pc = "insert" /\ DbInv(db) /\ Sound(db, slot, up) /\ up' = up
  BY DEF Inv, ScanInsert
<1>2. /\ slot.hash \in Hashes /\ slot.path \in Paths
      /\ slot.src \in Sources /\ slot.left \subseteq Paths /\ slot.seen \subseteq Hashes
  BY <1>1, SlotPlaces DEF Idle
<1>3. CASE slot.hash \in Live
  <2>1. disk' = [disk EXCEPT !.link[slot.hash] = None] /\ slot' = Back(slot) /\ db' = db
    BY <1>3 DEF ScanInsert
  <2>2. /\ disk' \in [blob : [Hashes -> {"good", "bad", "none"}], link : [Hashes -> Paths \cup {None}]]
        /\ disk'.blob = disk.blob /\ \A h \in Hashes : disk'.link[h] \in {disk.link[h], None}
    BY <1>2, <2>1 DEF Inv, OtherTypes
  <2>3. OtherTypes'
    BY <2>2 DEF Inv, OtherTypes, ScanInsert
  <2>4. CondemnedIsDamaged'
    BY <2>2, DamageStays DEF ScanInsert, SameCondemned, Loses
  <2>5. slot' \in Scanning /\ slot'.pc = "walk" /\ slot'.src = slot.src /\ slot'.seen = slot.seen
    BY <1>2, <2>1, NewPlaces
  <2>6. Sound(db, slot', up)
    BY <1>1, <2>5, RefusedSound
  <2> QED
    BY <1>1, <2>1, <2>3, <2>4, <2>5, <2>6, NotLinking, Together DEF SlotT, Inv
<1>4. CASE slot.hash \notin Live
  <2>1. /\ db' = InsertFile(db, slot.hash, "links", slot.path)
        /\ slot' = Row("attribute", slot, NextFileId(db)) /\ disk' = disk
    BY <1>4 DEF ScanInsert
  <2>2. OtherTypes' /\ CondemnedIsDamaged'
    BY <2>1, SameRun DEF Inv, OtherTypes, ScanInsert
  <2>3. DbInv(db') /\ slot' \in Scanning /\ Sound(db', slot', up)
    BY <1>1, <1>2, <1>4, <2>1, InsertSound DEF Live
  <2>4. slot'.pc # "link"
    BY <2>1 DEF Row
  <2> QED
    BY <1>1, <2>2, <2>3, <2>4, NotLinking, Together DEF SlotT, Inv
<1> QED
  BY <1>3, <1>4

LEMMA ScanAttributeKeeps ==
  ASSUME Inv, ScanAttribute PROVE Inv'
<1>1. /\ slot \in SlotT /\ slot.pc \in {"keep", "attribute"} /\ DbInv(db) /\ Sound(db, slot, up) /\ up' = up
      /\ db' = AttributeSourceFile(db, slot.src, slot.row)
  BY DEF Inv, ScanAttribute
<1>2. slot.row \in Nat /\ slot.src \in Sources /\ slot.left \subseteq Paths /\ slot.seen \subseteq Hashes
  BY <1>1, SlotPlaces DEF Idle
<1>3. /\ slot' \in Scanning /\ slot'.src = slot.src /\ slot'.seen = slot.seen
      /\ \/ slot.pc = "keep" /\ slot'.pc = "walk"
         \/ slot.pc = "attribute" /\ slot'.pc = "enqueue" /\ slot'.row = slot.row
  <2>1. CASE slot.pc = "keep"
    BY <1>2, <2>1, NewPlaces DEF ScanAttribute
  <2>2. CASE slot.pc = "attribute"
    BY <1>2, <2>2, NewPlaces DEF ScanAttribute
  <2> QED
    BY <1>1, <2>1, <2>2
<1>4. DbInv(db') /\ Sound(db', slot', up)
  BY <1>1, <1>3, AttributeSound
<1>5. OtherTypes' /\ CondemnedIsDamaged'
  BY SameRun DEF Inv, OtherTypes, ScanAttribute
<1> QED
  BY <1>1, <1>3, <1>4, <1>5, NotLinking, Together DEF SlotT, Inv

LEMMA ScanEnqueueKeeps ==
  ASSUME Inv, ScanEnqueue PROVE Inv'
<1>1. /\ slot \in SlotT /\ slot.pc = "enqueue" /\ DbInv(db) /\ Sound(db, slot, up) /\ up' = up
      /\ db' = EnqueueAnalysis(db, slot.row) /\ slot' = Back(slot)
  BY DEF Inv, ScanEnqueue
<1>2. slot.src \in Sources /\ slot.left \subseteq Paths /\ slot.seen \subseteq Hashes
  BY <1>1, SlotPlaces DEF Idle
<1>3. slot' \in Scanning /\ slot'.pc = "walk" /\ slot'.src = slot.src /\ slot'.seen = slot.seen
  BY <1>1, <1>2, NewPlaces
<1>4. DbInv(db') /\ Sound(db', slot', up)
  BY <1>1, <1>3, ScanEnqueueSound
<1>5. OtherTypes' /\ CondemnedIsDamaged'
  BY SameRun DEF Inv, OtherTypes, ScanEnqueue
<1> QED
  BY <1>1, <1>3, <1>4, <1>5, NotLinking, Together DEF SlotT, Inv

LEMMA ScanEndKeeps ==
  ASSUME Inv, ScanEnd PROVE Inv'
<1>1. /\ slot \in SlotT /\ slot.pc = "walk" /\ DbInv(db) /\ Sound(db, slot, up) /\ up' = up
      /\ db' = SetStatus(db, slot.src, "active") /\ slot' = Idle
  BY DEF Inv, ScanEnd
<1>2. slot.src \in Sources
  BY <1>1, SlotPlaces DEF Idle
<1>3. /\ DbInv(db') /\ db'.jobs = db.jobs /\ db'.files = db.files
      /\ \A t \in Sources : db'.src[t] = IF t = slot.src /\ Known(db, slot.src) THEN "active" ELSE db.src[t]
  <2>1. "active" \in {"scanning", "active", "error"}
    OBVIOUS
  <2>2. DbInv(db') /\ db'.jobs = db.jobs /\ db'.files = db.files /\ Says(db, db', slot.src, "active")
    BY <1>1, <1>2, <2>1, SetStatusFacts
  <2> QED
    BY <2>2 DEF Says
<1>4. \A t \in Sources : db'.src[t] = "scanning" => db.src[t] = "scanning" /\ t # slot.src
  BY <1>3 DEF Known
<1>5. SameFiles(db, db')
  BY <1>3, RowsOf DEF SameFiles
<1>6. Sound(db', Idle, up)
  BY <1>1, <1>3, <1>4, <1>5, FreeSound
<1>7. OtherTypes' /\ CondemnedIsDamaged'
  BY SameRun DEF Inv, OtherTypes, ScanEnd
<1>8. slot' \in SlotT /\ slot'.pc # "link"
  BY <1>1 DEF SlotT, Idle
<1> QED
  BY <1>1, <1>3, <1>6, <1>7, <1>8, NotLinking, Together DEF Inv

LEMMA StartRemoveKeeps ==
  ASSUME Inv, StartRemove PROVE Inv'
<1>1. DbInv(db) /\ Sound(db, slot, up) /\ slot \in SlotT /\ client.src \in Sources /\ db' = db /\ up' = up
  BY DEF Inv, OtherTypes, StartRemove, Idle
<1>2. OtherTypes' /\ CondemnedIsDamaged'
  BY SameRun DEF Inv, OtherTypes, StartRemove
<1>3. CASE slot = Idle
  <2>1. slot' = Removal
    BY <1>3 DEF StartRemove
  <2>2. slot' \in Removing /\ Sound(db, slot', up) /\ slot'.pc # "link"
    BY <1>1, <1>3, <2>1, ListSound DEF Removing
  <2> QED
    BY <1>1, <1>2, <2>2, NotLinking, Together DEF SlotT, Inv
<1>4. CASE slot # Idle
  <2>1. slot' = slot
    BY <1>4 DEF StartRemove
  <2> QED
    BY <1>1, <1>2, <2>1, Quiet DEF Inv, StartRemove
<1> QED
  BY <1>3, <1>4

LEMMA RemoveUnlinkKeeps ==
  ASSUME Inv, NEW ref, RemoveUnlink(ref) PROVE Inv'
<1>1. /\ slot \in SlotT /\ slot.pc = "unlink" /\ ref \in slot.left /\ DbInv(db) /\ Sound(db, slot, up)
      /\ db' = db /\ up' = up /\ disk' = [disk EXCEPT !.link[ref.hash] = None]
  BY DEF Inv, RemoveUnlink
<1>2. slot.src \in Sources /\ slot.left \subseteq Ref0 /\ ref \in Ref0 /\ ref.hash \in Hashes
  BY <1>1, SlotPlaces DEF Idle, Ref0
<1>3. /\ disk' \in [blob : [Hashes -> {"good", "bad", "none"}], link : [Hashes -> Paths \cup {None}]]
      /\ disk'.blob = disk.blob /\ \A h \in Hashes : disk'.link[h] \in {disk.link[h], None}
  BY <1>1, <1>2 DEF Inv, OtherTypes
<1>4. OtherTypes'
  BY <1>3 DEF Inv, OtherTypes, RemoveUnlink
<1>5. CondemnedIsDamaged'
  BY <1>3, DamageStays DEF RemoveUnlink, SameCondemned, Loses
<1>6. /\ slot' \in Removing /\ slot'.src = slot.src /\ slot'.left = slot.left \ {ref}
      /\ \/ slot'.pc = "unlink" /\ ref.at = "local"
         \/ slot'.pc = "delete" /\ slot'.hash = ref.hash
  BY <1>2 DEF RemoveUnlink, Unlinking, Removing
<1>7. Sound(db, slot', up)
  BY <1>1, <1>6, UnlinkSound
<1> QED
  BY <1>1, <1>4, <1>5, <1>6, <1>7, NotLinking, Together DEF SlotT, Inv

\* A row that is deleted takes its jobs with it, and none of another row's.
LEMMA DeletedJobs ==
  ASSUME NEW d, DbInv(d), NEW h \in Hashes
  PROVE  LET e == HardDeleteFile(d, h) IN
         /\ DbInv(e) /\ e.src = d.src /\ Rows(e) = Rows(d) \ {h}
         /\ \A g \in Rows(e) : /\ e.files[g] = d.files[g]
                               /\ d.files[g].id \in JobKeys(d.jobs) => d.files[g].id \in JobKeys(e.jobs)
BY DeleteFacts

LEMMA RemoveDeleteKeeps ==
  ASSUME Inv, RemoveDelete PROVE Inv'
<1>1. /\ slot \in SlotT /\ slot.pc = "delete" /\ DbInv(db) /\ Sound(db, slot, up)
      /\ db' = HardDeleteFile(db, slot.hash) /\ up' = up /\ slot' = Unlinking(slot.src, slot.left)
  BY DEF Inv, RemoveDelete
<1>2. slot.src \in Sources /\ slot.left \subseteq Ref0 /\ slot.hash \in Hashes
  BY <1>1, SlotPlaces DEF Idle
<1>3. slot' \in Removing /\ slot'.pc = "unlink" /\ slot'.src = slot.src /\ slot'.left = slot.left
  BY <1>1, <1>2 DEF Unlinking, Removing
<1>4. /\ DbInv(db') /\ db'.src = db.src /\ Rows(db') = Rows(db) \ {slot.hash}
      /\ \A g \in Rows(db') :
           /\ db'.files[g] = db.files[g]
           /\ db.files[g].id \in JobKeys(db.jobs) => db.files[g].id \in JobKeys(db'.jobs)
  BY <1>1, <1>2, DeletedJobs
<1>5. Sound(db', slot', up)
  BY <1>1, <1>3, <1>4, RemoveDeleteSound
<1>6. OtherTypes' /\ CondemnedIsDamaged'
  BY SameRun DEF Inv, OtherTypes, RemoveDelete
<1> QED
  BY <1>1, <1>3, <1>4, <1>5, <1>6, NotLinking, Together DEF SlotT, Inv

LEMMA RemoveEndKeeps ==
  ASSUME Inv, RemoveEnd PROVE Inv'
<1>1. /\ slot \in SlotT /\ slot.pc = "unlink" /\ DbInv(db) /\ Sound(db, slot, up)
      /\ db' = DeleteDataSource(db, slot.src) /\ up' = up /\ slot' = Idle
  BY DEF Inv, RemoveEnd
<1>2. slot.src \in Sources
  BY <1>1, SlotPlaces DEF Idle
<1>3. /\ DbInv(db') /\ db'.jobs = db.jobs /\ SameFiles(db, db')
      /\ \A t \in Sources : db'.src[t] = IF t = slot.src THEN "none" ELSE db.src[t]
      /\ \A h \in Rows(db) : db'.files[h].fp = db.files[h].fp
  BY <1>1, <1>2, DeleteSourceFacts
<1>4. Sound(db', Idle, up)
  BY <1>1, <1>3, FreeSound
<1>5. OtherTypes' /\ CondemnedIsDamaged'
  BY SameRun DEF Inv, OtherTypes, RemoveEnd
<1>6. slot' \in SlotT /\ slot'.pc # "link"
  BY <1>1 DEF SlotT, Idle
<1> QED
  BY <1>1, <1>3, <1>4, <1>5, <1>6, NotLinking, Together DEF Inv

(***************************************************************************)
(* The steps beside the slot that change the tables.                       *)
(***************************************************************************)
LEMMA SameLinks ==
  ASSUME Inv, slot' = slot, \A h \in Hashes : disk'.link[h] \in {disk.link[h], None}
  PROVE  LinkIsFree'
<1>1. slot.pc = "link" => slot.hash \in Hashes
  BY SlotPlaces DEF Inv
<1> QED
  BY <1>1 DEF Inv, LinkIsFree

LEMMA UploadPlaces ==
  ASSUME NEW u \in UpT
  PROVE  /\ u.pc \in {"put", "insert"} => u.hash \in Hashes
         /\ u.pc = "enqueue" => u.row \in Nat
         /\ u.pc # "enqueue" => \A i : ~Brings(u, i)
BY DEF UpT, Idle, Brings

LEMMA UploadInsertKeeps ==
  ASSUME Inv, UploadInsert PROVE Inv'
<1>1. up \in UpT /\ up.pc = "insert" /\ DbInv(db) /\ Sound(db, slot, up) /\ slot' = slot /\ disk' = disk
  BY DEF Inv, UploadInsert
<1>2. up.hash \in Hashes /\ \A i : ~Brings(up, i)
  BY <1>1, UploadPlaces
<1>3. OtherTypes' /\ CondemnedIsDamaged' /\ LinkIsFree'
  BY SameRun, SameLinks DEF Inv, OtherTypes, UploadInsert
<1>4. CASE up.hash \in Live
  <2>1. db' = db /\ up' = Idle
    BY <1>4 DEF UploadInsert
  <2>2. up' \in UpT
    BY <2>1 DEF UpT
  <2> QED
    BY <1>1, <1>2, <1>3, <2>1, <2>2, Quiet
<1>5. CASE up.hash \notin Live
  <2>1. db' = InsertFile(db, up.hash, "local", None) /\ up' = [pc |-> "enqueue", row |-> NextFileId(db)]
    BY <1>5 DEF UploadInsert
  <2>2. /\ DbInv(db') /\ db'.src = db.src /\ db'.jobs = db.jobs /\ Rows(db') = Rows(db) \cup {up.hash}
        /\ \A g \in Rows(db) : db'.files[g] = db.files[g]
        /\ db'.files[up.hash].id = NextFileId(db) /\ db'.files[up.hash].at = "local"
        /\ db'.files[up.hash].by = {}
    BY <1>1, <1>2, <1>5, <2>1, InsertFacts DEF At, Live
  <2>3. up' \in UpT /\ Brings(up', NextFileId(db))
    BY <1>1, <2>1, FileIdIsFresh DEF UpT, Brings
  <2>4. Sound(db', slot, up')
    BY <1>1, <1>2, <1>5, <2>2, <2>3, UploadSound DEF Live
  <2> QED
    BY <1>1, <1>3, <2>2, <2>3, <2>4, Together DEF Inv
<1> QED
  BY <1>4, <1>5

LEMMA UploadEnqueueKeeps ==
  ASSUME Inv, UploadEnqueue PROVE Inv'
<1>1. /\ up \in UpT /\ up.pc = "enqueue" /\ DbInv(db) /\ Sound(db, slot, up) /\ slot' = slot /\ disk' = disk
      /\ slot \in SlotT /\ db' = EnqueueAnalysis(db, up.row) /\ up' = Idle
  BY DEF Inv, UploadEnqueue
<1>2. up.row \in Nat
  BY <1>1, UploadPlaces
<1>3. OtherTypes' /\ CondemnedIsDamaged' /\ LinkIsFree'
  BY SameRun, SameLinks DEF Inv, OtherTypes, UploadEnqueue
<1>4. /\ DbInv(db') /\ db'.src = db.src /\ db'.files = db.files
      /\ JobKeys(db.jobs) \subseteq JobKeys(db'.jobs)
      /\ WithId(db, up.row) # {} => up.row \in JobKeys(db'.jobs)
  BY <1>1, <1>2, EnqueueAnalysisFacts
<1>5. \A h \in Rows(db) : Brings(up, db.files[h].id) => db.files[h].id \in JobKeys(db'.jobs)
  BY <1>4 DEF Brings, WithId
<1>6. SameFiles(db, db')
  BY <1>4, RowsOf DEF SameFiles
<1>7. Sound(db', slot, up')
  BY <1>1, <1>4, <1>5, <1>6, RowsStaySound
<1>8. up' \in UpT
  BY <1>1 DEF UpT
<1> QED
  BY <1>1, <1>3, <1>4, <1>7, <1>8, Together

LEMMA PurgeKeeps ==
  ASSUME Inv, NEW h \in Hashes, Purge(h) PROVE Inv'
<1>1. DbInv(db) /\ Sound(db, slot, up) /\ db' = HardDeleteFile(db, h) /\ slot' = slot /\ up' = up /\ disk' = disk
      /\ h \in Live
  BY DEF Inv, Purge
<1>2. /\ DbInv(db') /\ db'.src = db.src /\ Rows(db') = Rows(db) \ {h}
      /\ \A g \in Rows(db') :
           /\ db'.files[g] = db.files[g]
           /\ db.files[g].id \in JobKeys(db.jobs) => db.files[g].id \in JobKeys(db'.jobs)
  BY <1>1, DeletedJobs
<1>3. Sound(db', slot, up)
  BY <1>1, <1>2, DeleteSound
<1>4. db.files[h].at \in At
  BY <1>1, RowsAreFiles DEF DbInv, File, At, Live
<1>5. OtherTypes' /\ CondemnedIsDamaged' /\ LinkIsFree'
  BY <1>4, SameRun, SameLinks DEF Inv, OtherTypes, Purge
<1> QED
  BY <1>1, <1>2, <1>3, <1>5, Together DEF Inv

LEMMA PruneDeleteKeeps ==
  ASSUME Inv, PruneDelete PROVE Inv'
<1>1. /\ DbInv(db) /\ Sound(db, slot, up) /\ db' = HardDeleteFile(db, pr.ref.hash)
      /\ slot' = slot /\ up' = up /\ disk' = disk /\ pr.pc = "delete" /\ pr \in {Idle} \cup Running
  BY DEF Inv, OtherTypes, PruneDelete
<1>2. pr \in [pc : {"delete", "sweep"}, deep : BOOLEAN, left : SUBSET Ref0, cut : BOOLEAN,
              ref : Ref0, gap : BOOLEAN]
  BY <1>1, RunPlaces
<1>3. pr.ref.hash \in Hashes
  BY <1>2 DEF Ref0
<1>4. /\ DbInv(db') /\ db'.src = db.src /\ Rows(db') = Rows(db) \ {pr.ref.hash}
      /\ \A g \in Rows(db') :
           /\ db'.files[g] = db.files[g]
           /\ db.files[g].id \in JobKeys(db.jobs) => db.files[g].id \in JobKeys(db'.jobs)
  BY <1>1, <1>3, DeletedJobs
<1>5. Sound(db', slot, up)
  BY <1>1, <1>4, DeleteSound
<1>6. pr' \in Running /\ pr'.pc = "sweep"
  BY <1>2 DEF PruneDelete, Condemned, Running
<1>7. OtherTypes' /\ LinkIsFree'
  BY <1>6, SameLinks DEF Inv, OtherTypes, PruneDelete
<1>8. CondemnedIsDamaged'
  BY <1>6 DEF CondemnedIsDamaged
<1> QED
  BY <1>1, <1>4, <1>5, <1>7, <1>8, Together DEF Inv

LEMMA WorkClaimKeeps ==
  ASSUME Inv, WorkClaim PROVE Inv'
<1> DEFINE j == Claimed(db.jobs)
<1>1. /\ DbInv(db) /\ Sound(db, slot, up) /\ slot \in SlotT /\ Pending(db.jobs) # {}
      /\ db' = [db EXCEPT !.jobs = Claim(@)] /\ slot' = slot /\ up' = up /\ disk' = disk
      /\ wk' = [pc |-> "analyze", job |-> j.id, row |-> j.key, hash |-> CHOOSE h \in WithId(db, j.key) : TRUE]
  BY DEF Inv, WorkClaim
<1>2. j \in db.jobs /\ j.id \in Nat /\ j.key \in Nat
  <2>1. Queue(db.jobs, Nat)
    BY <1>1 DEF DbInv
  <2>2. j \in db.jobs
    BY <1>1, <2>1, ClaimFacts
  <2> QED
    BY <2>1, <2>2 DEF Queue, Job
<1>3. WithId(db, j.key) # {} /\ WithId(db, j.key) \subseteq Hashes
  BY <1>1, <1>2 DEF DbInv, Keyed, WithId, Rows
<1> HIDE DEF j
<1>4. wk' \in [pc : {"analyze"}, job : Nat, row : Nat, hash : Hashes]
  BY <1>1, <1>2, <1>3
<1>5. OtherTypes' /\ CondemnedIsDamaged' /\ LinkIsFree'
  BY <1>4, SameRun, SameLinks DEF Inv, OtherTypes, WorkClaim
<1>6. DbInv(db') /\ db'.src = db.src /\ db'.files = db.files /\ JobKeys(db'.jobs) = JobKeys(db.jobs)
  BY <1>1, WorkClaimFacts
<1>7. SameFiles(db, db')
  BY <1>6, RowsOf DEF SameFiles
<1>8. Sound(db', slot, up)
  BY <1>1, <1>6, <1>7, RowsStaySound
<1> QED
  BY <1>1, <1>5, <1>6, <1>8, Together DEF Inv

LEMMA WorkFinishKeeps ==
  ASSUME Inv, WorkFinish PROVE Inv'
<1> DEFINE q == IF wk.pc = "store" THEN FinishDone(db.jobs, wk.job) ELSE FinishFailed(db.jobs, wk.job)
           c == StoreFingerprint(db, wk.row, wk.fp)
<1>1. /\ DbInv(db) /\ Sound(db, slot, up) /\ slot \in SlotT /\ slot' = slot /\ up' = up /\ disk' = disk
      /\ wk.fp \in Hashes \cup {None} /\ c.jobs = db.jobs
      /\ db' = [c EXCEPT !.jobs = q]
  <2>1. wk.fp \in Hashes \cup {None} /\ DbInv(db)
    BY DEF Inv, OtherTypes, WorkFinish, Idle
  <2>2. c.jobs = db.jobs
    BY <2>1, FingerprintFacts
  <2>3. db' = [c EXCEPT !.jobs = IF wk.pc = "store" THEN FinishDone(c.jobs, wk.job) ELSE FinishFailed(c.jobs, wk.job)]
    BY DEF WorkFinish
  <2> HIDE DEF c
  <2> QED
    BY <2>1, <2>2, <2>3 DEF Inv, WorkFinish
<1>2. q = FinishDone(db.jobs, wk.job) \/ q = FinishFailed(db.jobs, wk.job)
  OBVIOUS
<1> HIDE DEF q
<1>3. /\ DbInv(db') /\ db'.src = db.src /\ JobKeys(db'.jobs) = JobKeys(db.jobs) /\ SameFiles(db, db')
      /\ \A h \in Rows(db) : /\ db'.files[h].by = db.files[h].by
                             /\ db'.files[h].fp = None => db.files[h].fp = None
  BY <1>1, <1>2, FinishFacts
<1> HIDE DEF c
<1>4. Sound(db', slot, up)
  BY <1>1, <1>3, RowsStaySound
<1>5. OtherTypes' /\ CondemnedIsDamaged' /\ LinkIsFree'
  BY SameRun, SameLinks DEF Inv, OtherTypes, WorkFinish
<1> QED
  BY <1>1, <1>3, <1>4, <1>5, Together DEF Inv

\* A start: every process is idle, no source is scanning, and what lacks a fingerprint has a job.
LEMMA RestartIngestKeeps ==
  ASSUME Inv, RestartIngest PROVE Inv'
<1>1. DbInv(db) /\ db' = Started(db) /\ slot' = Idle /\ up' = Idle
  BY DEF Inv, RestartIngest
<1>2. /\ DbInv(db') /\ SameFiles(db, db')
      /\ \A s \in Sources : db'.src[s] # "scanning"
      /\ \A h \in Rows(db) : db'.files[h].fp = None => db'.files[h].id \in JobKeys(db'.jobs)
  BY <1>1, StartedFacts
<1>3. Sound(db', Idle, Idle)
  <2>1. Scanned(db', Idle) /\ Remembered(db', Idle, Idle)
    BY <1>2 DEF Scanned, Remembered, SameFiles
  <2>2. Attributed(db', Idle) /\ Listed(db', Idle)
    BY Apart DEF Attributed, Listed
  <2> QED
    BY <2>1, <2>2 DEF Sound
<1>4. disk' \in [blob : [Hashes -> {"good", "bad", "none"}], link : [Hashes -> Paths \cup {None}]]
  BY DEF Inv, OtherTypes, RestartIngest, ReconcileOrphans
<1>5. OtherTypes'
  BY <1>4 DEF Inv, OtherTypes, RestartIngest
<1>6. LinkIsFree' /\ CondemnedIsDamaged'
  BY IdleRun DEF LinkIsFree, RestartIngest, Idle
<1>7. slot' \in SlotT /\ up' \in UpT
  BY <1>1 DEF SlotT, UpT
<1> QED
  BY <1>1, <1>2, <1>3, <1>5, <1>6, <1>7, Together

LEMMA NothingKeeps ==
  ASSUME Inv, UNCHANGED ingest PROVE Inv'
<1>1. OtherTypes' /\ CondemnedIsDamaged'
  BY SameRun DEF Inv, OtherTypes, ingest
<1> QED
  BY <1>1, Quiet DEF Inv, ingest

(***************************************************************************)
(* The theorems.                                                           *)
(***************************************************************************)
LEMMA IngestKeeps ==
  ASSUME Inv, IngestNext PROVE Inv'
<1>1. CASE Scan
  BY <1>1, StartRescanKeeps, ScanLookKeeps, ScanLinkKeeps, ScanInsertKeeps, ScanAttributeKeeps,
     ScanEnqueueKeeps, ScanEndKeeps DEF Scan
<1>2. CASE Withdraw
  BY <1>2, StartRemoveKeeps, RemoveDeleteKeeps, RemoveEndKeeps, RemoveUnlinkKeeps DEF Withdraw
<1>3. CASE Upload
  BY <1>3, UploadPutKeeps, UploadInsertKeeps, UploadEnqueueKeeps DEF Upload
<1>4. CASE ReclaimStorage
  BY <1>4, ReclaimStorageKeeps
<1>5. CASE Prune
  BY <1>5, ScanRunEndKeeps, StartPruneKeeps, PruneDeleteKeeps, PruneSweepKeeps, PruneEndKeeps,
     ScanProbeKeeps, PruneCheckKeeps DEF Prune
<1>6. CASE Work
  BY <1>6, WorkClaimKeeps, WorkAnalyzeKeeps, WorkFinishKeeps DEF Work
<1>7. CASE Request
  <2>1. CASE \E s \in Sources : AddSource(s) \/ AskRescan(s) \/ AskRemove(s)
    BY <2>1, AddSourceKeeps, AskRescanKeeps, AskRemoveKeeps
  <2>2. CASE \E h \in Hashes : UploadLook(h) \/ Purge(h) \/ Decay(h)
    BY <2>2, UploadLookKeeps, PurgeKeeps, DecayKeeps
  <2>3. CASE \E p \in Paths : Unmount(p) \/ Mount(p) \/ Replace(p)
    BY <2>3, UnmountKeeps, MountKeeps, ReplaceKeeps
  <2>4. CASE \E deep \in BOOLEAN : StartScan(deep)
    BY <2>4, StartScanKeeps
  <2>5. CASE AskPrune \/ Cancel
    BY <2>5, AskPruneKeeps, CancelKeeps
  <2> QED
    BY <1>7, <2>1, <2>2, <2>3, <2>4, <2>5 DEF Request
<1> QED
  BY <1>1, <1>2, <1>3, <1>4, <1>5, <1>6, <1>7 DEF IngestNext

LEMMA NextKeeps ==
  ASSUME Inv, [Next]_vars PROVE Inv'
<1>1. CASE UNCHANGED ingest
  BY <1>1, NothingKeeps
<1>2. CASE IngestNext
  BY <1>2, IngestKeeps
<1>3. CASE RestartIngest
  BY <1>3, RestartIngestKeeps
<1> QED
  BY <1>1, <1>2, <1>3 DEF Next, CrashAndRestart, vars

LEMMA LinkedFacts ==
  ASSUME NEW S \in SUBSET Sources
  PROVE  Linked(S) \subseteq Hashes
BY DEF Linked

\* A library at rest.
LEMMA InitHolds == Init => Inv
<1> SUFFICES ASSUME InitIngest PROVE Inv
  BY DEF Init
<1>1. PICK S \in SUBSET Sources, L \in SUBSET Hashes :
       \E ids \in [Linked(S) \cup L -> 1..Cardinality(Linked(S) \cup L)], target \in [Linked(S) -> Paths] :
         AtRest(S, L, ids, target)
  BY DEF InitIngest
<1> DEFINE all == Linked(S) \cup L
           c == Cardinality(all)
<1>2. PICK ids \in [all -> 1..c], target \in [Linked(S) -> Paths] : AtRest(S, L, ids, target)
  BY <1>1
<1>3. all \subseteq Hashes /\ IsFiniteSet(all) /\ c \in Nat
  <2>1. all \subseteq Hashes
    BY LinkedFacts
  <2>2. IsFiniteSet(all)
    BY <2>1, FS_Subset
  <2> HIDE DEF all
  <2> QED
    BY <2>1, <2>2, FS_CardinalityType
<1> HIDE DEF all, c
<1>4. \A h \in all : ids[h] \in Nat
  BY <1>2, <1>3
<1>5. ASSUME NEW h \in Hashes
      PROVE  /\ h \notin all => db.files[h] = None
             /\ h \in all => /\ db.files[h] \in File /\ db.files[h] # None
                             /\ db.files[h].id = ids[h] /\ db.files[h].fp = h
  <2>1. CASE h \notin all
    BY <1>2, <2>1 DEF AtRest
  <2>2. CASE h \in all
    <3>1. db.files[h] = [id |-> ids[h], at |-> IF h \in L THEN "local" ELSE "links", fp |-> h,
                         target |-> IF h \in L THEN None ELSE target[h],
                         by |-> {s \in S : \E p \in Roots[s] : Original[p] = h}]
      BY <1>2, <2>2 DEF AtRest
    <3>2. h \notin L => target[h] \in Paths
      BY <1>2, <2>2 DEF all
    <3>3. {s \in S : \E p \in Roots[s] : Original[p] = h} \subseteq Sources
      OBVIOUS
    <3>4. db.files[h] \in File
      BY <1>4, <2>2, <3>1, <3>2, <3>3 DEF File
    <3>5. db.files[h].id = ids[h] /\ db.files[h].fp = h
      BY <3>1
    <3>6. db.files[h] # None
      BY <3>4
    <3> QED
      BY <2>2, <3>4, <3>5, <3>6
  <2> QED
    BY <2>1, <2>2
<1>6. Rows(db) = all
  BY <1>3, <1>5 DEF Rows
<1> DEFINE job(i) == [id |-> i, key |-> i, status |-> "done", tries |-> 0]
<1>7. db.jobs = {job(i) : i \in Range(ids)}
  BY <1>2 DEF AtRest
<1>8. Range(ids) \subseteq Nat /\ IsFiniteSet(Range(ids))
  <2>1. Range(ids) \subseteq 1..c
    BY <1>2 DEF Range
  <2>2. IsFiniteSet(1..c)
    BY <1>3, FS_Interval
  <2>3. 1..c \subseteq Nat
    BY <1>3
  <2> QED
    BY <2>1, <2>2, <2>3, FS_Subset
<1>9. Queue(db.jobs, Nat)
  <2> DEFINE f == [i \in Range(ids) |-> job(i)]
  <2>1. f = [i \in Range(ids) |-> f[i]] /\ DOMAIN f = Range(ids) /\ db.jobs = {f[i] : i \in Range(ids)}
    BY <1>7
  <2>2. IsFiniteSet(db.jobs)
    <3> HIDE DEF f
    <3> QED
      BY <1>8, <2>1, FiniteImage
  <2>3. \A i \in Range(ids) : job(i) \in Job(Nat, Nat)
    BY <1>8, JobsAssumption DEF Job
  <2> HIDE DEF f
  <2> QED
    BY <1>7, <2>2, <2>3 DEF Queue
<1>10. Keyed(db)
  <2>1. \A h, g \in Rows(db) : db.files[h].id = db.files[g].id => h = g
    BY <1>2, <1>3, <1>5, <1>6 DEF AtRest, IsInjective
  <2>2. ASSUME NEW j \in db.jobs PROVE WithId(db, j.key) # {}
    <3>1. PICK i \in Range(ids) : j = job(i)
      BY <1>7
    <3>2. PICK h \in all : ids[h] = i
      BY <1>2 DEF Range
    <3> QED
      BY <1>3, <1>5, <1>6, <3>1, <3>2 DEF WithId
  <2> QED
    BY <2>1, <2>2 DEF Keyed
<1>11. db \in Db
  <2>1. db.files \in [Hashes -> File \cup {None}]
    <3>1. db.files = [h \in Hashes |-> db.files[h]]
      BY <1>2 DEF AtRest
    <3> QED
      BY <1>5, <3>1
  <2>2. db.src \in [Sources -> {"none", "scanning", "active", "error"}]
    BY <1>2 DEF AtRest
  <2>3. db.jobs \in SUBSET Job(Nat, Nat)
    BY <1>9 DEF Queue
  <2>4. db = [src |-> db.src, jobs |-> db.jobs, files |-> db.files]
    BY <1>2 DEF AtRest
  <2> QED
    BY <2>1, <2>2, <2>3, <2>4 DEF Db
<1>12. disk \in [blob : [Hashes -> {"good", "bad", "none"}], link : [Hashes -> Paths \cup {None}]]
  BY <1>2 DEF AtRest
<1>13. outside \in [Paths -> Hashes \cup {None}]
  BY DEF InitIngest
<1>14. held \in {None} \cup Held
  <2>1. \A h \in Live : Ref(h) \in Ref0
    <3>1. \A h \in Rows(db) : h \in Hashes /\ db.files[h] \in File
      BY <1>11, RowsAreFiles
    <3> QED
      BY <3>1 DEF Ref, Ref0, File, Live
  <2> DEFINE refs == {Ref(h) : h \in {g \in Live : Damaged(Ref(g), FALSE)}}
  <2>2. refs \in SUBSET Ref0
    BY <2>1
  <2>3. held \in {None, [deep |-> FALSE, refs |-> refs]}
    BY DEF InitIngest
  <2> HIDE DEF refs
  <2>4. [deep |-> FALSE, refs |-> refs] \in Held
    BY <2>2 DEF Held
  <2> QED
    BY <2>3, <2>4
<1>15. OtherTypes
  BY <1>12, <1>13, <1>14 DEF OtherTypes, InitIngest
<1>16. slot = Idle /\ up = Idle /\ pr = Idle
  BY DEF InitIngest
<1>17. Sound(db, Idle, Idle)
  <2>1. Scanned(db, Idle)
    BY <1>2 DEF AtRest, Scanned
  <2>2. Remembered(db, Idle, Idle)
    BY <1>3, <1>5, <1>6 DEF Remembered
  <2>3. Attributed(db, Idle) /\ Listed(db, Idle)
    BY Apart DEF Attributed, Listed
  <2> QED
    BY <2>1, <2>2, <2>3 DEF Sound
<1>18. slot \in SlotT /\ up \in UpT /\ LinkIsFree /\ CondemnedIsDamaged
  BY <1>16 DEF SlotT, UpT, LinkIsFree, CondemnedIsDamaged, Idle
<1> QED
  BY <1>9, <1>10, <1>11, <1>15, <1>16, <1>17, <1>18 DEF Inv, DbInv

LEMMA InvHolds == Spec => []Inv
BY InitHolds, NextKeeps, PTL DEF Spec

(* The inductive invariant of the files: what a scan, a removal and a      *)
(* prune run have in hand agrees with the tables and the disk, whatever    *)
(* the others did since they took it.                                      *)
THEOREM FilesInvHolds == Spec => []FilesInv
BY InvHolds, InvIsFilesInv, PTL

(* No file and no source is left behind, whatever the requests and the     *)
(* background processes do and whenever the process dies: every row, queue *)
(* and process has its shape, ids are never shared, no source says it is   *)
(* scanning without being scanned (ResetStaleScans, the slot), and a row   *)
(* without a fingerprint has a job or is about to get one                  *)
(* (BackfillAnalysis, EnqueueAnalysis).                                    *)
THEOREM FilesHold == Spec => []FilesAreKept
<1>1. FilesInv /\ CoversInv => FilesAreKept
  BY DEF FilesInv, CoversInv, FilesAreKept, TypeOK
<1> QED
  BY <1>1, FilesInvHolds, CoversInvHolds, PTL

(***************************************************************************)
(* What steps do.                                                          *)
(***************************************************************************)
LEMMA CrashesCount == Spec => [](crashes \in Nat)
<1>1. Init => crashes \in Nat
  BY DEF Init
<1>2. crashes \in Nat /\ [Next]_vars => (crashes \in Nat)'
  BY DEF Next, CrashAndRestart, vars
<1> QED
  BY <1>1, <1>2, PTL DEF Spec

\* The list of a removal is empty when it ends.
LEMMA RemovalEndsEmpty ==
  ASSUME crashes \in Nat, [Next]_vars, slot.pc = "unlink", slot' = Idle, crashes' = crashes
  PROVE  slot.left = {}
<1>1. slot # Idle /\ slot' # slot
  BY DEF Idle
<1>2. ~CrashAndRestart
  BY DEF CrashAndRestart
<1>3. IngestNext
  BY <1>1, <1>2 DEF Next, vars, ingest
<1>4. ~Scan
  BY <1>1 DEF Scan, StartRescan, ScanLook, ScanLink, ScanInsert, ScanAttribute, ScanEnqueue, ScanEnd
<1>5. ~(Upload \/ ReclaimStorage \/ Prune \/ Work)
  BY <1>1 DEF Upload, UploadPut, UploadInsert, UploadEnqueue, ReclaimStorage, Prune, ScanRunEnd, StartPrune,
              PruneDelete, PruneSweep, PruneEnd, ScanProbe, PruneCheck, Work, WorkClaim, WorkAnalyze, WorkFinish
<1>6. ~Request
  BY <1>1 DEF Request, AddSource, AskRescan, AskRemove, UploadLook, Purge, Decay, Unmount, Mount, Replace,
              StartScan, AskPrune, Cancel
<1>7. ASSUME NEW ref, RemoveUnlink(ref) PROVE FALSE
  BY <1>7 DEF RemoveUnlink, Unlinking, Idle
<1>8. CASE RemoveEnd
  BY <1>8 DEF RemoveEnd
<1>9. ~(StartRemove \/ RemoveDelete)
  BY <1>1 DEF StartRemove, RemoveDelete
<1> QED
  BY <1>3, <1>4, <1>5, <1>6, <1>7, <1>8, <1>9 DEF IngestNext, Withdraw

LEMMA ScanStep ==
  ASSUME Inv, slot.pc = "walk", Known(db, slot.src)
  PROVE  \A h \in slot.seen \cap Live : db.files[h].at = "links" => slot.src \in db.files[h].by
<1>1. slot \in Scanning /\ Attributed(db, slot)
  BY SlotPlaces DEF Inv, Sound
<1> QED
  BY <1>1 DEF Attributed, Holding, Live

LEMMA RemovalStep ==
  ASSUME Inv, crashes \in Nat, [Next]_vars
  PROVE  /\ slot.pc = "delete" /\ slot.hash \in Live => db.files[slot.hash].by \subseteq {slot.src}
         /\ slot.pc = "unlink" /\ slot' = Idle /\ crashes' = crashes
              => \A h \in Live : db.files[h].by = {slot.src} => db.files[h].at = "local"
<1>1. Listed(db, slot) /\ slot \in SlotT /\ DbInv(db)
  BY DEF Inv, Sound
<1>2. slot.pc \in {"unlink", "delete"} => slot \in Removing
  BY <1>1, SlotPlaces
<1>3. ASSUME slot.pc = "unlink", slot' = Idle, crashes' = crashes, NEW h \in Live, db.files[h].by = {slot.src}
      PROVE  db.files[h].at = "local"
  <2>1. slot.left = {}
    BY <1>3, RemovalEndsEmpty
  <2>2. db.files[h].at # "links"
    BY <1>1, <1>2, <1>3, <2>1 DEF Listed, Live
  <2>3. db.files[h].at \in {"links", "local"}
    BY <1>1, RowsAreFiles DEF DbInv, File, Live
  <2> QED
    BY <2>2, <2>3
<1>4. slot.pc = "delete" /\ slot.hash \in Live => db.files[slot.hash].by \subseteq {slot.src}
  BY <1>1, <1>2 DEF Listed, Live
<1> QED
  BY <1>3, <1>4

\* Only the claim of a row goes from claim to enqueue.
LEMMA FillStep ==
  ASSUME CoversInv, [Next]_vars, NEW w \in Writers, writer[w].pc = "claim", writer[w].as = "fill",
         writer'[w].pc = "enqueue"
  PROVE  cover[writer[w].album] = NoCover
<1>1. DOMAIN writer = Writers
  BY DEF CoversInv, CoverTypes
<1>2. ~RestartCovers
  BY DEF RestartCovers, Idle
<1>3. CoversNext
  BY <1>2 DEF Next, CrashAndRestart, vars, covers
<1>4. ~Deriving
  BY DEF Deriving, ClaimImageJob, Generate, FinishImageJob
<1>5. ~CoverRequest
  <2>1. ASSUME NEW v \in Writers, NEW a, NEW i, NEW as, Write(v, a, i, as) PROVE v = w
    BY <1>1, <2>1 DEF Write
  <2>2. \A a, i : ~FillCover(w, a, i) /\ \A as : ~UploadAlbumImage(w, a, i, as)
    BY DEF FillCover, UploadAlbumImage, Idle
  <2>3. ASSUME NEW v \in Writers, NEW a, NEW i, FillCover(v, a, i) PROVE FALSE
    BY <2>1, <2>2, <2>3 DEF FillCover
  <2>4. ASSUME NEW v \in Writers, NEW a, NEW i, NEW as, UploadAlbumImage(v, a, i, as) PROVE FALSE
    <3>1. Write(v, a, i, as)
      BY <2>4 DEF UploadAlbumImage
    <3>2. v = w
      BY <2>1, <3>1
    <3>3. writer[v] = Idle
      BY <2>4 DEF UploadAlbumImage
    <3> QED
      BY <3>2, <3>3 DEF Idle
  <2>5. \A a, b : ~MergeAlbums(a, b)
    BY DEF MergeAlbums
  <2> QED
    BY <2>3, <2>4, <2>5 DEF CoverRequest
<1>6. PICK v \in Writers : WriteOriginal(v) \/ ClaimRow(v) \/ EnqueueImageJob(v)
  BY <1>3, <1>4, <1>5 DEF CoversNext, Writing
<1>7. v = w
  BY <1>1, <1>6 DEF WriteOriginal, ClaimRow, EnqueueImageJob, Step, Stop
<1>8. ClaimRow(w)
  BY <1>1, <1>6, <1>7 DEF WriteOriginal, EnqueueImageJob, Step, Stop
<1>9. Claims(w)
  <2>1. ASSUME ~Claims(w) PROVE FALSE
    <3>1. writer' = [writer EXCEPT ![w] = Idle]
      BY <1>8, <2>1 DEF ClaimRow, Stop
    <3>2. writer'[w] = Idle
      BY <1>1, <3>1
    <3> QED
      BY <3>2 DEF Idle
  <2> QED
    BY <2>1
<1> QED
  BY <1>9 DEF Claims

(* A step acts on what is there, not on what was there when it was asked   *)
(* for (Background!StepsAreCurrent): a scan that ends has attributed what  *)
(* it read, a removal deletes only and all of what its source alone        *)
(* references, a prune deletes what is damaged still, and art that is      *)
(* filled in takes nobody's place.                                         *)
THEOREM StepsHold == Spec => StepsAreCurrent
<1>1. Inv /\ crashes \in Nat /\ CoversInv /\ [Next]_vars =>
        [slot.pc = "walk" /\ slot' = Idle /\ Known(db, slot.src) /\ crashes' = crashes
         => \A h \in slot.seen \cap Live :
              db.files[h].at = "links" => slot.src \in db.files[h].by]_<<slot, crashes>>
  BY ScanStep
<1>2. Inv /\ crashes \in Nat /\ CoversInv /\ [Next]_vars =>
        [/\ slot.pc = "delete" /\ slot.hash \in Live /\ db'.files[slot.hash] = None /\ slot' # slot
             => db.files[slot.hash].by \subseteq {slot.src}
         /\ slot.pc = "unlink" /\ slot' = Idle /\ crashes' = crashes
             => \A h \in Live : db.files[h].by = {slot.src} => db.files[h].at = "local"]_<<slot, crashes>>
  BY RemovalStep
<1>3. Inv /\ crashes \in Nat /\ CoversInv /\ [Next]_vars =>
        [pr.pc = "delete" /\ pr'.pc = "sweep" /\ pr.ref.hash \in Live /\ pr.ref = Ref(pr.ref.hash) /\ ~pr.gap
         => Damaged(pr.ref, pr.deep)]_<<pr, crashes>>
  BY DEF Inv, CondemnedIsDamaged
<1>4. Inv /\ crashes \in Nat /\ CoversInv /\ [Next]_vars =>
        [\A w \in Writers : writer[w].pc = "claim" /\ writer[w].as = "fill" /\ writer'[w].pc = "enqueue"
         => cover[writer[w].album] = NoCover]_<<writer>>
  BY FillStep
<1>5. Spec => ScanAttributesAll
  BY <1>1, InvHolds, CrashesCount, CoversInvHolds, PTL DEF Spec, ScanAttributesAll
<1>6. Spec => RemovalIsExact
  BY <1>2, InvHolds, CrashesCount, CoversInvHolds, PTL DEF Spec, RemovalIsExact
<1>7. Spec => HealedStays
  BY <1>3, InvHolds, CrashesCount, CoversInvHolds, PTL DEF Spec, HealedStays
<1>8. Spec => ExplicitBeatsFilled
  BY <1>4, InvHolds, CrashesCount, CoversInvHolds, PTL DEF Spec, ExplicitBeatsFilled
<1> QED
  BY <1>5, <1>6, <1>7, <1>8 DEF StepsAreCurrent
=============================================================================
