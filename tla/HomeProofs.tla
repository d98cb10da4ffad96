----------------------------- MODULE HomeProofs ------------------------------
(***************************************************************************)
(* What holds of the library, the download cache and the playlists of an   *)
(* instance, whatever their number of rows, blobs, tracks, users, requests *)
(* and keepers.                                                            *)
(***************************************************************************)
EXTENDS Home, FiniteSetTheorems, WellFoundedInduction, TLAPS

\* A nonempty set of naturals below a bound has a least element.
LEMMA LeastElement ==
  ASSUME NEW n \in Nat, NEW T, T \subseteq 0 .. n, T # {}
  PROVE  \E m \in T : \A k \in T : m <= k
<1> DEFINE Below == {0 .. m : m \in T}
<1>1. IsFiniteSet(0 .. n)
  BY FS_Interval
<1>2. Below \subseteq FiniteSubsetsOf(0 .. n)
  <2> SUFFICES ASSUME NEW m \in T PROVE 0 .. m \in FiniteSubsetsOf(0 .. n)
    OBVIOUS
  <2>1. m \in Nat /\ 0 .. m \subseteq 0 .. n
    OBVIOUS
  <2>2. IsFiniteSet(0 .. m)
    BY <2>1, FS_Interval
  <2> QED
    BY <2>1, <2>2 DEF FiniteSubsetsOf
<1>3. IsWellFoundedOn(StrictSubsetOrdering(0 .. n), FiniteSubsetsOf(0 .. n))
  BY <1>1, FS_StrictSubsetOrderingWellFounded
<1>4. PICK B \in Below : \A C \in Below : ~(<<C, B>> \in StrictSubsetOrdering(0 .. n))
  <2> HIDE DEF Below
  <2>1. Below # {}
    BY DEF Below
  <2> QED
    BY <1>2, <1>3, <2>1, WFMin
<1>5. PICK m \in T : B = 0 .. m
  OBVIOUS
<1>6. ASSUME NEW k \in T, ~(m <= k) PROVE FALSE
  <2>1. m \in Nat /\ k \in Nat /\ k < m
    BY <1>6
  <2>2. 0 .. k \subseteq 0 .. m /\ m \notin 0 .. k /\ m \in 0 .. m
    BY <2>1
  <2>3. 0 .. k \in SUBSET (0 .. n) /\ 0 .. m \in SUBSET (0 .. n)
    BY <2>1
  <2>4. <<0 .. k, 0 .. m>> \in StrictSubsetOrdering(0 .. n)
    BY <2>2, <2>3 DEF StrictSubsetOrdering
  <2> QED
    BY <1>4, <1>5, <2>4
<1> QED
  BY <1>6

(***************************************************************************)
(* The cache.  A row is dropped for a blob its keeper has condemned, and a *)
(* condemned blob is not in the directory, unless it landed after the      *)
(* keeper's look.  A read that is to move a clock leaves a write behind    *)
(* until the clock has moved that far.                                     *)
(***************************************************************************)
Clock == Nat \cup {NoRow}
RunFields == {"pc", "does", "seen", "list", "left", "over", "at"}

Steady(r) ==
  /\ DOMAIN r = RunFields /\ r.seen \subseteq Blobs /\ r.left \subseteq Blobs
  /\ r.pc = "read" => r.does \in {"forget", "rescan"}
  /\ r.pc = "gone" => r.does \in {"page", "unlink"} /\ r.at \in Blobs
  /\ r.pc = "evicted" => r.at \in Blobs
  /\ r.pc \in {"page", "unlink"} => r.does = r.pc

CacheTypes ==
  /\ dir \subseteq Blobs /\ fetching \subseteq Blobs
  /\ row \in [Blobs -> Clock] /\ asked \in [Blobs -> Clock]
  /\ indexer \in [Blobs -> [pc : {"no", "look", "put"}, at : Nat]]
  /\ writing \subseteq Blobs \X Nat /\ tick \in Nat
  /\ DOMAIN keeper = Keepers
  /\ \A k \in Keepers : Steady(keeper[k])

Warned == \A k \in Keepers : Condemned(keeper[k]) \cap dir \subseteq raced

MovesSoon(h) == \E at \in Nat : <<h, at>> \in writing /\ asked[h] <= at
Current == \A h \in Blobs : asked[h] # NoRow => row[h] # NoRow /\ (row[h] >= asked[h] \/ MovesSoon(h))

CacheInv == CacheTypes /\ Warned /\ Counted /\ Current

(* A step of a keeper changes its own run alone, takes blobs away at most, *)
(* and drops the rows of condemned blobs unless it reconciles.             *)
KeepsSteady(k) ==
  /\ keeper' = [keeper EXCEPT ![k] = keeper'[k]]
  /\ Steady(keeper'[k]) /\ Condemned(keeper'[k]) \cap dir' \subseteq raced
  /\ dir' \subseteq dir /\ UNCHANGED <<fetching, indexer, writing, tick, raced>>
KeepsRows(k) ==
  \/ UNCHANGED <<row, asked>>
  \/ \E S \in SUBSET Condemned(keeper[k]) : DropRows(S)
  \/ Reconcile(k)

LEMMA SweepSteps ==
  ASSUME CacheInv, NEW k \in Keepers,
         Sweep(k) \/ SweepCacheAge(k) \/ Measure(k) \/ SweepCacheCeiling(k) \/ EvictRow(k) \/ EvictEnd(k)
           \/ \E h \in Blobs : EvictFile(k, h)
  PROVE  KeepsSteady(k) /\ KeepsRows(k)
<1>a. Steady(keeper[k]) /\ Condemned(keeper[k]) \cap dir \subseteq raced /\ DOMAIN keeper = Keepers
  BY DEF CacheInv, CacheTypes, Warned
<1>1. CASE Sweep(k)
  <2>1. keeper' = [keeper EXCEPT ![k] = keeper'[k]] /\ DOMAIN keeper'[k] = RunFields
        /\ keeper'[k].pc = "age" /\ keeper'[k].seen = fetching /\ keeper'[k].left = {}
    BY <1>1, <1>a DEF Sweep, Begin, With, Resting, RunFields
  <2>2. fetching \subseteq Blobs
    BY DEF CacheInv, CacheTypes
  <2> QED
    BY <1>1, <2>1, <2>2 DEF KeepsSteady, KeepsRows, Sweep, Looks, Others, Steady, Condemned
<1>2. CASE SweepCacheAge(k)
  <2>1. keeper' = [keeper EXCEPT ![k] = keeper'[k]] /\ DOMAIN keeper'[k] = RunFields
        /\ keeper'[k].pc = "evict" /\ keeper'[k].seen = keeper[k].seen /\ keeper'[k].left \subseteq Blobs
    BY <1>2, <1>a DEF SweepCacheAge, Go, With, Steady, RunFields, Rowed
  <2> QED
    BY <1>2, <1>a, <2>1 DEF KeepsSteady, KeepsRows, SweepCacheAge, Looks, Others, Steady, Condemned
<1>3. CASE Measure(k)
  <2>1. CASE keeper'[k] = Resting /\ keeper' = [keeper EXCEPT ![k] = keeper'[k]]
    BY <1>3, <1>a, <2>1 DEF KeepsSteady, KeepsRows, Measure, Looks, Others, Steady, Condemned, Resting, RunFields
  <2>2. CASE \E live \in {keeper[k].seen, fetching} :
               Go(k, [pc |-> "ceiling", does |-> "ceiling", seen |-> live, over |-> Over])
    <3>1. fetching \subseteq Blobs
      BY DEF CacheInv, CacheTypes
    <3>2. keeper' = [keeper EXCEPT ![k] = keeper'[k]] /\ DOMAIN keeper'[k] = RunFields
          /\ keeper'[k].pc = "ceiling" /\ keeper'[k].seen \subseteq Blobs /\ keeper'[k].left = keeper[k].left
      BY <2>2, <3>1, <1>a DEF Go, With, Steady, RunFields
    <3> QED
      BY <1>3, <1>a, <3>2 DEF KeepsSteady, KeepsRows, Measure, Looks, Others, Steady, Condemned
  <2> QED
    BY <1>3, <1>a, <2>1, <2>2 DEF Measure, End
<1>4. CASE SweepCacheCeiling(k)
  <2>1. keeper' = [keeper EXCEPT ![k] = keeper'[k]] /\ DOMAIN keeper'[k] = RunFields
        /\ keeper'[k].pc = "evict" /\ keeper'[k].seen = keeper[k].seen /\ keeper'[k].left \subseteq Blobs
    BY <1>4, <1>a DEF SweepCacheCeiling, Go, With, Steady, RunFields, Rowed
  <2> QED
    BY <1>4, <1>a, <2>1 DEF KeepsSteady, KeepsRows, SweepCacheCeiling, Looks, Others, Steady, Condemned
<1>5. CASE EvictRow(k)
  <2>1. keeper' = [keeper EXCEPT ![k] = keeper'[k]] /\ DOMAIN keeper'[k] = RunFields
        /\ keeper'[k].pc = "evict" /\ keeper'[k].seen = keeper[k].seen /\ keeper'[k].left = keeper[k].left
    BY <1>5, <1>a DEF EvictRow, Go, With, Steady, RunFields
  <2>2. {keeper[k].at} \in SUBSET Condemned(keeper[k])
    BY <1>5 DEF EvictRow, At, Condemned
  <2>3. KeepsRows(k)
    BY <1>5, <2>2 DEF KeepsRows, EvictRow
  <2> QED
    BY <1>5, <1>a, <2>1, <2>3 DEF KeepsSteady, EvictRow, Indexes, Others, Steady, Condemned
<1>6. CASE EvictEnd(k)
  <2>1. CASE keeper'[k] = Resting /\ keeper' = [keeper EXCEPT ![k] = keeper'[k]]
    BY <1>6, <1>a, <2>1 DEF KeepsSteady, KeepsRows, EvictEnd, Looks, Others, Steady, Condemned, Resting, RunFields
  <2>2. CASE Go(k, [pc |-> "measure", list |-> NoRows, left |-> {}, over |-> 0])
    <3>1. keeper' = [keeper EXCEPT ![k] = keeper'[k]] /\ DOMAIN keeper'[k] = RunFields
          /\ keeper'[k].pc = "measure" /\ keeper'[k].seen = keeper[k].seen /\ keeper'[k].left = {}
      BY <2>2, <1>a DEF Go, With, Steady, RunFields
    <3> QED
      BY <1>6, <1>a, <3>1 DEF KeepsSteady, KeepsRows, EvictEnd, Looks, Others, Steady, Condemned
  <2> QED
    BY <1>6, <1>a, <2>1, <2>2 DEF EvictEnd, End
<1>7. ASSUME NEW h \in Blobs, EvictFile(k, h)
      PROVE  KeepsSteady(k) /\ KeepsRows(k)
  <2>1. CASE Go(k, [left |-> Left(k) \ {h}]) /\ UNCHANGED dir
    <3>1. keeper' = [keeper EXCEPT ![k] = keeper'[k]] /\ DOMAIN keeper'[k] = RunFields
          /\ keeper'[k].pc = "evict" /\ keeper'[k].seen = keeper[k].seen /\ keeper'[k].left \subseteq Blobs
      BY <1>7, <2>1, <1>a DEF EvictFile, At, Left, Go, With, Steady, RunFields
    <3> QED
      BY <1>7, <1>a, <2>1, <3>1 DEF KeepsSteady, KeepsRows, EvictFile, Others, Steady, Condemned
  <2>2. CASE /\ dir' = dir \ {h}
             /\ Go(k, [pc |-> "evicted", at |-> h, left |-> Left(k) \ {h}, over |-> keeper[k].over - 1])
    <3>1. keeper' = [keeper EXCEPT ![k] = keeper'[k]] /\ DOMAIN keeper'[k] = RunFields /\ keeper'[k].at = h
          /\ keeper'[k].pc = "evicted" /\ keeper'[k].seen = keeper[k].seen /\ keeper'[k].left \subseteq Blobs
      BY <2>2, <1>a DEF Left, Go, With, Steady, RunFields
    <3> QED
      BY <1>7, <1>a, <2>2, <3>1 DEF KeepsSteady, KeepsRows, EvictFile, Others, Steady, Condemned
  <2> QED
    BY <1>7, <2>1, <2>2 DEF EvictFile
<1> QED
  BY <1>1, <1>2, <1>3, <1>4, <1>5, <1>6, <1>7

LEMMA TidySteps ==
  ASSUME CacheInv, NEW k \in Keepers,
         \/ \E does \in {"forget", "rescan"} : ReadDir(k, does)
         \/ ReadIndex(k) \/ Reconcile(k) \/ DropCacheIndex(k) \/ Done(k)
         \/ \E S \in {Rowed} \cup {{h} : h \in Blobs} : Page(k, S) \/ RemoveCached(k, S)
         \/ \E h \in Blobs : Forget(k, h) \/ Stat(k, h) \/ Materialize(k, h) \/ Unlink(k, h)
  PROVE  KeepsSteady(k) /\ KeepsRows(k)
<1>a. Steady(keeper[k]) /\ Condemned(keeper[k]) \cap dir \subseteq raced /\ DOMAIN keeper = Keepers
      /\ dir \subseteq Blobs
  BY DEF CacheInv, CacheTypes, Warned
<1>1. ASSUME NEW does \in {"forget", "rescan"}, ReadDir(k, does)
      PROVE  KeepsSteady(k) /\ KeepsRows(k)
  <2>1. keeper' = [keeper EXCEPT ![k] = keeper'[k]] /\ DOMAIN keeper'[k] = RunFields
        /\ keeper'[k].pc = "read" /\ keeper'[k].seen = dir /\ keeper'[k].left = {} /\ keeper'[k].does = does
    BY <1>1, <1>a DEF ReadDir, Begin, With, Resting, RunFields
  <2> QED
    BY <1>1, <1>a, <2>1 DEF KeepsSteady, KeepsRows, ReadDir, Looks, Others, Steady, Condemned
<1>2. CASE ReadIndex(k)
  <2>1. keeper' = [keeper EXCEPT ![k] = keeper'[k]] /\ DOMAIN keeper'[k] = RunFields
        /\ keeper'[k].pc \in {"forget", "rescan"} /\ keeper'[k].seen = keeper[k].seen
        /\ keeper'[k].left \subseteq Blobs \ keeper[k].seen
    BY <1>2, <1>a DEF ReadIndex, At, Go, With, Steady, RunFields, Rowed
  <2>2. Condemned(keeper[k]) = Blobs \ keeper[k].seen
    BY <1>2 DEF ReadIndex, At, Condemned
  <2>3. Condemned(keeper'[k]) \subseteq Condemned(keeper[k])
    BY <2>1, <2>2 DEF Condemned
  <2> QED
    BY <1>2, <1>a, <2>1, <2>3 DEF KeepsSteady, KeepsRows, ReadIndex, Looks, Others, Steady
<1>3. ASSUME keeper'[k] = Resting /\ keeper' = [keeper EXCEPT ![k] = keeper'[k]], Others, UNCHANGED dir
      PROVE  KeepsSteady(k)
  BY <1>3 DEF KeepsSteady, Others, Steady, Condemned, Resting, RunFields
<1>4. CASE Reconcile(k)
  BY <1>4, <1>3, <1>a DEF KeepsRows, Reconcile, Indexes, End
<1>5. CASE DropCacheIndex(k)
  <2>1. keeper' = [keeper EXCEPT ![k] = keeper'[k]] /\ DOMAIN keeper'[k] = RunFields
        /\ keeper'[k].pc = keeper[k].does /\ keeper'[k].seen = keeper[k].seen /\ keeper'[k].left = keeper[k].left
        /\ keeper'[k].does = keeper[k].does /\ keeper[k].does \in {"page", "unlink"}
    BY <1>5, <1>a DEF DropCacheIndex, At, Go, With, Steady, RunFields
  <2>2. {keeper[k].at} \in SUBSET Condemned(keeper[k])
    BY <1>5 DEF DropCacheIndex, At, Condemned
  <2>3. KeepsRows(k)
    BY <1>5, <2>2 DEF KeepsRows, DropCacheIndex
  <2> QED
    BY <1>5, <1>a, <2>1, <2>3 DEF KeepsSteady, DropCacheIndex, Indexes, Others, Steady, Condemned
<1>6. CASE Done(k)
  BY <1>6, <1>3, <1>a DEF KeepsRows, Done, Looks, End
<1>7. ASSUME NEW S \in {Rowed} \cup {{h} : h \in Blobs}, Page(k, S) \/ RemoveCached(k, S)
      PROVE  KeepsSteady(k) /\ KeepsRows(k)
  <2>1. S \subseteq Blobs
    BY DEF Rowed
  <2>2. keeper' = [keeper EXCEPT ![k] = keeper'[k]] /\ DOMAIN keeper'[k] = RunFields
        /\ keeper'[k].pc \in {"page", "unlink"} /\ keeper'[k].seen = {} /\ keeper'[k].left = S
        /\ keeper'[k].does = keeper'[k].pc
    BY <1>7, <1>a DEF Page, RemoveCached, Begin, With, Resting, RunFields
  <2> QED
    BY <1>7, <1>a, <2>1, <2>2 DEF KeepsSteady, KeepsRows, Page, RemoveCached, Looks, Others, Steady, Condemned
<1>8. ASSUME NEW h \in Blobs, Forget(k, h)
      PROVE  KeepsSteady(k) /\ KeepsRows(k)
  <2>1. keeper' = [keeper EXCEPT ![k] = keeper'[k]] /\ DOMAIN keeper'[k] = RunFields
        /\ keeper'[k].pc = "forget" /\ keeper'[k].seen = keeper[k].seen /\ keeper'[k].left = keeper[k].left \ {h}
    BY <1>8, <1>a DEF Forget, At, Left, Go, With, Steady, RunFields
  <2>2. Condemned(keeper[k]) = keeper[k].left /\ {h} \in SUBSET Condemned(keeper[k])
    BY <1>8 DEF Forget, At, Left, Condemned
  <2>3. KeepsRows(k)
    BY <1>8, <2>2 DEF KeepsRows, Forget
  <2>4. Condemned(keeper'[k]) \subseteq Condemned(keeper[k])
    BY <2>1, <2>2 DEF Condemned
  <2> QED
    BY <1>8, <1>a, <2>1, <2>3, <2>4 DEF KeepsSteady, Forget, Indexes, Others, Steady
<1>9. ASSUME NEW h \in Blobs, Stat(k, h) \/ Unlink(k, h)
      PROVE  KeepsSteady(k) /\ KeepsRows(k)
  <2>1. CASE Go(k, [left |-> Left(k) \ {h}]) /\ Stat(k, h)
    <3>1. keeper' = [keeper EXCEPT ![k] = keeper'[k]] /\ DOMAIN keeper'[k] = RunFields
          /\ keeper'[k].pc = "page" /\ keeper'[k].does = "page"
          /\ keeper'[k].seen = keeper[k].seen /\ keeper'[k].left \subseteq Blobs
      BY <2>1, <1>a DEF Stat, At, Left, Go, With, Steady, RunFields
    <3> QED
      BY <1>a, <2>1, <3>1 DEF KeepsSteady, KeepsRows, Stat, Looks, Others, Steady, Condemned
  <2>2. CASE Go(k, [pc |-> "gone", at |-> h, left |-> Left(k) \ {h}]) /\ h \notin dir'
    <3>1. keeper' = [keeper EXCEPT ![k] = keeper'[k]] /\ DOMAIN keeper'[k] = RunFields
          /\ keeper'[k].pc = "gone" /\ keeper'[k].does \in {"page", "unlink"} /\ keeper'[k].at = h
          /\ keeper'[k].seen = keeper[k].seen /\ keeper'[k].left \subseteq Blobs
      BY <1>9, <2>2, <1>a DEF Stat, Unlink, At, Left, Go, With, Steady, RunFields
    <3> QED
      BY <1>9, <1>a, <2>2, <3>1 DEF KeepsSteady, KeepsRows, Stat, Unlink, Looks, Others, Steady, Condemned
  <2> QED
    BY <1>9, <2>1, <2>2 DEF Stat, Unlink, Looks
<1>10. ASSUME NEW h \in Blobs, Materialize(k, h)
       PROVE  KeepsSteady(k) /\ KeepsRows(k)
  <2>1. keeper' = [keeper EXCEPT ![k] = keeper'[k]] /\ DOMAIN keeper'[k] = RunFields
        /\ keeper'[k].pc = "unlink" /\ keeper'[k].does = "unlink" /\ keeper'[k].seen = {} /\ keeper'[k].left = {h}
    BY <1>10, <1>a DEF Materialize, Begin, With, Resting, RunFields
  <2> QED
    BY <1>10, <1>a, <2>1 DEF KeepsSteady, KeepsRows, Materialize, Steady, Condemned
<1> QED
  BY <1>1, <1>2, <1>4, <1>5, <1>6, <1>7, <1>8, <1>9, <1>10

(* The steps that are no keeper's, and a start.                            *)
LEMMA KeepIsOneOf ==
  ASSUME CacheInv, NEW k \in Keepers, Keep(k)
  PROVE  KeepsSteady(k) /\ KeepsRows(k)
BY SweepSteps, TidySteps DEF Keep

(* What the rows keep true is kept by any keeper.                          *)
LEMMA KeeperStep ==
  ASSUME CacheInv, NEW k \in Keepers, Keep(k)
  PROVE  CacheInv'
<1>a. CacheTypes /\ Warned /\ Counted /\ Current
  BY DEF CacheInv
<1>b. KeepsSteady(k) /\ KeepsRows(k)
  BY KeepIsOneOf
<1>c. /\ Steady(keeper'[k]) /\ Condemned(keeper'[k]) \cap dir' \subseteq raced /\ dir' \subseteq dir
      /\ UNCHANGED <<fetching, indexer, writing, tick, raced>>
      /\ DOMAIN keeper' = Keepers /\ \A j \in Keepers : j # k => keeper'[j] = keeper[j]
  BY <1>a, <1>b DEF KeepsSteady, CacheTypes
<1>1. Warned'
  BY <1>a, <1>c DEF Warned, Condemned
<1>2. ASSUME UNCHANGED <<row, asked>>
      PROVE  CacheInv'
  <2>1. CacheTypes'
    BY <1>a, <1>c, <1>2 DEF CacheTypes, Steady
  <2>2. Counted'
    BY <1>a, <1>c, <1>2 DEF Counted
  <2>3. Current'
    BY <1>a, <1>c, <1>2 DEF Current, MovesSoon
  <2> QED
    BY <1>1, <2>1, <2>2, <2>3 DEF CacheInv
<1>3. ASSUME NEW S \in SUBSET Condemned(keeper[k]), DropRows(S)
      PROVE  CacheInv'
  <2>0. row \in [Blobs -> Clock] /\ asked \in [Blobs -> Clock]
    BY <1>a DEF CacheTypes
  <2>1. row' \in [Blobs -> Clock] /\ asked' \in [Blobs -> Clock]
    BY <1>3, <2>0 DEF DropRows, Clock
  <2>2. CacheTypes'
    BY <1>a, <1>c, <2>1 DEF CacheTypes, Steady
  <2>3. S \cap dir' \subseteq raced
    BY <1>a, <1>c DEF Warned
  <2>4. \A h \in Blobs : h \notin S => row'[h] = row[h] /\ asked'[h] = asked[h]
    BY <1>3 DEF DropRows
  <2>5. dir' \subseteq Blobs
    BY <2>2 DEF CacheTypes
  <2>6. Counted'
    BY <1>a, <1>c, <2>3, <2>4, <2>5 DEF Counted
  <2>7. \A h \in S \cap Blobs : asked'[h] = NoRow
    BY <1>3 DEF DropRows
  <2>8. Current'
    BY <1>a, <1>c, <2>4, <2>7 DEF Current, MovesSoon
  <2> QED
    BY <1>1, <2>2, <2>6, <2>8 DEF CacheInv
<1>4. ASSUME Reconcile(k)
      PROVE  CacheInv'
  <2>1. CASE UNCHANGED <<row, asked>>
    BY <1>2, <2>1
  <2>2. CASE Adopted(k) \cap Rowed = {}
    <3>1. PICK at \in 0..tick :
            /\ row' = [h \in Blobs |-> IF h \in Adopted(k) THEN at ELSE IF h \in Left(k) THEN NoRow ELSE row[h]]
            /\ asked' = [h \in Blobs |-> IF h \in Left(k) THEN NoRow ELSE asked[h]]
      BY <1>4, <2>2 DEF Reconcile
    <3>2. row \in [Blobs -> Clock] /\ asked \in [Blobs -> Clock] /\ at \in Nat
      BY <1>a DEF CacheTypes
    <3>3. row' \in [Blobs -> Clock] /\ asked' \in [Blobs -> Clock]
      BY <3>1, <3>2 DEF Clock
    <3>4. CacheTypes'
      BY <1>a, <1>c, <3>3 DEF CacheTypes, Steady
    <3>5. Left(k) = Condemned(keeper[k])
      BY <1>4 DEF Reconcile, At, Left, Condemned
    <3>6. Left(k) \cap dir' \subseteq raced /\ dir' \subseteq Blobs
      BY <1>a, <1>c, <3>5 DEF Warned, CacheTypes
    <3>7. \A h \in Blobs : h \in Adopted(k) => row'[h] # NoRow
      BY <3>1, <3>2, CacheAssumption
    <3>8. \A h \in Blobs : h \notin Adopted(k) /\ h \notin Left(k) => row'[h] = row[h]
      BY <3>1
    <3>9. Counted'
      BY <1>a, <1>c, <3>6, <3>7, <3>8 DEF Counted
    <3>10. \A h \in Blobs : h \in Adopted(k) => asked[h] = NoRow
      BY <1>a, <2>2 DEF Current, Rowed
    <3>11. \A h \in Blobs : asked'[h] # NoRow => h \notin Left(k) /\ asked'[h] = asked[h] /\ h \notin Adopted(k)
      BY <3>1, <3>10
    <3>12. Current'
      BY <1>a, <1>c, <3>8, <3>11 DEF Current, MovesSoon
    <3> QED
      BY <1>1, <3>4, <3>9, <3>12 DEF CacheInv
  <2> QED
    BY <1>4, <2>1, <2>2 DEF Reconcile
<1> QED
  BY <1>b, <1>2, <1>3, <1>4 DEF KeepsRows

(* What the rest of the instance does to the cache.                        *)
LEMMA OtherCacheSteps ==
  ASSUME CacheInv, NEW h \in Blobs,
         \/ EnsureBlob(h) \/ Land(h) \/ Fail(h) \/ IndexLook(h) \/ IndexPut(h)
         \/ LibraryChanges(h) \/ RemovedByHand(h) \/ Tick
         \/ \E at \in Nat : TouchWrite(h, at)
  PROVE  CacheInv'
<1>a. CacheTypes /\ Warned /\ Counted /\ Current
  BY DEF CacheInv
<1>b. /\ dir \subseteq Blobs /\ fetching \subseteq Blobs /\ tick \in Nat /\ writing \subseteq Blobs \X Nat
      /\ row \in [Blobs -> Clock] /\ asked \in [Blobs -> Clock]
      /\ indexer \in [Blobs -> [pc : {"no", "look", "put"}, at : Nat]] /\ NoRow \notin Nat
  BY <1>a, CacheAssumption DEF CacheTypes
<1>1. CASE EnsureBlob(h)
  <2>1. UNCHANGED <<dir, row, indexer, keeper, tick, raced>> /\ fetching' \subseteq Blobs
    BY <1>1, <1>b DEF EnsureBlob
  <2>2. writing' \subseteq Blobs \X Nat /\ writing \subseteq writing'
        /\ (~Throttled(h) => <<h, tick>> \in writing')
    BY <1>1, <1>b DEF EnsureBlob, TouchCache
  <2>3. asked' \in [Blobs -> Clock]
        /\ \A g \in Blobs : asked'[g] = IF g = h /\ h \in Rowed /\ ~Throttled(h) THEN tick ELSE asked[g]
    BY <1>1, <1>b DEF EnsureBlob, Clock
  <2>4. CacheTypes'
    BY <1>a, <2>1, <2>2, <2>3 DEF CacheTypes, Steady
  <2>5. Warned' /\ Counted'
    BY <1>a, <2>1 DEF Warned, Counted, Condemned
  <2>6. ASSUME NEW g \in Blobs, asked'[g] # NoRow
        PROVE  row[g] # NoRow /\ (row[g] >= asked'[g] \/ MovesSoon(g)')
    <3>1. CASE g = h /\ h \in Rowed /\ ~Throttled(h)
      <4>1. asked'[g] = tick /\ <<g, tick>> \in writing' /\ tick \in Nat /\ tick <= tick
        BY <1>b, <2>2, <2>3, <3>1
      <4>2. \E at \in Nat : <<g, at>> \in writing' /\ asked'[g] <= at
        BY <4>1
      <4> QED
        BY <3>1, <4>2 DEF Rowed, MovesSoon
    <3>2. CASE ~(g = h /\ h \in Rowed /\ ~Throttled(h))
      BY <1>a, <2>2, <2>3, <2>6, <3>2 DEF Current, MovesSoon
    <3> QED
      BY <3>1, <3>2
  <2> QED
    BY <2>1, <2>4, <2>5, <2>6 DEF CacheInv, Current
<1>2. CASE Land(h)
  <2>1. /\ UNCHANGED <<row, writing, keeper, tick, asked>>
        /\ dir' = dir \cup {h} /\ fetching' = fetching \ {h}
        /\ indexer' = [indexer EXCEPT ![h].pc = "look"]
        /\ raced' = IF \E k \in Keepers : h \in Condemned(keeper[k]) THEN raced \cup {h} ELSE raced
    BY <1>2 DEF Land
  <2>2. indexer' \in [Blobs -> [pc : {"no", "look", "put"}, at : Nat]]
    BY <1>b, <2>1
  <2>3. CacheTypes'
    BY <1>a, <1>b, <2>1, <2>2 DEF CacheTypes, Steady
  <2>4. Warned'
    BY <1>a, <2>1 DEF Warned, Condemned
  <2>5. indexer'[h] # NotDue /\ \A g \in Blobs : g # h => indexer'[g] = indexer[g]
    BY <1>b, <2>1 DEF NotDue
  <2>6. Counted'
    BY <1>a, <1>b, <2>1, <2>5 DEF Counted
  <2>7. Current'
    BY <1>a, <2>1 DEF Current, MovesSoon
  <2> QED
    BY <2>3, <2>4, <2>6, <2>7 DEF CacheInv
<1>3. CASE Fail(h) \/ LibraryChanges(h) \/ RemovedByHand(h) \/ Tick
  <2>1. /\ UNCHANGED <<row, indexer, writing, keeper, asked, raced>> /\ dir' \subseteq dir
        /\ fetching' \subseteq fetching /\ tick' \in Nat
    BY <1>3, <1>b DEF Fail, LibraryChanges, RemovedByHand, Tick
  <2>2. CacheTypes'
    BY <1>a, <1>b, <2>1 DEF CacheTypes, Steady
  <2>3. Warned' /\ Counted'
    BY <1>a, <2>1 DEF Warned, Counted, Condemned
  <2>4. Current'
    BY <1>a, <2>1 DEF Current, MovesSoon
  <2> QED
    BY <2>2, <2>3, <2>4 DEF CacheInv
<1>4. CASE IndexLook(h)
  <2>1. /\ UNCHANGED <<dir, row, fetching, writing, keeper, tick, asked, raced>>
        /\ indexer' = [indexer EXCEPT ![h] = IF h \in dir THEN [pc |-> "put", at |-> tick] ELSE NotDue]
    BY <1>4 DEF IndexLook
  <2>2. indexer' \in [Blobs -> [pc : {"no", "look", "put"}, at : Nat]]
    BY <1>b, <2>1 DEF NotDue
  <2>3. CacheTypes'
    BY <1>a, <1>b, <2>1, <2>2 DEF CacheTypes, Steady
  <2>4. Warned'
    BY <1>a, <2>1 DEF Warned, Condemned
  <2>5. (h \in dir => indexer'[h] # NotDue) /\ \A g \in Blobs : g # h => indexer'[g] = indexer[g]
    BY <1>b, <2>1 DEF NotDue
  <2>6. Counted'
    BY <1>a, <1>b, <2>1, <2>5 DEF Counted
  <2>7. Current'
    BY <1>a, <2>1 DEF Current, MovesSoon
  <2> QED
    BY <2>3, <2>4, <2>6, <2>7 DEF CacheInv
<1>5. CASE IndexPut(h)
  <2>1. /\ UNCHANGED <<dir, fetching, writing, keeper, tick, asked, raced>>
        /\ indexer' = [indexer EXCEPT ![h] = NotDue]
        /\ row' = IF h \in Rowed THEN row ELSE [row EXCEPT ![h] = indexer[h].at]
    BY <1>5 DEF IndexPut
  <2>2. indexer' \in [Blobs -> [pc : {"no", "look", "put"}, at : Nat]]
    BY <1>b, <2>1 DEF NotDue
  <2>3. row' \in [Blobs -> Clock] /\ row'[h] # NoRow
        /\ \A g \in Blobs : g # h \/ row[g] # NoRow => row'[g] = row[g]
    BY <1>b, <2>1 DEF Rowed, Clock
  <2>4. CacheTypes'
    BY <1>a, <1>b, <2>1, <2>2, <2>3 DEF CacheTypes, Steady
  <2>5. Warned'
    BY <1>a, <2>1 DEF Warned, Condemned
  <2>6. \A g \in Blobs : g # h => indexer'[g] = indexer[g]
    BY <1>b, <2>1
  <2>7. Counted'
    BY <1>a, <1>b, <2>1, <2>3, <2>6 DEF Counted
  <2>8. Current'
    BY <1>a, <2>1, <2>3 DEF Current, MovesSoon
  <2> QED
    BY <2>4, <2>5, <2>7, <2>8 DEF CacheInv
<1>6. ASSUME NEW at \in Nat, TouchWrite(h, at)
      PROVE  CacheInv'
  <2>1. /\ UNCHANGED <<dir, fetching, indexer, keeper, tick, asked, raced>>
        /\ writing' = writing \ {<<h, at>>}
        /\ row' = IF h \in Rowed /\ row[h] < at THEN [row EXCEPT ![h] = at] ELSE row
    BY <1>6 DEF TouchWrite, Later
  <2>2. /\ row' \in [Blobs -> Clock]
        /\ \A g \in Blobs : g # h \/ row[g] = NoRow => row'[g] = row[g]
        /\ row[h] # NoRow => row'[h] # NoRow /\ row'[h] >= row[h] /\ row'[h] >= at
    BY <1>b, <2>1 DEF Rowed, Clock
  <2>3. CacheTypes'
    BY <1>a, <1>b, <2>1, <2>2 DEF CacheTypes, Steady
  <2>4. Warned'
    BY <1>a, <2>1 DEF Warned, Condemned
  <2>5. Counted'
    BY <1>a, <1>b, <2>1, <2>2 DEF Counted
  <2>6. ASSUME NEW g \in Blobs, asked[g] # NoRow
        PROVE  row'[g] # NoRow /\ (row'[g] >= asked[g] \/ \E s \in Nat : <<g, s>> \in writing' /\ asked[g] <= s)
    <3>0. row[g] # NoRow /\ row[g] \in Nat /\ asked[g] \in Nat /\ row'[g] \in Clock
      BY <1>a, <1>b, <2>2, <2>6 DEF Current, Clock
    <3>1. CASE row[g] >= asked[g]
      BY <1>b, <2>2, <3>0, <3>1 DEF Clock
    <3>2. CASE MovesSoon(g)
      <4>1. PICK s \in Nat : <<g, s>> \in writing /\ asked[g] <= s
        BY <3>2 DEF MovesSoon
      <4>2. CASE g = h /\ s = at
        BY <1>b, <2>2, <3>0, <4>1, <4>2 DEF Clock
      <4>3. CASE ~(g = h /\ s = at)
        <5>1. <<g, s>> \in writing'
          BY <2>1, <4>1, <4>3
        <5>2. row'[g] # NoRow
          BY <2>2, <3>0
        <5> QED
          BY <4>1, <5>1, <5>2
      <4> QED
        BY <4>2, <4>3
    <3> QED
      BY <1>a, <2>6, <3>1, <3>2 DEF Current
  <2>7. Current'
    BY <2>1, <2>6 DEF Current, MovesSoon
  <2> QED
    BY <2>3, <2>4, <2>5, <2>7 DEF CacheInv
<1> QED
  BY <1>1, <1>2, <1>3, <1>4, <1>5, <1>6

LEMMA RestartCacheStep ==
  ASSUME CacheInv, RestartCache
  PROVE  CacheInv' /\ Rowed' = dir' /\ dir' \cap lib' = {}
<1>a. CacheTypes /\ Warned /\ Counted /\ Current /\ NoRow \notin Nat
  BY CacheAssumption DEF CacheInv
<1>b. /\ dir' \subseteq dir /\ dir \subseteq Blobs /\ tick \in Nat /\ dir' \cap lib' = {}
      /\ row \in [Blobs -> Clock] /\ asked \in [Blobs -> Clock]
  BY <1>a DEF RestartCache, EvictedAtStart, CacheTypes
<1>1. PICK at \in 0..tick : row' = ReconciledAtStart(dir', at)
  BY DEF RestartCache
<1>2. row' \in [Blobs -> Clock]
      /\ \A h \in Blobs : (row'[h] = NoRow <=> h \notin dir') /\ (h \in dir' /\ row[h] # NoRow => row'[h] = row[h])
  BY <1>1, <1>a, <1>b DEF ReconciledAtStart, Rowed, Clock
<1>3. Rowed' = dir'
  BY <1>2, <1>b DEF Rowed
<1>4. asked' = [h \in Blobs |-> IF h \in dir' /\ \A w \in writing : w[1] # h THEN asked[h] ELSE NoRow]
  BY DEF RestartCache
<1>5. asked' \in [Blobs -> Clock]
  BY <1>4, <1>b DEF Clock
<1>6. /\ fetching' = {} /\ indexer' = [h \in Blobs |-> NotDue] /\ writing' = {}
      /\ keeper' = [k \in Keepers |-> Resting] /\ raced' = {} /\ tick' = tick
  BY DEF RestartCache
<1>7. Steady(Resting) /\ Condemned(Resting) = {}
  BY DEF Steady, Condemned, Resting, RunFields
<1>8. CacheTypes'
  <2>1. indexer' \in [Blobs -> [pc : {"no", "look", "put"}, at : Nat]]
    BY <1>6 DEF NotDue
  <2>2. \A k \in Keepers : Steady(keeper[k])'
    BY <1>6, <1>7 DEF Steady
  <2> QED
    BY <1>2, <1>5, <1>6, <1>b, <2>1, <2>2 DEF CacheTypes
<1>9. Warned'
  BY <1>6, <1>7 DEF Warned
<1>10. Counted'
  BY <1>2, <1>b DEF Counted
<1>11. ASSUME NEW h \in Blobs, asked'[h] # NoRow
       PROVE  row'[h] # NoRow /\ row'[h] >= asked'[h]
  <2>1. h \in dir' /\ asked'[h] = asked[h] /\ \A w \in writing : w[1] # h
    BY <1>4, <1>11
  <2>2. row[h] # NoRow /\ row[h] >= asked[h]
    BY <1>a, <1>11, <2>1 DEF Current, MovesSoon
  <2> QED
    BY <1>2, <2>1, <2>2
<1>12. Current'
  BY <1>11 DEF Current
<1> QED
  BY <1>3, <1>8, <1>9, <1>10, <1>12, <1>b DEF CacheInv

LEMMA CacheStep ==
  ASSUME CacheInv, [HomeNext]_home
  PROVE  CacheInv' /\ (starts' # starts /\ wing = "cache" => Rowed' = dir' /\ dir' \cap lib' = {})
<1>1. CASE UNCHANGED cache /\ UNCHANGED starts
  BY <1>1 DEF cache, CacheInv, CacheTypes, Steady, Warned, Condemned, Counted, Current, MovesSoon
<1>2. CASE CacheNext /\ UNCHANGED starts
  <2>1. ASSUME NEW w \in writing, TouchWrite(w[1], w[2])
        PROVE  CacheInv'
    <3>1. w[1] \in Blobs /\ w[2] \in Nat
      BY DEF CacheInv, CacheTypes
    <3> QED
      BY <2>1, <3>1, OtherCacheSteps
  <2>2. ASSUME Tick
        PROVE  CacheInv'
    <3>1. UNCHANGED <<dir, row, fetching, indexer, writing, keeper, asked, raced>> /\ tick' \in Nat
      BY <2>2 DEF Tick, CacheInv, CacheTypes
    <3> QED
      BY <3>1 DEF CacheInv, CacheTypes, Steady, Warned, Condemned, Counted, Current, MovesSoon
  <2> QED
    BY <1>2, <2>1, <2>2, OtherCacheSteps, KeeperStep DEF CacheNext
<1>3. CASE HomeRestart /\ RestartCache
  BY <1>3, RestartCacheStep
<1>4. CASE HomeRestart /\ UNCHANGED cache /\ wing = "playlists"
  BY <1>4 DEF cache, CacheInv, CacheTypes, Steady, Warned, Condemned, Counted, Current, MovesSoon
<1> QED
  BY <1>1, <1>2, <1>3, <1>4 DEF HomeNext, HomeRestart, home

(* Whatever keepers, fetches, reads and starts there are and however their *)
(* steps fall: every blob of the cache is counted against the ceiling but  *)
(* one that landed under a keeper's eyes, no clock stays behind a read of  *)
(* its blob, and a start leaves the index equal to the directory.          *)
THEOREM CacheHoldsTrue == HomeSpec => CacheIsTrue
<1>1. HomeInit => CacheInv
  <2> SUFFICES ASSUME InitCache PROVE CacheInv
    BY DEF HomeInit
  <2>1. Steady(Resting) /\ Condemned(Resting) = {}
    BY DEF Steady, Condemned, Resting, RunFields
  <2>2. CacheTypes
    BY <2>1 DEF InitCache, CacheTypes, NoRows, NotDue, Clock
  <2>3. Warned
    BY <2>1 DEF InitCache, Warned
  <2> QED
    BY <2>2, <2>3 DEF InitCache, CacheInv, Counted, Current, NoRows
<1>2. CacheInv /\ [HomeNext]_home => CacheInv'
  BY CacheStep
<1>3. CacheInv => Counted /\ ClocksHold
  <2> SUFFICES ASSUME CacheInv, NEW h \in Rowed, asked[h] # NoRow, \A w \in writing : w[1] # h
               PROVE  row[h] >= asked[h]
    BY DEF CacheInv, ClocksHold
  <2> QED
    BY DEF CacheInv, Current, MovesSoon, Rowed
<1>4. CacheInv /\ [HomeNext]_home =>
        [starts' # starts /\ wing = "cache" => Rowed' = dir' /\ dir' \cap lib' = {}]_starts
  BY CacheStep
<1> QED
  BY <1>1, <1>2, <1>3, <1>4, PTL DEF HomeSpec, CacheIsTrue, StartsClean

-----------------------------------------------------------------------------
(***************************************************************************)
(* Playlists.  A request takes what its check found to its step: the owner *)
(* and the kind of the list, that the track is not on favorites, the items *)
(* the sweep is to re-point.  The invariant says what of it is still true, *)
(* as long as no id was given out under a request and no two requests that *)
(* add were under way.                                                     *)
(***************************************************************************)
Item == [id : Nat, list : Nat, at : {"local", "remote"}, of : Tracks \cup Remotes, pos : Nat, by : Users]
Hit == [id : Nat, list : Nat, track : Tracks]
Editing == {"rename", "delete", "add", "remove", "reorder"}
Toggling == {"create", "look", "unlike", "like"}
Sweeping == {"read", "hit", "point", "drop"}
Adding == Toggling \cup Sweeping \cup {"add"}

Numbered == \E n \in Nat : Open \subseteq 1..n /\ \A i \in items : i.id \in 1..n /\ i.pos \in 1..n
Placed == /\ \A l \in Open : DOMAIN lists[l] = {"user", "kind", "named"}
          /\ \A i \in items : i \in Item /\ i.list \in Open /\ What(i) \in Things
Marked == track \in [Tracks -> {"shown", "trashed", "purged"}]

Formed(r) ==
  /\ r.pc \in {"free"} \cup Editing \cup Toggling \cup Sweeping
  /\ r.pc = "free" => r = Free
  /\ r.pc \in Editing => r.does = "edit" /\ r.user \in Users /\ r.list \in Nat
  /\ r.pc \in {"rename", "delete"} => r.kind = "regular"
  /\ r.pc = "add" => r.arg \in Batches
  /\ r.pc = "reorder" => \E m \in Nat : DOMAIN r.arg = 1..m
  /\ r.pc \in Toggling => /\ r.does = "toggle" /\ r.user \in Users /\ r.arg \in Things
                          /\ DOMAIN r = {"pc", "does", "user", "list", "arg"}
  /\ r.pc \in Sweeping => r.does \in {"sweep", "start"}
  /\ r.pc \in {"hit", "point", "drop"} => \A h \in r.left : h \in Hit
  /\ r.pc \in {"point", "drop"} => r.at \in Hit

Favored(l) == l \in Open /\ lists[l].kind = "favorites"
OneFavorites == \A k, l \in Open : lists[k].user = lists[l].user /\ Favored(k) /\ Favored(l) => k = l
Owned == /\ \A l \in Open : lists[l].named = lists[l].user
         /\ \A i \in items : i.by = lists[i.list].user
OwnersSeen(r) ==
  /\ r.pc \in Editing /\ r.list \in Open => lists[r.list].user = r.user /\ lists[r.list].kind = r.kind
  /\ r.pc \in Toggling \ {"create"} => Favored(r.list) /\ lists[r.list].user = r.user

Once == \A i, j \in items : i # j /\ i.list = j.list /\ Favored(i.list) => What(i) # What(j)
ToDo(r) == IF r.pc = "hit" THEN r.left ELSE r.left \cup {r.at}
Follows(h) == \A i \in items : i.id = h.id /\ Favored(i.list) => i.list = h.list
AddsOnce(r) ==
  /\ r.pc = "add" /\ r.kind # "favorites" => ~Favored(r.list)
  /\ r.pc = "like" /\ Favored(r.list) => ~Has(r.list, r.arg)
  /\ r.pc \in {"hit", "point", "drop"} => \A h \in ToDo(r) : Follows(h)
  /\ r.pc = "point" /\ Favored(r.at.list) => ~Has(r.at.list, Local(r.at.track))

Due == {i \in items : i.at = "remote" /\ Here(i.of)}
Starts(c) == client[c].pc # "free" /\ client[c].does = "start"
Sweeps(c) ==
  Starts(c) =>
    /\ client[c].pc \in Sweeping
    /\ \A d \in Clients : d # c => client[d].pc = "free"
    /\ client[c].pc # "read" => /\ \A h \in ToDo(client[c]) : OnShow(h.track)
                                /\ \A i \in Due : \E h \in ToDo(client[c]) : h.id = i.id

ListInv == Numbered /\ Placed /\ Marked /\ Ordered /\ OneFavorites
ClientInv == DOMAIN client = Clients /\ \A c \in Clients : Formed(client[c]) /\ Sweeps(c)
OwnerInv == ~reissued => Owned /\ \A c \in Clients : OwnersSeen(client[c])
OnceInv == ~crossed => /\ Once
                       /\ \A c, d \in Clients : client[c].pc \in Adding /\ client[d].pc \in Adding => c = d
                       /\ \A c \in Clients : AddsOnce(client[c])
PlaylistInv == ListInv /\ ClientInv /\ OwnerInv /\ OnceInv

(* The largest of a bounded set of numbers.                                *)
LEMMA LargestIs ==
  ASSUME NEW n \in Nat, NEW S, S \subseteq 0..n
  PROVE  /\ Largest(S) \in 0..n /\ (S # {} => Largest(S) \in S)
         /\ \A m \in S : m <= Largest(S)
<1>1. CASE S = {}
  BY <1>1 DEF Largest
<1>2. CASE S # {}
  <2> DEFINE T == {n - m : m \in S}
  <2>1. T \subseteq 0..n /\ T # {}
    <3>1. \A m \in S : m \in 0..n /\ n - m \in 0..n
      OBVIOUS
    <3> QED
      BY <1>2, <3>1
  <2> HIDE DEF T
  <2>2. PICK t \in T : \A k \in T : t <= k
    BY <2>1, LeastElement
  <2>3. PICK g \in S : t = n - g
    BY DEF T
  <2>4. \A m \in S : m <= g
    <3> SUFFICES ASSUME NEW m \in S PROVE m <= g
      OBVIOUS
    <3>1. n - m \in T
      BY DEF T
    <3>2. n - g <= n - m
      BY <2>2, <2>3, <3>1
    <3> QED
      BY <3>2
  <2>5. \E x \in S : \A m \in S : m <= x
    BY <2>4
  <2>6. Largest(S) \in S /\ \A m \in S : m <= Largest(S)
    BY <1>2, <2>5 DEF Largest
  <2> QED
    BY <2>6
<1> QED
  BY <1>1, <1>2

LEMMA NextIds ==
  ASSUME Numbered
  PROVE  /\ NextListId \in Nat \ {0} /\ NextListId \notin Open /\ \A l \in Open : l < NextListId
         /\ NextItemId \in Nat \ {0} /\ \A i \in items : i.id \in Nat /\ i.id < NextItemId
         /\ \A l \in Nat : LastPosition(l) \in Nat /\ \A i \in In(l) : i.pos \in Nat /\ i.pos <= LastPosition(l)
<1>1. PICK n \in Nat : Open \subseteq 1..n /\ \A i \in items : i.id \in 1..n /\ i.pos \in 1..n
  BY DEF Numbered
<1>2. Open \subseteq 0..n
  BY <1>1
<1>3. Largest(Open) \in 0..n /\ \A l \in Open : l <= Largest(Open)
  BY <1>2, LargestIs
<1>4. {i.id : i \in items} \subseteq 0..n
  BY <1>1
<1>5. Largest({i.id : i \in items}) \in 0..n /\ \A i \in items : i.id <= Largest({j.id : j \in items})
  <2> DEFINE S == {i.id : i \in items}
  <2>1. Largest(S) \in 0..n /\ \A m \in S : m <= Largest(S)
    BY <1>4, LargestIs
  <2> QED
    BY <2>1
<1>6. ASSUME NEW l \in Nat
      PROVE  LastPosition(l) \in Nat /\ \A i \in In(l) : i.pos \in Nat /\ i.pos <= LastPosition(l)
  <2>1. \A i \in In(l) : i.pos \in 1..n
    BY <1>1 DEF In
  <2>2. {i.pos : i \in In(l)} \subseteq 0..n
    BY <2>1
  <2>3. LastPosition(l) \in 0..n /\ \A m \in {i.pos : i \in In(l)} : m <= LastPosition(l)
    BY <2>2, LargestIs DEF LastPosition
  <2> QED
    BY <2>1, <2>3
<1>7. NextListId \in Nat \ {0} /\ NextListId \notin Open /\ \A l \in Open : l < NextListId
  BY <1>1, <1>3 DEF NextListId
<1>8. NextItemId \in Nat \ {0} /\ \A i \in items : i.id \in Nat /\ i.id < NextItemId
  <2> DEFINE last == Largest({i.id : i \in items})
  <2>1. last \in 0..n /\ NextItemId = last + 1 /\ \A i \in items : i.id <= last
    BY <1>5 DEF NextItemId
  <2>2. \A i \in items : i.id \in 1..n
    BY <1>1
  <2> HIDE DEF last
  <2> QED
    BY <2>1, <2>2
<1> QED
  BY <1>6, <1>7, <1>8

(* The places of those that are kept: each is within the batch, and no two *)
(* share one.                                                              *)
LEMMA Places ==
  ASSUME NEW m \in Nat, NEW kept, kept \subseteq 1..m
  PROVE  /\ \A k \in kept : Cardinality(kept \cap 1..k) \in 1..m
         /\ \A j, k \in kept : Cardinality(kept \cap 1..j) = Cardinality(kept \cap 1..k) => j = k
<1>1. ASSUME NEW k \in kept
      PROVE  IsFiniteSet(kept \cap 1..k) /\ Cardinality(kept \cap 1..k) \in 1..m
  <2>1. IsFiniteSet(1..m) /\ Cardinality(1..m) = m
    BY FS_Interval
  <2>2. kept \cap 1..k \subseteq 1..m /\ k \in kept \cap 1..k
    OBVIOUS
  <2>3. IsFiniteSet(kept \cap 1..k) /\ Cardinality(kept \cap 1..k) <= m
    BY <2>1, <2>2, FS_Subset
  <2>4. Cardinality(kept \cap 1..k) \in Nat /\ Cardinality(kept \cap 1..k) # 0
    BY <2>2, <2>3, FS_CardinalityType, FS_EmptySet
  <2> QED
    BY <2>3, <2>4
<1>2. ASSUME NEW j \in kept, NEW k \in kept, j < k
      PROVE  Cardinality(kept \cap 1..j) # Cardinality(kept \cap 1..k)
  <2>1. kept \cap 1..j \subseteq kept \cap 1..k /\ k \in kept \cap 1..k /\ k \notin kept \cap 1..j
    BY <1>2
  <2> QED
    BY <1>1, <2>1, FS_Subset
<1>3. ASSUME NEW j \in kept, NEW k \in kept, Cardinality(kept \cap 1..j) = Cardinality(kept \cap 1..k)
      PROVE  j = k
  <2>1. j \in 1..m /\ k \in 1..m
    OBVIOUS
  <2>2. ~(j < k) /\ ~(k < j)
    BY <1>2, <1>3
  <2> QED
    BY <2>1, <2>2
<1> QED
  BY <1>1, <1>3

(* What is appended comes after everything there, in new items.            *)
LEMMA AppendedItems ==
  ASSUME Numbered, NEW l \in Nat, NEW things \in Seq(Things), NEW kept, kept \subseteq DOMAIN things, NEW u \in Users
  PROVE  LET new == Appended(l, things, kept, u)
         IN /\ \A i \in new : i \in Item /\ i.list = l /\ i.by = u /\ What(i) \in Things
            /\ \A i \in new : i.id >= NextItemId /\ i.pos > LastPosition(l)
            /\ \A i, j \in new : i # j => i.id # j.id /\ i.pos # j.pos
            /\ \A i \in new : i.id < NextItemId + Len(things) /\ i.pos <= LastPosition(l) + Len(things)
            /\ \A i \in new : \E k \in kept : /\ What(i) = things[k]
                                              /\ \A j \in new : j # i => \E p \in kept : p # k /\ What(j) = things[p]
<1> DEFINE nth(k) == Cardinality(kept \cap 1..k)
           item(k) == [id |-> NextItemId + nth(k) - 1, list |-> l, at |-> things[k].at, of |-> things[k].of,
                       pos |-> LastPosition(l) + nth(k), by |-> u]
           new == {item(k) : k \in kept}
<1>1. Appended(l, things, kept, u) = new
  BY DEF Appended
<1>2. NextItemId \in Nat \ {0} /\ LastPosition(l) \in Nat /\ Len(things) \in Nat /\ DOMAIN things = 1..Len(things)
  <2>1. Len(things) \in Nat /\ DOMAIN things = 1..Len(things)
    OBVIOUS
  <2>2. NextItemId \in Nat \ {0} /\ LastPosition(l) \in Nat
    BY NextIds
  <2> QED
    BY <2>1, <2>2
<1>3. /\ \A k \in kept : nth(k) \in 1..Len(things)
      /\ \A j, k \in kept : nth(j) = nth(k) => j = k
  <2> HIDE DEF nth
  <2>1. kept \subseteq 1..Len(things)
    BY <1>2
  <2> QED
    BY <1>2, <2>1, Places DEF nth
<1> HIDE DEF nth
<1>4. ASSUME NEW k \in kept
      PROVE  /\ item(k) \in Item /\ What(item(k)) = things[k] /\ things[k] \in Things
             /\ item(k).id >= NextItemId /\ item(k).pos > LastPosition(l)
             /\ item(k).id < NextItemId + Len(things) /\ item(k).pos <= LastPosition(l) + Len(things)
  <2>1. things[k] \in Things /\ nth(k) \in 1..Len(things)
    BY <1>2, <1>3
  <2>2. things[k].at \in {"local", "remote"} /\ things[k].of \in Tracks \cup Remotes
        /\ things[k] = [at |-> things[k].at, of |-> things[k].of]
    BY <2>1 DEF Things, Local, Remote
  <2>3. What(item(k)) = things[k]
    BY <2>2 DEF What
  <2> QED
    BY <1>2, <2>1, <2>2, <2>3 DEF Item
<1>5. ASSUME NEW j \in kept, NEW k \in kept, j # k
      PROVE  item(j).id # item(k).id /\ item(j).pos # item(k).pos
  <2>1. nth(j) # nth(k) /\ nth(j) \in Nat /\ nth(k) \in Nat
    BY <1>3, <1>5
  <2> QED
    BY <1>2, <2>1
<1> HIDE DEF item
<1>6. \A i \in new : \E k \in kept : i = item(k)
  OBVIOUS
<1>7. \A k \in kept : item(k).list = l /\ item(k).by = u
  BY DEF item
<1> HIDE DEF new
<1> QED
  BY <1>1, <1>4, <1>5, <1>6, <1>7

(* What a step of one client must show; the other clients follow.          *)
ListsStay ==
  /\ \A l \in Open : Favored(l) => l \in Open'
  /\ \A l \in Open \cap Open' : lists'[l].user = lists[l].user /\ lists'[l].kind = lists[l].kind
  /\ \A l \in Open' \ Open : \A d \in Clients : client[d].pc \in Editing => client[d].list # l
FavoritesShrink ==
  /\ \A l \in Open' : Favored(l)' => Favored(l)
  /\ \A i \in items' : Favored(i.list)' =>
       \E j \in items : j.id = i.id /\ j.list = i.list /\ What(j) = What(i)
OwnersKept(c) == reissued' \/ (~reissued /\ Owned' /\ OwnersSeen(client[c])' /\ ListsStay)
OnceKept(c) ==
  \/ crossed'
  \/ /\ ~crossed /\ Once' /\ AddsOnce(client[c])'
     /\ client'[c].pc \in Adding /\ client[c].pc \notin Adding => \A d \in Clients : client[d].pc \in Adding => d = c
     /\ client[c].pc \in Adding \/ FavoritesShrink
ActsAlone(c) ==
  /\ DOMAIN client' = Clients /\ \A d \in Clients : d # c => client'[d] = client[d]
  /\ client[c].pc # "free" \/ \A d \in Clients : ~Starts(d)

LEMMA StepKeeps ==
  ASSUME PlaylistInv, NEW c \in Clients, ActsAlone(c), ListInv', Formed(client[c])', Sweeps(c)',
         OwnersKept(c), OnceKept(c)
  PROVE  PlaylistInv'
<1>a. ClientInv /\ OwnerInv /\ OnceInv
  BY DEF PlaylistInv
<1>1. ASSUME NEW d \in Clients, d # c
      PROVE  Formed(client[d])' /\ Sweeps(d)'
  <2>1. client'[d] = client[d] /\ Formed(client[d])
    BY <1>a, <1>1 DEF ActsAlone, ClientInv
  <2>2. ~Starts(d)
    BY <1>a, <1>1 DEF ActsAlone, ClientInv, Sweeps, Starts
  <2>3. Formed(client[d])'
    BY <2>1 DEF Formed
  <2>4. ~Starts(d)'
    BY <2>1, <2>2 DEF Starts
  <2> QED
    BY <2>3, <2>4 DEF Sweeps
<1>2. ClientInv'
  BY <1>1 DEF ClientInv, ActsAlone
<1>3. ASSUME ~reissued'
      PROVE  Owned' /\ \A d \in Clients : OwnersSeen(client[d])'
  <2>1. ~reissued /\ Owned' /\ OwnersSeen(client[c])' /\ ListsStay
    BY <1>3 DEF OwnersKept
  <2>2. ASSUME NEW d \in Clients, d # c
        PROVE  OwnersSeen(client[d])'
    <3>1. client'[d] = client[d] /\ OwnersSeen(client[d])
      BY <1>a, <2>1, <2>2 DEF ActsAlone, OwnerInv
    <3>2. ASSUME client[d].pc \in Editing, client[d].list \in Open'
          PROVE  lists'[client[d].list].user = client[d].user /\ lists'[client[d].list].kind = client[d].kind
      <4>1. client[d].list \in Open
        BY <2>1, <3>2 DEF ListsStay
      <4> QED
        BY <2>1, <3>1, <3>2, <4>1 DEF ListsStay, OwnersSeen
    <3>3. ASSUME client[d].pc \in Toggling \ {"create"}
          PROVE  Favored(client[d].list)' /\ lists'[client[d].list].user = client[d].user
      <4>1. Favored(client[d].list) /\ lists[client[d].list].user = client[d].user
        BY <3>1, <3>3 DEF OwnersSeen
      <4>2. client[d].list \in Open /\ client[d].list \in Open'
        BY <2>1, <4>1 DEF ListsStay, Favored
      <4>3. lists'[client[d].list].user = lists[client[d].list].user
            /\ lists'[client[d].list].kind = lists[client[d].list].kind
        BY <2>1, <4>2 DEF ListsStay
      <4> QED
        BY <3>1, <4>1, <4>2, <4>3 DEF Favored
    <3> QED
      BY <3>1, <3>2, <3>3 DEF OwnersSeen
  <2> QED
    BY <2>1, <2>2
<1>4. ASSUME ~crossed'
      PROVE  /\ Once' /\ \A d \in Clients : AddsOnce(client[d])'
             /\ \A d, e \in Clients : client'[d].pc \in Adding /\ client'[e].pc \in Adding => d = e
  <2>1. /\ ~crossed /\ Once' /\ AddsOnce(client[c])' /\ (client[c].pc \in Adding \/ FavoritesShrink)
        /\ client'[c].pc \in Adding /\ client[c].pc \notin Adding => \A d \in Clients : client[d].pc \in Adding => d = c
    BY <1>4 DEF OnceKept
  <2>2. /\ \A d, e \in Clients : client[d].pc \in Adding /\ client[e].pc \in Adding => d = e
        /\ \A d \in Clients : AddsOnce(client[d])
    BY <1>a, <2>1 DEF OnceInv
  <2>3. \A d, e \in Clients : client'[d].pc \in Adding /\ client'[e].pc \in Adding => d = e
    BY <2>1, <2>2 DEF ActsAlone
  <2>4. ASSUME NEW d \in Clients, d # c
        PROVE  AddsOnce(client[d])'
    <3>1. client'[d] = client[d] /\ AddsOnce(client[d])
      BY <2>2, <2>4 DEF ActsAlone
    <3>2. CASE client[d].pc \notin Adding
      BY <3>1, <3>2 DEF AddsOnce, Adding, Sweeping, Toggling
    <3>3. CASE client[d].pc \in Adding
      <4>1. FavoritesShrink
        BY <2>1, <2>2, <2>4, <3>3
      <4>2. \A l : Favored(l)' => Favored(l)
        BY <4>1 DEF FavoritesShrink, Favored
      <4>3. \A l, thing : Favored(l)' /\ ~Has(l, thing) => ~Has(l, thing)'
        BY <4>1 DEF FavoritesShrink, Has, In, What
      <4>4. \A h : Follows(h) => Follows(h)'
        BY <4>1, <4>2 DEF FavoritesShrink, Follows
      <4>5. \A l, t : Favored(l)' /\ ~Has(l, Local(t)) => ~Has(l, Local(t))'
        BY <4>3 DEF Local
      <4> QED
        BY <3>1, <4>2, <4>3, <4>4, <4>5 DEF AddsOnce, ToDo
    <3> QED
      BY <3>2, <3>3
  <2> QED
    BY <2>1, <2>3, <2>4
<1> QED
  BY <1>2, <1>3, <1>4 DEF PlaylistInv, OwnerInv, OnceInv

(* Where nothing is added, no property of the lists is at stake.           *)
LEMMA FewerItems ==
  ASSUME ListInv, items' \subseteq items, lists' = lists, Marked'
  PROVE  /\ ListInv' /\ ListsStay /\ FavoritesShrink /\ (Owned => Owned') /\ (Once => Once')
<1>1. Numbered' /\ Placed' /\ Ordered' /\ OneFavorites'
  BY DEF ListInv, Numbered, Placed, Ordered, OneFavorites, Favored, Open, What
<1>2. ListsStay /\ FavoritesShrink
  BY DEF ListsStay, FavoritesShrink, Favored, Open, What
<1> QED
  BY <1>1, <1>2 DEF ListInv, Owned, Once, Favored, Open, What

LEMMA ShrinkOnce ==
  ASSUME Once, Ordered', FavoritesShrink, \A i \in items' : i.list \in Open'
  PROVE  Once'
<1> SUFFICES ASSUME NEW i \in items', NEW j \in items', i # j, i.list = j.list, Favored(i.list)'
             PROVE  What(i) # What(j)
  BY DEF Once, What
<1>1. PICK p \in items : p.id = i.id /\ p.list = i.list /\ What(p) = What(i)
  BY DEF FavoritesShrink
<1>2. PICK q \in items : q.id = j.id /\ q.list = j.list /\ What(q) = What(j)
  BY DEF FavoritesShrink
<1>3. i.id # j.id /\ Favored(p.list)
  BY <1>1 DEF Ordered, FavoritesShrink
<1> QED
  BY <1>1, <1>2, <1>3 DEF Once

(* A client that asks was at rest, and no start was under way.             *)
LEMMA Asking ==
  ASSUME PlaylistInv, NEW c \in Clients, NEW r, r.pc \in Editing \cup Toggling \cup Sweeping, r.does # "start",
         Asks(c, r)
  PROVE  /\ ActsAlone(c) /\ client'[c] = r /\ client[c].pc = "free" /\ Sweeps(c)'
         /\ \A d \in Clients : ~Starts(d)
<1>1. client' = [client EXCEPT ![c] = r] /\ client[c] = Free /\ ~Starting
  BY DEF Asks, AtRest
<1>2. DOMAIN client = Clients
  BY DEF PlaylistInv, ClientInv
<1>3. \A d \in Clients : ~Starts(d)
  BY <1>1 DEF Starting, Starts, AtRest, Free
<1>4. client'[c] = r /\ DOMAIN client' = Clients /\ \A d \in Clients : d # c => client'[d] = client[d]
  BY <1>1, <1>2
<1>5. Sweeps(c)'
  BY <1>4 DEF Sweeps, Starts
<1> QED
  BY <1>1, <1>3, <1>4, <1>5 DEF ActsAlone, Free

(* No other client that may add is under way, or it is on record.          *)
LEMMA Alone ==
  ASSUME NEW c \in Clients, Crossing(c), ~crossed'
  PROVE  ~crossed /\ \A d \in Clients : client[d].pc \in Adding => d = c
<1>1. crossed' = (crossed \/ Adders \ {c} # {})
  BY DEF Crossing
<1>2. ~crossed /\ Adders \ {c} = {}
  BY <1>1
<1>3. \A d \in Clients : client[d].pc \in Adding => d \in Adders
  BY DEF Adding, Adders, Toggling, Sweeping
<1> QED
  BY <1>2, <1>3

LEMMA EditKeeps ==
  ASSUME PlaylistInv, NEW c \in Clients, NEW u \in Users, NEW l \in Open, NEW pc \in Editing, NEW arg,
         Edit(c, u, l, pc, arg), pc \in {"rename", "delete"} => lists[l].kind = "regular",
         pc = "add" => arg \in Batches /\ Crossing(c), pc # "add" => UNCHANGED crossed,
         pc = "reorder" => \E m \in Nat : DOMAIN arg = 1..m
  PROVE  PlaylistInv'
<1> DEFINE r == [pc |-> pc, does |-> "edit", user |-> u, list |-> l, kind |-> lists[l].kind, arg |-> arg]
<1>1. Asks(c, r) /\ lists[l].user = u /\ UNCHANGED <<lists, items, track, landed, reissued>>
  BY DEF Edit, Owns
<1>2. r.pc \in Editing /\ r.does # "start"
  OBVIOUS
<1>3. ActsAlone(c) /\ client'[c] = r /\ client[c].pc = "free" /\ Sweeps(c)'
  BY <1>1, <1>2, Asking
<1>4. ListInv /\ OwnerInv /\ OnceInv
  BY DEF PlaylistInv
<1>5. Marked'
  BY <1>1, <1>4 DEF ListInv, Marked
<1>6. ListInv' /\ ListsStay /\ FavoritesShrink /\ (Owned => Owned') /\ (Once => Once')
  BY <1>1, <1>4, <1>5, FewerItems
<1>7. l \in Nat
  BY <1>4 DEF ListInv, Numbered
<1>8. Formed(client[c])'
  BY <1>3, <1>7 DEF Formed, Editing, Toggling, Sweeping
<1>9. OwnersSeen(client[c])'
  BY <1>1, <1>3 DEF OwnersSeen, Open, Editing, Toggling
<1>10. OwnersKept(c)
  BY <1>1, <1>4, <1>6, <1>9 DEF OwnersKept, OwnerInv
<1>11. AddsOnce(client[c])' \/ (pc = "add" /\ lists[l].kind # "favorites" /\ Favored(l)')
  BY <1>3 DEF AddsOnce, Editing
<1>12. AddsOnce(client[c])'
  BY <1>1, <1>11 DEF Favored, Open
<1>13. OnceKept(c)
  <2>1. CASE pc = "add"
    BY <1>4, <1>6, <1>12, <2>1, Alone DEF OnceKept, OnceInv
  <2>2. CASE pc # "add"
    <3>1. client'[c].pc \notin Adding
      BY <1>3, <2>2 DEF Editing, Adding, Toggling, Sweeping
    <3> QED
      BY <1>4, <1>6, <1>12, <2>2, <3>1 DEF OnceKept, OnceInv
  <2> QED
    BY <2>1, <2>2
<1> QED
  BY <1>3, <1>6, <1>8, <1>10, <1>13, StepKeeps

LEMMA EditSteps ==
  ASSUME PlaylistInv, NEW c \in Clients, NEW u \in Users, NEW l \in Open,
         \/ AskRename(c, u, l) \/ AskDelete(c, u, l) \/ AskReorder(c, u, l)
         \/ \E things \in Batches : AskAdd(c, u, l, things)
         \/ \E i \in items : AskRemove(c, u, l, i.id)
  PROVE  PlaylistInv'
<1>1. CASE AskRename(c, u, l)
  BY <1>1, EditKeeps DEF AskRename, Editing
<1>2. CASE AskDelete(c, u, l)
  BY <1>2, EditKeeps DEF AskDelete, Editing
<1>3. CASE AskReorder(c, u, l)
  <2> DEFINE ids == {i.id : i \in In(l)}
  <2>1. PICK n \in Nat : \A i \in items : i.id \in 1..n
    BY DEF PlaylistInv, ListInv, Numbered
  <2>2. ids \subseteq 1..n
    BY <2>1 DEF In
  <2>3. IsFiniteSet(1..n)
    BY FS_Interval
  <2>4. Cardinality(ids) \in Nat
    BY <2>2, <2>3, FS_Subset, FS_CardinalityType
  <2>5. PICK order \in Orders(ids) : Edit(c, u, l, "reorder", order) /\ UNCHANGED crossed
    BY <1>3 DEF AskReorder
  <2>6. DOMAIN order = 1..Cardinality(ids)
    BY DEF Orders
  <2> HIDE DEF ids
  <2> QED
    BY <2>4, <2>5, <2>6, EditKeeps DEF Editing
<1>4. ASSUME NEW things \in Batches, AskAdd(c, u, l, things)
      PROVE  PlaylistInv'
  BY <1>4, EditKeeps DEF AskAdd, Editing
<1>5. ASSUME NEW i \in items, AskRemove(c, u, l, i.id)
      PROVE  PlaylistInv'
  BY <1>5, EditKeeps DEF AskRemove, Editing
<1> QED
  BY <1>1, <1>2, <1>3, <1>4, <1>5

(* A toggle is asked for, a download lands: nothing is read yet but whose  *)
(* favorites they are.                                                     *)
LEMMA FavoritesAre ==
  ASSUME Numbered, NEW u, Favorites(u) # {}
  PROVE  Largest(Favorites(u)) \in Favorites(u)
<1>1. PICK n \in Nat : Open \subseteq 1..n
  BY DEF Numbered
<1>2. Favorites(u) \subseteq 0..n
  <2>1. Favorites(u) \subseteq Open
    BY DEF Favorites
  <2>2. \A l \in 1..n : l \in 0..n
    OBVIOUS
  <2>3. \A l \in Favorites(u) : l \in 1..n
    BY <1>1, <2>1
  <2> QED
    BY <2>2, <2>3
<1> QED
  BY <1>2, LargestIs

LEMMA AskToggleStep ==
  ASSUME PlaylistInv, NEW c \in Clients, NEW u \in Users, NEW thing \in Things, AskToggle(c, u, thing)
  PROVE  PlaylistInv'
<1> DEFINE r == [pc |-> IF Favorites(u) = {} THEN "create" ELSE IF thing.at = "local" THEN "look" ELSE "unlike",
                 does |-> "toggle", user |-> u, list |-> Largest(Favorites(u)), arg |-> thing]
<1>1. Asks(c, r) /\ Crossing(c) /\ UNCHANGED <<lists, items, track, landed, reissued>>
  BY DEF AskToggle
<1>2. r.pc \in {"create", "look", "unlike"} /\ r.does = "toggle"
  OBVIOUS
<1>3. ActsAlone(c) /\ client'[c] = r /\ client[c].pc = "free" /\ Sweeps(c)'
  BY <1>1, <1>2, Asking DEF Toggling
<1>4. ListInv /\ OwnerInv /\ OnceInv
  BY DEF PlaylistInv
<1>5. Marked'
  BY <1>1, <1>4 DEF ListInv, Marked
<1>6. ListInv' /\ ListsStay /\ FavoritesShrink /\ (Owned => Owned') /\ (Once => Once')
  BY <1>1, <1>4, <1>5, FewerItems
<1>7. DOMAIN r = {"pc", "does", "user", "list", "arg"}
  OBVIOUS
<1>8. Formed(client[c])'
  BY <1>2, <1>3, <1>7 DEF Formed, Editing, Toggling, Sweeping
<1>9. OwnersSeen(client[c])'
  <2>1. CASE Favorites(u) = {}
    BY <1>3, <2>1 DEF OwnersSeen, Editing, Toggling
  <2>2. CASE Favorites(u) # {}
    <3>1. r.list \in Favorites(u)
      BY <1>4, <2>2, FavoritesAre DEF ListInv
    <3>2. r.list \in Open /\ lists[r.list].kind = "favorites" /\ lists[r.list].user = u
      BY <3>1 DEF Favorites
    <3>3. client'[c].pc \notin Editing /\ client'[c].list = r.list /\ client'[c].user = u
      BY <1>2, <1>3 DEF Editing
    <3> QED
      BY <1>1, <3>2, <3>3 DEF OwnersSeen, Favored, Open
  <2> QED
    BY <2>1, <2>2
<1>10. OwnersKept(c)
  BY <1>1, <1>4, <1>6, <1>9 DEF OwnersKept, OwnerInv
<1>11. AddsOnce(client[c])'
  BY <1>2, <1>3 DEF AddsOnce
<1>12. OnceKept(c)
  BY <1>1, <1>4, <1>6, <1>11, Alone DEF OnceKept, OnceInv
<1> QED
  BY <1>3, <1>6, <1>8, <1>10, <1>12, StepKeeps

LEMMA ApproveStep ==
  ASSUME PlaylistInv, NEW c \in Clients, NEW h \in Remotes, Approve(c, h)
  PROVE  PlaylistInv'
<1> DEFINE r == [pc |-> "read", does |-> "sweep"]
<1>1. /\ Asks(c, r) /\ Crossing(c) /\ UNCHANGED <<lists, items, reissued>>
      /\ track' = [track EXCEPT ![Becomes[h]] = "shown"]
  BY DEF Approve
<1>3. ActsAlone(c) /\ client'[c] = r /\ client[c].pc = "free" /\ Sweeps(c)'
  BY <1>1, Asking DEF Sweeping
<1>4. ListInv /\ OwnerInv /\ OnceInv
  BY DEF PlaylistInv
<1>5. Marked'
  BY <1>1, <1>4, PlaylistAssumption DEF ListInv, Marked
<1>6. ListInv' /\ ListsStay /\ FavoritesShrink /\ (Owned => Owned') /\ (Once => Once')
  BY <1>1, <1>4, <1>5, FewerItems
<1>8. Formed(client[c])' /\ OwnersSeen(client[c])' /\ AddsOnce(client[c])'
  BY <1>3 DEF Formed, OwnersSeen, AddsOnce, Editing, Toggling, Sweeping
<1>10. OwnersKept(c)
  BY <1>1, <1>4, <1>6, <1>8 DEF OwnersKept, OwnerInv
<1>12. OnceKept(c)
  BY <1>1, <1>4, <1>6, <1>8, Alone DEF OnceKept, OnceInv
<1> QED
  BY <1>3, <1>6, <1>8, <1>10, <1>12, StepKeeps

(* A request that ends leaves nothing to show of its client.               *)
LEMMA RestIs ==
  ASSUME PlaylistInv, NEW c \in Clients, Rest(c), client[c].pc # "free"
  PROVE  /\ ActsAlone(c) /\ client'[c] = Free /\ Formed(client[c])' /\ Sweeps(c)'
         /\ OwnersSeen(client[c])' /\ AddsOnce(client[c])' /\ client'[c].pc \notin Adding
<1>1. client' = [client EXCEPT ![c] = Free] /\ DOMAIN client = Clients
  BY DEF PlaylistInv, ClientInv, Rest
<1>2. ActsAlone(c) /\ client'[c] = Free
  BY <1>1 DEF ActsAlone
<1>3. client'[c].pc = "free"
  BY <1>2 DEF Free
<1> QED
  BY <1>2, <1>3 DEF Formed, Sweeps, Starts, OwnersSeen, AddsOnce, Adding, Editing, Toggling, Sweeping

LEMMA RenameStep ==
  ASSUME PlaylistInv, NEW c \in Clients, RenamePlaylist(c)
  PROVE  PlaylistInv'
<1> DEFINE r == client[c]
<1>1. /\ r.pc = "rename" /\ Rest(c) /\ UNCHANGED <<items, track, reissued, crossed>>
      /\ lists' = IF r.list \in Open THEN [lists EXCEPT ![r.list].named = r.user] ELSE lists
  BY DEF RenamePlaylist
<1>2. /\ ActsAlone(c) /\ Formed(client[c])' /\ Sweeps(c)' /\ OwnersSeen(client[c])' /\ AddsOnce(client[c])'
      /\ client'[c].pc \notin Adding
  BY <1>1, RestIs
<1>3. ListInv /\ OwnerInv /\ OnceInv
  BY DEF PlaylistInv
<1>4. /\ Open' = Open
      /\ \A l \in Open : /\ lists'[l].user = lists[l].user /\ lists'[l].kind = lists[l].kind
                         /\ DOMAIN lists'[l] = DOMAIN lists[l]
                         /\ lists'[l].named \in {lists[l].named} \cup (IF l = r.list THEN {r.user} ELSE {})
  BY <1>1, <1>3 DEF Open, ListInv, Placed
<1>5. ListInv'
  <2>1. Numbered' /\ Marked' /\ Ordered'
    BY <1>1, <1>3, <1>4 DEF ListInv, Numbered, Marked, Ordered
  <2>2. Placed' /\ OneFavorites'
    BY <1>1, <1>3, <1>4 DEF ListInv, Placed, OneFavorites, Favored, What
  <2> QED
    BY <2>1, <2>2 DEF ListInv
<1>6. ListsStay /\ FavoritesShrink /\ (Once => Once')
  BY <1>1, <1>3, <1>4 DEF ListsStay, FavoritesShrink, Favored, What, Once, ListInv, Placed
<1>7. ~reissued => Owned'
  <2> SUFFICES ASSUME ~reissued PROVE Owned'
    OBVIOUS
  <2>1. Owned /\ OwnersSeen(r)
    BY <1>3 DEF OwnerInv
  <2>2. r.list \in Open => lists[r.list].user = r.user
    BY <1>1, <2>1 DEF OwnersSeen, Editing
  <2> QED
    BY <1>1, <1>3, <1>4, <2>1, <2>2 DEF Owned, ListInv, Placed
<1>8. OwnersKept(c)
  BY <1>1, <1>2, <1>6, <1>7 DEF OwnersKept
<1>9. OnceKept(c)
  BY <1>1, <1>2, <1>3, <1>6 DEF OnceKept, OnceInv
<1> QED
  BY <1>2, <1>5, <1>8, <1>9, StepKeeps

(* Favorites are deleted by nobody whose request kept its list.            *)
LEMMA DeleteStep ==
  ASSUME PlaylistInv, NEW c \in Clients, DeletePlaylist(c)
  PROVE  PlaylistInv'
<1> DEFINE r == client[c]
<1>1. /\ r.pc = "delete" /\ Rest(c) /\ UNCHANGED <<track, reissued, crossed>>
      /\ lists' = [l \in Open \ {r.list} |-> lists[l]] /\ items' = items \ In(r.list)
  BY DEF DeletePlaylist
<1>2. /\ ActsAlone(c) /\ Formed(client[c])' /\ Sweeps(c)' /\ OwnersSeen(client[c])' /\ AddsOnce(client[c])'
      /\ client'[c].pc \notin Adding
  BY <1>1, RestIs
<1>3. ListInv /\ OwnerInv /\ OnceInv /\ Formed(r)
  BY DEF PlaylistInv, ClientInv
<1>4. Open' = Open \ {r.list} /\ \A l \in Open' : lists'[l] = lists[l]
  BY <1>1 DEF Open
<1>5. items' \subseteq items /\ \A i \in items' : i.list # r.list
  BY <1>1 DEF In
<1>6. ListInv'
  <2>1. Numbered' /\ Marked' /\ Ordered'
    BY <1>1, <1>3, <1>4, <1>5 DEF ListInv, Numbered, Marked, Ordered
  <2>2. Placed' /\ OneFavorites'
    BY <1>3, <1>4, <1>5 DEF ListInv, Placed, OneFavorites, Favored, What
  <2> QED
    BY <2>1, <2>2 DEF ListInv
<1>7. FavoritesShrink /\ (Once => Once')
  BY <1>4, <1>5 DEF FavoritesShrink, Favored, What, Once
<1>8. ~reissued => ListsStay /\ Owned'
  <2> SUFFICES ASSUME ~reissued PROVE ListsStay /\ Owned'
    OBVIOUS
  <2>1. Owned /\ OwnersSeen(r) /\ r.kind = "regular"
    BY <1>1, <1>3 DEF OwnerInv, Formed
  <2>2. ~Favored(r.list)
    BY <1>1, <2>1 DEF OwnersSeen, Favored, Editing
  <2>3. ListsStay
    BY <1>4, <2>2 DEF ListsStay
  <2> QED
    BY <1>3, <1>4, <1>5, <2>1, <2>3 DEF Owned, ListInv, Placed
<1>9. OwnersKept(c)
  BY <1>1, <1>2, <1>8 DEF OwnersKept
<1>10. OnceKept(c)
  BY <1>1, <1>2, <1>3, <1>7 DEF OnceKept, OnceInv
<1> QED
  BY <1>2, <1>6, <1>9, <1>10, StepKeeps

LEMMA RemoveStep ==
  ASSUME PlaylistInv, NEW c \in Clients, RemovePlaylistItem(c)
  PROVE  PlaylistInv'
<1>1. /\ client[c].pc = "remove" /\ Rest(c) /\ UNCHANGED <<lists, track, reissued, crossed>> /\ items' \subseteq items
  BY DEF RemovePlaylistItem
<1>2. /\ ActsAlone(c) /\ Formed(client[c])' /\ Sweeps(c)' /\ OwnersSeen(client[c])' /\ AddsOnce(client[c])'
      /\ client'[c].pc \notin Adding
  BY <1>1, RestIs
<1>3. ListInv /\ OwnerInv /\ OnceInv /\ Marked'
  BY <1>1 DEF PlaylistInv, ListInv, Marked
<1>4. ListInv' /\ ListsStay /\ FavoritesShrink /\ (Owned => Owned') /\ (Once => Once')
  BY <1>1, <1>3, FewerItems
<1>5. OwnersKept(c) /\ OnceKept(c)
  BY <1>1, <1>2, <1>3, <1>4 DEF OwnersKept, OnceKept, OwnerInv, OnceInv
<1> QED
  BY <1>2, <1>4, <1>5, StepKeeps

(* A reordering moves the items of one list to distinct places.            *)
LEMMA ReorderStep ==
  ASSUME PlaylistInv, NEW c \in Clients, ReorderPlaylist(c)
  PROVE  PlaylistInv' /\ Reordered(c)
<1> DEFINE r == client[c]
           Place(i) == CHOOSE k \in DOMAIN r.arg : r.arg[k] = i.id
           Moved(i) == [i EXCEPT !.pos = Place(i)]
<1>1. /\ r.pc = "reorder" /\ Rest(c) /\ UNCHANGED <<lists, track, reissued, crossed>>
      /\ items' = IF SameItems(r.list, r.arg) THEN (items \ In(r.list)) \cup {Moved(i) : i \in In(r.list)} ELSE items
  BY DEF ReorderPlaylist
<1>2. /\ ActsAlone(c) /\ Formed(client[c])' /\ Sweeps(c)' /\ OwnersSeen(client[c])' /\ AddsOnce(client[c])'
      /\ client'[c].pc \notin Adding
  BY <1>1, RestIs
<1>3. ListInv /\ OwnerInv /\ OnceInv /\ Formed(r) /\ Marked'
  BY <1>1 DEF PlaylistInv, ListInv, ClientInv, Marked
<1>4. CASE items' = items
  <2>1. ListInv' /\ ListsStay /\ FavoritesShrink /\ (Owned => Owned') /\ (Once => Once')
    BY <1>1, <1>3, <1>4, FewerItems
  <2>2. OwnersKept(c) /\ OnceKept(c)
    BY <1>1, <1>2, <1>3, <2>1 DEF OwnersKept, OnceKept, OwnerInv, OnceInv
  <2>3. Reordered(c)
    BY <1>4 DEF Reordered, Kept, What
  <2> QED
    BY <1>2, <2>1, <2>2, <2>3, StepKeeps
<1>5. CASE SameItems(r.list, r.arg)
  <2>1. PICK m \in Nat : DOMAIN r.arg = 1..m
    BY <1>1, <1>3 DEF Formed
  <2>2. \A i \in In(r.list) : \E k \in DOMAIN r.arg : r.arg[k] = i.id
    BY <1>5 DEF SameItems
  <2>3. \A i \in In(r.list) : Place(i) \in 1..m /\ r.arg[Place(i)] = i.id
    BY <2>1, <2>2
  <2>4. \A i \in In(r.list) : i \in items /\ i.list = r.list /\ i \in Item
    BY <1>3 DEF In, ListInv, Placed
  <2> HIDE DEF Place
  <2>5. \A i \in In(r.list) : /\ Moved(i).id = i.id /\ Moved(i).list = i.list /\ Moved(i).at = i.at
                              /\ Moved(i).of = i.of /\ Moved(i).by = i.by /\ Moved(i).pos = Place(i)
                              /\ Moved(i) \in Item
    BY <2>3, <2>4 DEF Item
  <2> HIDE DEF Moved
  <2>6. \A j \in items' : \/ j \in items /\ j.list # r.list
                          \/ \E i \in In(r.list) : j = Moved(i)
    BY <1>1, <1>5 DEF In
  <2>7. \A j \in items' : \E i \in items : /\ j.id = i.id /\ j.list = i.list /\ What(j) = What(i) /\ j.by = i.by
                                           /\ j \in Item
                                           /\ (j = i /\ j.list # r.list) \/ (j.list = r.list /\ j.pos = Place(i) /\ j = Moved(i) /\ i \in In(r.list))
    BY <1>3, <2>4, <2>5, <2>6 DEF What, ListInv, Placed
  <2>8. Ordered'
    <3> SUFFICES ASSUME NEW j \in items', NEW k \in items', j # k
                 PROVE  j.id # k.id /\ (j.list = k.list => j.pos # k.pos)
      BY DEF Ordered
    <3>1. PICK p \in items : /\ j.id = p.id /\ j.list = p.list
                             /\ (j = p /\ j.list # r.list) \/ (j.list = r.list /\ j.pos = Place(p) /\ j = Moved(p) /\ p \in In(r.list))
      BY <2>7
    <3>2. PICK q \in items : /\ k.id = q.id /\ k.list = q.list
                             /\ (k = q /\ k.list # r.list) \/ (k.list = r.list /\ k.pos = Place(q) /\ k = Moved(q) /\ q \in In(r.list))
      BY <2>7
    <3>3. p # q
      BY <3>1, <3>2
    <3>4. p.id # q.id /\ (p.list = q.list => p.pos # q.pos)
      BY <1>3, <3>3 DEF ListInv, Ordered
    <3>5. p \in In(r.list) /\ q \in In(r.list) => Place(p) # Place(q)
      BY <2>3, <3>4
    <3> QED
      BY <3>1, <3>2, <3>4, <3>5
  <2>9. Numbered'
    <3>1. PICK n \in Nat : Open \subseteq 1..n /\ \A i \in items : i.id \in 1..n /\ i.pos \in 1..n
      BY <1>3 DEF ListInv, Numbered
    <3>2. Open' = Open /\ n + m \in Nat
      BY <1>1 DEF Open
    <3>3. \A x \in 1..n : x \in 1..(n + m)
      OBVIOUS
    <3>4. \A x \in 1..m : x \in 1..(n + m)
      OBVIOUS
    <3>5. \A j \in items' : j.id \in 1..(n + m) /\ j.pos \in 1..(n + m)
      BY <2>3, <2>7, <3>1, <3>3, <3>4
    <3> QED
      BY <3>1, <3>2, <3>3, <3>5 DEF Numbered
  <2>10. Placed' /\ OneFavorites'
    BY <1>1, <1>3, <2>7, ZenonT(60) DEF ListInv, Placed, OneFavorites, Favored, Open, What
  <2>11. ListInv'
    BY <1>3, <2>8, <2>9, <2>10 DEF ListInv
  <2>12. ListsStay /\ FavoritesShrink
    BY <1>1, <2>7 DEF ListsStay, FavoritesShrink, Favored, Open, What
  <2>13. Once => Once'
    BY <2>8, <2>10, <2>12, ShrinkOnce DEF Placed
  <2>14. Owned => Owned'
    BY <1>1, <2>7 DEF Owned, Open
  <2>15. OwnersKept(c) /\ OnceKept(c)
    BY <1>1, <1>2, <1>3, <2>12, <2>13, <2>14 DEF OwnersKept, OnceKept, OwnerInv, OnceInv
  <2>16. Kept(r.list, items') = Kept(r.list, items)
    <3> DEFINE Seen(i) == [id |-> i.id, what |-> What(i), by |-> i.by]
    <3>1. ASSUME NEW j \in items', j.list = r.list
          PROVE  \E i \in items : i.list = r.list /\ Seen(i) = Seen(j)
      BY <2>7, <3>1
    <3>2. ASSUME NEW i \in items, i.list = r.list
          PROVE  \E j \in items' : j.list = r.list /\ Seen(i) = Seen(j)
      <4>1. i \in In(r.list) /\ Moved(i) \in items'
        BY <1>1, <1>5, <3>2 DEF In
      <4>2. Moved(i).list = r.list /\ Seen(Moved(i)) = Seen(i)
        BY <2>5, <3>2, <4>1 DEF What
      <4> QED
        BY <4>1, <4>2
    <3>3. Kept(r.list, items) = {Seen(i) : i \in {j \in items : j.list = r.list}}
      BY DEF Kept
    <3>4. Kept(r.list, items') = {Seen(i) : i \in {j \in items' : j.list = r.list}}
      BY DEF Kept
    <3> HIDE DEF Seen
    <3> QED
      BY <3>1, <3>2, <3>3, <3>4
  <2>17. \A j \in items' : j.list = r.list => r.arg[j.pos] = j.id
    BY <2>3, <2>7
  <2>18. Reordered(c)
    BY <2>16, <2>17 DEF Reordered
  <2> QED
    BY <1>2, <2>11, <2>15, <2>18, StepKeeps
<1> QED
  BY <1>1, <1>4, <1>5

-----------------------------------------------------------------------------
(* What is added goes to the end of a list that is there.                  *)
LEMMA BatchesAre ==
  \A b \in Batches : b \in Seq(Things)
<1> SUFFICES ASSUME NEW b \in Batches PROVE b \in Seq(Things)
  OBVIOUS
<1>1. b \in Seq([at : {"local"}, of : Tracks] \cup [at : {"remote"}, of : Remotes])
  BY PlaylistAssumption
<1>2. \A thing \in [at : {"local"}, of : Tracks] \cup [at : {"remote"}, of : Remotes] : thing \in Things
  BY DEF Things, Local, Remote
<1> QED
  BY <1>1, <1>2

LEMMA AppendKeeps ==
  ASSUME Numbered, Placed, Ordered, NEW l \in Nat, l \in Open', Open \subseteq Open',
         \E n \in Nat : Open' \subseteq 1..n, \A k \in Open' : DOMAIN lists'[k] = {"user", "kind", "named"},
         NEW things \in Seq(Things), NEW kept, kept \subseteq DOMAIN things, NEW u \in Users,
         items' = items \cup Appended(l, things, kept, u)
  PROVE  Numbered' /\ Placed' /\ Ordered'
<1> DEFINE new == Appended(l, things, kept, u)
<1>1. /\ \A i \in new : i \in Item /\ i.list = l /\ What(i) \in Things /\ i.id >= NextItemId /\ i.pos > LastPosition(l)
      /\ \A i, j \in new : i # j => i.id # j.id /\ i.pos # j.pos
      /\ \A i \in new : i.id < NextItemId + Len(things) /\ i.pos <= LastPosition(l) + Len(things)
  BY AppendedItems
<1>2. /\ NextItemId \in Nat \ {0} /\ \A i \in items : i.id \in Nat /\ i.id < NextItemId
      /\ LastPosition(l) \in Nat /\ \A i \in In(l) : i.pos \in Nat /\ i.pos <= LastPosition(l)
  BY NextIds
<1> HIDE DEF new
<1>3. items' = items \cup new
  BY DEF new
<1>4. Ordered'
  <2>1. ASSUME NEW i \in items, NEW j \in new
        PROVE  i.id # j.id /\ (i.list = j.list => i.pos # j.pos)
    <3>1. i.id \in Nat /\ j.id \in Nat /\ i.id < NextItemId /\ j.id >= NextItemId
      BY <1>1, <1>2 DEF Item
    <3>2. ASSUME i.list = j.list
          PROVE  i.pos # j.pos
      <4>1. i \in In(l) /\ j.pos \in Nat
        BY <1>1, <3>2 DEF In, Item
      <4> QED
        BY <1>1, <1>2, <4>1
    <3> QED
      BY <1>2, <3>1, <3>2
  <2> QED
    BY <1>1, <1>3, <2>1 DEF Ordered
<1>5. Placed'
  BY <1>1, <1>3 DEF Placed, What
<1>6. Numbered'
  <2>1. PICK m \in Nat : \A i \in items : i.id \in 1..m /\ i.pos \in 1..m
    BY DEF Numbered
  <2>2. PICK n \in Nat : Open' \subseteq 1..n
    OBVIOUS
  <2> DEFINE top == m + n + NextItemId + LastPosition(l) + Len(things)
  <2>3. top \in Nat /\ Len(things) \in Nat
    BY <1>2
  <2>4. \A i \in items : i.id \in 1..top /\ i.pos \in 1..top
    BY <1>2, <2>1, <2>3
  <2>5. ASSUME NEW i \in new
        PROVE  i.id \in 1..top /\ i.pos \in 1..top
    <3>1. i.id \in Nat /\ i.pos \in Nat
      BY <1>1 DEF Item
    <3> QED
      BY <1>1, <1>2, <2>3, <3>1
  <2>6. \A k \in Open' : k \in 1..top
    <3>1. \A k \in 1..n : k \in 1..top
      BY <1>2, <2>3
    <3> QED
      BY <2>2, <3>1
  <2> HIDE DEF top
  <2> QED
    BY <1>3, <2>3, <2>4, <2>5, <2>6 DEF Numbered
<1> QED
  BY <1>4, <1>5, <1>6

LEMMA NewListIs ==
  ASSUME PlaylistInv, NEW u \in Users, NEW kind, NewList(u, kind)
  PROVE  /\ NextListId \in Nat /\ NextListId \notin Open /\ Open' = Open \cup {NextListId}
         /\ lists'[NextListId] = [user |-> u, kind |-> kind, named |-> u]
         /\ \A l \in Open : lists'[l] = lists[l]
         /\ \A l \in Open' : DOMAIN lists'[l] = {"user", "kind", "named"}
         /\ \E n \in Nat : Open' \subseteq 1..n
         /\ \A i \in items : i.list # NextListId
         /\ reissued' \/ (~reissued /\ ListsStay)
<1>1. ListInv /\ ClientInv
  BY DEF PlaylistInv
<1>2. NextListId \in Nat \ {0} /\ NextListId \notin Open
  BY <1>1, NextIds DEF ListInv
<1>3. lists' = [l \in Open \cup {NextListId} |->
                  IF l = NextListId THEN [user |-> u, kind |-> kind, named |-> u] ELSE lists[l]]
  BY DEF NewList
<1>4. Open' = Open \cup {NextListId} /\ lists'[NextListId] = [user |-> u, kind |-> kind, named |-> u]
      /\ \A l \in Open : lists'[l] = lists[l]
  BY <1>2, <1>3 DEF Open
<1>5. \A l \in Open' : DOMAIN lists'[l] = {"user", "kind", "named"}
  BY <1>1, <1>4 DEF ListInv, Placed
<1>6. \E n \in Nat : Open' \subseteq 1..n
  <2>1. PICK n \in Nat : Open \subseteq 1..n
    BY <1>1 DEF ListInv, Numbered
  <2>2. n + NextListId \in Nat /\ \A l \in 1..n : l \in 1..(n + NextListId)
    BY <1>2
  <2>3. NextListId \in 1..(n + NextListId)
    BY <1>2
  <2>4. Open' \subseteq 1..(n + NextListId)
    BY <1>4, <2>1, <2>2, <2>3
  <2> QED
    BY <2>2, <2>4
<1>7. reissued' \/ (~reissued /\ ListsStay)
  <2> SUFFICES ASSUME ~reissued' PROVE ~reissued /\ ListsStay
    OBVIOUS
  <2>1. ~reissued /\ \A d \in Clients : ~(~AtRest(d) /\ client[d].does = "edit" /\ client[d].list = NextListId)
    BY DEF NewList
  <2>2. ASSUME NEW d \in Clients, client[d].pc \in Editing
        PROVE  client[d].list # NextListId
    <3>1. client[d].does = "edit" /\ client[d].pc # "free"
      BY <1>1, <2>2 DEF ClientInv, Formed, Editing
    <3>2. ~AtRest(d)
      BY <3>1 DEF AtRest, Free
    <3> QED
      BY <2>1, <3>1, <3>2
  <2> QED
    BY <1>4, <2>1, <2>2 DEF ListsStay
<1>8. \A i \in items : i.list # NextListId
  BY <1>1, <1>2 DEF ListInv, Placed
<1> QED
  BY <1>2, <1>4, <1>5, <1>6, <1>7, <1>8

LEMMA CreateStep ==
  ASSUME PlaylistInv, NEW c \in Clients, NEW u \in Users, NEW things \in Batches, CreatePlaylist(c, u, things)
  PROVE  PlaylistInv'
<1> DEFINE l == NextListId
           sweep == [pc |-> "read", does |-> "sweep"]
<1>1. /\ Asks(c, IF AnyRemote(things) THEN sweep ELSE Free) /\ NewList(u, "regular")
      /\ items' = items \cup Appended(l, things, DOMAIN things, u)
      /\ crossed' = (crossed \/ (AnyRemote(things) /\ Adders # {})) /\ track' = track
  BY DEF CreatePlaylist
<1>2. ListInv /\ OwnerInv /\ OnceInv /\ things \in Seq(Things)
  BY BatchesAre DEF PlaylistInv
<1>3. /\ l \in Nat /\ l \notin Open /\ Open' = Open \cup {l}
      /\ lists'[l] = [user |-> u, kind |-> "regular", named |-> u]
      /\ \A k \in Open : lists'[k] = lists[k]
      /\ \A k \in Open' : DOMAIN lists'[k] = {"user", "kind", "named"}
      /\ \E n \in Nat : Open' \subseteq 1..n
      /\ \A i \in items : i.list # l
      /\ reissued' \/ (~reissued /\ ListsStay)
  BY <1>1, NewListIs
<1>4. ActsAlone(c) /\ Sweeps(c)' /\ client'[c] \in {sweep, Free} /\ client[c].pc = "free"
      /\ (client'[c] = sweep => AnyRemote(things))
  <2>1. CASE AnyRemote(things)
    BY <1>1, <2>1, Asking DEF Sweeping
  <2>2. CASE ~AnyRemote(things)
    <3>1. client' = [client EXCEPT ![c] = Free] /\ client[c] = Free /\ ~Starting /\ DOMAIN client = Clients
      BY <1>1, <2>2 DEF Asks, AtRest, PlaylistInv, ClientInv
    <3>2. \A d \in Clients : ~Starts(d)
      BY <3>1 DEF Starting, Starts, AtRest, Free
    <3>3. client'[c] = Free /\ client[c].pc = "free" /\ ActsAlone(c)
      BY <3>1, <3>2 DEF ActsAlone, Free
    <3>4. Sweeps(c)'
      BY <3>3 DEF Sweeps, Starts, Free
    <3>5. Free # sweep
      <4>1. Free.pc # sweep.pc
        BY DEF Free
      <4> QED
        BY <4>1
    <3> QED
      BY <3>3, <3>4, <3>5
  <2> QED
    BY <2>1, <2>2
<1>5. client'[c].pc \in {"read", "free"} /\ (client'[c].pc = "free" => client'[c] = Free)
      /\ (client'[c].pc = "read" => client'[c].does = "sweep" /\ AnyRemote(things))
  BY <1>4 DEF Free
<1>6. Formed(client[c])' /\ OwnersSeen(client[c])' /\ AddsOnce(client[c])'
  BY <1>5 DEF Formed, OwnersSeen, AddsOnce, Editing, Toggling, Sweeping
<1>7. Numbered' /\ Placed' /\ Ordered'
  BY <1>1, <1>2, <1>3, AppendKeeps DEF ListInv
<1>8. \A i \in items' : i \in items \/ (i.list = l /\ i.by = u)
  BY <1>1, <1>2, <1>3, AppendedItems DEF ListInv
<1>9. ListInv'
  <2>1. OneFavorites'
    BY <1>2, <1>3 DEF ListInv, OneFavorites, Favored
  <2> QED
    BY <1>1, <1>2, <1>7, <2>1 DEF ListInv, Marked
<1>10. FavoritesShrink
  BY <1>3, <1>8 DEF FavoritesShrink, Favored, What
<1>11. Once => Once'
  BY <1>7, <1>10, ShrinkOnce DEF Placed
<1>12. Owned => Owned'
  <2> SUFFICES ASSUME Owned PROVE Owned'
    OBVIOUS
  <2>1. \A k \in Open' : lists'[k].named = lists'[k].user
    BY <1>3 DEF Owned
  <2>2. \A i \in items : i.list \in Open /\ i.by = lists'[i.list].user
    BY <1>2, <1>3 DEF Owned, ListInv, Placed
  <2>3. lists'[l].user = u
    BY <1>3
  <2> HIDE DEF l
  <2> QED
    BY <1>8, <2>1, <2>2, <2>3 DEF Owned
<1>13. OwnersKept(c)
  BY <1>2, <1>3, <1>6, <1>12 DEF OwnersKept, OwnerInv
<1>14. ASSUME ~crossed', client'[c].pc \in Adding
       PROVE  \A d \in Clients : client[d].pc \notin Adding
  <2>1. AnyRemote(things)
    BY <1>5, <1>14 DEF Adding, Toggling, Sweeping
  <2>2. Adders = {}
    BY <1>1, <1>14, <2>1
  <2> QED
    BY <2>2 DEF Adders, Adding, Toggling, Sweeping
<1>15. OnceKept(c)
  BY <1>1, <1>2, <1>6, <1>10, <1>11, <1>14 DEF OnceKept, OnceInv
<1> QED
  BY <1>4, <1>6, <1>9, <1>13, <1>15, StepKeeps

LEMMA AppendOnce ==
  ASSUME Numbered, Once, lists' = lists, NEW l \in Nat, NEW things \in Seq(Things), NEW kept, kept \subseteq DOMAIN things,
         NEW u \in Users, items' = items \cup Appended(l, things, kept, u),
         Favored(l) => /\ \A k \in kept : ~Has(l, things[k])
                       /\ \A k, p \in kept : k # p => things[k] # things[p]
  PROVE  Once'
<1> DEFINE new == Appended(l, things, kept, u)
<1>1. \A i \in new : i.list = l /\ \E k \in kept : /\ What(i) = things[k]
                                                   /\ \A j \in new : j # i => \E p \in kept : p # k /\ What(j) = things[p]
  BY AppendedItems
<1>2. items' = items \cup new
  OBVIOUS
<1> HIDE DEF new
<1> SUFFICES ASSUME NEW i \in items', NEW j \in items', i # j, i.list = j.list, Favored(i.list)
             PROVE  What(i) # What(j)
  BY DEF Once, Favored, Open, What
<1>3. CASE i \in items /\ j \in items
  BY <1>3 DEF Once
<1>4. CASE i \in new /\ j \in new
  BY <1>1, <1>4
<1>5. ASSUME NEW a \in items, NEW b \in new, a.list = b.list, Favored(a.list)
      PROVE  What(a) # What(b)
  <2>1. PICK k \in kept : What(b) = things[k]
    BY <1>1
  <2>2. ~Has(l, things[k]) /\ a \in In(l)
    BY <1>1, <1>5 DEF In
  <2> QED
    BY <2>1, <2>2 DEF Has
<1> QED
  BY <1>2, <1>3, <1>4, <1>5

(* A client that goes on with its request.                                 *)
LEMMA GoesOn ==
  ASSUME PlaylistInv, NEW c \in Clients, client[c].pc # "free", NEW r, client' = [client EXCEPT ![c] = r]
  PROVE  ActsAlone(c) /\ client'[c] = r
BY DEF PlaylistInv, ClientInv, ActsAlone

(* An addition that is refused, or that puts something at the end of a     *)
(* list, and then ends or sweeps.                                          *)
LEMMA AddKeeps ==
  ASSUME PlaylistInv, NEW c \in Clients, client[c].pc \in {"add", "like"}, client[c].list \in Open,
         client'[c] \in {Free, [pc |-> "read", does |-> "sweep"]}, client' = [client EXCEPT ![c] = client'[c]],
         UNCHANGED <<lists, track, reissued, crossed>>,
         NEW things \in Seq(Things), NEW kept, kept \subseteq DOMAIN things,
         items' = items \cup Appended(client[c].list, things, kept, client[c].user),
         ~crossed /\ Favored(client[c].list) => /\ \A k \in kept : ~Has(client[c].list, things[k])
                                                /\ \A k, p \in kept : k # p => things[k] # things[p]
  PROVE  PlaylistInv'
<1> DEFINE l == client[c].list
           u == client[c].user
<1>1. ListInv /\ OwnerInv /\ OnceInv /\ Formed(client[c])
  BY DEF PlaylistInv, ClientInv
<1>2. l \in Nat /\ u \in Users /\ l \in Open
  BY <1>1 DEF Formed, ListInv, Numbered, Editing, Toggling
<1>3. ActsAlone(c)
  BY GoesOn
<1>4. client'[c].pc \in {"read", "free"} /\ (client'[c].pc = "free" => client'[c] = Free)
      /\ (client'[c].pc = "read" => client'[c].does = "sweep")
  BY DEF Free
<1>5. Formed(client[c])' /\ OwnersSeen(client[c])' /\ AddsOnce(client[c])' /\ Sweeps(c)'
  BY <1>4 DEF Formed, OwnersSeen, AddsOnce, Editing, Toggling, Sweeping, Sweeps, Starts
<1>6. Open' = Open
  BY DEF Open
<1>7. Numbered /\ Placed /\ Ordered
  BY <1>1 DEF ListInv
<1>8. (\E n \in Nat : Open' \subseteq 1..n) /\ \A k \in Open' : DOMAIN lists'[k] = {"user", "kind", "named"}
  BY <1>6, <1>7 DEF Numbered, Placed
<1>9. Numbered' /\ Placed' /\ Ordered'
  BY <1>2, <1>6, <1>7, <1>8, AppendKeeps
<1>10. ListInv'
  BY <1>1, <1>6, <1>9 DEF ListInv, Marked, OneFavorites, Favored
<1>11. \A i \in items' : i \in items \/ (i.list = l /\ i.by = u)
  BY <1>2, <1>7, AppendedItems
<1>12. ListsStay
  BY <1>6 DEF ListsStay
<1>13. ~reissued => Owned'
  <2> SUFFICES ASSUME ~reissued PROVE Owned'
    OBVIOUS
  <2>1. Owned /\ OwnersSeen(client[c])
    BY <1>1 DEF OwnerInv
  <2>2. lists[l].user = u
    BY <1>2, <2>1 DEF OwnersSeen, Editing, Toggling
  <2> QED
    BY <1>6, <1>11, <2>1, <2>2 DEF Owned
<1>14. ~crossed => Once'
  <2> SUFFICES ASSUME ~crossed PROVE Once'
    OBVIOUS
  <2>1. Once
    BY <1>1 DEF OnceInv
  <2>2. Favored(l) => /\ \A k \in kept : ~Has(l, things[k])
                      /\ \A k, p \in kept : k # p => things[k] # things[p]
    OBVIOUS
  <2>3. items' = items \cup Appended(l, things, kept, u) /\ lists' = lists
    OBVIOUS
  <2> HIDE DEF l, u
  <2> QED
    BY <1>2, <1>7, <2>1, <2>2, <2>3, AppendOnce
<1>15. OwnersKept(c)
  BY <1>5, <1>12, <1>13 DEF OwnersKept
<1>16. client[c].pc \in Adding
  BY DEF Adding, Toggling
<1>17. OnceKept(c)
  BY <1>5, <1>14, <1>16 DEF OnceKept
<1> QED
  BY <1>3, <1>5, <1>10, <1>15, <1>17, StepKeeps

(* A request that ends without a change.                                   *)
LEMMA RestKeeps ==
  ASSUME PlaylistInv, NEW c \in Clients, Rest(c), client[c].pc # "free",
         items' \subseteq items, UNCHANGED <<lists, track, reissued, crossed>>
  PROVE  PlaylistInv'
<1>1. /\ ActsAlone(c) /\ Formed(client[c])' /\ Sweeps(c)' /\ OwnersSeen(client[c])' /\ AddsOnce(client[c])'
      /\ client'[c].pc \notin Adding
  BY RestIs
<1>2. ListInv /\ OwnerInv /\ OnceInv /\ Marked'
  BY DEF PlaylistInv, ListInv, Marked
<1>3. ListInv' /\ ListsStay /\ FavoritesShrink /\ (Owned => Owned') /\ (Once => Once')
  BY <1>2, FewerItems
<1>4. OwnersKept(c) /\ OnceKept(c)
  BY <1>1, <1>2, <1>3 DEF OwnersKept, OnceKept, OwnerInv, OnceInv
<1> QED
  BY <1>1, <1>3, <1>4, StepKeeps

LEMMA AddStep ==
  ASSUME PlaylistInv, NEW c \in Clients, AddPlaylistItems(c)
  PROVE  PlaylistInv'
<1> DEFINE r == client[c]
           kept == IF r.kind = "favorites" THEN Fresh(r.list, r.arg) ELSE DOMAIN r.arg
           sweep == [pc |-> "read", does |-> "sweep"]
<1>1. /\ r.pc = "add" /\ UNCHANGED <<lists, track, reissued, crossed>>
      /\ \/ /\ r.list \in Open /\ items' = items \cup Appended(r.list, r.arg, kept, r.user)
            /\ client' = [client EXCEPT ![c] = IF AnyRemote(r.arg) THEN sweep ELSE Free]
         \/ UNCHANGED items /\ Rest(c)
  BY DEF AddPlaylistItems
<1>2. CASE UNCHANGED items /\ Rest(c)
  BY <1>1, <1>2, RestKeeps
<1>3. CASE /\ r.list \in Open /\ items' = items \cup Appended(r.list, r.arg, kept, r.user)
           /\ client' = [client EXCEPT ![c] = IF AnyRemote(r.arg) THEN sweep ELSE Free]
  <2>1. r.arg \in Seq(Things)
    BY <1>1, BatchesAre DEF PlaylistInv, ClientInv, Formed
  <2>2. kept \subseteq DOMAIN r.arg
    BY DEF Fresh
  <2>3. client'[c] \in {Free, sweep} /\ client' = [client EXCEPT ![c] = client'[c]]
    BY <1>3 DEF PlaylistInv, ClientInv
  <2>4. ASSUME ~crossed, Favored(r.list)
        PROVE  /\ \A k \in kept : ~Has(r.list, r.arg[k])
               /\ \A k, p \in kept : k # p => r.arg[k] # r.arg[p]
    <3>1. r.kind = "favorites"
      BY <1>1, <2>4 DEF PlaylistInv, OnceInv, AddsOnce
    <3>2. kept = Fresh(r.list, r.arg)
      BY <3>1
    <3>3. \A k \in kept : k \in 1..Len(r.arg) /\ ~Has(r.list, r.arg[k]) /\ \A j \in 1..(k - 1) : r.arg[j] # r.arg[k]
      BY <2>1, <3>2 DEF Fresh
    <3> HIDE DEF kept, r
    <3>4. ASSUME NEW k \in kept, NEW p \in kept, k < p
          PROVE  r.arg[k] # r.arg[p]
      <4>1. k \in 1..(p - 1)
        BY <3>3, <3>4
      <4> QED
        BY <3>3, <4>1
    <3>5. \A k, p \in kept : k # p => k < p \/ p < k
      BY <3>3
    <3> QED
      BY <3>3, <3>4, <3>5
  <2> HIDE DEF kept
  <2> QED
    BY <1>1, <1>3, <2>1, <2>2, <2>3, <2>4, AddKeeps
<1> QED
  BY <1>1, <1>2, <1>3

LEMMA LikeStep ==
  ASSUME PlaylistInv, NEW c \in Clients, Like(c)
  PROVE  PlaylistInv'
<1> DEFINE r == client[c]
           sweep == [pc |-> "read", does |-> "sweep"]
<1>1. /\ r.pc = "like" /\ UNCHANGED <<lists, track, reissued, crossed>>
      /\ \/ /\ r.list \in Open /\ items' = items \cup Appended(r.list, <<r.arg>>, {1}, r.user)
            /\ client' = [client EXCEPT ![c] = IF r.arg.at = "remote" THEN sweep ELSE Free]
         \/ UNCHANGED items /\ Rest(c)
  BY DEF Like, Stands
<1>2. CASE UNCHANGED items /\ Rest(c)
  BY <1>1, <1>2, RestKeeps
<1>3. CASE /\ r.list \in Open /\ items' = items \cup Appended(r.list, <<r.arg>>, {1}, r.user)
           /\ client' = [client EXCEPT ![c] = IF r.arg.at = "remote" THEN sweep ELSE Free]
  <2>1. r.arg \in Things
    BY <1>1 DEF PlaylistInv, ClientInv, Formed, Toggling
  <2> DEFINE one == <<r.arg>>
             first == {1}
  <2>2. one \in Seq(Things) /\ first \subseteq DOMAIN one /\ one[1] = r.arg
    BY <2>1
  <2>3. client'[c] \in {Free, sweep} /\ client' = [client EXCEPT ![c] = client'[c]]
    BY <1>3 DEF PlaylistInv, ClientInv
  <2>4. ~crossed /\ Favored(r.list) => ~Has(r.list, r.arg)
    BY <1>1 DEF PlaylistInv, OnceInv, AddsOnce
  <2>5. items' = items \cup Appended(r.list, one, first, r.user)
    BY <1>3
  <2> HIDE DEF one
  <2>6. ~crossed /\ Favored(r.list) => /\ \A k \in first : ~Has(r.list, one[k])
                                       /\ \A k, p \in first : k # p => one[k] # one[p]
    BY <2>2, <2>4 DEF first
  <2> HIDE DEF first
  <2> QED
    BY <1>1, <1>3, <2>2, <2>3, <2>5, <2>6, AddKeeps
<1> QED
  BY <1>1, <1>2, <1>3

-----------------------------------------------------------------------------
(* A toggle.  Favorites are made once; what is found there stays true, as  *)
(* nobody else adds.                                                       *)
LEMMA EnsureStep ==
  ASSUME PlaylistInv, NEW c \in Clients, EnsureFavorites(c)
  PROVE  PlaylistInv'
<1> DEFINE r == client[c]
           l == IF Favorites(r.user) = {} THEN NextListId ELSE Largest(Favorites(r.user))
           next == IF r.arg.at = "local" THEN "look" ELSE "unlike"
<1>1. /\ r.pc = "create" /\ UNCHANGED <<items, track, crossed>>
      /\ IF Favorites(r.user) = {} THEN NewList(r.user, "favorites") ELSE UNCHANGED <<lists, reissued>>
      /\ client' = [client EXCEPT ![c].pc = next, ![c].list = l]
  BY DEF EnsureFavorites
<1>2. ListInv /\ OwnerInv /\ OnceInv /\ Formed(r) /\ DOMAIN client = Clients
  BY DEF PlaylistInv, ClientInv
<1>3. r.user \in Users /\ r.arg \in Things /\ r.does = "toggle" /\ DOMAIN r = {"pc", "does", "user", "list", "arg"}
  BY <1>1, <1>2 DEF Formed, Toggling
<1>4. /\ client'[c].pc = next /\ client'[c].list = l /\ client'[c].user = r.user /\ client'[c].arg = r.arg
      /\ client'[c].does = "toggle" /\ DOMAIN client'[c] = {"pc", "does", "user", "list", "arg"}
  BY <1>1, <1>2, <1>3
<1>5. ActsAlone(c)
  BY <1>1, <1>2 DEF ActsAlone
<1>6. next \in {"look", "unlike"}
  OBVIOUS
<1> HIDE DEF next, l
<1>7. Formed(client[c])'
  BY <1>3, <1>4, <1>6 DEF Formed, Editing, Toggling, Sweeping
<1>8. Sweeps(c)' /\ AddsOnce(client[c])'
  BY <1>4, <1>6 DEF Sweeps, Starts, AddsOnce
<1>9. ASSUME ListInv', l \in Open', lists'[l].kind = "favorites", lists'[l].user = r.user, reissued' \/ (~reissued /\ ListsStay /\ (Owned => Owned')),
             Once => Once'
      PROVE  PlaylistInv'
  <2>1. OwnersSeen(client[c])'
    BY <1>4, <1>6, <1>9 DEF OwnersSeen, Editing, Favored
  <2>2. OwnersKept(c)
    BY <1>2, <1>9, <2>1 DEF OwnersKept, OwnerInv
  <2>3. r.pc \in Adding
    BY <1>1 DEF Adding, Toggling
  <2>4. OnceKept(c)
    BY <1>1, <1>2, <1>8, <1>9, <2>3 DEF OnceKept, OnceInv
  <2> QED
    BY <1>5, <1>7, <1>8, <1>9, <2>2, <2>4, StepKeeps
<1>10. CASE Favorites(r.user) = {}
  <2>1. l = NextListId /\ NewList(r.user, "favorites")
    BY <1>1, <1>10 DEF l
  <2>2. /\ l \in Nat /\ l \notin Open /\ Open' = Open \cup {l}
        /\ lists'[l] = [user |-> r.user, kind |-> "favorites", named |-> r.user]
        /\ \A k \in Open : lists'[k] = lists[k]
        /\ \A k \in Open' : DOMAIN lists'[k] = {"user", "kind", "named"}
        /\ \E n \in Nat : Open' \subseteq 1..n
        /\ \A i \in items : i.list # l
        /\ reissued' \/ (~reissued /\ ListsStay)
    BY <1>3, <2>1, NewListIs
  <2>3. Numbered' /\ Ordered' /\ Marked'
    BY <1>1, <1>2, <2>2 DEF ListInv, Numbered, Ordered, Marked
  <2>4. Placed'
    BY <1>1, <1>2, <2>2 DEF ListInv, Placed, What
  <2>5. \A k \in Open : ~(Favored(k) /\ lists[k].user = r.user)
    BY <1>10 DEF Favorites, Favored
  <2>6. OneFavorites'
    <3> SUFFICES ASSUME NEW j \in Open', NEW k \in Open', lists'[j].user = lists'[k].user, Favored(j)', Favored(k)'
                 PROVE  j = k
      BY DEF OneFavorites
    <3>1. j \in Open => Favored(j) /\ lists'[j].user = lists[j].user
      BY <2>2 DEF Favored
    <3>2. k \in Open => Favored(k) /\ lists'[k].user = lists[k].user
      BY <2>2 DEF Favored
    <3>3. lists'[l].user = r.user
      BY <2>2
    <3> QED
      BY <1>2, <2>2, <2>5, <3>1, <3>2, <3>3 DEF ListInv, OneFavorites
  <2>7. Owned => Owned'
    <3>1. \A i \in items : i.list \in Open
      BY <1>2 DEF ListInv, Placed
    <3>2. lists'[l].named = lists'[l].user
      BY <2>2
    <3> QED
      BY <1>1, <2>2, <3>1, <3>2 DEF Owned
  <2>8. Once => Once'
    <3>1. \A i \in items : i.list \in Open
      BY <1>2 DEF ListInv, Placed
    <3> QED
      BY <1>1, <2>2, <3>1 DEF Once, Favored, What
  <2>9. l \in Open' /\ lists'[l].kind = "favorites" /\ lists'[l].user = r.user
    BY <2>2
  <2> QED
    BY <1>9, <2>2, <2>3, <2>4, <2>6, <2>7, <2>8, <2>9 DEF ListInv
<1>11. CASE Favorites(r.user) # {}
  <2>1. l \in Favorites(r.user) /\ UNCHANGED <<lists, reissued>>
    BY <1>1, <1>2, <1>11, FavoritesAre DEF l, ListInv
  <2>2. Marked'
    BY <1>1, <1>2 DEF ListInv, Marked
  <2>3. ListInv' /\ ListsStay /\ FavoritesShrink /\ (Owned => Owned') /\ (Once => Once')
    BY <1>1, <1>2, <2>1, <2>2, FewerItems
  <2>4. l \in Open' /\ lists'[l].kind = "favorites" /\ lists'[l].user = r.user
    BY <2>1 DEF Favorites, Open
  <2>5. reissued' \/ ~reissued
    BY <2>1
  <2> QED
    BY <1>9, <2>3, <2>4, <2>5
<1> QED
  BY <1>10, <1>11

LEMMA ToggleSteps ==
  ASSUME PlaylistInv, NEW c \in Clients, Look(c) \/ Unlike(c)
  PROVE  PlaylistInv'
<1> DEFINE r == client[c]
           liked == {i \in In(r.list) : What(i) = r.arg}
<1>1. r.pc \in {"look", "unlike"} /\ UNCHANGED <<lists, track, reissued, crossed>> /\ items' \subseteq items
  BY DEF Look, Unlike
<1>2. ListInv /\ OwnerInv /\ OnceInv /\ Formed(r) /\ DOMAIN client = Clients
  BY DEF PlaylistInv, ClientInv
<1>3. CASE Rest(c)
  BY <1>1, <1>3, RestKeeps
<1>4. ASSUME NEW pc \in {"unlike", "like"}, Then(c, pc), ~crossed /\ pc = "like" => ~Has(r.list, r.arg)
      PROVE  PlaylistInv'
  <2>1. DOMAIN r = {"pc", "does", "user", "list", "arg"} /\ r.user \in Users /\ r.arg \in Things /\ r.does = "toggle"
    BY <1>1, <1>2 DEF Formed, Toggling
  <2>2. /\ client'[c].pc = pc /\ client'[c].list = r.list /\ client'[c].user = r.user /\ client'[c].arg = r.arg
        /\ client'[c].does = "toggle" /\ DOMAIN client'[c] = {"pc", "does", "user", "list", "arg"}
    BY <1>2, <1>4, <2>1 DEF Then
  <2>3. ActsAlone(c)
    BY <1>1, <1>2, <1>4 DEF ActsAlone, Then
  <2>4. Formed(client[c])' /\ Sweeps(c)'
    BY <2>1, <2>2 DEF Formed, Editing, Toggling, Sweeping, Sweeps, Starts
  <2>5. Marked'
    BY <1>1, <1>2 DEF ListInv, Marked
  <2>6. ListInv' /\ ListsStay /\ FavoritesShrink /\ (Owned => Owned') /\ (Once => Once')
    BY <1>1, <1>2, <2>5, FewerItems
  <2>7. ~reissued => OwnersSeen(client[c])'
    <3> SUFFICES ASSUME ~reissued PROVE OwnersSeen(client[c])'
      OBVIOUS
    <3>1. Favored(r.list) /\ lists[r.list].user = r.user
      BY <1>1, <1>2 DEF OwnerInv, OwnersSeen, Toggling
    <3> QED
      BY <1>1, <2>2, <3>1 DEF OwnersSeen, Editing, Favored, Open
  <2>8. ~crossed => AddsOnce(client[c])'
    BY <1>1, <1>4, <2>2 DEF AddsOnce, Favored, Has, In, What
  <2>9. r.pc \in Adding
    BY <1>1 DEF Adding, Toggling
  <2>10. OwnersKept(c) /\ OnceKept(c)
    BY <1>1, <1>2, <2>6, <2>7, <2>8, <2>9 DEF OwnersKept, OnceKept, OwnerInv, OnceInv
  <2> QED
    BY <2>3, <2>4, <2>6, <2>10, StepKeeps
<1>5. CASE Look(c)
  BY <1>3, <1>4, <1>5 DEF Look
<1>6. CASE Unlike(c)
  <2>1. CASE liked = {}
    BY <1>4, <1>6, <2>1 DEF Unlike, Has
  <2>2. CASE liked # {}
    BY <1>3, <1>6, <2>2 DEF Unlike
  <2> QED
    BY <2>1, <2>2
<1> QED
  BY <1>5, <1>6

-----------------------------------------------------------------------------
(* The sweep.  A hit is an item by its id alone: in a favorites list, still*)
(* the one that was read.                                                  *)
SweptClean == \A i \in items' : i.at = "remote" => ~Here(i.of)

(* A step of a sweep changes nothing but items, and no list of them.       *)
LEMMA SweepKeeps ==
  ASSUME PlaylistInv, NEW c \in Clients, client[c].pc \in Sweeping,
         UNCHANGED <<lists, track, landed, reissued, crossed>>,
         client' = [client EXCEPT ![c] = client'[c]], client'[c].pc \in {"free"} \cup Sweeping,
         Formed(client[c])', Sweeps(c)', Numbered', Placed', Ordered',
         \A i \in items' : \E j \in items : j.list = i.list /\ j.by = i.by,
         ~crossed => Once' /\ AddsOnce(client[c])'
  PROVE  PlaylistInv'
<1>1. ListInv /\ OwnerInv /\ OnceInv /\ client[c].pc \in Adding /\ client[c].pc # "free"
  BY DEF PlaylistInv, Adding, Sweeping
<1>2. ActsAlone(c) /\ Open' = Open
  BY <1>1, GoesOn DEF Open
<1>3. ListInv'
  BY <1>1, <1>2 DEF ListInv, Marked, OneFavorites, Favored
<1>4. ListsStay /\ (Owned => Owned')
  BY <1>1, <1>2 DEF ListsStay, Owned, ListInv, Placed
<1>5. OwnersSeen(client[c])'
  BY DEF OwnersSeen, Editing, Toggling, Sweeping
<1>6. OwnersKept(c) /\ OnceKept(c)
  BY <1>1, <1>4, <1>5 DEF OwnersKept, OnceKept, OwnerInv, OnceInv
<1> QED
  BY <1>2, <1>3, <1>6, StepKeeps

LEMMA HitsAre ==
  ASSUME PlaylistInv
  PROVE  /\ \A h \in Hits : /\ h \in Hit /\ OnShow(h.track)
                            /\ \E i \in items : h.id = i.id /\ h.list = i.list
         /\ \A i \in Due : \E h \in Hits : h.id = i.id
<1>1. \A i \in items : i \in Item /\ What(i) \in Things
  BY DEF PlaylistInv, ListInv, Placed
<1>2. ASSUME NEW i \in items, i.at = "remote"
      PROVE  Becomes[i.of] \in Tracks
  <2>1. What(i) \in {Remote(h) : h \in Remotes}
    BY <1>1, <1>2 DEF Things, What, Local
  <2>2. i.of \in Remotes
    BY <2>1 DEF What, Remote
  <2> QED
    BY <2>2, PlaylistAssumption
<1>3. ASSUME NEW h \in Hits
      PROVE  h \in Hit /\ OnShow(h.track) /\ \E i \in items : h.id = i.id /\ h.list = i.list
  <2>1. PICK i \in items : i.at = "remote" /\ Here(i.of) /\ h = [id |-> i.id, list |-> i.list, track |-> Becomes[i.of]]
    BY DEF Hits
  <2> QED
    BY <1>1, <1>2, <2>1 DEF Hit, Item, Here
<1>4. ASSUME NEW i \in Due
      PROVE  \E h \in Hits : h.id = i.id
  <2>1. [id |-> i.id, list |-> i.list, track |-> Becomes[i.of]] \in Hits
    BY DEF Due, Hits
  <2> QED
    BY <2>1
<1> QED
  BY <1>3, <1>4

LEMMA RepointReadStep ==
  ASSUME PlaylistInv, NEW c \in Clients, RepointRead(c)
  PROVE  PlaylistInv' /\ (client'[c] = Free => SweptClean)
<1> DEFINE r == client[c]
<1>1. /\ r.pc = "read" /\ UNCHANGED <<lists, items, track, landed, reissued, crossed>>
      /\ client' = [client EXCEPT ![c] = IF Hits = {} THEN Free ELSE [pc |-> "hit", does |-> @.does, left |-> Hits]]
  BY DEF RepointRead
<1>2. ListInv /\ ClientInv /\ OnceInv /\ Formed(r) /\ Sweeps(c) /\ DOMAIN client = Clients
  BY DEF PlaylistInv, ClientInv
<1>3. \/ Hits = {} /\ client'[c] = Free
      \/ Hits # {} /\ client'[c] = [pc |-> "hit", does |-> r.does, left |-> Hits]
  BY <1>1, <1>2
<1>4. client' = [client EXCEPT ![c] = client'[c]] /\ \A d \in Clients : d # c => client'[d] = client[d]
  BY <1>1, <1>2
<1>5. r.does \in {"sweep", "start"}
  BY <1>1, <1>2 DEF Formed, Sweeping
<1>6. client'[c].pc \in {"free", "hit"} /\ (client'[c].pc = "free" => client'[c] = Free /\ Hits = {})
      /\ (client'[c].pc = "hit" => client'[c].left = Hits /\ client'[c].does = r.does)
  BY <1>3 DEF Free
<1>7. Formed(client[c])'
  BY <1>5, <1>6, HitsAre DEF Formed, Editing, Toggling, Sweeping
<1>8. ASSUME Starts(c)'
      PROVE  /\ client'[c].pc = "hit" /\ \A d \in Clients : d # c => client'[d].pc = "free"
             /\ \A h \in client'[c].left : OnShow(h.track)'
             /\ \A i \in Due' : \E g \in client'[c].left : g.id = i.id
  <2>1. client'[c].pc = "hit" /\ client'[c].left = Hits /\ r.does = "start"
    BY <1>6, <1>8 DEF Starts
  <2>2. Starts(c)
    BY <1>1, <2>1 DEF Starts
  <2>3. Due' = Due /\ \A t : OnShow(t)' = OnShow(t)
    BY <1>1 DEF Due, Here, OnShow
  <2> QED
    BY <1>2, <1>4, <2>1, <2>2, <2>3, HitsAre DEF Sweeps
<1>9. Sweeps(c)'
  <2>1. client'[c].pc = "hit" => ToDo(client'[c]) = client'[c].left
    BY DEF ToDo
  <2>2. Starts(c)' => /\ \A h \in ToDo(client'[c]) : OnShow(h.track)'
                      /\ \A i \in Due' : \E g \in ToDo(client'[c]) : g.id = i.id
    BY <1>8, <2>1
  <2> QED
    BY <1>8, <2>2 DEF Sweeps, ToDo, Sweeping
<1>10. AddsOnce(client[c])'
  <2>1. \A h \in Hits : Follows(h)
    BY <1>2, HitsAre DEF Follows, ListInv, Ordered
  <2>2. \A h : Follows(h)' = Follows(h)
    BY <1>1 DEF Follows, Favored, Open
  <2>3. client'[c].pc = "hit" => \A h \in client'[c].left : Follows(h)'
    BY <1>6, <2>1, <2>2
  <2> QED
    BY <1>6, <2>3 DEF AddsOnce, ToDo
<1>11. PlaylistInv'
  <2>1. Numbered' /\ Placed' /\ Ordered' /\ (Once => Once')
    BY <1>1, <1>2 DEF ListInv, Numbered, Placed, Ordered, Once, Favored, Open, What
  <2>2. r.pc \in Sweeping /\ client'[c].pc \in {"free"} \cup Sweeping
    BY <1>1, <1>6 DEF Sweeping
  <2>3. ~crossed => Once' /\ AddsOnce(client[c])'
    BY <1>2, <1>10, <2>1 DEF OnceInv
  <2> QED
    BY <1>1, <1>4, <1>7, <1>9, <2>1, <2>2, <2>3, SweepKeeps
<1>12. client'[c] = Free => SweptClean
  <2> SUFFICES ASSUME client'[c] = Free PROVE SweptClean
    OBVIOUS
  <2>1. Hits = {}
    BY <1>6 DEF Free
  <2>2. Due = {}
    BY <2>1, HitsAre
  <2> QED
    BY <1>1, <2>2 DEF SweptClean, Due
<1> QED
  BY <1>11, <1>12

LEMMA RepointLookStep ==
  ASSUME PlaylistInv, NEW c \in Clients, RepointLook(c)
  PROVE  PlaylistInv' /\ client'[c].pc # "free"
<1> DEFINE r == client[c]
<1>1. /\ r.pc = "hit" /\ UNCHANGED <<lists, items, track, landed, reissued, crossed>>
      /\ \E g \in r.left : client' = [client EXCEPT ![c] =
            [pc |-> IF Has(g.list, Local(g.track)) THEN "drop" ELSE "point", does |-> @.does, left |-> @.left \ {g}, at |-> g]]
  BY DEF RepointLook
<1>2. ListInv /\ ClientInv /\ OnceInv /\ Formed(r) /\ Sweeps(c) /\ DOMAIN client = Clients
  BY DEF PlaylistInv, ClientInv
<1>3. PICK h \in r.left : client' = [client EXCEPT ![c] =
            [pc |-> IF Has(h.list, Local(h.track)) THEN "drop" ELSE "point", does |-> @.does, left |-> @.left \ {h}, at |-> h]]
  BY <1>1
<1>4. /\ client' = [client EXCEPT ![c] = client'[c]] /\ \A d \in Clients : d # c => client'[d] = client[d]
      /\ client'[c].pc \in {"drop", "point"} /\ client'[c].does = r.does /\ client'[c].at = h
      /\ client'[c].left = r.left \ {h}
      /\ (client'[c].pc = "point" => ~Has(h.list, Local(h.track)))
  BY <1>2, <1>3
<1>5. r.does \in {"sweep", "start"} /\ \A g \in r.left : g \in Hit
  BY <1>1, <1>2 DEF Formed, Sweeping
<1>6. Formed(client[c])'
  BY <1>4, <1>5 DEF Formed, Editing, Toggling, Sweeping
<1>7. ToDo(client'[c]) = r.left /\ ToDo(r) = r.left
  BY <1>1, <1>4 DEF ToDo
<1>8. ASSUME Starts(c)'
      PROVE  /\ \A d \in Clients : d # c => client'[d].pc = "free"
             /\ \A g \in ToDo(client'[c]) : OnShow(g.track)'
             /\ \A i \in Due' : \E k \in ToDo(client'[c]) : k.id = i.id
  <2>1. Starts(c)
    BY <1>1, <1>4, <1>8 DEF Starts
  <2>2. Due' = Due /\ \A t : OnShow(t)' = OnShow(t)
    BY <1>1 DEF Due, Here, OnShow
  <2> QED
    BY <1>1, <1>2, <1>4, <1>7, <2>1, <2>2, ZenonT(60) DEF Sweeps
<1>9. Sweeps(c)'
  BY <1>4, <1>8 DEF Sweeps, ToDo, Sweeping
<1>10. ~crossed => AddsOnce(client[c])'
  <2> SUFFICES ASSUME ~crossed PROVE AddsOnce(client[c])'
    OBVIOUS
  <2>1. \A g \in r.left : Follows(g)
    BY <1>1, <1>2, <1>7 DEF OnceInv, AddsOnce
  <2>2. \A g : Follows(g)' = Follows(g)
    BY <1>1 DEF Follows, Favored, Open
  <2>3. \A g \in ToDo(client'[c]) : Follows(g)'
    BY <1>7, <2>1, <2>2
  <2>4. Has(h.list, Local(h.track))' = Has(h.list, Local(h.track))
    BY <1>1 DEF Has, In, What, Local
  <2> QED
    BY <1>4, <2>3, <2>4 DEF AddsOnce, ToDo
<1>11. PlaylistInv'
  <2>1. Numbered' /\ Placed' /\ Ordered' /\ (Once => Once')
    BY <1>1, <1>2 DEF ListInv, Numbered, Placed, Ordered, Once, Favored, Open, What
  <2>2. r.pc \in Sweeping /\ client'[c].pc \in {"free"} \cup Sweeping
    BY <1>1, <1>4 DEF Sweeping
  <2>3. ~crossed => Once' /\ AddsOnce(client[c])'
    BY <1>2, <1>10, <2>1 DEF OnceInv
  <2> QED
    BY <1>1, <1>4, <1>6, <1>9, <2>1, <2>2, <2>3, SweepKeeps
<1> QED
  BY <1>4, <1>11

(* A hit that is dealt with: its item is gone, or local from now on; of    *)
(* two items of a favorites list it is not the one that makes them one.    *)
LEMMA DealtWith ==
  ASSUME PlaylistInv, NEW c \in Clients, client[c].pc \in {"point", "drop"}, RepointNext(c),
         UNCHANGED <<lists, track, landed, reissued, crossed>>,
         Numbered', Placed', Ordered', ~crossed => Once',
         \A i \in items' : /\ \E j \in items : j.id = i.id /\ j.list = i.list /\ j.by = i.by
                           /\ i.at = "remote" => i \in items /\ i.id # client[c].at.id
  PROVE  PlaylistInv' /\ (Starts(c) /\ client'[c] = Free => SweptClean)
<1> DEFINE r == client[c]
<1>1. ListInv /\ ClientInv /\ OnceInv /\ Formed(r) /\ Sweeps(c) /\ DOMAIN client = Clients
  BY DEF PlaylistInv, ClientInv
<1>2. client' = [client EXCEPT ![c] = IF r.left = {} THEN Free ELSE [pc |-> "hit", does |-> r.does, left |-> r.left]]
  BY DEF RepointNext
<1>3. /\ client' = [client EXCEPT ![c] = client'[c]] /\ \A d \in Clients : d # c => client'[d] = client[d]
      /\ \/ r.left = {} /\ client'[c] = Free
         \/ client'[c] = [pc |-> "hit", does |-> r.does, left |-> r.left]
  BY <1>1, <1>2
<1>4. /\ client'[c].pc \in {"free", "hit"} /\ (client'[c].pc = "free" => client'[c] = Free /\ r.left = {})
      /\ (client'[c].pc = "hit" => client'[c].does = r.does /\ client'[c].left = r.left)
  BY <1>3 DEF Free
<1>5. r.does \in {"sweep", "start"} /\ (\A g \in r.left : g \in Hit) /\ r.at \in Hit
  BY <1>1 DEF Formed, Sweeping
<1>6. Formed(client[c])'
  BY <1>4, <1>5 DEF Formed, Editing, Toggling, Sweeping
<1>7. ToDo(r) = r.left \cup {r.at}
  BY DEF ToDo
<1>8. ASSUME Starts(c)
      PROVE  /\ \A d \in Clients : d # c => client'[d].pc = "free"
             /\ \A g \in r.left : OnShow(g.track)'
             /\ \A i \in Due' : \E k \in r.left : k.id = i.id
  <2>1. \A i \in Due' : i \in Due /\ i.id # r.at.id
    BY DEF Due, Here, OnShow
  <2>2. \A t : OnShow(t)' = OnShow(t)
    BY DEF OnShow
  <2> QED
    BY <1>1, <1>3, <1>7, <1>8, <2>1, <2>2 DEF Sweeps
<1>9. Sweeps(c)'
  <2>1. Starts(c)' => Starts(c) /\ client'[c].pc = "hit"
    BY <1>4 DEF Starts
  <2>2. client'[c].pc = "hit" => ToDo(client'[c]) = r.left
    BY <1>4 DEF ToDo
  <2>3. Starts(c)' => /\ client'[c].pc = "hit" /\ \A d \in Clients : d # c => client'[d].pc = "free"
                      /\ \A g \in ToDo(client'[c]) : OnShow(g.track)'
                      /\ \A i \in Due' : \E k \in ToDo(client'[c]) : k.id = i.id
    BY <1>8, <2>1, <2>2
  <2> QED
    BY <2>3 DEF Sweeps, ToDo, Sweeping
<1>10. ~crossed => AddsOnce(client[c])'
  <2> SUFFICES ASSUME ~crossed PROVE AddsOnce(client[c])'
    OBVIOUS
  <2>1. \A g \in r.left : Follows(g)
    BY <1>1, <1>7 DEF OnceInv, AddsOnce
  <2>2. \A g : Follows(g) => Follows(g)'
    BY DEF Follows, Favored, Open
  <2> QED
    BY <1>4, <2>1, <2>2 DEF AddsOnce, ToDo
<1>11. PlaylistInv'
  <2>1. r.pc \in Sweeping /\ client'[c].pc \in {"free"} \cup Sweeping
    BY <1>4 DEF Sweeping
  <2> QED
    BY <1>3, <1>6, <1>9, <1>10, <2>1, SweepKeeps
<1>12. Starts(c) /\ client'[c] = Free => SweptClean
  <2> SUFFICES ASSUME Starts(c), client'[c] = Free, NEW i \in items', i.at = "remote", Here(i.of) PROVE FALSE
    BY DEF SweptClean
  <2>1. r.left = {}
    BY <1>4 DEF Free
  <2>2. i \in Due'
    BY DEF Due, Here, OnShow
  <2>3. \E k \in r.left : k.id = i.id
    BY <1>8, <2>2
  <2> QED
    BY <2>1, <2>3
<1> QED
  BY <1>11, <1>12

LEMMA RepointActs ==
  ASSUME PlaylistInv, NEW c \in Clients, RepointUpdate(c) \/ RepointDrop(c)
  PROVE  PlaylistInv' /\ (Starts(c) /\ client'[c] = Free => SweptClean)
<1> DEFINE r == client[c]
           h == r.at
           Local1(i) == [i EXCEPT !.at = "local", !.of = h.track]
<1>1. ListInv /\ ClientInv /\ OnceInv /\ Formed(r) /\ Sweeps(c) /\ DOMAIN client = Clients
  BY DEF PlaylistInv, ClientInv
<1>2. CASE RepointDrop(c)
  <2>1. /\ r.pc = "drop" /\ RepointNext(c) /\ UNCHANGED <<lists, track, landed, reissued, crossed>>
        /\ items' = {i \in items : i.id # h.id}
    BY <1>2 DEF RepointDrop
  <2>2. Marked' /\ items' \subseteq items
    BY <1>1, <2>1 DEF ListInv, Marked
  <2>3. ListInv' /\ (Once => Once')
    BY <1>1, <2>1, <2>2, FewerItems
  <2>4. \A i \in items' : i \in items /\ i.id # h.id
    BY <2>1
  <2> QED
    BY <1>1, <2>1, <2>3, <2>4, DealtWith DEF ListInv, OnceInv
<1>3. CASE RepointUpdate(c)
  <2>1. /\ r.pc = "point" /\ UNCHANGED <<lists, track, landed, reissued, crossed>>
        /\ IF {i \in items : i.id = h.id} = {} \/ track[h.track] # "purged"
           THEN /\ items' = (items \ {i \in items : i.id = h.id}) \cup {Local1(i) : i \in {j \in items : j.id = h.id}}
                /\ RepointNext(c)
           ELSE UNCHANGED items /\ Rest(c)
    BY <1>3 DEF RepointUpdate
  <2>2. CASE UNCHANGED items /\ Rest(c) /\ track[h.track] = "purged"
    <3>1. PlaylistInv'
      BY <2>1, <2>2, RestKeeps
    <3>2. ~Starts(c)
      BY <1>1, <2>1, <2>2 DEF Sweeps, ToDo, OnShow
    <3> QED
      BY <3>1, <3>2
  <2>3. CASE /\ items' = (items \ {i \in items : i.id = h.id}) \cup {Local1(i) : i \in {j \in items : j.id = h.id}}
             /\ RepointNext(c)
    <3>1. h.track \in Tracks
      BY <1>1, <2>1 DEF Formed, Hit
    <3>2. \A i \in items : /\ Local1(i).id = i.id /\ Local1(i).list = i.list /\ Local1(i).by = i.by
                           /\ Local1(i).pos = i.pos /\ What(Local1(i)) = Local(h.track)
                           /\ Local1(i).at = "local" /\ Local1(i) \in Item
      BY <1>1, <3>1 DEF ListInv, Placed, Item, What, Local
    <3> HIDE DEF Local1
    <3>3. \A i \in items' : \E j \in items :
             /\ j.id = i.id /\ j.list = i.list /\ j.by = i.by /\ j.pos = i.pos /\ i \in Item
             /\ (i = j /\ i.id # h.id) \/ (i = Local1(j) /\ i.id = h.id /\ What(i) = Local(h.track) /\ i.at = "local")
      BY <1>1, <2>3, <3>2 DEF ListInv, Placed
    <3>4. Numbered' /\ Open' = Open
      BY <1>1, <2>1, <3>3 DEF ListInv, Numbered, Open
    <3>5. Placed'
      <4>1. Local(h.track) \in Things
        BY <3>1 DEF Things
      <4>2. \A i \in items' : What(i) \in Things
        BY <1>1, <3>3, <4>1 DEF ListInv, Placed
      <4> QED
        BY <1>1, <2>1, <3>3, <3>4, <4>2 DEF ListInv, Placed, What
    <3>6. Ordered'
      BY <1>1, <3>3 DEF ListInv, Ordered
    <3>7. ASSUME ~crossed
          PROVE  Once'
      <4> SUFFICES ASSUME NEW i \in items', NEW j \in items', i # j, i.list = j.list, Favored(i.list)
                   PROVE  What(i) # What(j)
        BY <2>1 DEF Once, Favored, Open, What
      <4>1. Once /\ Follows(h) /\ (Favored(h.list) => ~Has(h.list, Local(h.track)))
        BY <1>1, <2>1, <3>7 DEF OnceInv, AddsOnce, ToDo
      <4>2. i.id # j.id
        BY <3>6 DEF Ordered
      <4>3. CASE i \in items /\ j \in items
        BY <4>1, <4>3 DEF Once
      <4>4. ASSUME NEW a \in items', NEW b \in items', a.id = h.id, b.id # h.id, a.list = b.list, Favored(a.list)
            PROVE  What(a) # What(b)
        <5>1. PICK p \in items : p.id = a.id /\ p.list = a.list /\ What(a) = Local(h.track)
          BY <3>3, <4>4
        <5>2. b \in items
          BY <3>3, <4>4
        <5>3. a.list = h.list
          BY <4>1, <4>4, <5>1 DEF Follows
        <5>4. ~Has(h.list, Local(h.track)) /\ b \in In(h.list)
          BY <4>1, <4>4, <5>2, <5>3 DEF In
        <5> QED
          BY <5>1, <5>4 DEF Has
      <4> QED
        BY <3>3, <4>2, <4>3, <4>4
    <3>8. \A i \in items' : /\ \E j \in items : j.id = i.id /\ j.list = i.list /\ j.by = i.by
                            /\ i.at = "remote" => i \in items /\ i.id # h.id
      BY <3>3
    <3> QED
      BY <2>1, <2>3, <3>4, <3>5, <3>6, <3>7, <3>8, DealtWith
  <2> QED
    BY <2>1, <2>2, <2>3
<1> QED
  BY <1>2, <1>3

-----------------------------------------------------------------------------
(* The library changes while no start is under way; a start ends all.      *)
LEMMA PlaylistsRest ==
  ASSUME PlaylistInv, UNCHANGED playlists
  PROVE  PlaylistInv'
<1>1. UNCHANGED <<lists, items, track, landed, client, reissued, crossed>>
  BY DEF playlists
<1>2. ListInv'
  BY <1>1 DEF PlaylistInv, ListInv, Numbered, Placed, Marked, Ordered, OneFavorites, Favored, Open, What
<1>3. ClientInv'
  BY <1>1 DEF PlaylistInv, ClientInv, Formed, Sweeps, Starts, ToDo, OnShow, Due, Here
<1>4. OwnerInv'
  BY <1>1 DEF PlaylistInv, OwnerInv, Owned, OwnersSeen, Favored, Open
<1>5. OnceInv'
  BY <1>1 DEF PlaylistInv, OnceInv, Once, AddsOnce, ToDo, Follows, Has, In, What, Local, Favored, Open
<1> QED
  BY <1>2, <1>3, <1>4, <1>5 DEF PlaylistInv

LEMMA LibrarySteps ==
  ASSUME PlaylistInv, ~Starting, NEW t \in Tracks, HideTrack(t) \/ ShowTrack(t) \/ PurgeTrack(t)
  PROVE  PlaylistInv'
<1>1. ListInv /\ ClientInv /\ OwnerInv /\ OnceInv
  BY DEF PlaylistInv
<1>2. /\ UNCHANGED <<lists, client, reissued, crossed>> /\ items' \subseteq items
      /\ \E to \in {"shown", "trashed", "purged"} : track' = [track EXCEPT ![t] = to]
  BY DEF HideTrack, ShowTrack, PurgeTrack, TrackChanges
<1>3. Marked'
  BY <1>1, <1>2 DEF ListInv, Marked
<1>4. ListInv' /\ ListsStay /\ FavoritesShrink /\ (Owned => Owned') /\ (Once => Once')
  BY <1>1, <1>2, <1>3, FewerItems
<1>5. \A c \in Clients : ~Starts(c)
  <2> SUFFICES ASSUME NEW c \in Clients, Starts(c) PROVE FALSE
    OBVIOUS
  <2>1. ~AtRest(c)
    BY DEF Starts, AtRest, Free
  <2> QED
    BY <2>1 DEF Starting, Starts
<1>6. ClientInv'
  BY <1>1, <1>2, <1>5 DEF ClientInv, Formed, Sweeps, Starts
<1>7. OwnerInv'
  BY <1>1, <1>2, <1>4 DEF OwnerInv, OwnersSeen, Favored, Open
<1>8. OnceInv'
  <2>1. \A h : Follows(h) => Follows(h)'
    BY <1>2 DEF Follows, Favored, Open
  <2>2. \A l, thing : ~Has(l, thing) => ~Has(l, thing)'
    BY <1>2 DEF Has, In, What
  <2>3. \A l, k : ~Has(l, Local(k)) => ~Has(l, Local(k))'
    BY <2>2 DEF Local
  <2>4. ASSUME NEW c \in Clients, AddsOnce(client[c])
        PROVE  AddsOnce(client[c])'
    BY <1>2, <2>1, <2>2, <2>3, <2>4 DEF AddsOnce, ToDo, Favored, Open
  <2> QED
    BY <1>1, <1>2, <1>4, <2>4 DEF OnceInv
<1> QED
  BY <1>4, <1>6, <1>7, <1>8 DEF PlaylistInv

LEMMA RestartPlaylistsStep ==
  ASSUME PlaylistInv, RestartPlaylists
  PROVE  PlaylistInv'
<1>1. PICK c \in Clients : client' = [d \in Clients |-> IF d = c THEN [pc |-> "read", does |-> "start"] ELSE Free]
  BY DEF RestartPlaylists
<1>2. UNCHANGED <<lists, items, track, landed, reissued, crossed>>
  BY DEF RestartPlaylists
<1>3. ListInv /\ OwnerInv /\ OnceInv
  BY DEF PlaylistInv
<1>4. Marked'
  BY <1>2, <1>3 DEF ListInv, Marked
<1>5. ListInv' /\ (Owned => Owned') /\ (Once => Once')
  BY <1>2, <1>3, <1>4, FewerItems
<1>6. \A d \in Clients : \/ d = c /\ client'[d].pc = "read" /\ client'[d].does = "start"
                         \/ d # c /\ client'[d] = Free /\ client'[d].pc = "free"
  BY <1>1 DEF Free
<1>7. ASSUME NEW d \in Clients
      PROVE  Formed(client[d])' /\ Sweeps(d)' /\ OwnersSeen(client[d])' /\ AddsOnce(client[d])'
  <2>1. Formed(client[d])'
    BY <1>6 DEF Formed, Editing, Toggling, Sweeping
  <2>2. Sweeps(d)'
    BY <1>6 DEF Sweeps, Starts, Sweeping
  <2>3. OwnersSeen(client[d])' /\ AddsOnce(client[d])'
    BY <1>6 DEF OwnersSeen, AddsOnce, Editing, Toggling
  <2> QED
    BY <2>1, <2>2, <2>3
<1>8. \A d, e \in Clients : client'[d].pc \in Adding /\ client'[e].pc \in Adding => d = e
  BY <1>6 DEF Adding, Toggling, Sweeping
<1>9. ClientInv'
  BY <1>1, <1>7 DEF ClientInv
<1>10. OwnerInv'
  BY <1>2, <1>3, <1>5, <1>7 DEF OwnerInv
<1>11. OnceInv'
  BY <1>2, <1>3, <1>5, <1>7, <1>8 DEF OnceInv
<1> QED
  BY <1>5, <1>9, <1>10, <1>11 DEF PlaylistInv

LEMMA ClientKeeps ==
  ASSUME PlaylistInv, NEW c \in Clients, Client(c)
  PROVE  PlaylistInv'
BY CreateStep, EditSteps, AskToggleStep, RenameStep, DeleteStep, AddStep, RemoveStep, ReorderStep,
   EnsureStep, ToggleSteps, LikeStep, RepointReadStep, RepointLookStep, RepointActs, ApproveStep DEF Client

LEMMA PlaylistsStep ==
  ASSUME PlaylistInv, [HomeNext]_home
  PROVE  PlaylistInv'
<1>1. CASE UNCHANGED playlists
  BY <1>1, PlaylistsRest
<1>2. CASE PlaylistsNext
  BY <1>2, ClientKeeps, LibrarySteps DEF PlaylistsNext
<1>3. CASE RestartPlaylists
  BY <1>3, RestartPlaylistsStep
<1> QED
  BY <1>1, <1>2, <1>3 DEF HomeNext, HomeRestart, home

(* What a client was at says which of its steps this is.                   *)
LEMMA OneClient ==
  ASSUME PlaylistInv, NEW c \in Clients, NEW d \in Clients, Client(d), d # c
  PROVE  client'[c] = client[c]
<1>1. DOMAIN client = Clients
  BY DEF PlaylistInv, ClientInv
<1>2. \A r : client' = [client EXCEPT ![d] = r] => client'[c] = client[c]
  BY <1>1
<1>3. \A pc : Then(d, pc) => client'[c] = client[c]
  BY <1>1 DEF Then
<1>4. CASE \/ \E u \in Users, things \in Batches : CreatePlaylist(d, u, things)
           \/ \E u \in Users, l \in Open : \/ AskRename(d, u, l) \/ AskDelete(d, u, l) \/ AskReorder(d, u, l)
                                           \/ \E things \in Batches : AskAdd(d, u, l, things)
                                           \/ \E i \in items : AskRemove(d, u, l, i.id)
           \/ \E u \in Users, thing \in Things : AskToggle(d, u, thing)
           \/ \E h \in Remotes : Approve(d, h)
  BY <1>2, <1>4, ZenonT(60) DEF CreatePlaylist, AskRename, AskDelete, AskReorder, AskAdd, AskRemove, AskToggle, Approve, Edit, Asks
<1>5. CASE RenamePlaylist(d) \/ DeletePlaylist(d) \/ AddPlaylistItems(d) \/ RemovePlaylistItem(d) \/ ReorderPlaylist(d)
  BY <1>2, <1>5 DEF RenamePlaylist, DeletePlaylist, AddPlaylistItems, RemovePlaylistItem, ReorderPlaylist, Rest
<1>6. CASE Look(d) \/ Unlike(d) \/ Like(d)
  BY <1>2, <1>3, <1>6 DEF Look, Unlike, Like, Rest
<1>7. CASE EnsureFavorites(d)
  BY <1>1, <1>7 DEF EnsureFavorites
<1>8. CASE RepointRead(d) \/ RepointLook(d) \/ RepointUpdate(d) \/ RepointDrop(d)
  BY <1>1, <1>8, ZenonT(60) DEF RepointRead, RepointLook, RepointUpdate, RepointDrop, RepointNext, Rest
<1> QED
  BY <1>4, <1>5, <1>6, <1>7, <1>8 DEF Client

(* A request under way is at the step its place names.                     *)
LEMMA Under ==
  ASSUME NEW c \in Clients, Client(c), client[c].pc \in {"reorder"} \cup Sweeping
  PROVE  IF client[c].pc = "reorder" THEN ReorderPlaylist(c)
         ELSE RepointRead(c) \/ RepointLook(c) \/ RepointUpdate(c) \/ RepointDrop(c)
<1>1. ~AtRest(c)
  BY DEF AtRest, Free, Sweeping
<1> QED
  BY <1>1, ZenonT(60) DEF Client, CreatePlaylist, AskRename, AskDelete, AskReorder, AskAdd, AskRemove, AskToggle, Approve, Edit, Asks,
     RenamePlaylist, DeletePlaylist, AddPlaylistItems, RemovePlaylistItem, ReorderPlaylist, EnsureFavorites,
     Look, Unlike, Like, RepointRead, RepointLook, RepointUpdate, RepointDrop, Sweeping

LEMMA EndsAreSound ==
  ASSUME PlaylistInv, starts \in Nat, [HomeNext]_home, NEW c \in Clients, starts' = starts, client'[c] = Free
  PROVE  /\ ~AtRest(c) /\ client[c].does = "start" => SweptClean
         /\ client[c].pc = "reorder" => Reordered(c)
<1>1. Formed(client[c]) /\ Sweeps(c)
  BY DEF PlaylistInv, ClientInv
<1>2. ASSUME ~AtRest(c), client[c].does = "start" \/ client[c].pc = "reorder"
      PROVE  Client(c)
  <2>1. client'[c] # client[c]
    BY <1>2 DEF AtRest
  <2>2. PlaylistsNext
    <3>1. starts + 1 # starts
      OBVIOUS
    <3>2. ~HomeRestart
      BY <3>1 DEF HomeRestart
    <3>3. ~UNCHANGED client
      BY <2>1
    <3> QED
      BY <3>2, <3>3 DEF HomeNext, home, playlists
  <2>3. PICK d \in Clients : Client(d)
    BY <2>1, <2>2 DEF PlaylistsNext, HideTrack, ShowTrack, PurgeTrack, TrackChanges
  <2> QED
    BY <2>1, <2>3, OneClient
<1>3. ASSUME ~AtRest(c), client[c].does = "start"
      PROVE  SweptClean
  <2>1. Starts(c) /\ client[c].pc \in Sweeping
    BY <1>1, <1>3 DEF Formed, Sweeps, Starts, AtRest
  <2>2. RepointRead(c) \/ RepointLook(c) \/ RepointUpdate(c) \/ RepointDrop(c)
    BY <1>2, <1>3, <2>1, Under DEF Sweeping
  <2>3. client'[c].pc = "free"
    BY DEF Free
  <2> QED
    BY <2>1, <2>2, <2>3, RepointReadStep, RepointLookStep, RepointActs
<1>4. ASSUME client[c].pc = "reorder"
      PROVE  Reordered(c)
  <2>1. ~AtRest(c)
    BY <1>4 DEF AtRest, Free
  <2>2. ReorderPlaylist(c)
    BY <1>2, <1>4, <2>1, Under
  <2> QED
    BY <2>2, ReorderStep
<1> QED
  BY <1>3, <1>4

(* Whatever requests of whatever users interleave with sweeps, the library *)
(* and starts: items keep their order, favorites stay one list a user and  *)
(* are touched by their owner alone, no track is on them twice unless two  *)
(* requests that add were under way at once, a start leaves nothing remote *)
(* that is here, and a reordering neither loses nor revives an item.       *)
THEOREM PlaylistsHold == HomeSpec => PlaylistsAreKept
<1>1. HomeInit => PlaylistInv
  <2> SUFFICES ASSUME InitPlaylists PROVE PlaylistInv
    BY DEF HomeInit
  <2>1. /\ Open = {} /\ items = {} /\ track = [t \in Tracks |-> "shown"] /\ DOMAIN client = Clients
        /\ \A c \in Clients : client[c] = Free /\ client[c].pc = "free"
    BY DEF InitPlaylists, Open, Free
  <2>2. Numbered
    <3>1. 0 \in Nat
      OBVIOUS
    <3> QED
      BY <2>1, <3>1 DEF Numbered
  <2>3. ListInv
    BY <2>1, <2>2 DEF ListInv, Placed, Marked, Ordered, OneFavorites
  <2>4. ClientInv
    BY <2>1 DEF ClientInv, Formed, Sweeps, Starts, Editing, Toggling, Sweeping
  <2>5. OwnerInv /\ OnceInv
    BY <2>1 DEF OwnerInv, Owned, OwnersSeen, OnceInv, Once, AddsOnce, Adding, Editing, Toggling, Sweeping
  <2> QED
    BY <2>3, <2>4, <2>5 DEF PlaylistInv
<1>2. PlaylistInv /\ [HomeNext]_home => PlaylistInv'
  BY PlaylistsStep
<1>3. PlaylistInv => Ordered /\ OnlyOwners /\ LikedOnce
  <2> SUFFICES ASSUME PlaylistInv PROVE Ordered /\ OnlyOwners /\ LikedOnce
    OBVIOUS
  <2>1. Ordered /\ OneFavorites /\ Placed
    BY DEF PlaylistInv, ListInv
  <2>2. OnlyOwners
    BY <2>1 DEF PlaylistInv, OwnerInv, Owned, OnlyOwners, OneFavorites, Favored, Placed
  <2>3. LikedOnce
    BY DEF PlaylistInv, OnceInv, Once, LikedOnce, Favored
  <2> QED
    BY <2>1, <2>2, <2>3
<1>4. PlaylistInv /\ starts \in Nat /\ [HomeNext]_home =>
        [\A c \in Clients : ~AtRest(c) /\ client[c].does = "start" /\ client'[c] = Free /\ starts' = starts
           => \A i \in items' : i.at = "remote" => ~Here(i.of)]_<<client, starts>>
  BY EndsAreSound DEF SweptClean
<1>5. PlaylistInv /\ starts \in Nat /\ [HomeNext]_home => [\A c \in Clients : Reorders(c) => Reordered(c)]_<<client, starts>>
  BY EndsAreSound DEF Reorders
<1>6. HomeInit => starts \in Nat
  BY DEF HomeInit
<1>7. starts \in Nat /\ [HomeNext]_home => (starts \in Nat)'
  BY DEF HomeNext, HomeRestart, home
<1> QED
  BY <1>1, <1>2, <1>3, <1>4, <1>5, <1>6, <1>7, PTL DEF HomeSpec, PlaylistsAreKept, StartsSwept, ReordersExact

-----------------------------------------------------------------------------
(***************************************************************************)
(* The library.  A transaction is a composition of edits of rows, so the   *)
(* facts come in two layers: what one edit does to the rows, and what a    *)
(* transaction keeps because each of its edits keeps it.                   *)
(***************************************************************************)
Tables == {"recs", "files", "tags", "saved"}
FileShape(d) == [hash : Hashes, rec : d.recs, gone : BOOLEAN, pin : BOOLEAN]
TagShape(d) == [rec : d.recs, key : Keys, state : States, gone : BOOLEAN,
                origin : DOMAIN d.files \cup {NoFile}]

RowsOK(d) ==
  /\ DOMAIN d = Tables
  /\ \A f \in DOMAIN d.files : d.files[f] \in FileShape(d)
  /\ \A t \in DOMAIN d.tags : d.tags[t] \in TagShape(d)
  /\ d.saved \subseteq DOMAIN d.tags
  /\ \A f, g \in DOMAIN d.files : d.files[f].hash = d.files[g].hash => f = g

(* e has the rows of d, with the content of each and the name of each.     *)
Keeps(d, e) ==
  /\ DOMAIN d.files \subseteq DOMAIN e.files /\ DOMAIN d.tags \subseteq DOMAIN e.tags
  /\ \A f \in DOMAIN d.files : e.files[f].hash = d.files[f].hash
  /\ \A t \in DOMAIN d.tags : e.tags[t].key = d.tags[t].key
  /\ e.saved = d.saved

LEMMA KeepsOn ==
  ASSUME NEW d, NEW e, NEW g, Keeps(d, e), Keeps(e, g)
  PROVE  Keeps(d, g)
BY DEF Keeps

LEMMA KeepsHashes ==
  ASSUME NEW d, NEW e, Keeps(d, e)
  PROVE  HashesOf(d) \subseteq HashesOf(e)
BY DEF Keeps, HashesOf

OnlyFiles(d, e) == /\ DOMAIN e = Tables /\ DOMAIN e.files = DOMAIN d.files
                   /\ e.recs = d.recs /\ e.tags = d.tags /\ e.saved = d.saved
OnlyTags(d, e) == /\ DOMAIN e = Tables /\ DOMAIN e.tags = DOMAIN d.tags
                  /\ e.recs = d.recs /\ e.files = d.files /\ e.saved = d.saved

LEMMA FilesEdited ==
  ASSUME NEW d, RowsOK(d), NEW rows, DOMAIN rows = DOMAIN d.files,
         \A f \in DOMAIN rows : rows[f] \in FileShape(d) /\ rows[f].hash = d.files[f].hash
  PROVE  LET e == [d EXCEPT !.files = rows]
         IN RowsOK(e) /\ Keeps(d, e) /\ OnlyFiles(d, e) /\ e.files = rows
<1> DEFINE e == [d EXCEPT !.files = rows]
<1>1. e.files = rows /\ OnlyFiles(d, e)
  BY DEF RowsOK, OnlyFiles, Tables
<1> HIDE DEF e
<1>2. FileShape(e) = FileShape(d) /\ TagShape(e) = TagShape(d)
  BY <1>1 DEF OnlyFiles, FileShape, TagShape
<1>3. RowsOK(e)
  BY <1>1, <1>2 DEF RowsOK, OnlyFiles
<1>4. Keeps(d, e)
  BY <1>1 DEF Keeps, OnlyFiles
<1> QED
  BY <1>1, <1>3, <1>4 DEF e

LEMMA TagsEdited ==
  ASSUME NEW d, RowsOK(d), NEW rows, DOMAIN rows = DOMAIN d.tags,
         \A t \in DOMAIN rows : rows[t] \in TagShape(d) /\ rows[t].key = d.tags[t].key
  PROVE  LET e == [d EXCEPT !.tags = rows]
         IN RowsOK(e) /\ Keeps(d, e) /\ OnlyTags(d, e) /\ e.tags = rows
<1> DEFINE e == [d EXCEPT !.tags = rows]
<1>1. e.tags = rows /\ OnlyTags(d, e)
  BY DEF RowsOK, OnlyTags, Tables
<1> HIDE DEF e
<1>2. FileShape(e) = FileShape(d) /\ TagShape(e) = TagShape(d)
  BY <1>1 DEF OnlyTags, FileShape, TagShape
<1>3. RowsOK(e)
  BY <1>1, <1>2 DEF RowsOK, OnlyTags
<1>4. Keeps(d, e)
  BY <1>1 DEF Keeps, OnlyTags
<1> QED
  BY <1>1, <1>3, <1>4 DEF e

(* Each kind of edit.                                                      *)
FilesMarked(d, F, b, e) ==
  \A f \in DOMAIN d.files :
    /\ e.files[f].hash = d.files[f].hash /\ e.files[f].rec = d.files[f].rec
    /\ e.files[f].gone = IF f \in F THEN b ELSE d.files[f].gone
TagsMarked(d, T, b, e) ==
  \A t \in DOMAIN d.tags :
    /\ e.tags[t].key = d.tags[t].key /\ e.tags[t].rec = d.tags[t].rec
    /\ e.tags[t].state = d.tags[t].state /\ e.tags[t].origin = d.tags[t].origin
    /\ e.tags[t].gone = IF t \in T THEN b ELSE d.tags[t].gone
FilesMoved(d, F, r, e) ==
  \A f \in DOMAIN d.files :
    /\ e.files[f].hash = d.files[f].hash /\ e.files[f].gone = d.files[f].gone
    /\ e.files[f].rec = IF f \in F THEN r ELSE d.files[f].rec
TagsMoved(d, T, r, e) ==
  \A t \in DOMAIN d.tags :
    /\ e.tags[t].key = d.tags[t].key /\ e.tags[t].gone = d.tags[t].gone
    /\ e.tags[t].state = d.tags[t].state /\ e.tags[t].origin = d.tags[t].origin
    /\ e.tags[t].rec = IF t \in T THEN r ELSE d.tags[t].rec

LEMMA TrashFilesIs ==
  ASSUME NEW d, RowsOK(d), NEW F
  PROVE  LET e == EditFiles(d, F, TrashRow)
         IN RowsOK(e) /\ Keeps(d, e) /\ OnlyFiles(d, e) /\ FilesMarked(d, F, TRUE, e)
<1> DEFINE rows == [f \in DOMAIN d.files |-> IF f \in F THEN TrashRow(d.files[f]) ELSE d.files[f]]
           e == EditFiles(d, F, TrashRow)
<1>1. e = [d EXCEPT !.files = rows]
  BY DEF EditFiles, RowsOK, Tables
<1>2. \A f \in DOMAIN d.files : d.files[f] \in FileShape(d)
  BY DEF RowsOK
<1>3. \A x \in FileShape(d) : /\ TrashRow(x) \in FileShape(d) /\ TrashRow(x).hash = x.hash
                                /\ TrashRow(x).rec = x.rec /\ TrashRow(x).gone = TRUE
  BY DEF TrashRow, FileShape
<1>4. DOMAIN rows = DOMAIN d.files
  OBVIOUS
<1>5. \A f \in DOMAIN d.files : rows[f] = IF f \in F THEN TrashRow(d.files[f]) ELSE d.files[f]
  OBVIOUS
<1> HIDE DEF rows, e
<1>6. \A f \in DOMAIN rows : rows[f] \in FileShape(d) /\ rows[f].hash = d.files[f].hash
  BY <1>2, <1>3, <1>4, <1>5
<1>7. RowsOK(e) /\ Keeps(d, e) /\ OnlyFiles(d, e) /\ e.files = rows
  BY <1>1, <1>4, <1>6, FilesEdited
<1>8. FilesMarked(d, F, TRUE, e)
  BY <1>2, <1>3, <1>5, <1>7 DEF FilesMarked
<1> QED
  BY <1>7, <1>8 DEF e

LEMMA RestoreFilesIs ==
  ASSUME NEW d, RowsOK(d), NEW F
  PROVE  LET e == EditFiles(d, F, RestoreRow)
         IN RowsOK(e) /\ Keeps(d, e) /\ OnlyFiles(d, e) /\ FilesMarked(d, F, FALSE, e)
<1> DEFINE rows == [f \in DOMAIN d.files |-> IF f \in F THEN RestoreRow(d.files[f]) ELSE d.files[f]]
           e == EditFiles(d, F, RestoreRow)
<1>1. e = [d EXCEPT !.files = rows]
  BY DEF EditFiles, RowsOK, Tables
<1>2. \A f \in DOMAIN d.files : d.files[f] \in FileShape(d)
  BY DEF RowsOK
<1>3. \A x \in FileShape(d) : /\ RestoreRow(x) \in FileShape(d) /\ RestoreRow(x).hash = x.hash
                                /\ RestoreRow(x).rec = x.rec /\ RestoreRow(x).gone = FALSE
  BY DEF RestoreRow, FileShape
<1>4. DOMAIN rows = DOMAIN d.files
  OBVIOUS
<1>5. \A f \in DOMAIN d.files : rows[f] = IF f \in F THEN RestoreRow(d.files[f]) ELSE d.files[f]
  OBVIOUS
<1> HIDE DEF rows, e
<1>6. \A f \in DOMAIN rows : rows[f] \in FileShape(d) /\ rows[f].hash = d.files[f].hash
  BY <1>2, <1>3, <1>4, <1>5
<1>7. RowsOK(e) /\ Keeps(d, e) /\ OnlyFiles(d, e) /\ e.files = rows
  BY <1>1, <1>4, <1>6, FilesEdited
<1>8. FilesMarked(d, F, FALSE, e)
  BY <1>2, <1>3, <1>5, <1>7 DEF FilesMarked
<1> QED
  BY <1>7, <1>8 DEF e

LEMMA MoveFilesIs ==
  ASSUME NEW d, RowsOK(d), NEW F, NEW r, r \in d.recs \/ F = {}, NEW p \in BOOLEAN
  PROVE  LET e == MoveFiles(d, F, r, p)
         IN RowsOK(e) /\ Keeps(d, e) /\ OnlyFiles(d, e) /\ FilesMoved(d, F, r, e)
<1> DEFINE move(x) == [x EXCEPT !.rec = r, !.pin = @ \/ p]
           rows == [f \in DOMAIN d.files |-> IF f \in F THEN move(d.files[f]) ELSE d.files[f]]
           e == MoveFiles(d, F, r, p)
<1>1. e = [d EXCEPT !.files = rows]
  BY DEF MoveFiles, EditFiles, RowsOK, Tables
<1>2. \A f \in DOMAIN d.files : d.files[f] \in FileShape(d)
  BY DEF RowsOK
<1>3. \A x \in FileShape(d) : (r \in d.recs => move(x) \in FileShape(d)) /\ move(x).hash = x.hash
                                /\ move(x).gone = x.gone /\ move(x).rec = r
  BY DEF FileShape
<1>4. DOMAIN rows = DOMAIN d.files
  OBVIOUS
<1>5. \A f \in DOMAIN d.files : rows[f] = IF f \in F THEN move(d.files[f]) ELSE d.files[f]
  OBVIOUS
<1> HIDE DEF rows, e, move
<1>6. \A f \in DOMAIN d.files :
        /\ rows[f] \in FileShape(d) /\ rows[f].hash = d.files[f].hash /\ rows[f].gone = d.files[f].gone
        /\ rows[f].rec = IF f \in F THEN r ELSE d.files[f].rec
  BY <1>2, <1>3, <1>5
<1> QED
  BY <1>1, <1>4, <1>6, FilesEdited DEF FilesMoved, e

LEMMA TrashTagsIs ==
  ASSUME NEW d, RowsOK(d), NEW T
  PROVE  LET e == EditTags(d, T, TrashRow)
         IN RowsOK(e) /\ Keeps(d, e) /\ OnlyTags(d, e) /\ TagsMarked(d, T, TRUE, e)
<1> DEFINE rows == [t \in DOMAIN d.tags |-> IF t \in T THEN TrashRow(d.tags[t]) ELSE d.tags[t]]
           e == EditTags(d, T, TrashRow)
<1>1. e = [d EXCEPT !.tags = rows]
  BY DEF EditTags, RowsOK, Tables
<1>2. \A t \in DOMAIN d.tags : d.tags[t] \in TagShape(d)
  BY DEF RowsOK
<1>3. \A x \in TagShape(d) : TrashRow(x) \in TagShape(d) /\ TrashRow(x).key = x.key
        /\ TrashRow(x).rec = x.rec /\ TrashRow(x).state = x.state /\ TrashRow(x).origin = x.origin
        /\ TrashRow(x).gone = TRUE
  BY DEF TrashRow, TagShape
<1>4. DOMAIN rows = DOMAIN d.tags
  OBVIOUS
<1>5. \A t \in DOMAIN d.tags : rows[t] = IF t \in T THEN TrashRow(d.tags[t]) ELSE d.tags[t]
  OBVIOUS
<1> HIDE DEF rows, e
<1>6. \A t \in DOMAIN rows : rows[t] \in TagShape(d) /\ rows[t].key = d.tags[t].key
  BY <1>2, <1>3, <1>4, <1>5
<1>7. RowsOK(e) /\ Keeps(d, e) /\ OnlyTags(d, e) /\ e.tags = rows
  BY <1>1, <1>4, <1>6, TagsEdited
<1>8. TagsMarked(d, T, TRUE, e)
  BY <1>2, <1>3, <1>5, <1>7 DEF TagsMarked
<1> QED
  BY <1>7, <1>8 DEF e

LEMMA RestoreTagsIs ==
  ASSUME NEW d, RowsOK(d), NEW T
  PROVE  LET e == EditTags(d, T, RestoreRow)
         IN RowsOK(e) /\ Keeps(d, e) /\ OnlyTags(d, e) /\ TagsMarked(d, T, FALSE, e)
<1> DEFINE rows == [t \in DOMAIN d.tags |-> IF t \in T THEN RestoreRow(d.tags[t]) ELSE d.tags[t]]
           e == EditTags(d, T, RestoreRow)
<1>1. e = [d EXCEPT !.tags = rows]
  BY DEF EditTags, RowsOK, Tables
<1>2. \A t \in DOMAIN d.tags : d.tags[t] \in TagShape(d)
  BY DEF RowsOK
<1>3. \A x \in TagShape(d) : RestoreRow(x) \in TagShape(d) /\ RestoreRow(x).key = x.key
        /\ RestoreRow(x).rec = x.rec /\ RestoreRow(x).state = x.state /\ RestoreRow(x).origin = x.origin
        /\ RestoreRow(x).gone = FALSE
  BY DEF RestoreRow, TagShape
<1>4. DOMAIN rows = DOMAIN d.tags
  OBVIOUS
<1>5. \A t \in DOMAIN d.tags : rows[t] = IF t \in T THEN RestoreRow(d.tags[t]) ELSE d.tags[t]
  OBVIOUS
<1> HIDE DEF rows, e
<1>6. \A t \in DOMAIN rows : rows[t] \in TagShape(d) /\ rows[t].key = d.tags[t].key
  BY <1>2, <1>3, <1>4, <1>5
<1>7. RowsOK(e) /\ Keeps(d, e) /\ OnlyTags(d, e) /\ e.tags = rows
  BY <1>1, <1>4, <1>6, TagsEdited
<1>8. TagsMarked(d, T, FALSE, e)
  BY <1>2, <1>3, <1>5, <1>7 DEF TagsMarked
<1> QED
  BY <1>7, <1>8 DEF e

LEMMA MoveTagsIs ==
  ASSUME NEW d, RowsOK(d), NEW T, NEW r, r \in d.recs \/ T = {}
  PROVE  LET e == MoveTags(d, T, r)
         IN RowsOK(e) /\ Keeps(d, e) /\ OnlyTags(d, e) /\ TagsMoved(d, T, r, e)
<1> DEFINE move(x) == [x EXCEPT !.rec = r]
           rows == [t \in DOMAIN d.tags |-> IF t \in T THEN move(d.tags[t]) ELSE d.tags[t]]
           e == MoveTags(d, T, r)
<1>1. e = [d EXCEPT !.tags = rows]
  BY DEF MoveTags, EditTags, RowsOK, Tables
<1>2. \A t \in DOMAIN d.tags : d.tags[t] \in TagShape(d)
  BY DEF RowsOK
<1>3. \A x \in TagShape(d) : (r \in d.recs => move(x) \in TagShape(d)) /\ move(x).key = x.key
        /\ move(x).rec = r /\ move(x).state = x.state /\ move(x).origin = x.origin
        /\ move(x).gone = x.gone
  BY DEF TagShape
<1>4. DOMAIN rows = DOMAIN d.tags
  OBVIOUS
<1>5. \A t \in DOMAIN d.tags : rows[t] = IF t \in T THEN move(d.tags[t]) ELSE d.tags[t]
  OBVIOUS
<1> HIDE DEF rows, e, move
<1>6. \A t \in DOMAIN rows : rows[t] \in TagShape(d) /\ rows[t].key = d.tags[t].key
  BY <1>2, <1>3, <1>4, <1>5
<1>7. RowsOK(e) /\ Keeps(d, e) /\ OnlyTags(d, e) /\ e.tags = rows
  BY <1>1, <1>4, <1>6, TagsEdited
<1>8. TagsMoved(d, T, r, e)
  BY <1>2, <1>3, <1>5, <1>7 DEF TagsMoved
<1> QED
  BY <1>7, <1>8 DEF e


StatesSet(d, T, s, e) ==
  \A t \in DOMAIN d.tags :
    /\ e.tags[t].key = d.tags[t].key /\ e.tags[t].rec = d.tags[t].rec
    /\ e.tags[t].gone = d.tags[t].gone /\ e.tags[t].origin = d.tags[t].origin
    /\ e.tags[t].state = IF t \in T THEN s ELSE d.tags[t].state

LEMMA SetStateIs ==
  ASSUME NEW d, RowsOK(d), NEW T, NEW s \in States
  PROVE  LET set(t) == [t EXCEPT !.state = s]
             e == EditTags(d, T, set)
         IN RowsOK(e) /\ Keeps(d, e) /\ OnlyTags(d, e) /\ StatesSet(d, T, s, e)
<1> DEFINE set(x) == [x EXCEPT !.state = s]
           rows == [t \in DOMAIN d.tags |-> IF t \in T THEN set(d.tags[t]) ELSE d.tags[t]]
           e == [d EXCEPT !.tags = rows]
<1>1. EditTags(d, T, set) = e
  BY DEF EditTags, RowsOK, Tables
<1>2. \A t \in DOMAIN d.tags : d.tags[t] \in TagShape(d)
  BY DEF RowsOK
<1>3. \A x \in TagShape(d) : set(x) \in TagShape(d) /\ set(x).key = x.key
        /\ set(x).rec = x.rec /\ set(x).state = s /\ set(x).origin = x.origin
        /\ set(x).gone = x.gone
  BY DEF TagShape
<1>4. DOMAIN rows = DOMAIN d.tags
  OBVIOUS
<1>5. \A t \in DOMAIN d.tags : rows[t] = IF t \in T THEN set(d.tags[t]) ELSE d.tags[t]
  OBVIOUS
<1>6. \A t \in DOMAIN rows : rows[t] \in TagShape(d) /\ rows[t].key = d.tags[t].key
  <2> HIDE DEF rows, set
  <2> QED
    BY <1>2, <1>3, <1>4, <1>5
<1>7. RowsOK(e) /\ Keeps(d, e) /\ OnlyTags(d, e) /\ e.tags = rows
  <2> HIDE DEF rows
  <2> QED
    BY <1>4, <1>6, TagsEdited
<1>8. StatesSet(d, T, s, e)
  <2> HIDE DEF rows, set, e
  <2> QED
    BY <1>2, <1>3, <1>5, <1>7 DEF StatesSet
<1> QED
  BY <1>1, <1>7, <1>8

(* The reaper takes recordings that hold nothing, and marks what is left   *)
(* alone in one.                                                           *)
Bare(d, R) == {r \in R : TagsOf(d, {r}) = {}}
Silent(d, R) == {r \in R : FilesOf(d, {r}) = {}}

LEMMA RecsDropped ==
  ASSUME NEW d, RowsOK(d), NEW S, FilesOf(d, S) = {}, TagsOf(d, S) = {}
  PROVE  LET e == [d EXCEPT !.recs = @ \ S]
         IN /\ RowsOK(e) /\ e.recs = d.recs \ S /\ e.files = d.files /\ e.tags = d.tags
            /\ e.saved = d.saved /\ DOMAIN e = Tables
<1> DEFINE e == [d EXCEPT !.recs = @ \ S]
<1>1. /\ e.recs = d.recs \ S /\ e.files = d.files /\ e.tags = d.tags
      /\ e.saved = d.saved /\ DOMAIN e = Tables
  BY DEF RowsOK, Tables
<1> HIDE DEF e
<1>2. ASSUME NEW f \in DOMAIN d.files PROVE d.files[f] \in FileShape(e)
  <2>1. d.files[f] \in FileShape(d) /\ d.files[f].rec \notin S
    BY DEF RowsOK, FilesOf
  <2> QED
    BY <1>1, <2>1 DEF FileShape
<1>3. ASSUME NEW t \in DOMAIN d.tags PROVE d.tags[t] \in TagShape(e)
  <2>1. d.tags[t] \in TagShape(d) /\ d.tags[t].rec \notin S
    BY DEF RowsOK, TagsOf
  <2> QED
    BY <1>1, <2>1 DEF TagShape
<1>4. RowsOK(e)
  BY <1>1, <1>2, <1>3 DEF RowsOK
<1> QED
  BY <1>1, <1>4 DEF e

LEMMA MarksKeepPlaces ==
  ASSUME NEW d, NEW e
  PROVE  /\ \A F, b : FilesMarked(d, F, b, e) /\ DOMAIN e.files = DOMAIN d.files
                        => \A R : FilesOf(e, R) = FilesOf(d, R)
         /\ \A T, b : TagsMarked(d, T, b, e) /\ DOMAIN e.tags = DOMAIN d.tags
                        => \A R : TagsOf(e, R) = TagsOf(d, R)
BY DEF FilesMarked, TagsMarked, FilesOf, TagsOf

Reaped(d, R, e) ==
  /\ DOMAIN e.files = DOMAIN d.files /\ DOMAIN e.tags = DOMAIN d.tags /\ e.saved = d.saved
  /\ e.recs = d.recs \ (Bare(d, R) \cap Silent(d, R))
  /\ FilesMarked(d, FilesOf(d, Bare(d, R)), TRUE, e)
  /\ TagsMarked(d, TagsOf(d, Silent(d, R)), TRUE, e)

LEMMA ReapIs ==
  ASSUME NEW d, RowsOK(d), NEW R
  PROVE  LET e == ReapOn(d, R)
         IN RowsOK(e) /\ Keeps(d, e) /\ Reaped(d, R, e)
<1> DEFINE q == EditFiles(d, FilesOf(d, Bare(d, R)), TrashRow)
           m == EditTags(q, TagsOf(d, Silent(d, R)), TrashRow)
           S == Bare(d, R) \cap Silent(d, R)
           e == [m EXCEPT !.recs = @ \ S]
<1>1. ReapOn(d, R) = e
  BY DEF ReapOn, Bare, Silent
<1>2. RowsOK(q) /\ Keeps(d, q) /\ OnlyFiles(d, q) /\ FilesMarked(d, FilesOf(d, Bare(d, R)), TRUE, q)
  BY TrashFilesIs
<1> HIDE DEF q
<1>3. /\ RowsOK(m) /\ Keeps(q, m) /\ OnlyTags(q, m)
      /\ TagsMarked(q, TagsOf(d, Silent(d, R)), TRUE, m)
  BY <1>2, TrashTagsIs
<1> HIDE DEF m
<1>4. /\ DOMAIN m.files = DOMAIN d.files /\ DOMAIN m.tags = DOMAIN d.tags
      /\ m.recs = d.recs /\ m.saved = d.saved
  BY <1>2, <1>3 DEF OnlyFiles, OnlyTags
<1>5. /\ FilesMarked(d, FilesOf(d, Bare(d, R)), TRUE, m)
      /\ TagsMarked(d, TagsOf(d, Silent(d, R)), TRUE, m)
  BY <1>2, <1>3, ZenonT(60) DEF OnlyFiles, OnlyTags, FilesMarked, TagsMarked
<1>6. FilesOf(m, S) = {} /\ TagsOf(m, S) = {}
  <2>1. FilesOf(m, S) = FilesOf(d, S) /\ TagsOf(m, S) = TagsOf(d, S)
    BY <1>4, <1>5, MarksKeepPlaces
  <2>2. FilesOf(d, S) = {} /\ TagsOf(d, S) = {}
    BY DEF FilesOf, TagsOf, Bare, Silent
  <2> QED
    BY <2>1, <2>2
<1>7. /\ RowsOK(e) /\ e.recs = m.recs \ S /\ e.files = m.files /\ e.tags = m.tags
      /\ e.saved = m.saved
  <2> HIDE DEF S
  <2> QED
    BY <1>3, <1>6, RecsDropped
<1> HIDE DEF e
<1>8. Reaped(d, R, e)
  BY <1>4, <1>5, <1>7, ZenonT(60) DEF Reaped, FilesMarked, TagsMarked
<1>9. Keeps(d, e)
  BY <1>8 DEF Reaped, FilesMarked, TagsMarked, Keeps
<1> QED
  BY <1>1, <1>7, <1>8, <1>9

(* Rows that go.                                                           *)
Dropped(d, T, e) ==
  /\ DOMAIN e = Tables /\ e.recs = d.recs /\ e.files = d.files /\ e.saved = d.saved \ T
  /\ DOMAIN e.tags = DOMAIN d.tags \ T /\ \A t \in DOMAIN e.tags : e.tags[t] = d.tags[t]

LEMMA DropTagsIs ==
  ASSUME NEW d, RowsOK(d), NEW T
  PROVE  RowsOK(DropTags(d, T)) /\ Dropped(d, T, DropTags(d, T))
<1> DEFINE e == DropTags(d, T)
           rows == Restrict(d.tags, DOMAIN d.tags \ T)
<1>1. /\ e.recs = d.recs /\ e.files = d.files /\ e.saved = d.saved \ T /\ DOMAIN e = Tables
      /\ e.tags = rows
  BY DEF DropTags, RowsOK, Tables
<1>2. DOMAIN rows = DOMAIN d.tags \ T /\ \A t \in DOMAIN rows : rows[t] = d.tags[t]
  BY DEF Restrict
<1> HIDE DEF e, rows
<1>3. Dropped(d, T, e)
  BY <1>1, <1>2 DEF Dropped
<1>4. FileShape(e) = FileShape(d) /\ TagShape(e) = TagShape(d)
  BY <1>1 DEF FileShape, TagShape
<1>5. RowsOK(e)
  BY <1>1, <1>2, <1>4 DEF RowsOK
<1> QED
  BY <1>3, <1>5 DEF e

(* Appearances forget a rendition that goes.                               *)
Forgot(d, F, e) ==
  /\ DOMAIN e = Tables /\ e.recs = d.recs /\ e.saved = d.saved /\ DOMAIN e.tags = DOMAIN d.tags
  /\ DOMAIN e.files = DOMAIN d.files \ F /\ \A f \in DOMAIN e.files : e.files[f] = d.files[f]
  /\ \A t \in DOMAIN d.tags : e.tags[t].key = d.tags[t].key /\ e.tags[t].rec = d.tags[t].rec

LEMMA DropFilesIs ==
  ASSUME NEW d, RowsOK(d), NEW F
  PROVE  RowsOK(DropFiles(d, F)) /\ Forgot(d, F, DropFiles(d, F))
<1> DEFINE forget(x) == [x EXCEPT !.origin = NoFile]
           T == {t \in DOMAIN d.tags : d.tags[t].origin \in F}
           rows == [t \in DOMAIN d.tags |-> IF t \in T THEN forget(d.tags[t]) ELSE d.tags[t]]
           left == Restrict(d.files, DOMAIN d.files \ F)
           e == DropFiles(d, F)
<1>1. /\ e.recs = d.recs /\ e.files = left /\ e.saved = d.saved /\ DOMAIN e = Tables
      /\ e.tags = rows
  BY DEF DropFiles, EditTags, RowsOK, Tables
<1>2. DOMAIN left = DOMAIN d.files \ F /\ \A f \in DOMAIN left : left[f] = d.files[f]
  BY DEF Restrict
<1>3. \A x \in TagShape(d) : /\ forget(x) \in TagShape(d) /\ forget(x).key = x.key
                             /\ forget(x).rec = x.rec /\ forget(x).origin = NoFile
  BY DEF TagShape
<1>4. DOMAIN rows = DOMAIN d.tags
  OBVIOUS
<1>5. \A t \in DOMAIN d.tags : rows[t] = IF t \in T THEN forget(d.tags[t]) ELSE d.tags[t]
  OBVIOUS
<1>6. \A t \in DOMAIN d.tags : d.tags[t] \in TagShape(d)
  BY DEF RowsOK
<1> HIDE DEF rows, left, e, forget
<1>7. \A t \in DOMAIN d.tags : /\ rows[t] \in TagShape(d) /\ rows[t].key = d.tags[t].key
                               /\ rows[t].rec = d.tags[t].rec /\ rows[t].origin \notin F \ {NoFile}
  BY <1>3, <1>5, <1>6
<1>8. Forgot(d, F, e)
  BY <1>1, <1>2, <1>4, <1>7 DEF Forgot
<1>9. ASSUME NEW t \in DOMAIN e.tags PROVE e.tags[t] \in TagShape(e)
  <2>1. e.tags[t] \in TagShape(d) /\ e.tags[t].origin \notin F \ {NoFile}
    BY <1>1, <1>4, <1>7
  <2> QED
    BY <1>1, <1>2, <2>1 DEF TagShape
<1>10. FileShape(e) = FileShape(d)
  BY <1>1 DEF FileShape
<1>11. RowsOK(e)
  BY <1>1, <1>2, <1>4, <1>9, <1>10 DEF RowsOK
<1> QED
  BY <1>8, <1>11 DEF e

(* What a purge leaves was there, under the same name.                     *)
Sheds(d, e) ==
  /\ DOMAIN e.files \subseteq DOMAIN d.files /\ DOMAIN e.tags \subseteq DOMAIN d.tags
  /\ \A t \in DOMAIN e.tags : e.tags[t].key = d.tags[t].key
  /\ e.saved \subseteq d.saved /\ e.recs \subseteq d.recs

LEMMA ShedsOn ==
  ASSUME NEW d, NEW e, NEW g, Sheds(d, e), Sheds(e, g)
  PROVE  Sheds(d, g)
BY DEF Sheds

LEMMA ReclaimAbandonedIs ==
  ASSUME NEW d, RowsOK(d), NEW R
  PROVE  RowsOK(ReclaimAbandoned(d, R)) /\ Sheds(d, ReclaimAbandoned(d, R))
<1> DEFINE A == Bare(d, R)
           m == DropFiles(d, FilesOf(d, A))
           e == [m EXCEPT !.recs = @ \ A]
<1>1. ReclaimAbandoned(d, R) = e
  BY DEF ReclaimAbandoned, Bare
<1>2. RowsOK(m) /\ Forgot(d, FilesOf(d, A), m)
  BY DropFilesIs
<1> HIDE DEF m
<1>3. FilesOf(m, A) = {} /\ TagsOf(m, A) = {}
  <2>1. TagsOf(d, A) = {}
    BY DEF TagsOf, Bare
  <2> HIDE DEF A
  <2>2. FilesOf(m, A) = {}
    BY <1>2 DEF Forgot, FilesOf
  <2>3. TagsOf(m, A) = {}
    BY <1>2, <2>1 DEF Forgot, TagsOf
  <2> QED
    BY <2>2, <2>3
<1>4. /\ RowsOK(e) /\ e.files = m.files /\ e.tags = m.tags /\ e.saved = m.saved
      /\ e.recs = m.recs \ A
  <2> HIDE DEF A
  <2> QED
    BY <1>2, <1>3, RecsDropped
<1> HIDE DEF e, A
<1>5. Sheds(d, e)
  BY <1>2, <1>4 DEF Sheds, Forgot
<1> QED
  BY <1>1, <1>4, <1>5

LEMMA PurgeTagsIs ==
  ASSUME NEW d, RowsOK(d), NEW T
  PROVE  RowsOK(PurgeTags(d, T)) /\ Sheds(d, PurgeTags(d, T))
<1>1. RowsOK(DropTags(d, T)) /\ Dropped(d, T, DropTags(d, T))
  BY DropTagsIs
<1>2. Sheds(d, DropTags(d, T))
  BY <1>1 DEF Dropped, Sheds
<1> QED
  BY <1>1, <1>2, ReclaimAbandonedIs, ShedsOn DEF PurgeTags

LEMMA PurgeRecordingsIs ==
  ASSUME NEW d, RowsOK(d), NEW R
  PROVE  /\ RowsOK(BulkHardDeleteRecordings(d, R))
         /\ Sheds(d, BulkHardDeleteRecordings(d, R))
<1> DEFINE T == TagsOf(d, R)
<1>1. RowsOK(DropTags(d, T)) /\ Dropped(d, T, DropTags(d, T))
  BY DropTagsIs
<1>2. Sheds(d, DropTags(d, T))
  BY <1>1 DEF Dropped, Sheds
<1> QED
  BY <1>1, <1>2, ReclaimAbandonedIs, ShedsOn DEF BulkHardDeleteRecordings

LEMMA DeleteFilesIs ==
  ASSUME NEW d, RowsOK(d), NEW F, NEW R
  PROVE  LET e == ReapOn(DeleteFileRows(d, F), R)
         IN RowsOK(e) /\ Sheds(d, e) /\ HashesOf(d) \subseteq HashesOf(e) \cup {d.files[f].hash : f \in F}
<1> DEFINE T == {t \in DOMAIN d.tags : /\ Live(d.tags[t]) /\ d.tags[t].origin \in F
                                       /\ d.tags[t].state # "approved"}
           m == EditTags(d, T, TrashRow)
           n == DropFiles(m, F)
           e == ReapOn(n, R)
<1>1. DeleteFileRows(d, F) = n
  BY DEF DeleteFileRows
<1>2. RowsOK(m) /\ Keeps(d, m) /\ OnlyTags(d, m)
  BY TrashTagsIs
<1> HIDE DEF m
<1>3. RowsOK(n) /\ Forgot(m, F, n)
  BY <1>2, DropFilesIs
<1> HIDE DEF n
<1>4. RowsOK(e) /\ Keeps(n, e) /\ Reaped(n, R, e)
  BY <1>3, ReapIs
<1> HIDE DEF e
<1>5. Sheds(d, e)
  BY <1>2, <1>3, <1>4 DEF Keeps, OnlyTags, Forgot, Reaped, Sheds
<1>6. HashesOf(d) \subseteq HashesOf(e) \cup {d.files[f].hash : f \in F}
  <2> SUFFICES ASSUME NEW f \in DOMAIN d.files, f \notin F PROVE d.files[f].hash \in HashesOf(e)
    BY DEF HashesOf
  <2>1. f \in DOMAIN n.files /\ n.files[f] = d.files[f]
    BY <1>2, <1>3 DEF OnlyTags, Forgot
  <2>2. f \in DOMAIN e.files /\ e.files[f].hash = n.files[f].hash
    BY <1>4, <2>1 DEF Keeps
  <2> QED
    BY <2>1, <2>2 DEF HashesOf
<1> QED
  BY <1>1, <1>4, <1>5, <1>6 DEF e

(* Ids that are given out.                                                 *)
LEMMA Topmost ==
  ASSUME NEW n \in Nat, NEW S, S \subseteq 0..n, S # {}
  PROVE  \E m \in S : \A k \in S : k <= m
BY LargestIs DEF Largest

LEMMA NextIdIs ==
  ASSUME NEW n \in Nat, NEW S, S \subseteq 1..n
  PROVE  NextId(S) \in Nat \ {0} /\ NextId(S) \notin S
<1>1. CASE S = {}
  BY <1>1 DEF NextId
<1>2. CASE S # {}
  <2>1. S \subseteq 0..n
    OBVIOUS
  <2>2. \E m \in S : \A k \in S : m >= k
    <3>1. PICK m \in S : \A k \in S : k <= m
      BY <1>2, <2>1, Topmost
    <3>2. \A k \in S : m >= k
      BY <2>1, <3>1
    <3> QED
      BY <3>2
  <2>3. Max(S) \in S /\ \A k \in S : Max(S) >= k
    BY <2>2 DEF Max
  <2>4. NextId(S) = Max(S) + 1
    BY <1>2 DEF NextId
  <2>5. Max(S) \in Nat
    <3>1. S \subseteq Nat /\ Max(S) \in S
      BY <2>3
    <3> QED
      BY <3>1
  <2>6. Max(S) + 1 \notin S
    <3> SUFFICES ASSUME Max(S) + 1 \in S PROVE FALSE
      OBVIOUS
    <3>1. Max(S) >= Max(S) + 1
      BY <2>3
    <3> QED
      BY <2>5, <3>1
  <2> QED
    BY <2>4, <2>5, <2>6
<1> QED
  BY <1>1, <1>2

LEMMA LeastIs ==
  ASSUME NEW n \in Nat, NEW S, S \subseteq 0..n, S # {}
  PROVE  Min(S) \in S /\ \A k \in S : Min(S) <= k
BY LeastElement DEF Min

Sound(d, e) == RowsOK(e) /\ Keeps(d, e)

LEMMA SoundOn ==
  ASSUME NEW d, NEW e, NEW g, Sound(d, e), Sound(e, g)
  PROVE  Sound(d, g)
BY KeepsOn DEF Sound

LEMMA SoundSelf ==
  ASSUME NEW d, RowsOK(d)
  PROVE  Sound(d, d)
BY DEF Sound, Keeps

LEMMA AddRecIs ==
  ASSUME NEW d, RowsOK(d)
  PROVE  LET e == AddRec(d)
         IN /\ Sound(d, e) /\ e.recs = d.recs \cup {NextId(d.recs)}
            /\ e.files = d.files /\ e.tags = d.tags /\ e.saved = d.saved
<1> DEFINE e == AddRec(d)
<1>1. /\ e.recs = d.recs \cup {NextId(d.recs)} /\ e.files = d.files /\ e.tags = d.tags
      /\ e.saved = d.saved /\ DOMAIN e = Tables
  BY DEF AddRec, RowsOK, Tables
<1> HIDE DEF e
<1>2. FileShape(d) \subseteq FileShape(e) /\ TagShape(d) \subseteq TagShape(e)
  BY <1>1 DEF FileShape, TagShape
<1>3. RowsOK(e)
  BY <1>1, <1>2 DEF RowsOK
<1>4. Keeps(d, e)
  BY <1>1 DEF Keeps
<1> QED
  BY <1>1, <1>3, <1>4 DEF Sound, e

LEMMA AddTagIs ==
  ASSUME NEW d, RowsOK(d), NEW entry \in TagShape(d), NextId(DOMAIN d.tags) \notin DOMAIN d.tags
  PROVE  LET e == AddTag(d, entry)
             id == NextId(DOMAIN d.tags)
         IN /\ Sound(d, e) /\ e.recs = d.recs /\ e.files = d.files /\ e.saved = d.saved
            /\ DOMAIN e.tags = DOMAIN d.tags \cup {id}
            /\ \A t \in DOMAIN d.tags : e.tags[t] = d.tags[t]
            /\ e.tags[id] = entry
<1> DEFINE e == AddTag(d, entry)
           id == NextId(DOMAIN d.tags)
           rows == WithRow(d.tags, id, entry)
<1>1. /\ e.recs = d.recs /\ e.files = d.files /\ e.tags = rows
      /\ e.saved = d.saved /\ DOMAIN e = Tables
  BY DEF AddTag, RowsOK, Tables
<1>2. /\ DOMAIN rows = DOMAIN d.tags \cup {id}
      /\ \A t \in DOMAIN d.tags : rows[t] = d.tags[t]
      /\ rows[id] = entry
  <2>1. id \notin DOMAIN d.tags
    OBVIOUS
  <2> HIDE DEF id
  <2> QED
    BY <2>1 DEF WithRow
<1> HIDE DEF e, rows, id
<1>3. FileShape(d) = FileShape(e) /\ TagShape(d) = TagShape(e)
  BY <1>1 DEF FileShape, TagShape
<1>4. \A t \in DOMAIN rows : rows[t] \in TagShape(d)
  BY <1>2 DEF RowsOK
<1>5. RowsOK(e)
  BY <1>1, <1>2, <1>3, <1>4 DEF RowsOK
<1>6. Keeps(d, e)
  BY <1>1, <1>2 DEF Keeps
<1> QED
  BY <1>1, <1>2, <1>5, <1>6 DEF Sound, e, id

LEMMA AddFileIs ==
  ASSUME NEW d, RowsOK(d), NEW entry \in FileShape(d), entry.hash \notin HashesOf(d),
         NextId(DOMAIN d.files) \notin DOMAIN d.files
  PROVE  LET e == AddFile(d, entry)
             id == NextId(DOMAIN d.files)
         IN /\ Sound(d, e) /\ e.recs = d.recs /\ e.tags = d.tags /\ e.saved = d.saved
            /\ DOMAIN e.files = DOMAIN d.files \cup {id}
            /\ \A f \in DOMAIN d.files : e.files[f] = d.files[f]
            /\ e.files[id] = entry
<1> DEFINE e == AddFile(d, entry)
           id == NextId(DOMAIN d.files)
           rows == WithRow(d.files, id, entry)
<1>1. /\ e.recs = d.recs /\ e.tags = d.tags /\ e.files = rows
      /\ e.saved = d.saved /\ DOMAIN e = Tables
  BY DEF AddFile, RowsOK, Tables
<1>2. /\ DOMAIN rows = DOMAIN d.files \cup {id}
      /\ \A f \in DOMAIN d.files : rows[f] = d.files[f]
      /\ rows[id] = entry
  <2>1. id \notin DOMAIN d.files
    OBVIOUS
  <2> HIDE DEF id
  <2> QED
    BY <2>1 DEF WithRow
<1> HIDE DEF e, rows, id
<1>3. FileShape(d) = FileShape(e) /\ TagShape(d) \subseteq TagShape(e)
  BY <1>1, <1>2 DEF FileShape, TagShape
<1>4. \A f \in DOMAIN rows : rows[f] \in FileShape(d)
  BY <1>2 DEF RowsOK
<1>5. \A f, g \in DOMAIN rows : rows[f].hash = rows[g].hash => f = g
  <2>1. \A f \in DOMAIN d.files : d.files[f].hash \in HashesOf(d)
    BY DEF HashesOf
  <2>2. \A f \in DOMAIN d.files : rows[f].hash # rows[id].hash
    BY <1>2, <2>1
  <2> QED
    BY <1>2, <2>2 DEF RowsOK
<1>6. RowsOK(e)
  BY <1>1, <1>2, <1>3, <1>4, <1>5 DEF RowsOK
<1>7. Keeps(d, e)
  BY <1>1, <1>2 DEF Keeps
<1> QED
  BY <1>1, <1>2, <1>6, <1>7 DEF Sound, e, id

(* Transactions that destroy nothing.                                      *)
LEMMA SoundEdits ==
  ASSUME NEW d, RowsOK(d)
  PROVE  /\ \A F : Sound(d, EditFiles(d, F, TrashRow)) /\ Sound(d, EditFiles(d, F, RestoreRow))
         /\ \A T : Sound(d, EditTags(d, T, TrashRow)) /\ Sound(d, EditTags(d, T, RestoreRow))
         /\ \A R : Sound(d, ReapOn(d, R))
         /\ \A F, p : \A r \in d.recs : p \in BOOLEAN => Sound(d, MoveFiles(d, F, r, p))
         /\ \A T : \A r \in d.recs : Sound(d, MoveTags(d, T, r))
         /\ \A T, from : \A s \in States : Sound(d, BulkUpdateReviewState(d, T, from, s))
         /\ Sound(d, AddRec(d))
<1>1. \A F : Sound(d, EditFiles(d, F, TrashRow)) /\ Sound(d, EditFiles(d, F, RestoreRow))
  BY TrashFilesIs, RestoreFilesIs DEF Sound
<1>2. \A T : Sound(d, EditTags(d, T, TrashRow)) /\ Sound(d, EditTags(d, T, RestoreRow))
  BY TrashTagsIs, RestoreTagsIs DEF Sound
<1>3. \A R : Sound(d, ReapOn(d, R))
  BY ReapIs DEF Sound
<1>4. \A F, p : \A r \in d.recs : p \in BOOLEAN => Sound(d, MoveFiles(d, F, r, p))
  BY MoveFilesIs DEF Sound
<1>5. \A T : \A r \in d.recs : Sound(d, MoveTags(d, T, r))
  BY MoveTagsIs DEF Sound
<1>6. \A T, from : \A s \in States : Sound(d, BulkUpdateReviewState(d, T, from, s))
  BY SetStateIs DEF Sound, BulkUpdateReviewState
<1>7. Sound(d, AddRec(d))
  BY AddRecIs
<1> QED
  BY <1>1, <1>2, <1>3, <1>4, <1>5, <1>6, <1>7

LEMMA SoundMarks ==
  ASSUME NEW d, RowsOK(d)
  PROVE  /\ \A T : Sound(d, BulkDiscardOwnUploads(d, T)) /\ Sound(d, BulkTrashTagsets(d, T))
                     /\ Sound(d, BulkRestoreTagsets(d, T))
         /\ \A R : Sound(d, BulkTrashRecordings(d, R)) /\ Sound(d, BulkRestoreRecordings(d, R))
         /\ \A f : Sound(d, RemoveRendition(d, f))
         /\ \A F : Sound(d, BulkRestoreRemovedFiles(d, F))
         /\ \A h : Sound(d, RestoreFileByHash(d, h)) /\ Sound(d, StageRestoredFile(d, h))
         /\ Sound(d, Reap(d))
<1>1. \A T : Sound(d, BulkDiscardOwnUploads(d, T)) /\ Sound(d, BulkTrashTagsets(d, T))
               /\ Sound(d, BulkRestoreTagsets(d, T))
  BY SoundEdits DEF BulkDiscardOwnUploads, BulkTrashTagsets, BulkRestoreTagsets
<1>2. ASSUME NEW R PROVE Sound(d, BulkTrashRecordings(d, R)) /\ Sound(d, BulkRestoreRecordings(d, R))
  <2> DEFINE m == BulkRestoreTagsets(d, TagsOf(d, R))
  <2>1. Sound(d, m)
    BY <1>1
  <2>2. \A F : Sound(m, EditFiles(m, F, RestoreRow))
    <3> HIDE DEF m
    <3> QED
      BY <2>1, SoundEdits DEF Sound
  <2>3. \A F : Sound(d, EditFiles(m, F, RestoreRow))
    <3> HIDE DEF m
    <3> QED
      BY <2>1, <2>2, SoundOn
  <2> QED
    BY <1>1, <2>3 DEF BulkTrashRecordings, BulkRestoreRecordings
<1>3. \A F : Sound(d, BulkRestoreRemovedFiles(d, F)) /\ Sound(d, RemoveRendition(d, F))
  BY SoundEdits DEF BulkRestoreRemovedFiles, RemoveRendition
<1>4. ASSUME NEW h PROVE Sound(d, RestoreFileByHash(d, h)) /\ Sound(d, StageRestoredFile(d, h))
  <2> DEFINE F == FileWith(d, h)
             m == EditTags(d, TagsOf(d, {d.files[f].rec : f \in F}), RestoreRow)
  <2>1. Sound(d, m)
    BY SoundEdits
  <2>2. Sound(d, EditFiles(m, F, RestoreRow))
    <3> HIDE DEF m, F
    <3> QED
      BY <2>1, SoundEdits, SoundOn DEF Sound
  <2>3. Sound(d, StageRestoredFile(d, h))
    BY SetStateIs DEF StageRestoredFile, Sound, States
  <2> QED
    BY <2>2, <2>3 DEF RestoreFileByHash
<1>5. Sound(d, Reap(d))
  BY SoundEdits DEF Reap
<1> QED
  BY <1>1, <1>2, <1>3, <1>4, <1>5

(* Ids in d are bounded, so that one more can be given out.                *)
LEMMA FreshIds ==
  ASSUME NEW d, Fits(d)
  PROVE  /\ NextId(d.recs) \in Nat \ {0} /\ NextId(d.recs) \notin d.recs
         /\ NextId(DOMAIN d.files) \in Nat \ {0} /\ NextId(DOMAIN d.files) \notin DOMAIN d.files
         /\ NextId(DOMAIN d.tags) \in Nat \ {0} /\ NextId(DOMAIN d.tags) \notin DOMAIN d.tags
<1>1. RecMax \in Nat /\ FileMax \in Nat /\ TagMax \in Nat
  BY StoreAssumption
<1> QED
  BY <1>1, NextIdIs DEF Fits

LEMMA SoundAdditions ==
  ASSUME NEW d, RowsOK(d), Fits(d), NEW k \in Keys
  PROVE  /\ \A r \in d.recs : Sound(d, CreateAppearance(d, r, k))
         /\ \A f : Sound(d, AttachDraftTagset(d, f, k))
         /\ \A h \in Hashes, s \in States : FileWith(d, h) = {} =>
              /\ Sound(d, InsertFile(d, h, k, s)) /\ h \in HashesOf(InsertFile(d, h, k, s))
<1>1. ASSUME NEW r \in d.recs PROVE Sound(d, CreateAppearance(d, r, k))
  <2> DEFINE entry == [rec |-> r, key |-> k, state |-> "approved", gone |-> FALSE, origin |-> NoFile]
  <2>1. entry \in TagShape(d)
    BY DEF TagShape, States
  <2>2. Sound(d, AddTag(d, entry))
    <3> HIDE DEF entry
    <3> QED
      BY <2>1, AddTagIs, FreshIds
  <2> QED
    BY <2>2, SoundSelf DEF CreateAppearance
<1>2. ASSUME NEW f PROVE Sound(d, AttachDraftTagset(d, f, k))
  <2> DEFINE entry == [rec |-> d.files[f].rec, key |-> k, state |-> "draft", gone |-> FALSE, origin |-> f]
  <2>1. CASE f \in DOMAIN d.files
    <3>1. d.files[f].rec \in d.recs
      BY <2>1 DEF RowsOK, FileShape
    <3>2. entry \in TagShape(d)
      BY <2>1, <3>1 DEF TagShape, States
    <3>3. Sound(d, AddTag(d, entry))
      <4> HIDE DEF entry
      <4> QED
        BY <3>2, AddTagIs, FreshIds
    <3> QED
      BY <3>3, SoundSelf DEF AttachDraftTagset
  <2>2. CASE f \notin DOMAIN d.files
    BY <2>2, SoundSelf DEF AttachDraftTagset
  <2> QED
    BY <2>1, <2>2
<1>3. ASSUME NEW h \in Hashes, NEW s \in States, FileWith(d, h) = {}
      PROVE  Sound(d, InsertFile(d, h, k, s)) /\ h \in HashesOf(InsertFile(d, h, k, s))
  <2> DEFINE r == NextId(d.recs)
             f == NextId(DOMAIN d.files)
             a == AddRec(d)
             x == [hash |-> h, rec |-> r, gone |-> FALSE, pin |-> FALSE]
             b == AddFile(a, x)
             y == [rec |-> r, key |-> k, state |-> s, gone |-> FALSE, origin |-> f]
             c == AddTag(b, y)
  <2>1. InsertFile(d, h, k, s) = c
    BY DEF InsertFile
  <2>2. /\ Sound(d, a) /\ a.recs = d.recs \cup {r} /\ a.files = d.files /\ a.tags = d.tags
    BY AddRecIs
  <2> HIDE DEF a
  <2>3. x \in FileShape(a) /\ x.hash = h
    BY <2>2 DEF FileShape
  <2>4. h \notin HashesOf(a)
    BY <1>3, <2>2 DEF HashesOf, FileWith
  <2> HIDE DEF x, r
  <2>5. NextId(DOMAIN a.files) = f /\ f \notin DOMAIN a.files
    BY <2>2, FreshIds
  <2> HIDE DEF f
  <2>6. /\ Sound(a, b) /\ b.recs = a.recs /\ b.tags = a.tags
        /\ DOMAIN b.files = DOMAIN a.files \cup {f} /\ b.files[f] = x
    BY <2>2, <2>3, <2>4, <2>5, AddFileIs DEF Sound
  <2> HIDE DEF b
  <2>7. y \in TagShape(b)
    BY <2>2, <2>6 DEF TagShape
  <2>8. NextId(DOMAIN b.tags) \notin DOMAIN b.tags
    BY <2>2, <2>6, FreshIds
  <2> HIDE DEF y
  <2>9. Sound(b, c) /\ c.files = b.files
    BY <2>6, <2>7, <2>8, AddTagIs DEF Sound
  <2> HIDE DEF c
  <2>10. Sound(d, c)
    BY <2>2, <2>6, <2>9, SoundOn
  <2>11. h \in HashesOf(c)
    BY <2>3, <2>6, <2>9 DEF HashesOf
  <2> QED
    BY <2>1, <2>10, <2>11
<1> QED
  BY <1>1, <1>2, <1>3

(* Moving a rendition into a recording of its own, with what was read from *)
(* it: the common part of a split and of an approval as new.               *)
Apart(d, f, mine) ==
  MoveTags(MoveFiles(AddRec(d), {f}, NextId(d.recs), TRUE), mine, NextId(d.recs))

LEMMA ApartIs ==
  ASSUME NEW d, RowsOK(d), NEW f, NEW mine
  PROVE  LET e == Apart(d, f, mine)
             r == NextId(d.recs)
         IN /\ Sound(d, e) /\ e.recs = d.recs \cup {r}
            /\ DOMAIN e.files = DOMAIN d.files /\ DOMAIN e.tags = DOMAIN d.tags
            /\ FilesMoved(d, {f}, r, e) /\ TagsMoved(d, mine, r, e)
<1> DEFINE r == NextId(d.recs)
           a == AddRec(d)
           b == MoveFiles(a, {f}, r, TRUE)
           e == MoveTags(b, mine, r)
<1>1. Apart(d, f, mine) = e
  BY DEF Apart
<1>2. /\ Sound(d, a) /\ a.recs = d.recs \cup {r} /\ a.files = d.files /\ a.tags = d.tags
  BY AddRecIs
<1> HIDE DEF a, r
<1>3. /\ Sound(a, b) /\ OnlyFiles(a, b) /\ FilesMoved(a, {f}, r, b)
  BY <1>2, MoveFilesIs DEF Sound
<1> HIDE DEF b
<1>4. r \in b.recs
  BY <1>2, <1>3 DEF OnlyFiles
<1>5. /\ Sound(b, e) /\ OnlyTags(b, e) /\ TagsMoved(b, mine, r, e)
  BY <1>3, <1>4, MoveTagsIs DEF Sound
<1> HIDE DEF e
<1>6. Sound(d, e)
  BY <1>2, <1>3, <1>5, SoundOn
<1>7. /\ e.recs = d.recs \cup {r}
      /\ DOMAIN e.files = DOMAIN d.files /\ DOMAIN e.tags = DOMAIN d.tags
      /\ FilesMoved(d, {f}, r, e) /\ TagsMoved(d, mine, r, e)
  BY <1>2, <1>3, <1>5 DEF OnlyFiles, OnlyTags, FilesMoved, TagsMoved
<1> QED
  BY <1>1, <1>6, <1>7 DEF r

LEMMA ApproveIs ==
  ASSUME NEW d, RowsOK(d), NEW t, NEW drop, NEW new
  PROVE  Sound(d, ApproveSubmission(d, t, drop, new))
<1> DEFINE f == d.tags[t].origin
           mine == {u \in DOMAIN d.tags : d.tags[u].origin = f}
           split == IF new THEN SplitSubmission(d, t) ELSE d
           p == BulkUpdateReviewState(split, {t}, {"submitted", "returned"}, "approved")
           q == EditFiles(p, {f}, TrashRow)
<1>1. Sound(d, SplitSubmission(d, t))
  <2>1. Sound(d, Apart(d, f, mine))
    BY ApartIs
  <2>2. \A R : Sound(d, ReapOn(Apart(d, f, mine), R))
    BY <2>1, SoundEdits, SoundOn, ZenonT(60) DEF Sound
  <2> QED
    BY <2>2, SoundSelf DEF SplitSubmission, Apart
<1>2. Sound(d, split)
  BY <1>1, SoundSelf
<1> HIDE DEF split
<1>3. Sound(d, p)
  <2>1. "approved" \in States
    BY DEF States
  <2>2. Sound(split, p)
    BY <1>2, <2>1, SoundEdits DEF Sound
  <2> QED
    BY <1>2, <2>2, SoundOn
<1> HIDE DEF p
<1>4. Sound(d, q)
  BY <1>3, SoundEdits, SoundOn DEF Sound
<1> QED
  BY <1>3, <1>4, SoundSelf DEF ApproveSubmission, split, p

LEMMA MoveTagsetIs ==
  ASSUME NEW d, RowsOK(d), NEW t \in DOMAIN d.tags, NEW r \in d.recs
  PROVE  Sound(d, MoveTagset(d, t, r))
<1>1. Sound(d, MoveTags(d, {t}, r))
  BY SoundEdits
<1>2. \A R : Sound(d, ReapOn(MoveTags(d, {t}, r), R))
  BY <1>1, SoundEdits, SoundOn DEF Sound
<1> QED
  BY <1>2, SoundSelf DEF MoveTagset

(* A split: what it makes of d before it reaps the old recording.          *)
SplitOff(d, f) ==
  LET old == d.files[f].rec
      r == NextId(d.recs)
      mine == {t \in DOMAIN d.tags : d.tags[t].origin = f}
      moved == Apart(d, f, mine)
      left == TagsOf(moved, {old})
      live == {t \in left : Live(d.tags[t])}
      model == Min(IF live # {} THEN live ELSE left)
  IN IF mine # {} \/ left = {} THEN moved
     ELSE AddTag(moved, [d.tags[model] EXCEPT !.rec = r, !.gone = FALSE, !.origin = f])

LEMMA SplitIsOneOf ==
  ASSUME NEW d, NEW f
  PROVE  \/ SplitRendition(d, f) = d
         \/ SplitRendition(d, f) = ReapOn(SplitOff(d, f), {d.files[f].rec})
BY DEF SplitRendition, SplitOff, Apart

SplitsOff(d, f, e) ==
  LET r == NextId(d.recs)
      mine == {t \in DOMAIN d.tags : d.tags[t].origin = f}
  IN /\ DOMAIN e.files = DOMAIN d.files /\ e.recs = d.recs \cup {r}
     /\ FilesMoved(d, {f}, r, e) /\ TagsMoved(d, mine, r, e)
     /\ TagsOf(e, {d.files[f].rec}) # {} => TagsOf(e, {r}) # {}

LEMMA SplitOffIs ==
  ASSUME NEW d, RowsOK(d), Fits(d), NEW f \in DOMAIN d.files
  PROVE  Sound(d, SplitOff(d, f)) /\ SplitsOff(d, f, SplitOff(d, f))
<1> DEFINE old == d.files[f].rec
           r == NextId(d.recs)
           mine == {t \in DOMAIN d.tags : d.tags[t].origin = f}
           moved == Apart(d, f, mine)
           left == TagsOf(moved, {old})
           live == {t \in left : Live(d.tags[t])}
           model == Min(IF live # {} THEN live ELSE left)
           entry == [d.tags[model] EXCEPT !.rec = r, !.gone = FALSE, !.origin = f]
           e == AddTag(moved, entry)
<1>1. SplitOff(d, f) = IF mine # {} \/ left = {} THEN moved ELSE e
  BY DEF SplitOff
<1>2. /\ Sound(d, moved) /\ moved.recs = d.recs \cup {r}
      /\ DOMAIN moved.files = DOMAIN d.files /\ DOMAIN moved.tags = DOMAIN d.tags
      /\ FilesMoved(d, {f}, r, moved) /\ TagsMoved(d, mine, r, moved)
  BY ApartIs
<1>3. mine = {t \in DOMAIN d.tags : d.tags[t].origin = f}
  OBVIOUS
<1>4. left = TagsOf(moved, {old}) /\ live \subseteq left
  OBVIOUS
<1>5. r \notin d.recs /\ old \in d.recs
  BY FreshIds DEF RowsOK, FileShape
<1> HIDE DEF moved, r, mine
<1>6. CASE mine # {} \/ left = {}
  <2>1. SplitOff(d, f) = moved
    BY <1>1, <1>6
  <2>2. mine # {} => TagsOf(moved, {r}) # {}
    <3> SUFFICES ASSUME NEW t \in mine PROVE t \in TagsOf(moved, {r})
      OBVIOUS
    <3>1. t \in DOMAIN d.tags
      BY <1>3
    <3> QED
      BY <1>2, <3>1 DEF TagsMoved, TagsOf
  <2>3. SplitsOff(d, f, moved)
    BY <1>2, <1>6, <2>2 DEF SplitsOff, r, mine
  <2> QED
    BY <1>2, <2>1, <2>3
<1>7. CASE mine = {} /\ left # {}
  <2>1. model \in left /\ left \subseteq DOMAIN d.tags
    <3>1. left \subseteq DOMAIN d.tags
      BY <1>2 DEF TagsOf
    <3>2. left \subseteq 0..TagMax /\ TagMax \in Nat
      BY <3>1, StoreAssumption DEF Fits
    <3>3. (IF live # {} THEN live ELSE left) \subseteq 0..TagMax
      BY <1>4, <3>2
    <3>4. (IF live # {} THEN live ELSE left) # {}
      BY <1>7
    <3> HIDE DEF live, left
    <3>5. model \in (IF live # {} THEN live ELSE left)
      BY <3>2, <3>3, <3>4, LeastIs
    <3> QED
      BY <1>4, <3>1, <3>5
  <2> HIDE DEF model
  <2>2. d.tags[model] \in TagShape(d)
    BY <2>1 DEF RowsOK
  <2>3. entry \in TagShape(moved) /\ entry.rec = r
    BY <1>2, <2>2 DEF TagShape
  <2> HIDE DEF entry
  <2>4. NextId(DOMAIN moved.tags) \notin DOMAIN moved.tags
    BY <1>2, FreshIds
  <2>5. /\ Sound(moved, e) /\ e.recs = moved.recs /\ e.files = moved.files
        /\ DOMAIN e.tags = DOMAIN moved.tags \cup {NextId(DOMAIN moved.tags)}
        /\ \A t \in DOMAIN moved.tags : e.tags[t] = moved.tags[t]
        /\ e.tags[NextId(DOMAIN moved.tags)] = entry
    BY <1>2, <2>3, <2>4, AddTagIs DEF Sound
  <2> HIDE DEF e
  <2>6. TagsOf(e, {r}) # {}
    BY <2>3, <2>5 DEF TagsOf
  <2>7. FilesMoved(d, {f}, r, e) /\ TagsMoved(d, mine, r, e)
    BY <1>2, <2>5 DEF FilesMoved, TagsMoved
  <2>8. SplitsOff(d, f, e)
    BY <1>2, <2>5, <2>6, <2>7 DEF SplitsOff, r, mine
  <2>9. Sound(d, e)
    BY <1>2, <2>5, SoundOn
  <2> QED
    BY <1>1, <1>7, <2>8, <2>9
<1> QED
  BY <1>6, <1>7

LEMMA SplitIs ==
  ASSUME NEW d, RowsOK(d), Fits(d), NEW f \in DOMAIN d.files
  PROVE  Sound(d, SplitRendition(d, f))
<1>1. \A R : Sound(d, ReapOn(SplitOff(d, f), R))
  BY SplitOffIs, SoundEdits, SoundOn DEF Sound
<1> QED
  BY <1>1, SplitIsOneOf, SoundSelf

(* Transactions that give out no id.                                       *)
Stays(d, e) == /\ e.recs \subseteq d.recs /\ DOMAIN e.files = DOMAIN d.files
               /\ DOMAIN e.tags = DOMAIN d.tags

LEMMA ResolveIs ==
  ASSUME NEW d, RowsOK(d), NEW f, NEW cur, NEW best
  PROVE  Sound(d, ResolveTx(d, f, cur, best)) /\ Stays(d, ResolveTx(d, f, cur, best))
<1> DEFINE F == {f} \cap DOMAIN d.files
           mine == {t \in DOMAIN d.tags : f # NoFile /\ d.tags[t].origin = f}
           moved == MoveTags(MoveFiles(d, F, best, FALSE), mine, best)
           stranded == IF FilesOf(moved, {cur}) = {} THEN TagsOf(moved, {cur}) ELSE {}
           all == MoveTags(moved, stranded, best)
<1>1. ResolveTx(d, f, cur, best) =
        IF best \notin d.recs /\ (F # {} \/ mine # {} \/ stranded # {}) THEN d ELSE ReapOn(all, {cur})
  BY DEF ResolveTx
<1>2. ASSUME best \in d.recs \/ (F = {} /\ mine = {} /\ stranded = {})
      PROVE  Sound(d, all) /\ Stays(d, all)
  <2> DEFINE m == MoveFiles(d, F, best, FALSE)
  <2>1. Sound(d, m) /\ OnlyFiles(d, m)
    BY <1>2, MoveFilesIs DEF Sound
  <2>2. best \in m.recs \/ (mine = {} /\ stranded = {})
    BY <1>2, <2>1 DEF OnlyFiles
  <2>3. moved = MoveTags(m, mine, best)
    OBVIOUS
  <2> HIDE DEF m, mine
  <2>4. Sound(m, moved) /\ OnlyTags(m, moved)
    BY <2>1, <2>2, <2>3, MoveTagsIs DEF Sound
  <2>5. best \in moved.recs \/ stranded = {}
    BY <2>2, <2>4 DEF OnlyTags
  <2> HIDE DEF moved, stranded
  <2>6. Sound(moved, all) /\ OnlyTags(moved, all)
    BY <2>4, <2>5, MoveTagsIs DEF Sound
  <2> HIDE DEF all
  <2>7. Sound(d, all)
    BY <2>1, <2>4, <2>6, SoundOn
  <2>8. Stays(d, all)
    BY <2>1, <2>4, <2>6 DEF OnlyFiles, OnlyTags, Stays
  <2> QED
    BY <2>7, <2>8
<1> HIDE DEF all, stranded, mine, F
<1>3. ASSUME Sound(d, all), Stays(d, all)
      PROVE  Sound(d, ReapOn(all, {cur})) /\ Stays(d, ReapOn(all, {cur}))
  <2>1. Sound(all, ReapOn(all, {cur})) /\ Reaped(all, {cur}, ReapOn(all, {cur}))
    BY <1>3, ReapIs DEF Sound
  <2> QED
    BY <1>3, <2>1, SoundOn DEF Stays, Reaped
<1>4. Sound(d, d) /\ Stays(d, d)
  BY SoundSelf DEF Stays
<1> QED
  BY <1>1, <1>2, <1>3, <1>4

(* What takes the place of a saved appearance that goes.                   *)
OthersOf(d, T, t) == LiveTags(d, {d.tags[t].rec}) \ T
Alike(d, T, t) == {s \in OthersOf(d, T, t) : d.tags[s].key = d.tags[t].key}
Heir(d, T, t) == Min(IF Alike(d, T, t) # {} THEN Alike(d, T, t) ELSE OthersOf(d, T, t))
Rescued(d, T) == {t \in d.saved \cap T : OthersOf(d, T, t) # {}}

LEMMA HeirIs ==
  ASSUME NEW d, Fits(d), NEW T, NEW t, OthersOf(d, T, t) # {}
  PROVE  /\ Heir(d, T, t) \in OthersOf(d, T, t)
         /\ Alike(d, T, t) # {} => Heir(d, T, t) \in Alike(d, T, t)
<1> DEFINE C == IF Alike(d, T, t) # {} THEN Alike(d, T, t) ELSE OthersOf(d, T, t)
<1>1. OthersOf(d, T, t) \subseteq DOMAIN d.tags
  BY DEF OthersOf, LiveTags, TagsOf
<1>2. Alike(d, T, t) \subseteq OthersOf(d, T, t)
  BY DEF Alike
<1>3. C # {} /\ C \subseteq OthersOf(d, T, t)
  BY <1>2
<1>4. C \subseteq 0..TagMax /\ TagMax \in Nat
  BY <1>1, <1>3, StoreAssumption DEF Fits
<1>5. Min(C) \in C
  <2> HIDE DEF C
  <2> QED
    BY <1>3, <1>4, LeastIs
<1> QED
  BY <1>3, <1>5 DEF Heir

Deduped(d, T, e) ==
  /\ DOMAIN e = Tables /\ e.recs = d.recs /\ e.files = d.files
  /\ DOMAIN e.tags = DOMAIN d.tags \ T /\ \A t \in DOMAIN e.tags : e.tags[t] = d.tags[t]
  /\ e.saved = ((d.saved \ Rescued(d, T)) \cup {Heir(d, T, t) : t \in Rescued(d, T)}) \ T

LEMMA DedupIs ==
  ASSUME NEW d, RowsOK(d), Fits(d), NEW T
  PROVE  RowsOK(DedupTags(d, T)) /\ Deduped(d, T, DedupTags(d, T))
<1> DEFINE S == (d.saved \ Rescued(d, T)) \cup {Heir(d, T, t) : t \in Rescued(d, T)}
           m == [d EXCEPT !.saved = S]
<1>1. RepointSaved(d, T) = m
  BY DEF RepointSaved, Rescued, Heir, Alike, OthersOf, RowsOK, Tables
<1>2. S \subseteq DOMAIN d.tags
  <2>1. \A t \in Rescued(d, T) : Heir(d, T, t) \in DOMAIN d.tags
    <3>1. \A t \in Rescued(d, T) : Heir(d, T, t) \in OthersOf(d, T, t)
      BY HeirIs DEF Rescued
    <3>2. \A t : OthersOf(d, T, t) \subseteq DOMAIN d.tags
      BY DEF OthersOf, LiveTags, TagsOf
    <3> QED
      BY <3>1, <3>2
  <2> QED
    BY <2>1 DEF RowsOK
<1> HIDE DEF S
<1>3. /\ m.recs = d.recs /\ m.files = d.files /\ m.tags = d.tags /\ m.saved = S
      /\ DOMAIN m = Tables
  BY DEF RowsOK, Tables
<1> HIDE DEF m
<1>4. FileShape(m) = FileShape(d) /\ TagShape(m) = TagShape(d)
  BY <1>3 DEF FileShape, TagShape
<1>5. RowsOK(m)
  BY <1>2, <1>3, <1>4 DEF RowsOK
<1>6. RowsOK(DropTags(m, T)) /\ Dropped(m, T, DropTags(m, T))
  BY <1>5, DropTagsIs
<1>7. Deduped(d, T, DropTags(m, T))
  BY <1>3, <1>6 DEF Dropped, Deduped, S
<1> QED
  BY <1>1, <1>6, <1>7 DEF DedupTags

(* An absorb: what goes, and what it leaves.                               *)
RecsOf(d, A) == {d.files[f].rec : f \in A}
Absorbed(d, A) == {t \in LiveTags(d, RecsOf(d, A)) :
                     d.tags[t].origin \in FilesOf(d, {d.tags[t].rec}) \cap A}
AbsorbDrop(d, A) ==
  {t \in Absorbed(d, A) :
     \/ d.tags[t].key = Nameless
     \/ \E u \in LiveTags(d, {d.tags[t].rec}) :
          d.tags[u].key = d.tags[t].key /\ (u \in Absorbed(d, A) => u < t)}

LEMMA AbsorbTwin ==
  ASSUME NEW d, Fits(d), NEW A, NEW t \in AbsorbDrop(d, A), d.tags[t].key # Nameless
  PROVE  \E u \in LiveTags(d, {d.tags[t].rec}) \ AbsorbDrop(d, A) : d.tags[u].key = d.tags[t].key
<1> DEFINE C == {u \in LiveTags(d, {d.tags[t].rec}) : d.tags[u].key = d.tags[t].key}
<1>1. t \in C
  BY DEF AbsorbDrop, Absorbed, LiveTags, TagsOf
<1>2. \A u \in C : d.tags[u].rec = d.tags[t].rec
  BY DEF LiveTags, TagsOf
<1>3. CASE \E u \in C : u \notin Absorbed(d, A)
  BY <1>3 DEF AbsorbDrop
<1>4. CASE C \subseteq Absorbed(d, A)
  <2>1. C \subseteq 0..TagMax /\ TagMax \in Nat
    BY StoreAssumption DEF LiveTags, TagsOf, Fits
  <2>2. Min(C) \in C /\ \A k \in C : Min(C) <= k
    <3> HIDE DEF C
    <3> QED
      BY <1>1, <2>1, LeastIs
  <2> DEFINE u == Min(C)
  <2>3. u \in C /\ \A k \in C : u <= k
    BY <2>2
  <2> HIDE DEF u
  <2>4. u \notin AbsorbDrop(d, A)
    <3> SUFFICES ASSUME u \in AbsorbDrop(d, A) PROVE FALSE
      OBVIOUS
    <3>1. d.tags[u].key # Nameless /\ d.tags[u].rec = d.tags[t].rec /\ d.tags[u].key = d.tags[t].key
      BY <1>2, <2>3
    <3>2. PICK v \in LiveTags(d, {d.tags[u].rec}) :
            d.tags[v].key = d.tags[u].key /\ (v \in Absorbed(d, A) => v < u)
      BY <3>1 DEF AbsorbDrop
    <3>3. v \in C
      BY <3>1, <3>2
    <3>4. v < u
      BY <1>4, <3>2, <3>3
    <3>5. u <= v /\ u \in Nat /\ v \in Nat
      <4> HIDE DEF C
      <4>1. u \in 0..TagMax /\ v \in 0..TagMax
        BY <2>1, <2>3, <3>3
      <4>2. u <= v
        BY <2>3, <3>3
      <4> QED
        BY <2>1, <4>1, <4>2
    <3> QED
      BY <3>4, <3>5
  <2> QED
    BY <2>3, <2>4
<1> QED
  BY <1>3, <1>4

Absorbs(d, A, e) ==
  LET drop == AbsorbDrop(d, A)
  IN /\ e.recs = d.recs /\ DOMAIN e.files = DOMAIN d.files
     /\ \A f \in DOMAIN d.files :
          /\ e.files[f].hash = d.files[f].hash /\ e.files[f].rec = d.files[f].rec
          /\ (IF \/ f \in A
                 \/ d.files[f].rec \in RecsOf(d, A) /\ TagsOf(d, {d.files[f].rec}) \subseteq drop
              THEN e.files[f].gone ELSE e.files[f].gone = d.files[f].gone)
     /\ DOMAIN e.tags = DOMAIN d.tags \ drop
     /\ \A t \in DOMAIN e.tags :
          /\ e.tags[t].key = d.tags[t].key /\ e.tags[t].rec = d.tags[t].rec
          /\ e.tags[t].state = d.tags[t].state /\ e.tags[t].gone = d.tags[t].gone
     /\ e.saved = ((d.saved \ Rescued(d, drop)) \cup {Heir(d, drop, t) : t \in Rescued(d, drop)}) \ drop

LEMMA AbsorbIs ==
  ASSUME NEW d, RowsOK(d), Fits(d), NEW A, A \subseteq DOMAIN d.files
  PROVE  RowsOK(AbsorbFiles(d, A)) /\ Absorbs(d, A, AbsorbFiles(d, A))
<1> DEFINE R == RecsOf(d, A)
           drop == AbsorbDrop(d, A)
           m == DedupTags(d, drop)
           n == EditFiles(m, A, TrashRow)
           e == ReapOn(n, R)
<1>1. AbsorbFiles(d, A) = e
  BY DEF AbsorbFiles, AbsorbDrop, Absorbed, RecsOf
<1>2. RowsOK(m) /\ Deduped(d, drop, m)
  BY DedupIs
<1> HIDE DEF m
<1>3. RowsOK(n) /\ OnlyFiles(m, n) /\ FilesMarked(m, A, TRUE, n)
  BY <1>2, TrashFilesIs
<1> HIDE DEF n
<1>4. RowsOK(e) /\ Reaped(n, R, e)
  BY <1>3, ReapIs
<1> HIDE DEF e, drop
<1>5. /\ n.recs = d.recs /\ DOMAIN n.files = DOMAIN d.files
      /\ DOMAIN n.tags = DOMAIN d.tags \ drop /\ \A t \in DOMAIN n.tags : n.tags[t] = d.tags[t]
      /\ n.saved = ((d.saved \ Rescued(d, drop)) \cup {Heir(d, drop, t) : t \in Rescued(d, drop)}) \ drop
      /\ \A f \in DOMAIN d.files :
           /\ n.files[f].hash = d.files[f].hash /\ n.files[f].rec = d.files[f].rec
           /\ n.files[f].gone = IF f \in A THEN TRUE ELSE d.files[f].gone
  BY <1>2, <1>3 DEF Deduped, OnlyFiles, FilesMarked
<1>6. Silent(n, R) = {}
  <2> SUFFICES ASSUME NEW f \in A PROVE FilesOf(n, {d.files[f].rec}) # {}
    BY DEF Silent, RecsOf
  <2> QED
    BY <1>5 DEF FilesOf
<1>7. \A f \in DOMAIN d.files :
        f \in FilesOf(n, Bare(n, R)) <=> d.files[f].rec \in R /\ TagsOf(d, {d.files[f].rec}) \subseteq drop
  <2> SUFFICES ASSUME NEW f \in DOMAIN d.files
               PROVE  d.files[f].rec \in Bare(n, R) <=>
                        d.files[f].rec \in R /\ TagsOf(d, {d.files[f].rec}) \subseteq drop
    BY <1>5 DEF FilesOf
  <2> QED
    BY <1>5 DEF Bare, TagsOf
<1>8. e.recs = d.recs /\ DOMAIN e.files = DOMAIN d.files /\ DOMAIN e.tags = DOMAIN d.tags \ drop
      /\ e.saved = n.saved
  BY <1>4, <1>5, <1>6 DEF Reaped
<1>9. ASSUME NEW f \in DOMAIN d.files
      PROVE  /\ e.files[f].hash = d.files[f].hash /\ e.files[f].rec = d.files[f].rec
             /\ e.files[f].gone = IF f \in FilesOf(n, Bare(n, R)) THEN TRUE ELSE n.files[f].gone
  BY <1>4, <1>5 DEF Reaped, FilesMarked
<1>10. ASSUME NEW t \in DOMAIN e.tags
       PROVE  /\ e.tags[t].key = d.tags[t].key /\ e.tags[t].rec = d.tags[t].rec
              /\ e.tags[t].state = d.tags[t].state /\ e.tags[t].gone = d.tags[t].gone
  <2>1. TagsOf(n, {}) = {}
    BY DEF TagsOf
  <2> QED
    BY <1>4, <1>5, <1>6, <1>8, <2>1 DEF Reaped, TagsMarked
<1>11. Absorbs(d, A, e)
  BY <1>5, <1>7, <1>8, <1>9, <1>10 DEF Absorbs, drop
<1> QED
  BY <1>1, <1>4, <1>11

PendingOf(d) == {t \in DOMAIN d.tags : ~Live(d.tags[t]) \/ d.tags[t].state # "approved"}
SavedNamed(d) == \A t \in d.saved : d.tags[t].key # Nameless
NamesKept(d, e) ==
  \A f \in DOMAIN d.files :
    TagsOf(d, {d.files[f].rec}) # {} /\ f \in LiveFiles(e, e.recs) => TagsOf(e, {e.files[f].rec}) # {}

LEMMA AbsorbSpares ==
  ASSUME NEW d, RowsOK(d), NEW A, A \subseteq DOMAIN d.files, NEW e, Absorbs(d, A, e)
  PROVE  HashesOf(d) \subseteq HashesOf(e) /\ PendingOf(d) \subseteq DOMAIN e.tags /\ NamesKept(d, e)
<1>1. HashesOf(d) \subseteq HashesOf(e)
  BY DEF HashesOf, Absorbs
<1>2. AbsorbDrop(d, A) \subseteq LiveTags(d, RecsOf(d, A))
  BY DEF AbsorbDrop, Absorbed
<1>3. PendingOf(d) \subseteq DOMAIN e.tags
  BY <1>2 DEF PendingOf, Absorbs, LiveTags
<1>4. ASSUME NEW f \in DOMAIN d.files, TagsOf(d, {d.files[f].rec}) # {}, f \in LiveFiles(e, e.recs)
      PROVE  TagsOf(e, {e.files[f].rec}) # {}
  <2> DEFINE r == d.files[f].rec
  <2>1. ~e.files[f].gone /\ e.files[f].rec = r
    BY <1>4 DEF LiveFiles, FilesOf, Live, Absorbs
  <2> HIDE DEF r
  <2>2. PICK t \in TagsOf(d, {r}) : t \notin AbsorbDrop(d, A)
    <3>1. CASE r \in RecsOf(d, A)
      <4>1. ~(TagsOf(d, {r}) \subseteq AbsorbDrop(d, A))
        BY <1>4, <2>1, <3>1 DEF Absorbs, r
      <4> QED
        BY <4>1
    <3>2. CASE r \notin RecsOf(d, A)
      BY <1>2, <1>4, <3>2 DEF r, TagsOf, LiveTags
    <3> QED
      BY <3>1, <3>2
  <2>3. t \in DOMAIN e.tags /\ e.tags[t].rec = r
    BY <2>2 DEF Absorbs, TagsOf
  <2> QED
    BY <2>1, <2>3 DEF TagsOf
<1> QED
  BY <1>1, <1>3, <1>4 DEF NamesKept

(* A playlist entry that goes hands over to a named twin.                  *)
LEMMA AbsorbSaves ==
  ASSUME NEW d, RowsOK(d), Fits(d), NEW A, A \subseteq DOMAIN d.files, NEW e, Absorbs(d, A, e),
         SavedNamed(d)
  PROVE  SavedNamed(e) /\ (d.saved # {} => e.saved # {})
<1> DEFINE T == AbsorbDrop(d, A)
<1>1. \A t \in d.saved \cap T : Alike(d, T, t) # {}
  <2> SUFFICES ASSUME NEW t \in d.saved \cap T PROVE Alike(d, T, t) # {}
    OBVIOUS
  <2>1. d.tags[t].key # Nameless
    BY DEF SavedNamed
  <2> QED
    BY <2>1, AbsorbTwin DEF Alike, OthersOf
<1>2. \A t \in Rescued(d, T) : Alike(d, T, t) # {} /\ OthersOf(d, T, t) # {}
  BY <1>1 DEF Rescued
<1>3. \A t \in d.saved \cap T : t \in Rescued(d, T)
  BY <1>1 DEF Rescued, Alike
<1>4. \A t \in Rescued(d, T) : Heir(d, T, t) \in Alike(d, T, t)
  BY <1>2, HeirIs
<1>5. \A t \in Rescued(d, T) : /\ Heir(d, T, t) \notin T /\ Heir(d, T, t) \in DOMAIN d.tags
                               /\ d.tags[Heir(d, T, t)].key # Nameless
  <2> SUFFICES ASSUME NEW t \in Rescued(d, T), NEW s \in Alike(d, T, t)
               PROVE  s \notin T /\ s \in DOMAIN d.tags /\ d.tags[s].key # Nameless
    BY <1>4
  <2>1. d.tags[t].key # Nameless
    BY DEF Rescued, SavedNamed
  <2> QED
    BY <2>1 DEF Alike, OthersOf, LiveTags, TagsOf
<1>6. /\ e.saved = ((d.saved \ Rescued(d, T)) \cup {Heir(d, T, t) : t \in Rescued(d, T)}) \ T
      /\ DOMAIN e.tags = DOMAIN d.tags \ T /\ \A t \in DOMAIN e.tags : e.tags[t].key = d.tags[t].key
  BY DEF Absorbs
<1>7. d.saved \subseteq DOMAIN d.tags
  BY DEF RowsOK
<1> HIDE DEF T
<1>8. SavedNamed(e)
  <2> SUFFICES ASSUME NEW x \in e.saved PROVE e.tags[x].key # Nameless
    BY DEF SavedNamed
  <2>1. CASE x \in d.saved /\ x \notin T
    BY <1>6, <1>7, <2>1 DEF SavedNamed
  <2>2. CASE \E t \in Rescued(d, T) : x = Heir(d, T, t)
    BY <1>5, <1>6, <2>2
  <2> QED
    BY <1>6, <2>1, <2>2
<1>9. ASSUME NEW x \in d.saved PROVE e.saved # {}
  <2>1. CASE x \in T
    <3>1. x \in Rescued(d, T)
      BY <1>3, <2>1
    <3>2. Heir(d, T, x) \in e.saved
      BY <1>5, <1>6, <3>1
    <3> QED
      BY <3>2
  <2>2. CASE x \notin T
    <3>1. x \notin Rescued(d, T)
      BY <2>2 DEF Rescued
    <3> QED
      BY <1>6, <2>2, <3>1
  <2> QED
    BY <2>1, <2>2
<1> QED
  BY <1>8, <1>9

(* Each recording keeps a live rendition, so each named entry shows.       *)
LEMMA AbsorbShows ==
  ASSUME NEW d, RowsOK(d), Fits(d), NEW A, A \subseteq DOMAIN d.files, NEW e, Absorbs(d, A, e),
         \A f \in A : LiveFiles(d, {d.files[f].rec}) \ A # {}
  PROVE  Shown(d) \subseteq Shown(e)
<1> DEFINE T == AbsorbDrop(d, A)
<1> SUFFICES ASSUME NEW t \in Visible(d), d.tags[t].key # Nameless
             PROVE  \E u \in Visible(e) : e.tags[u].key = d.tags[t].key
  <2>1. \A k \in Shown(d) : \E t \in Visible(d) : d.tags[t].key = k /\ k # Nameless
    BY DEF Shown
  <2> QED
    BY <2>1 DEF Shown
<1> DEFINE r == d.tags[t].rec
<1>1. t \in LiveTags(d, {r}) /\ r \in d.recs /\ LiveFiles(d, {r}) # {}
  BY DEF Visible, LiveTags, TagsOf
<1>2. PICK u \in LiveTags(d, {r}) \ T : d.tags[u].key = d.tags[t].key
  BY <1>1, AbsorbTwin
<1>3. PICK g \in LiveFiles(d, {r}) : g \notin A
  <2>1. CASE r \in RecsOf(d, A)
    BY <2>1 DEF RecsOf
  <2>2. CASE r \notin RecsOf(d, A)
    BY <1>1, <2>2 DEF RecsOf, LiveFiles, FilesOf
  <2> QED
    BY <2>1, <2>2
<1> HIDE DEF r, T
<1>4. u \in DOMAIN d.tags /\ d.tags[u].rec = r /\ ~d.tags[u].gone /\ d.tags[u].state = "approved"
  BY <1>2 DEF LiveTags, TagsOf, Live
<1>5. g \in DOMAIN d.files /\ d.files[g].rec = r /\ ~d.files[g].gone
  BY <1>3 DEF LiveFiles, FilesOf, Live
<1>6. e.files[g].rec = r /\ ~e.files[g].gone /\ g \in DOMAIN e.files
  <2>1. ~(TagsOf(d, {r}) \subseteq T)
    BY <1>2, <1>4 DEF TagsOf
  <2> QED
    BY <1>3, <1>5, <2>1 DEF Absorbs, T
<1>7. u \in DOMAIN e.tags /\ e.tags[u].rec = r /\ ~e.tags[u].gone /\ e.tags[u].state = "approved"
      /\ e.tags[u].key = d.tags[t].key
  BY <1>2, <1>4 DEF Absorbs, T
<1>8. e.recs = d.recs
  BY DEF Absorbs
<1>9. g \in LiveFiles(e, {r})
  BY <1>6 DEF LiveFiles, FilesOf, Live
<1>10. u \in LiveTags(e, e.recs)
  BY <1>1, <1>7, <1>8 DEF LiveTags, TagsOf, Live
<1>11. u \in Visible(e)
  BY <1>7, <1>9, <1>10 DEF Visible
<1> QED
  BY <1>7, <1>11

(* There is a best one of some renditions.                                 *)
LEMMA Bounded ==
  ASSUME NEW n \in Nat, NEW F, F \subseteq 1..n, NEW q, \A f \in F : q[f] \in Nat
  PROVE  \E b \in Nat : \A f \in F : q[f] <= b
<1> DEFINE N == {m \in 0..n : \E b \in Nat : \A f \in F \cap 1..m : q[f] <= b}
           top == Largest(N)
<1>1. 0 \in N
  OBVIOUS
<1>2. top \in N /\ \A m \in N : m <= top
  <2>1. N \subseteq 0..n
    OBVIOUS
  <2> HIDE DEF N
  <2> QED
    BY <1>1, <2>1, LargestIs
<1>3. top = n
  <2> SUFFICES ASSUME top # n PROVE FALSE
    OBVIOUS
  <2>1. top \in 0..n /\ top + 1 \in 0..n
    BY <1>2
  <2>2. PICK b \in Nat : \A f \in F \cap 1..top : q[f] <= b
    BY <1>2
  <2> HIDE DEF top
  <2> DEFINE c == IF top + 1 \in F /\ q[top + 1] > b THEN q[top + 1] ELSE b
  <2>3. c \in Nat /\ b <= c /\ (top + 1 \in F => q[top + 1] <= c)
    BY <2>1
  <2>4. \A f \in F \cap 1..(top + 1) : q[f] <= c
    <3> SUFFICES ASSUME NEW f \in F, f \in 1..(top + 1) PROVE q[f] <= c
      OBVIOUS
    <3>1. f \in 1..top \/ f = top + 1
      BY <2>1
    <3> HIDE DEF c
    <3>2. CASE f \in 1..top
      <4>1. q[f] <= b /\ q[f] \in Nat
        BY <2>2, <3>2
      <4> QED
        BY <2>3, <4>1
    <3> QED
      BY <2>3, <3>1, <3>2
  <2>5. top + 1 \in N
    <3> HIDE DEF c
    <3> QED
      BY <2>1, <2>3, <2>4
  <2> HIDE DEF N
  <2>6. top + 1 <= top
    BY <1>2, <2>5
  <2> QED
    BY <2>1, <2>6
<1>4. PICK b \in Nat : \A f \in F \cap 1..n : q[f] <= b
  BY <1>2, <1>3
<1> QED
  BY <1>4

LEMMA BestIs ==
  ASSUME NEW d, RowsOK(d), Fits(d), NEW F, F \subseteq DOMAIN d.files, F # {}
  PROVE  Best(d, F) \in F
<1> DEFINE q == [x \in F |-> Quality[d.files[x].hash]]
           Q == {q[f] : f \in F}
<1>1. \A f \in F : q[f] \in Nat
  BY StoreAssumption DEF RowsOK, FileShape
<1>2. F \subseteq 1..FileMax /\ FileMax \in Nat
  BY StoreAssumption DEF Fits
<1>3. PICK b \in Nat : \A f \in F : q[f] <= b
  <2> HIDE DEF q
  <2> QED
    BY <1>1, <1>2, Bounded
<1>4. PICK m \in Q : \A k \in Q : k <= m
  <2>1. Q \subseteq 0..b /\ Q # {}
    <3> HIDE DEF q
    <3> QED
      BY <1>1, <1>3
  <2> HIDE DEF Q
  <2> QED
    BY <2>1, Topmost
<1> DEFINE C == {f \in F : q[f] = m}
<1>5. C # {} /\ C \subseteq 0..FileMax
  BY <1>2
<1>6. PICK f \in C : \A g \in C : f <= g
  <2> HIDE DEF C
  <2> QED
    BY <1>2, <1>5, LeastIs
<1>7. \A g \in F \ {f} : q[f] > q[g] \/ (q[f] = q[g] /\ f < g)
  <2> SUFFICES ASSUME NEW g \in F, g # f PROVE q[f] > q[g] \/ (q[f] = q[g] /\ f < g)
    OBVIOUS
  <2>1. q[g] <= m /\ q[f] = m /\ q[g] \in Nat /\ q[f] \in Nat
    BY <1>1, <1>4, <1>6
  <2>2. g \in Nat /\ f \in Nat
    BY <1>2, <1>6
  <2>3. CASE q[g] = m
    <3>1. f <= g
      BY <1>6, <2>3
    <3> QED
      BY <2>1, <2>2, <2>3, <3>1
  <2>4. CASE q[g] # m
    <3> HIDE DEF q
    <3> QED
      BY <2>1, <2>4
  <2> QED
    BY <2>3, <2>4
<1>8. f \in F /\ \A x \in F : q[x] = Quality[d.files[x].hash]
  BY <1>6
<1> HIDE DEF q, C
<1>9. \A g \in F \ {f} : LET p(x) == Quality[d.files[x].hash] IN p(f) > p(g) \/ (p(f) = p(g) /\ f < g)
  BY <1>7, <1>8
<1> QED
  BY <1>8, <1>9 DEF Best

AbsorbsInto(d, e) ==
  e = d \/ \E A \in SUBSET DOMAIN d.files :
             /\ e = AbsorbFiles(d, A)
             /\ \A f \in A : LiveFiles(d, {d.files[f].rec}) \ A # {}

LEMMA AbsorbsAre ==
  ASSUME NEW d, RowsOK(d), Fits(d)
  PROVE  /\ \A r, keep : \A A \in SUBSET DOMAIN d.files : AbsorbsInto(d, AbsorbRenditions(d, r, keep, A))
         /\ \A R : AbsorbsInto(d, BulkAbsorbKeepBest(d, R))
<1>1. ASSUME NEW r, NEW keep, NEW A \in SUBSET DOMAIN d.files
      PROVE  AbsorbsInto(d, AbsorbRenditions(d, r, keep, A))
  <2>1. CASE keep \in A \/ A = {} \/ ~(A \cup {keep} \subseteq LiveFiles(d, {r}))
    BY <2>1 DEF AbsorbsInto, AbsorbRenditions
  <2>2. CASE keep \notin A /\ A # {} /\ A \cup {keep} \subseteq LiveFiles(d, {r})
    <3>1. \A f \in A : d.files[f].rec = r
      BY <2>2 DEF LiveFiles, FilesOf
    <3>2. \A f \in A : keep \in LiveFiles(d, {d.files[f].rec}) \ A
      BY <2>2, <3>1
    <3>3. AbsorbRenditions(d, r, keep, A) = AbsorbFiles(d, A)
      BY <2>2 DEF AbsorbRenditions
    <3> QED
      BY <3>2, <3>3 DEF AbsorbsInto
  <2> QED
    BY <2>1, <2>2
<1>2. ASSUME NEW R PROVE AbsorbsInto(d, BulkAbsorbKeepBest(d, R))
  <2> DEFINE Ls == {LiveFiles(d, {r}) : r \in R} \ {{}}
             A == UNION {L \ {Best(d, L)} : L \in Ls}
  <2>1. \A L \in Ls : /\ L \subseteq DOMAIN d.files /\ Best(d, L) \in L
                      /\ \A f \in L : L = LiveFiles(d, {d.files[f].rec})
    <3> SUFFICES ASSUME NEW r, NEW L, L = LiveFiles(d, {r}), L # {}
                 PROVE  /\ L \subseteq DOMAIN d.files /\ Best(d, L) \in L
                        /\ \A f \in L : L = LiveFiles(d, {d.files[f].rec})
      OBVIOUS
    <3>1. L \subseteq DOMAIN d.files /\ \A f \in L : d.files[f].rec = r
      BY DEF LiveFiles, FilesOf
    <3>2. Best(d, L) \in L
      BY <3>1, BestIs
    <3> QED
      BY <3>1, <3>2
  <2> HIDE DEF Ls
  <2>2. A \subseteq DOMAIN d.files
    BY <2>1
  <2>3. ASSUME NEW f \in A PROVE LiveFiles(d, {d.files[f].rec}) \ A # {}
    <3>1. PICK L \in Ls : f \in L \ {Best(d, L)}
      OBVIOUS
    <3>2. L = LiveFiles(d, {d.files[f].rec}) /\ Best(d, L) \in L
      BY <2>1, <3>1
    <3>3. ASSUME Best(d, L) \in A PROVE FALSE
      <4>1. PICK M \in Ls : Best(d, L) \in M \ {Best(d, M)}
        BY <3>3
      <4>2. M = L
        BY <2>1, <3>2, <4>1, ZenonT(60)
      <4> QED
        BY <4>1, <4>2
    <3> QED
      BY <3>2, <3>3
  <2>4. BulkAbsorbKeepBest(d, R) = AbsorbFiles(d, A)
    BY DEF BulkAbsorbKeepBest, Ls
  <2> HIDE DEF A
  <2> QED
    BY <2>2, <2>3, <2>4 DEF AbsorbsInto
<1> QED
  BY <1>1, <1>2

LEMMA AbsorbEnds ==
  ASSUME NEW d, RowsOK(d), Fits(d), SavedNamed(d), NEW e, AbsorbsInto(d, e)
  PROVE  /\ RowsOK(e) /\ SavedNamed(e) /\ HashesOf(d) \subseteq HashesOf(e)
         /\ PendingOf(d) \subseteq DOMAIN e.tags /\ NamesKept(d, e)
         /\ (d.saved # {} => e.saved # {}) /\ Shown(d) \subseteq Shown(e)
<1>1. CASE e = d
  BY <1>1 DEF PendingOf, NamesKept
<1>2. CASE e # d
  <2>1. PICK A \in SUBSET DOMAIN d.files :
          /\ e = AbsorbFiles(d, A) /\ \A f \in A : LiveFiles(d, {d.files[f].rec}) \ A # {}
    BY <1>2 DEF AbsorbsInto
  <2>2. RowsOK(e) /\ Absorbs(d, A, e)
    BY <2>1, AbsorbIs
  <2> QED
    BY <2>1, <2>2, AbsorbSpares, AbsorbSaves, AbsorbShows
<1> QED
  BY <1>1, <1>2

(* A merge: the recordings S go into r.                                    *)
MergeBefore(d, u, t) == \/ d.tags[u].rec < d.tags[t].rec
                        \/ d.tags[u].rec = d.tags[t].rec /\ u < t
MergeDrop(d, r, S) ==
  {t \in LiveTags(d, S) :
     \/ d.tags[t].key = Nameless
     \/ \E u \in LiveTags(d, {r}) \cup LiveTags(d, S) :
          d.tags[u].key = d.tags[t].key /\ (u \in LiveTags(d, S) => MergeBefore(d, u, t))}

LEMMA MergeTwin ==
  ASSUME NEW d, RowsOK(d), Fits(d), NEW r, NEW S, r \notin S, NEW t \in MergeDrop(d, r, S),
         d.tags[t].key # Nameless
  PROVE  \E u \in (LiveTags(d, {r}) \cup LiveTags(d, S)) \ MergeDrop(d, r, S) :
           d.tags[u].key = d.tags[t].key
<1> DEFINE C == {u \in LiveTags(d, {r}) \cup LiveTags(d, S) : d.tags[u].key = d.tags[t].key}
<1>1. t \in C
  BY DEF MergeDrop
<1>2. CASE \E u \in C : u \notin LiveTags(d, S)
  BY <1>2 DEF MergeDrop
<1>3. CASE C \subseteq LiveTags(d, S)
  <2>1. \A u \in C : u \in 0..TagMax /\ d.tags[u].rec \in 0..RecMax
    <3>1. C \subseteq DOMAIN d.tags
      BY DEF LiveTags, TagsOf
    <3> HIDE DEF C
    <3>2. \A u \in C : d.tags[u].rec \in d.recs
      BY <3>1 DEF RowsOK, TagShape
    <3> QED
      BY <3>1, <3>2 DEF Fits
  <2>2. TagMax \in Nat /\ RecMax \in Nat
    BY StoreAssumption
  <2> DEFINE Q == {d.tags[u].rec : u \in C}
             q == Min(Q)
             B == {u \in C : d.tags[u].rec = q}
             w == Min(B)
  <2>3. Q # {} /\ Q \subseteq 0..RecMax
    <3> HIDE DEF C
    <3> QED
      BY <1>1, <2>1
  <2>4. q \in Q /\ \A k \in Q : q <= k
    <3> HIDE DEF Q
    <3> QED
      BY <2>2, <2>3, LeastIs
  <2> HIDE DEF C
  <2>5. B # {} /\ B \subseteq 0..TagMax
    <3> HIDE DEF q
    <3> QED
      BY <2>1, <2>4
  <2>6. w \in B /\ \A k \in B : w <= k
    <3> HIDE DEF B
    <3> QED
      BY <2>2, <2>5, LeastIs
  <2>7. w \in C /\ d.tags[w].rec = q /\ d.tags[w].key = d.tags[t].key
    BY <2>6 DEF C
  <2>8. w \notin MergeDrop(d, r, S)
    <3> SUFFICES ASSUME w \in MergeDrop(d, r, S) PROVE FALSE
      BY SMTT(60)
    <3>1. PICK v \in LiveTags(d, {r}) \cup LiveTags(d, S) :
            d.tags[v].key = d.tags[w].key /\ (v \in LiveTags(d, S) => MergeBefore(d, v, w))
      BY <2>7 DEF MergeDrop
    <3>2. v \in C
      BY <2>7, <3>1 DEF C
    <3>3. MergeBefore(d, v, w)
      BY <1>3, <3>1, <3>2
    <3>4. q <= d.tags[v].rec /\ d.tags[v].rec \in Nat /\ q \in Nat
      <4> HIDE DEF q
      <4> QED
        BY <2>1, <2>3, <2>4, <3>2
    <3>5. d.tags[v].rec = q /\ v < w
      <4> HIDE DEF q, w
      <4> QED
        BY <2>7, <3>3, <3>4 DEF MergeBefore
    <3>6. v \in B
      <4> HIDE DEF q
      <4> QED
        BY <3>2, <3>5
    <3>7. w <= v /\ w \in Nat /\ v \in Nat
      <4> HIDE DEF w, B
      <4>1. w \in 0..TagMax /\ v \in 0..TagMax
        BY <2>5, <2>6, <3>6
      <4>2. w <= v
        BY <2>6, <3>6, SMTT(60)
      <4> QED
        BY <2>2, <4>1, <4>2
    <3> HIDE DEF w
    <3> QED
      BY <3>5, <3>7
  <2> HIDE DEF w
  <2> QED
    BY <2>7, <2>8 DEF C
<1> QED
  BY <1>2, <1>3

Merges(d, r, S, e) ==
  LET drop == MergeDrop(d, r, S)
      Both == S \cup {r}
  IN /\ r \in e.recs \/ (TagsOf(d, Both) \subseteq drop /\ FilesOf(d, Both) = {})
     /\ d.recs \ Both \subseteq e.recs
     /\ DOMAIN e.files = DOMAIN d.files
     /\ \A f \in DOMAIN d.files :
          /\ e.files[f].hash = d.files[f].hash
          /\ e.files[f].rec = IF d.files[f].rec \in S THEN r ELSE d.files[f].rec
          /\ IF d.files[f].rec \in Both /\ TagsOf(d, Both) \subseteq drop
             THEN e.files[f].gone ELSE e.files[f].gone = d.files[f].gone
     /\ DOMAIN e.tags = DOMAIN d.tags \ drop
     /\ \A t \in DOMAIN e.tags :
          /\ e.tags[t].key = d.tags[t].key /\ e.tags[t].state = d.tags[t].state
          /\ e.tags[t].rec = IF d.tags[t].rec \in S THEN r ELSE d.tags[t].rec
          /\ (d.tags[t].rec \in Both /\ FilesOf(d, Both) = {}) \/ e.tags[t].gone = d.tags[t].gone
     /\ e.saved = ((d.saved \ Rescued(d, drop)) \cup {Heir(d, drop, t) : t \in Rescued(d, drop)}) \ drop

MergeAll(d, r, S) ==
  LET deduped == DedupTags(d, MergeDrop(d, r, S))
      moved == MoveFiles(MoveTags(deduped, TagsOf(deduped, S), r), FilesOf(d, S), r, TRUE)
  IN ReapOn([moved EXCEPT !.recs = @ \ S], {r})

LEMMA MergeIsOneOf ==
  ASSUME NEW d, NEW r, NEW S
  PROVE  \/ MergeRecordings(d, r, S) = d
         \/ r \notin S /\ r \in d.recs /\ MergeRecordings(d, r, S) = MergeAll(d, r, S)
BY DEF MergeRecordings, MergeAll, MergeDrop, MergeBefore

LEMMA MergeIs ==
  ASSUME NEW d, RowsOK(d), Fits(d), NEW r \in d.recs, NEW S, r \notin S
  PROVE  RowsOK(MergeAll(d, r, S)) /\ Merges(d, r, S, MergeAll(d, r, S))
<1> DEFINE drop == MergeDrop(d, r, S)
           Both == S \cup {r}
           m == DedupTags(d, drop)
           n == MoveTags(m, TagsOf(m, S), r)
           p == MoveFiles(n, FilesOf(d, S), r, TRUE)
           g == [p EXCEPT !.recs = @ \ S]
           e == ReapOn(g, {r})
<1>1. MergeAll(d, r, S) = e
  BY DEF MergeAll
<1>2. RowsOK(m) /\ Deduped(d, drop, m)
  BY DedupIs
<1> HIDE DEF m
<1>3. r \in m.recs
  BY <1>2 DEF Deduped
<1>4. RowsOK(n) /\ OnlyTags(m, n) /\ TagsMoved(m, TagsOf(m, S), r, n)
  BY <1>2, <1>3, MoveTagsIs
<1> HIDE DEF n
<1>5. r \in n.recs
  BY <1>3, <1>4 DEF OnlyTags
<1>6. RowsOK(p) /\ OnlyFiles(n, p) /\ FilesMoved(n, FilesOf(d, S), r, p)
  BY <1>4, <1>5, MoveFilesIs
<1> HIDE DEF p, drop
<1>7. /\ p.recs = d.recs /\ DOMAIN p.files = DOMAIN d.files
      /\ DOMAIN p.tags = DOMAIN d.tags \ drop
      /\ p.saved = ((d.saved \ Rescued(d, drop)) \cup {Heir(d, drop, t) : t \in Rescued(d, drop)}) \ drop
  BY <1>2, <1>4, <1>6 DEF Deduped, OnlyTags, OnlyFiles
<1>8. \A f \in DOMAIN d.files :
        /\ p.files[f].hash = d.files[f].hash /\ p.files[f].gone = d.files[f].gone
        /\ p.files[f].rec = IF d.files[f].rec \in S THEN r ELSE d.files[f].rec
  BY <1>2, <1>4, <1>6 DEF Deduped, OnlyTags, FilesMoved, FilesOf
<1>9. \A t \in DOMAIN p.tags :
        /\ p.tags[t].key = d.tags[t].key /\ p.tags[t].state = d.tags[t].state
        /\ p.tags[t].gone = d.tags[t].gone
        /\ p.tags[t].rec = IF d.tags[t].rec \in S THEN r ELSE d.tags[t].rec
  BY <1>2, <1>4, <1>6, <1>7 DEF Deduped, OnlyFiles, TagsMoved, TagsOf
<1>10. FilesOf(p, S) = {} /\ TagsOf(p, S) = {}
  BY <1>7, <1>8, <1>9 DEF FilesOf, TagsOf
<1>11. RowsOK(g) /\ g.recs = d.recs \ S /\ g.files = p.files /\ g.tags = p.tags /\ g.saved = p.saved
  BY <1>6, <1>7, <1>10, RecsDropped
<1> HIDE DEF g
<1>12. RowsOK(e) /\ Reaped(g, {r}, e)
  BY <1>11, ReapIs
<1> HIDE DEF e
<1>13. Bare(g, {r}) = IF TagsOf(d, Both) \subseteq drop THEN {r} ELSE {}
  <2>1. TagsOf(g, {r}) = TagsOf(d, Both) \ drop
    BY <1>7, <1>9, <1>11 DEF TagsOf
  <2> QED
    BY <2>1 DEF Bare
<1>14. Silent(g, {r}) = IF FilesOf(d, Both) = {} THEN {r} ELSE {}
  <2>1. FilesOf(g, {r}) = FilesOf(d, Both)
    BY <1>7, <1>8, <1>11 DEF FilesOf
  <2> QED
    BY <2>1 DEF Silent
<1>15. /\ r \in e.recs \/ (TagsOf(d, Both) \subseteq drop /\ FilesOf(d, Both) = {})
       /\ d.recs \ Both \subseteq e.recs
  <2>1. e.recs = g.recs \ (Bare(g, {r}) \cap Silent(g, {r}))
    BY <1>12 DEF Reaped
  <2> HIDE DEF Both
  <2>2. Both = S \cup {r}
    BY DEF Both
  <2> QED
    BY <1>11, <1>13, <1>14, <2>1, <2>2
<1>16. ASSUME NEW f \in DOMAIN d.files
       PROVE  /\ e.files[f].hash = d.files[f].hash
              /\ e.files[f].rec = IF d.files[f].rec \in S THEN r ELSE d.files[f].rec
              /\ IF d.files[f].rec \in Both /\ TagsOf(d, Both) \subseteq drop
                 THEN e.files[f].gone ELSE e.files[f].gone = d.files[f].gone
  <2>1. /\ e.files[f].hash = g.files[f].hash /\ e.files[f].rec = g.files[f].rec
        /\ e.files[f].gone = IF f \in FilesOf(g, Bare(g, {r})) THEN TRUE ELSE g.files[f].gone
    BY <1>7, <1>11, <1>12 DEF Reaped, FilesMarked
  <2>2. f \in FilesOf(g, Bare(g, {r})) <=> d.files[f].rec \in Both /\ TagsOf(d, Both) \subseteq drop
    BY <1>7, <1>8, <1>11, <1>13 DEF FilesOf
  <2> QED
    BY <1>8, <1>11, <2>1, <2>2
<1>17. ASSUME NEW t \in DOMAIN e.tags
       PROVE  /\ e.tags[t].key = d.tags[t].key /\ e.tags[t].state = d.tags[t].state
              /\ e.tags[t].rec = IF d.tags[t].rec \in S THEN r ELSE d.tags[t].rec
              /\ (d.tags[t].rec \in Both /\ FilesOf(d, Both) = {}) \/ e.tags[t].gone = d.tags[t].gone
  <2>1. t \in DOMAIN g.tags
    BY <1>12 DEF Reaped
  <2>2. /\ e.tags[t].key = g.tags[t].key /\ e.tags[t].rec = g.tags[t].rec
        /\ e.tags[t].state = g.tags[t].state
        /\ e.tags[t].gone = IF t \in TagsOf(g, Silent(g, {r})) THEN TRUE ELSE g.tags[t].gone
    BY <1>12, <2>1 DEF Reaped, TagsMarked
  <2>3. t \in TagsOf(g, Silent(g, {r})) => d.tags[t].rec \in Both /\ FilesOf(d, Both) = {}
    BY <1>9, <1>11, <1>14, <2>1 DEF TagsOf
  <2> QED
    BY <1>9, <1>11, <2>1, <2>2, <2>3
<1>18. DOMAIN e.files = DOMAIN d.files /\ DOMAIN e.tags = DOMAIN d.tags \ drop /\ e.saved = p.saved
  BY <1>7, <1>11, <1>12 DEF Reaped
<1>19. Merges(d, r, S, e)
  BY <1>7, <1>15, <1>16, <1>17, <1>18 DEF Merges, drop
<1> QED
  BY <1>1, <1>12, <1>19

LEMMA MergeSpares ==
  ASSUME NEW d, RowsOK(d), NEW r, NEW S, r \notin S, NEW e, Merges(d, r, S, e)
  PROVE  HashesOf(d) \subseteq HashesOf(e) /\ PendingOf(d) \subseteq DOMAIN e.tags /\ NamesKept(d, e)
<1>1. HashesOf(d) \subseteq HashesOf(e)
  BY DEF HashesOf, Merges
<1>2. MergeDrop(d, r, S) \subseteq LiveTags(d, S)
  BY DEF MergeDrop
<1>3. PendingOf(d) \subseteq DOMAIN e.tags
  BY <1>2 DEF PendingOf, Merges, LiveTags
<1>4. ASSUME NEW f \in DOMAIN d.files, TagsOf(d, {d.files[f].rec}) # {}, f \in LiveFiles(e, e.recs)
      PROVE  TagsOf(e, {e.files[f].rec}) # {}
  <2>1. ~e.files[f].gone
    BY <1>4 DEF LiveFiles, Live
  <2>2. CASE d.files[f].rec \in S \cup {r}
    <3>1. ~(TagsOf(d, S \cup {r}) \subseteq MergeDrop(d, r, S))
      BY <2>1, <2>2 DEF Merges
    <3>2. PICK t \in TagsOf(d, S \cup {r}) : t \notin MergeDrop(d, r, S)
      BY <3>1
    <3>3. t \in DOMAIN e.tags /\ e.tags[t].rec = r
      BY <3>2 DEF Merges, TagsOf
    <3>4. e.files[f].rec = r
      BY <2>2 DEF Merges
    <3> QED
      BY <3>3, <3>4 DEF TagsOf
  <2>3. CASE d.files[f].rec \notin S \cup {r}
    <3>1. PICK t \in DOMAIN d.tags : d.tags[t].rec = d.files[f].rec
      BY <1>4 DEF TagsOf
    <3>2. t \notin MergeDrop(d, r, S)
      BY <1>2, <2>3, <3>1 DEF LiveTags, TagsOf
    <3>3. t \in DOMAIN e.tags /\ e.tags[t].rec = d.files[f].rec
      BY <2>3, <3>1, <3>2 DEF Merges
    <3>4. e.files[f].rec = d.files[f].rec
      BY <2>3 DEF Merges
    <3> QED
      BY <3>3, <3>4 DEF TagsOf
  <2> QED
    BY <2>2, <2>3
<1> QED
  BY <1>1, <1>3, <1>4 DEF NamesKept

LEMMA MergeSaves ==
  ASSUME NEW d, RowsOK(d), Fits(d), NEW r, NEW S, NEW e, Merges(d, r, S, e), SavedNamed(d)
  PROVE  SavedNamed(e)
<1> DEFINE T == MergeDrop(d, r, S)
<1>1. \A t \in Rescued(d, T) : Heir(d, T, t) \in OthersOf(d, T, t)
  BY HeirIs DEF Rescued
<1>2. \A t \in Rescued(d, T) : d.tags[Heir(d, T, t)].key # Nameless
  <2> SUFFICES ASSUME NEW t \in Rescued(d, T), NEW s \in OthersOf(d, T, t)
               PROVE  d.tags[s].key # Nameless
    BY <1>1
  <2>1. d.tags[t].rec \in S
    BY DEF Rescued, MergeDrop, LiveTags, TagsOf
  <2>2. s \in LiveTags(d, S) /\ s \notin T
    BY <2>1 DEF OthersOf, LiveTags, TagsOf
  <2> QED
    BY <2>2 DEF MergeDrop
<1>3. /\ e.saved = ((d.saved \ Rescued(d, T)) \cup {Heir(d, T, t) : t \in Rescued(d, T)}) \ T
      /\ DOMAIN e.tags = DOMAIN d.tags \ T /\ \A t \in DOMAIN e.tags : e.tags[t].key = d.tags[t].key
  BY DEF Merges
<1>4. d.saved \subseteq DOMAIN d.tags
  BY DEF RowsOK
<1>5. \A t \in Rescued(d, T) : Heir(d, T, t) \in DOMAIN d.tags
  BY <1>1 DEF OthersOf, LiveTags, TagsOf
<1> HIDE DEF T
<1> SUFFICES ASSUME NEW x \in e.saved PROVE e.tags[x].key # Nameless
  BY DEF SavedNamed
<1>6. CASE x \in d.saved /\ x \notin T
  BY <1>3, <1>4, <1>6 DEF SavedNamed
<1>7. CASE x \notin T /\ \E t \in Rescued(d, T) : x = Heir(d, T, t)
  BY <1>2, <1>3, <1>5, <1>7
<1> QED
  BY <1>3, <1>6, <1>7

LEMMA MergeShows ==
  ASSUME NEW d, RowsOK(d), Fits(d), NEW r \in d.recs, NEW S, r \notin S, NEW e, Merges(d, r, S, e)
  PROVE  Shown(d) \subseteq Shown(e)
<1> DEFINE T == MergeDrop(d, r, S)
<1> SUFFICES ASSUME NEW t \in Visible(d), d.tags[t].key # Nameless
             PROVE  \E u \in Visible(e) : e.tags[u].key = d.tags[t].key
  <2>1. \A k \in Shown(d) : \E t \in Visible(d) : d.tags[t].key = k /\ k # Nameless
    BY DEF Shown
  <2> QED
    BY <2>1 DEF Shown
<1> DEFINE q == d.tags[t].rec
<1>1. t \in DOMAIN d.tags /\ q \in d.recs /\ ~d.tags[t].gone /\ d.tags[t].state = "approved"
  BY DEF Visible, LiveTags, TagsOf, Live
<1>2. PICK g \in DOMAIN d.files : d.files[g].rec = q /\ ~d.files[g].gone
  BY DEF Visible, LiveFiles, FilesOf, Live
<1>3. T \subseteq LiveTags(d, S)
  BY DEF MergeDrop
<1>4. ASSUME NEW u \in DOMAIN e.tags, NEW s, e.tags[u].rec = s, e.tags[u].key = d.tags[t].key,
             e.tags[u].state = "approved", ~e.tags[u].gone, s \in e.recs,
             g \in DOMAIN e.files, e.files[g].rec = s, ~e.files[g].gone
      PROVE  \E v \in Visible(e) : e.tags[v].key = d.tags[t].key
  <2>1. u \in LiveTags(e, e.recs)
    BY <1>4 DEF LiveTags, TagsOf, Live
  <2>2. g \in LiveFiles(e, {e.tags[u].rec})
    BY <1>4 DEF LiveFiles, FilesOf, Live
  <2>3. u \in Visible(e)
    BY <2>1, <2>2 DEF Visible
  <2> QED
    BY <1>4, <2>3
<1> HIDE DEF q, T
<1>5. CASE q \notin S \cup {r}
  <2>1. t \notin T
    BY <1>3, <1>5 DEF q, LiveTags, TagsOf
  <2>2. /\ t \in DOMAIN e.tags /\ e.tags[t].rec = q /\ e.tags[t].key = d.tags[t].key
        /\ e.tags[t].state = "approved" /\ ~e.tags[t].gone
    BY <1>1, <1>5, <2>1 DEF Merges, T, q
  <2>3. g \in DOMAIN e.files /\ e.files[g].rec = q /\ ~e.files[g].gone
    BY <1>2, <1>5 DEF Merges
  <2>4. q \in e.recs
    BY <1>1, <1>5 DEF Merges
  <2> QED
    BY <1>4, <2>2, <2>3, <2>4
<1>6. CASE q \in S \cup {r}
  <2>1. PICK u \in (LiveTags(d, {r}) \cup LiveTags(d, S)) \ T : d.tags[u].key = d.tags[t].key
    <3>1. t \in LiveTags(d, {r}) \cup LiveTags(d, S)
      BY <1>1, <1>6 DEF q, LiveTags, TagsOf, Live
    <3> QED
      BY <3>1, MergeTwin DEF T
  <2>2. /\ u \in DOMAIN d.tags /\ d.tags[u].rec \in S \cup {r} /\ ~d.tags[u].gone
        /\ d.tags[u].state = "approved" /\ u \notin T
    BY <2>1 DEF LiveTags, TagsOf, Live
  <2>3. FilesOf(d, S \cup {r}) # {} /\ ~(TagsOf(d, S \cup {r}) \subseteq T)
    BY <1>2, <1>6, <2>2 DEF FilesOf, TagsOf
  <2>4. /\ u \in DOMAIN e.tags /\ e.tags[u].rec = r /\ e.tags[u].key = d.tags[t].key
        /\ e.tags[u].state = "approved" /\ ~e.tags[u].gone
    BY <2>1, <2>2, <2>3 DEF Merges, T
  <2>5. g \in DOMAIN e.files /\ e.files[g].rec = r /\ ~e.files[g].gone
    BY <1>2, <1>6, <2>3 DEF Merges, T
  <2>6. r \in e.recs
    BY <2>3 DEF Merges, T
  <2> QED
    BY <1>4, <2>4, <2>5, <2>6
<1> QED
  BY <1>5, <1>6

LEMMA MergeEnds ==
  ASSUME NEW d, RowsOK(d), Fits(d), SavedNamed(d), NEW r, NEW S, NEW e, e = MergeRecordings(d, r, S)
  PROVE  /\ RowsOK(e) /\ SavedNamed(e) /\ HashesOf(d) \subseteq HashesOf(e)
         /\ PendingOf(d) \subseteq DOMAIN e.tags /\ NamesKept(d, e) /\ Shown(d) \subseteq Shown(e)
<1>1. CASE e = d
  BY <1>1 DEF PendingOf, NamesKept
<1>2. CASE r \notin S /\ r \in d.recs /\ e = MergeAll(d, r, S)
  BY <1>2, MergeIs, MergeSpares, MergeSaves, MergeShows
<1> QED
  BY <1>1, <1>2, MergeIsOneOf

(* A move and a new appearance.                                            *)
LEMMA SoundNames ==
  ASSUME NEW d, RowsOK(d), NEW e, Sound(d, e)
  PROVE  /\ HashesOf(d) \subseteq HashesOf(e) /\ PendingOf(d) \subseteq DOMAIN e.tags
         /\ (SavedNamed(d) => SavedNamed(e))
<1>1. HashesOf(d) \subseteq HashesOf(e)
  BY KeepsHashes DEF Sound
<1>2. PendingOf(d) \subseteq DOMAIN e.tags
  BY DEF Sound, Keeps, PendingOf
<1>3. SavedNamed(d) => SavedNamed(e)
  BY DEF Sound, Keeps, SavedNamed, RowsOK
<1> QED
  BY <1>1, <1>2, <1>3

LEMMA MoveNames ==
  ASSUME NEW d, RowsOK(d), NEW t \in DOMAIN d.tags, NEW r \in d.recs
  PROVE  NamesKept(d, MoveTagset(d, t, r))
<1> DEFINE src == d.tags[t].rec
           m == MoveTags(d, {t}, r)
           e == ReapOn(m, {src})
<1>1. MoveTagset(d, t, r) = d \/ MoveTagset(d, t, r) = e
  BY DEF MoveTagset
<1>2. RowsOK(m) /\ OnlyTags(d, m) /\ TagsMoved(d, {t}, r, m)
  BY MoveTagsIs
<1> HIDE DEF m
<1>3. Reaped(m, {src}, e)
  BY <1>2, ReapIs
<1> HIDE DEF e
<1>4. ASSUME NEW f \in DOMAIN d.files, TagsOf(d, {d.files[f].rec}) # {}, f \in LiveFiles(e, e.recs)
      PROVE  TagsOf(e, {e.files[f].rec}) # {}
  <2> DEFINE q == d.files[f].rec
  <2>1. /\ f \in DOMAIN m.files /\ m.files[f].rec = q /\ e.files[f].rec = q
        /\ ~(f \in FilesOf(m, Bare(m, {src})))
    BY <1>2, <1>3, <1>4 DEF OnlyTags, Reaped, FilesMarked, LiveFiles, Live
  <2> HIDE DEF q
  <2>2. TagsOf(m, {q}) # {}
    <3>1. CASE q = src
      BY <2>1, <3>1 DEF FilesOf, Bare
    <3>2. CASE q # src
      <4>1. PICK u \in DOMAIN d.tags : d.tags[u].rec = q
        BY <1>4 DEF TagsOf, q
      <4>2. u \in DOMAIN m.tags /\ m.tags[u].rec = q
        BY <1>2, <3>2, <4>1 DEF OnlyTags, TagsMoved
      <4> QED
        BY <4>2 DEF TagsOf
    <3> QED
      BY <3>1, <3>2
  <2>3. TagsOf(e, {q}) = TagsOf(m, {q})
    BY <1>3 DEF Reaped, TagsMarked, TagsOf
  <2> QED
    BY <2>1, <2>2, <2>3
<1>5. NamesKept(d, d)
  BY DEF NamesKept
<1> QED
  BY <1>1, <1>4, <1>5 DEF NamesKept

LEMMA AddNames ==
  ASSUME NEW d, RowsOK(d), Fits(d), NEW r \in d.recs, NEW k \in Keys
  PROVE  NamesKept(d, CreateAppearance(d, r, k))
<1> DEFINE entry == [rec |-> r, key |-> k, state |-> "approved", gone |-> FALSE, origin |-> NoFile]
           e == AddTag(d, entry)
<1>1. CreateAppearance(d, r, k) = d \/ CreateAppearance(d, r, k) = e
  BY DEF CreateAppearance
<1>2. entry \in TagShape(d)
  BY DEF TagShape, States
<1> HIDE DEF entry
<1>3. e.files = d.files /\ DOMAIN d.tags \subseteq DOMAIN e.tags /\ \A t \in DOMAIN d.tags : e.tags[t] = d.tags[t]
  BY <1>2, AddTagIs, FreshIds
<1> HIDE DEF e
<1>4. NamesKept(d, d) /\ NamesKept(d, e)
  BY <1>3 DEF NamesKept, TagsOf
<1> QED
  BY <1>1, <1>4

(* A split leaves alone what has an appearance of its own.                 *)
OwnTag(d, r) == \E t \in TagsOf(d, {r}) : d.tags[t].origin \in FilesOf(d, {r}) \cup {NoFile}
OwnNamesKept(d, e) ==
  \A f \in DOMAIN d.files :
    OwnTag(d, d.files[f].rec) /\ f \in LiveFiles(e, e.recs) => TagsOf(e, {e.files[f].rec}) # {}

LEMMA SplitNames ==
  ASSUME NEW d, RowsOK(d), Fits(d), NEW f \in DOMAIN d.files
  PROVE  OwnNamesKept(d, SplitRendition(d, f))
<1> DEFINE old == d.files[f].rec
           r == NextId(d.recs)
           mine == {t \in DOMAIN d.tags : d.tags[t].origin = f}
           m == SplitOff(d, f)
           e == ReapOn(m, {old})
<1>1. SplitRendition(d, f) = d \/ SplitRendition(d, f) = e
  BY SplitIsOneOf
<1>2. Sound(d, m) /\ SplitsOff(d, f, m)
  BY SplitOffIs
<1>3. /\ DOMAIN m.files = DOMAIN d.files
      /\ FilesMoved(d, {f}, r, m) /\ TagsMoved(d, mine, r, m)
      /\ TagsOf(m, {old}) # {} => TagsOf(m, {r}) # {}
  BY <1>2 DEF SplitsOff
<1>4. DOMAIN d.tags \subseteq DOMAIN m.tags
  BY <1>2 DEF Sound, Keeps
<1>5. f # NoFile /\ old \in d.recs
  BY DEF Fits, NoFile, RowsOK, FileShape
<1>6. \A t \in mine : t \in DOMAIN d.tags /\ d.tags[t].origin = f
  OBVIOUS
<1>7. \A t \in DOMAIN d.tags : d.tags[t].origin = f => t \in mine
  OBVIOUS
<1> HIDE DEF m
<1>8. Reaped(m, {old}, e)
  BY <1>2, ReapIs DEF Sound
<1> HIDE DEF e, r, mine
<1>9. ASSUME NEW g \in DOMAIN d.files, OwnTag(d, d.files[g].rec), g \in LiveFiles(e, e.recs)
      PROVE  TagsOf(e, {e.files[g].rec}) # {}
  <2> DEFINE q == m.files[g].rec
  <2>1. /\ g \in DOMAIN m.files /\ e.files[g].rec = q /\ ~(g \in FilesOf(m, Bare(m, {old})))
    BY <1>3, <1>8, <1>9 DEF Reaped, FilesMarked, LiveFiles, Live
  <2>2. PICK t \in DOMAIN d.tags : /\ d.tags[t].rec = d.files[g].rec
                                   /\ d.tags[t].origin \in FilesOf(d, {d.files[g].rec}) \cup {NoFile}
    BY <1>9 DEF OwnTag, TagsOf
  <2>3. TagsOf(m, {q}) # {}
    <3>1. CASE g = f
      <4>1. q = r
        BY <1>3, <3>1 DEF FilesMoved
      <4>2. t \in mine => TagsOf(m, {r}) # {}
        BY <1>3, <1>4 DEF TagsMoved, TagsOf
      <4>3. t \notin mine => TagsOf(m, {old}) # {}
        BY <1>3, <1>4, <2>2, <3>1 DEF TagsMoved, TagsOf
      <4> QED
        BY <1>3, <4>1, <4>2, <4>3
    <3>2. CASE g # f /\ d.files[g].rec = old
      <4>1. q = old
        BY <1>3, <3>2 DEF FilesMoved
      <4> QED
        BY <2>1, <4>1 DEF FilesOf, Bare
    <3>3. CASE g # f /\ d.files[g].rec # old
      <4>1. q = d.files[g].rec
        BY <1>3, <3>3 DEF FilesMoved
      <4>2. d.tags[t].origin # f
        BY <1>5, <2>2, <3>3 DEF FilesOf
      <4>3. m.tags[t].rec = d.tags[t].rec
        BY <1>3, <1>6, <4>2 DEF TagsMoved
      <4> QED
        BY <1>4, <2>2, <4>1, <4>3 DEF TagsOf
    <3> QED
      BY <3>1, <3>2, <3>3
  <2> HIDE DEF q
  <2>4. TagsOf(e, {q}) = TagsOf(m, {q})
    BY <1>8 DEF Reaped, TagsMarked, TagsOf
  <2> QED
    BY <2>1, <2>3, <2>4
<1>10. OwnNamesKept(d, d)
  BY DEF OwnNamesKept, OwnTag
<1> QED
  BY <1>1, <1>9, <1>10 DEF OwnNamesKept

(* Restoring recordings wakes one rendition of each.                       *)
LEMMA RestorePlays ==
  ASSUME NEW d, RowsOK(d), Fits(d), NEW R, NEW u \in DOMAIN d.tags,
         d.tags[u].state = "approved", d.tags[u].gone,
         ~BulkRestoreRecordings(d, R).tags[u].gone, FilesOf(d, {d.tags[u].rec}) # {}
  PROVE  u \in TagsOf(BulkRestoreRecordings(d, R), {d.tags[u].rec})
                 \cap Visible(BulkRestoreRecordings(d, R))
<1> DEFINE dormant == {r \in R : FilesOf(d, {r}) # {} /\ LiveFiles(d, {r}) = {}}
           F == {Best(d, FilesOf(d, {r})) : r \in dormant}
           m == EditTags(d, TagsOf(d, R), RestoreRow)
           e == EditFiles(m, F, RestoreRow)
           q == d.tags[u].rec
<1>1. BulkRestoreRecordings(d, R) = e
  BY DEF BulkRestoreRecordings, BulkRestoreTagsets
<1>2. RowsOK(m) /\ OnlyTags(d, m) /\ TagsMarked(d, TagsOf(d, R), FALSE, m)
  BY RestoreTagsIs
<1> HIDE DEF m
<1>3. RowsOK(e) /\ OnlyFiles(m, e) /\ FilesMarked(m, F, FALSE, e)
  BY <1>2, RestoreFilesIs
<1> HIDE DEF e
<1>4. /\ DOMAIN e.tags = DOMAIN d.tags /\ DOMAIN e.files = DOMAIN d.files /\ e.recs = d.recs
      /\ e.tags[u].rec = q /\ e.tags[u].state = "approved" /\ ~e.tags[u].gone
  BY <1>1, <1>2, <1>3 DEF OnlyTags, OnlyFiles, TagsMarked
<1>5. q \in R /\ q \in d.recs
  <2>1. u \in TagsOf(d, R)
    BY <1>1, <1>2, <1>3 DEF OnlyFiles, TagsMarked
  <2> QED
    BY <2>1 DEF TagsOf, RowsOK, TagShape
<1>6. \A f \in DOMAIN d.files : /\ e.files[f].rec = d.files[f].rec
                                /\ (f \in F \/ ~d.files[f].gone) => ~e.files[f].gone
  <2> HIDE DEF F
  <2> QED
    BY <1>2, <1>3 DEF OnlyTags, FilesMarked
<1>7. \E g \in DOMAIN d.files : d.files[g].rec = q /\ ~e.files[g].gone
  <2>1. CASE LiveFiles(d, {q}) = {}
    <3> DEFINE g == Best(d, FilesOf(d, {q}))
    <3>1. g \in FilesOf(d, {q})
      <4>1. FilesOf(d, {q}) \subseteq DOMAIN d.files
        BY DEF FilesOf
      <4> QED
        BY <4>1, BestIs
    <3>2. g \in F
      BY <1>5, <2>1
    <3> HIDE DEF g, F
    <3>3. g \in DOMAIN d.files /\ d.files[g].rec = q
      BY <3>1 DEF FilesOf
    <3> QED
      BY <1>6, <3>2, <3>3
  <2>2. CASE LiveFiles(d, {q}) # {}
    <3>1. PICK g \in DOMAIN d.files : d.files[g].rec = q /\ ~d.files[g].gone
      BY <2>2 DEF LiveFiles, FilesOf, Live
    <3> HIDE DEF F
    <3> QED
      BY <1>6, <3>1
  <2> QED
    BY <2>1, <2>2
<1> HIDE DEF q, F
<1>8. LiveFiles(e, {q}) # {}
  BY <1>4, <1>6, <1>7 DEF LiveFiles, FilesOf, Live
<1>9. u \in LiveTags(e, e.recs)
  BY <1>4, <1>5 DEF LiveTags, TagsOf, Live
<1>10. u \in TagsOf(e, {q}) /\ u \in Visible(e)
  BY <1>4, <1>8, <1>9 DEF TagsOf, Visible
<1> QED
  BY <1>1, <1>10 DEF q

(***************************************************************************)
(* The inductive invariant.  The rows are well-formed and within the       *)
(* bounds; each process under way carries a hash and a key that exist; and *)
(* the bytes without a row are to be reclaimed, or their upload is about   *)
(* to insert the row, or their prune run about to remove them.             *)
(***************************************************************************)
Uploading == [via : {"upload", "download", "request"}, hash : Hashes, key : Keys,
              pc : {"put", "insert", "restore", "stage", "attach"}, file : Nat]
UploadOK == up = Idle \/ up.pc = "approve" \/ up \in Uploading
PruneOK == \/ pr = Idle
           \/ pr \in [pc : {"check"}, todo : SUBSET Hashes]
           \/ pr \in [pc : {"delete", "sweep"}, todo : SUBSET Hashes, hash : Hashes]
Inserting == IF up.pc = "insert" THEN {up.hash} ELSE {}
Pruning == IF pr.pc \in {"delete", "sweep"} THEN {pr.hash} ELSE {}

RowsInv == RowsOK(db) /\ Fits(db) /\ SavedNamed(db)
BytesInv == /\ disk \subseteq Hashes /\ reclaim \subseteq Hashes
            /\ disk \subseteq HashesOf(db) \cup reclaim \cup Inserting \cup Pruning
LibraryInv == RowsInv /\ UploadOK /\ PruneOK /\ BytesInv

(* A request whose transaction loses no hash.                              *)
Harmless == /\ RowsOK(db') /\ SavedNamed(db') /\ Fits(db') /\ HashesOf(db) \subseteq HashesOf(db')
            /\ UNCHANGED <<disk, reclaim, up, pr>>

LEMMA HarmlessKeeps ==
  ASSUME LibraryInv, Harmless
  PROVE  LibraryInv'
<1>1. RowsInv'
  BY DEF Harmless, RowsInv
<1>2. UploadOK' /\ PruneOK'
  BY DEF Harmless, LibraryInv, UploadOK, PruneOK, Idle
<1>3. BytesInv'
  BY DEF Harmless, LibraryInv, BytesInv, Inserting, Pruning
<1> QED
  BY <1>1, <1>2, <1>3 DEF LibraryInv

LEMMA SoundRequest ==
  ASSUME LibraryInv, NEW d, Request(d), Sound(db, d)
  PROVE  Harmless
BY SoundNames DEF LibraryInv, RowsInv, Request, Harmless, Sound

LEMMA ReviewStep ==
  ASSUME LibraryInv, Review
  PROVE  Harmless
<1>1. RowsOK(db)
  BY DEF LibraryInv, RowsInv
<1>2. \A T, from : \A s \in States : Sound(db, BulkUpdateReviewState(db, T, from, s))
  BY <1>1, SoundEdits
<1>3. {"approved", "returned", "submitted"} \subseteq States
  BY DEF States
<1>4. CASE SubmitMyUploads
  BY <1>2, <1>3, <1>4, SoundRequest DEF SubmitMyUploads
<1>5. CASE MyUploadDiscard
  BY <1>1, <1>5, SoundMarks, SoundRequest DEF MyUploadDiscard, DiscardOwnUpload
<1>6. CASE MyUploadsBulk
  BY <1>1, <1>6, SoundMarks, SoundRequest DEF MyUploadsBulk
<1>7. CASE ModerationBulk
  BY <1>2, <1>3, <1>7, SoundRequest DEF ModerationBulk
<1>8. CASE ModerationReturn
  BY <1>2, <1>3, <1>8, SoundRequest DEF ModerationReturn, UpdateReviewState
<1>9. CASE ModerationApprove
  BY <1>1, <1>9, ApproveIs, SoundRequest DEF ModerationApprove
<1> QED
  BY <1>4, <1>5, <1>6, <1>7, <1>8, <1>9 DEF Review

LEMMA TrashStep ==
  ASSUME LibraryInv, Trash
  PROVE  Harmless
<1>1. RowsOK(db)
  BY DEF LibraryInv, RowsInv
<1>2. CASE ModerationDiscard
  BY <1>1, <1>2, SoundMarks, SoundRequest DEF ModerationDiscard
<1>3. CASE AppearancesBulk
  BY <1>1, <1>3, SoundMarks, SoundRequest DEF AppearancesBulk
<1>4. CASE RenditionRemove
  BY <1>1, <1>4, SoundMarks, SoundRequest DEF RenditionRemove
<1>5. CASE RecordingsTrash
  BY <1>1, <1>5, SoundMarks, SoundRequest DEF RecordingsTrash, TrashRecording
<1>6. CASE RecordingsTrashBulk
  BY <1>1, <1>6, SoundMarks, SoundRequest DEF RecordingsTrashBulk
<1> QED
  BY <1>2, <1>3, <1>4, <1>5, <1>6 DEF Trash

LEMMA RestoreStep ==
  ASSUME LibraryInv, Restore
  PROVE  Harmless
<1>1. RowsOK(db)
  BY DEF LibraryInv, RowsInv
<1>2. CASE TagsetRestore
  BY <1>1, <1>2, SoundMarks, SoundRequest DEF TagsetRestore, RestoreTagset
<1>3. CASE RestoreTagsets
  BY <1>1, <1>3, SoundMarks, SoundRequest DEF RestoreTagsets
<1>4. CASE RenditionRestore
  BY <1>1, <1>4, SoundMarks, SoundRequest DEF RenditionRestore, RestoreRendition
<1>5. CASE RestoreFiles
  BY <1>1, <1>5, SoundMarks, SoundRequest DEF RestoreFiles
<1>6. CASE RestoreFromBin
  BY <1>1, <1>6, SoundMarks, SoundRequest DEF RestoreFromBin, RecordingsRestore, RestoreRecordings, RestoreRecording
<1> QED
  BY <1>2, <1>3, <1>4, <1>5, <1>6 DEF Restore

LEMMA RestorePlaysStep ==
  ASSUME LibraryInv, RestoreFromBin, NEW r \in Republished, FilesOf(db, {r}) # {}
  PROVE  TagsOf(db', {r}) \cap Visible(db') # {}
<1>1. PICK R : db' = BulkRestoreRecordings(db, R)
  BY DEF RestoreFromBin, RecordingsRestore, RestoreRecordings, RestoreRecording, Request
<1>2. PICK u \in DOMAIN db.tags : /\ r = db.tags[u].rec /\ db.tags[u].state = "approved"
                                  /\ db.tags[u].gone /\ ~db'.tags[u].gone
  BY DEF Republished, Pending, Tags, Live
<1>3. RowsOK(db) /\ Fits(db)
  BY DEF LibraryInv, RowsInv
<1>4. u \in TagsOf(BulkRestoreRecordings(db, R), {db.tags[u].rec}) \cap Visible(BulkRestoreRecordings(db, R))
  BY <1>1, <1>2, <1>3, RestorePlays
<1> QED
  BY <1>1, <1>2, <1>4

LEMMA MergeStep ==
  ASSUME LibraryInv, RecordingsMerge
  PROVE  /\ Harmless /\ PendingOf(db) \subseteq DOMAIN db'.tags /\ NamesKept(db, db')
         /\ Shown(db) \subseteq Shown(db')
<1>1. PICK r, S : Request(MergeRecordings(db, r, S))
  BY DEF RecordingsMerge
<1>2. RowsOK(db) /\ Fits(db) /\ SavedNamed(db)
  BY DEF LibraryInv, RowsInv
<1>3. /\ RowsOK(db') /\ SavedNamed(db') /\ HashesOf(db) \subseteq HashesOf(db')
      /\ PendingOf(db) \subseteq DOMAIN db'.tags /\ NamesKept(db, db') /\ Shown(db) \subseteq Shown(db')
  BY <1>1, <1>2, MergeEnds DEF Request
<1>4. Harmless
  BY <1>1, <1>3 DEF Request, Harmless
<1> QED
  BY <1>3, <1>4

LEMMA AbsorbStep ==
  ASSUME LibraryInv, Absorb
  PROVE  /\ Harmless /\ PendingOf(db) \subseteq DOMAIN db'.tags /\ NamesKept(db, db')
         /\ Shown(db) \subseteq Shown(db') /\ (db.saved # {} => db'.saved # {})
<1>1. RowsOK(db) /\ Fits(db) /\ SavedNamed(db)
  BY DEF LibraryInv, RowsInv
<1>2. \E d : Request(d) /\ AbsorbsInto(db, d)
  <2>1. CASE DuplicatesAbsorb
    <3>1. PICK keep \in Files : \E A \in Batch(Files \ {keep}) :
            Request(AbsorbRenditions(db, db.files[keep].rec, keep, A))
      BY <2>1 DEF DuplicatesAbsorb
    <3>2. PICK A \in Batch(Files \ {keep}) : Request(AbsorbRenditions(db, db.files[keep].rec, keep, A))
      BY <3>1
    <3>3. A \in SUBSET DOMAIN db.files
      BY DEF Batch, Files
    <3> QED
      BY <1>1, <3>2, <3>3, AbsorbsAre
  <2>2. CASE DuplicatesBulkAbsorb
    BY <1>1, <2>2, AbsorbsAre DEF DuplicatesBulkAbsorb
  <2> QED
    BY <2>1, <2>2 DEF Absorb
<1>3. PICK d : Request(d) /\ AbsorbsInto(db, d)
  BY <1>2
<1>4. /\ RowsOK(d) /\ SavedNamed(d) /\ HashesOf(db) \subseteq HashesOf(d)
      /\ PendingOf(db) \subseteq DOMAIN d.tags /\ NamesKept(db, d)
      /\ (db.saved # {} => d.saved # {}) /\ Shown(db) \subseteq Shown(d)
  BY <1>1, <1>3, AbsorbEnds
<1>5. db' = d /\ Fits(d) /\ UNCHANGED <<disk, reclaim, up, pr>>
  BY <1>3 DEF Request
<1> QED
  BY <1>4, <1>5 DEF Harmless

LEMMA MoveStep ==
  ASSUME LibraryInv, TagsetMove \/ RecordingsAddAppearance
  PROVE  Harmless /\ PendingOf(db) \subseteq DOMAIN db'.tags /\ NamesKept(db, db')
<1>1. RowsOK(db) /\ Fits(db)
  BY DEF LibraryInv, RowsInv
<1>2. \E d : Request(d) /\ Sound(db, d) /\ NamesKept(db, d)
  <2>1. CASE TagsetMove
    BY <1>1, <2>1, MoveTagsetIs, MoveNames DEF TagsetMove, Tags
  <2>2. CASE RecordingsAddAppearance
    BY <1>1, <2>2, SoundAdditions, AddNames DEF RecordingsAddAppearance
  <2> QED
    BY <2>1, <2>2
<1>3. PICK d : Request(d) /\ Sound(db, d) /\ NamesKept(db, d)
  BY <1>2
<1>4. Harmless /\ PendingOf(db) \subseteq DOMAIN d.tags /\ db' = d
  BY <1>1, <1>3, SoundRequest, SoundNames DEF Request
<1> QED
  BY <1>3, <1>4

LEMMA SplitStep ==
  ASSUME LibraryInv, RenditionSplit
  PROVE  Harmless /\ PendingOf(db) \subseteq DOMAIN db'.tags /\ OwnNamesKept(db, db')
<1>1. RowsOK(db) /\ Fits(db)
  BY DEF LibraryInv, RowsInv
<1>2. PICK f \in DOMAIN db.files : Request(SplitRendition(db, f))
  BY DEF RenditionSplit, Files
<1>3. Sound(db, SplitRendition(db, f)) /\ OwnNamesKept(db, SplitRendition(db, f))
  BY <1>1, SplitIs, SplitNames
<1>4. Harmless /\ PendingOf(db) \subseteq DOMAIN SplitRendition(db, f).tags
  BY <1>1, <1>2, <1>3, SoundRequest, SoundNames
<1> QED
  BY <1>2, <1>3, <1>4 DEF Request

LEMMA ShedsKeeps ==
  ASSUME LibraryInv, RowsOK(db'), Sheds(db, db')
  PROVE  RowsInv'
<1>1. Fits(db')
  BY DEF LibraryInv, RowsInv, Fits, Sheds
<1>2. SavedNamed(db')
  BY DEF LibraryInv, RowsInv, SavedNamed, Sheds, RowsOK
<1> QED
  BY <1>1, <1>2 DEF RowsInv

LEMMA PurgeStep ==
  ASSUME LibraryInv, Purge
  PROVE  LibraryInv'
<1>1. RowsOK(db)
  BY DEF LibraryInv, RowsInv
<1>2. \A T : /\ RowsOK(BulkHardDeleteTagsets(db, T)) /\ Sheds(db, BulkHardDeleteTagsets(db, T))
             /\ RowsOK(BulkHardDeleteRecordings(db, T)) /\ Sheds(db, BulkHardDeleteRecordings(db, T))
             /\ RowsOK(BulkHardDeleteRemovedFiles(db, T)) /\ Sheds(db, BulkHardDeleteRemovedFiles(db, T))
  BY <1>1, PurgeTagsIs, PurgeRecordingsIs, DeleteFilesIs
     DEF BulkHardDeleteTagsets, BulkHardDeleteRemovedFiles
<1>3. \E d : /\ db' = d /\ RowsOK(d) /\ Sheds(db, d)
             /\ reclaim' = reclaim \cup (HashesOf(db) \ HashesOf(d)) /\ UNCHANGED <<disk, up, pr>>
  <2>1. CASE TagsetHardDelete
    BY <1>2, <2>1 DEF TagsetHardDelete, HardDeleteTrashedTagset, PurgeRequest
  <2>2. CASE PurgeTagsets
    BY <1>2, <2>2 DEF PurgeTagsets, PurgeRequest
  <2>3. CASE RenditionHardDelete
    BY <1>2, <2>3 DEF RenditionHardDelete, HardDeleteRemovedFile, PurgeRequest
  <2>4. CASE PurgeFiles
    BY <1>2, <2>4 DEF PurgeFiles, PurgeRequest
  <2>5. CASE RecordingsHardDelete
    BY <1>2, <2>5 DEF RecordingsHardDelete, HardDeleteRecording, PurgeRequest
  <2>6. CASE BulkDelete
    BY <1>2, <2>6 DEF BulkDelete
  <2> QED
    BY <2>1, <2>2, <2>3, <2>4, <2>5, <2>6 DEF Purge
<1>4. /\ RowsOK(db') /\ Sheds(db, db')
      /\ reclaim' = reclaim \cup (HashesOf(db) \ HashesOf(db')) /\ UNCHANGED <<disk, up, pr>>
  BY <1>3
<1>5. RowsInv'
  BY <1>4, ShedsKeeps
<1>6. UploadOK' /\ PruneOK'
  BY <1>4 DEF LibraryInv, UploadOK, PruneOK, Idle
<1>7. BytesInv'
  <2>1. HashesOf(db) \subseteq Hashes
    BY <1>1 DEF HashesOf, RowsOK, FileShape
  <2>2. Inserting' = Inserting /\ Pruning' = Pruning
    BY <1>4 DEF Inserting, Pruning
  <2> QED
    BY <1>4, <2>1, <2>2 DEF LibraryInv, BytesInv
<1> QED
  BY <1>5, <1>6, <1>7 DEF LibraryInv

(* The steps of an upload.                                                 *)
LEMMA ArrivalIs ==
  ASSUME LibraryInv, NEW via \in {"upload", "download", "request"}, NEW h \in Hashes, NEW k \in Keys,
         NEW pc \in {"put", "restore", "attach"}, Arrival(via, h, k, pc)
  PROVE  up' \in Uploading /\ up'.pc # "insert"
<1>1. (IF FileWith(db, h) = {} THEN NoFile ELSE Min(FileWith(db, h))) \in Nat
  <2>1. FileWith(db, h) \subseteq 0..FileMax /\ FileMax \in Nat
    BY StoreAssumption DEF LibraryInv, RowsInv, Fits, FileWith
  <2>2. FileWith(db, h) # {} => Min(FileWith(db, h)) \in FileWith(db, h)
    BY <2>1, LeastIs
  <2> QED
    BY <2>1, <2>2 DEF NoFile
<1> DEFINE x == IF FileWith(db, h) = {} THEN NoFile ELSE Min(FileWith(db, h))
<1>2. up' = [via |-> via, hash |-> h, key |-> k, pc |-> pc, file |-> x]
  BY DEF Arrival
<1> HIDE DEF x
<1> QED
  BY <1>1, <1>2 DEF Uploading, x

LEMMA ArrivalStep ==
  ASSUME LibraryInv, UploadLookup \/ DownloadLookup \/ RestoreForUploader
  PROVE  LibraryInv' /\ db' = db
<1>1. /\ up = Idle /\ UNCHANGED <<db, disk, reclaim, pr>>
      /\ \E via \in {"upload", "download", "request"}, h \in Hashes, k \in Keys,
            pc \in {"put", "restore", "attach"} : Arrival(via, h, k, pc)
  <2>1. CASE UploadLookup
    BY <2>1, LibraryAssumption DEF UploadLookup
  <2>2. CASE DownloadLookup
    BY <2>2, LibraryAssumption DEF DownloadLookup
  <2>3. CASE RestoreForUploader
    <3>1. HashesOf(db) \subseteq Hashes
      BY DEF LibraryInv, RowsInv, RowsOK, HashesOf, FileShape
    <3>2. Nameless \in Keys
      BY StoreAssumption
    <3> QED
      BY <2>3, <3>1, <3>2 DEF RestoreForUploader
  <2> QED
    BY <2>1, <2>2, <2>3
<1>2. up' \in Uploading /\ up'.pc # "insert"
  BY <1>1, ArrivalIs
<1>3. RowsInv' /\ PruneOK'
  BY <1>1 DEF LibraryInv, RowsInv, PruneOK, Idle
<1>4. BytesInv'
  BY <1>1, <1>2 DEF LibraryInv, BytesInv, Inserting, Pruning, Idle
<1> QED
  BY <1>1, <1>2, <1>3, <1>4 DEF LibraryInv, UploadOK

LEMMA PutStep ==
  ASSUME LibraryInv, Put
  PROVE  LibraryInv' /\ db' = db
<1>1. up \in Uploading
  BY DEF LibraryInv, UploadOK, Put, Idle
<1>2. up' \in Uploading /\ up'.pc = "insert" /\ up'.hash = up.hash /\ up.hash \in Hashes
  BY <1>1 DEF Put, Uploading
<1>3. RowsInv' /\ PruneOK'
  BY DEF Put, LibraryInv, RowsInv, PruneOK, Idle
<1>4. BytesInv'
  <2>1. Pruning' = Pruning /\ Inserting = {} /\ Inserting' = {up.hash}
    BY <1>2 DEF Put, Pruning, Inserting
  <2> QED
    BY <1>2, <2>1 DEF Put, LibraryInv, BytesInv
<1> QED
  BY <1>2, <1>3, <1>4 DEF LibraryInv, UploadOK, Put

(* A step of an upload that has no bytes in hand.                          *)
LEMMA UploadKeeps ==
  ASSUME LibraryInv, RowsOK(db'), SavedNamed(db'), Fits(db'), UploadOK',
         disk \subseteq HashesOf(db') \cup reclaim \cup Pruning,
         UNCHANGED <<disk, reclaim, pr>>
  PROVE  LibraryInv'
<1>1. RowsInv' /\ PruneOK'
  BY DEF LibraryInv, RowsInv, PruneOK, Idle
<1>2. BytesInv'
  BY DEF LibraryInv, BytesInv, Pruning
<1> QED
  BY <1>1, <1>2 DEF LibraryInv

LEMMA InsertStep ==
  ASSUME LibraryInv, UploadInsert \/ DownloadInsert
  PROVE  LibraryInv' /\ HashesOf(db) \subseteq HashesOf(db')
<1>1. RowsOK(db) /\ Fits(db) /\ SavedNamed(db)
  BY DEF LibraryInv, RowsInv
<1>2. PICK via, state : state \in States /\ Insert(via, state)
  BY DEF UploadInsert, DownloadInsert, States
<1>3. up \in Uploading /\ up.pc = "insert"
  BY <1>2 DEF LibraryInv, UploadOK, Insert, Idle
<1>4. up.hash \in Hashes /\ up.key \in Keys
  BY <1>3 DEF Uploading
<1>5. Sound(db, db') /\ up.hash \in HashesOf(db')
  <2>1. CASE FileWith(db, up.hash) # {}
    <3>1. db' = db
      BY <1>2, <2>1 DEF Insert
    <3>2. up.hash \in HashesOf(db)
      BY <2>1 DEF FileWith, HashesOf
    <3> QED
      BY <1>1, <3>1, <3>2, SoundSelf
  <2>2. CASE FileWith(db, up.hash) = {}
    <3>1. db' = InsertFile(db, up.hash, up.key, state)
      BY <1>2, <2>2 DEF Insert
    <3> QED
      BY <1>1, <1>2, <1>4, <2>2, <3>1, SoundAdditions
  <2> QED
    BY <2>1, <2>2
<1>6. RowsOK(db') /\ SavedNamed(db') /\ HashesOf(db) \subseteq HashesOf(db')
  BY <1>1, <1>5, SoundNames DEF Sound
<1>7. Fits(db') /\ UploadOK' /\ UNCHANGED <<disk, reclaim, pr>>
  BY <1>2 DEF Insert, UploadOK
<1>8. disk \subseteq HashesOf(db') \cup reclaim \cup Pruning
  BY <1>3, <1>5, <1>6 DEF LibraryInv, BytesInv, Inserting
<1> QED
  BY <1>6, <1>7, <1>8, UploadKeeps

LEMMA StaysMarks ==
  ASSUME NEW d, RowsOK(d)
  PROVE  /\ \A h : Stays(d, RestoreFileByHash(d, h)) /\ Stays(d, StageRestoredFile(d, h))
         /\ \A T, from : \A s \in States : Stays(d, BulkUpdateReviewState(d, T, from, s))
         /\ Stays(d, Reap(d))
<1>1. ASSUME NEW h PROVE Stays(d, RestoreFileByHash(d, h))
  <2> DEFINE F == FileWith(d, h)
             m == EditTags(d, TagsOf(d, {d.files[f].rec : f \in F}), RestoreRow)
             e == EditFiles(m, F, RestoreRow)
  <2>1. RowsOK(m) /\ OnlyTags(d, m)
    BY RestoreTagsIs
  <2> HIDE DEF m, F
  <2>2. OnlyFiles(m, e)
    BY <2>1, RestoreFilesIs
  <2>3. Stays(d, e)
    BY <2>1, <2>2 DEF OnlyTags, OnlyFiles, Stays
  <2> QED
    BY <2>3 DEF RestoreFileByHash, e, m, F
<1>2. \A T : \A s \in States : Stays(d, [d EXCEPT !.tags = [t \in DOMAIN @ |-> IF t \in T THEN [@[t] EXCEPT !.state = s] ELSE @[t]]])
  BY DEF Stays, RowsOK, Tables
<1>3. ASSUME NEW h PROVE Stays(d, StageRestoredFile(d, h))
  <2>1. "draft" \in States
    BY DEF States
  <2> QED
    BY <1>2, <2>1 DEF StageRestoredFile, EditTags
<1>4. \A T, from : \A s \in States : Stays(d, BulkUpdateReviewState(d, T, from, s))
  BY <1>2 DEF BulkUpdateReviewState, EditTags
<1>5. Stays(d, Reap(d))
  BY ReapIs DEF Reap, Reaped, Stays
<1> QED
  BY <1>1, <1>3, <1>4, <1>5

(* A transaction of a process: the ids stay within the bounds.             *)
LEMMA StaysKeeps ==
  ASSUME LibraryInv, Sound(db, db'), Stays(db, db')
  PROVE  RowsOK(db') /\ SavedNamed(db') /\ Fits(db') /\ HashesOf(db) \subseteq HashesOf(db')
<1>1. RowsOK(db) /\ SavedNamed(db) /\ Fits(db)
  BY DEF LibraryInv, RowsInv
<1>2. Fits(db')
  BY <1>1 DEF Stays, Fits
<1> QED
  BY <1>1, <1>2, SoundNames DEF Sound

LEMMA RestageStep ==
  ASSUME LibraryInv, UploadRestore \/ UploadStage \/ DownloadApprove
  PROVE  LibraryInv' /\ HashesOf(db) \subseteq HashesOf(db')
<1>1. RowsOK(db)
  BY DEF LibraryInv, RowsInv
<1>2. Sound(db, db') /\ Stays(db, db')
  <2>1. CASE UploadRestore
    BY <1>1, <2>1, SoundMarks, StaysMarks DEF UploadRestore
  <2>2. CASE UploadStage
    BY <1>1, <2>2, SoundMarks, StaysMarks DEF UploadStage
  <2>3. CASE DownloadApprove
    <3>1. "approved" \in States
      BY DEF States
    <3> QED
      BY <1>1, <2>3, <3>1, SoundEdits, StaysMarks DEF DownloadApprove, UpdateReviewState
  <2> QED
    BY <2>1, <2>2, <2>3
<1>3. UploadOK'
  <2>1. CASE UploadRestore
    <3>1. up \in Uploading
      BY <2>1 DEF LibraryInv, UploadOK, UploadRestore, Idle
    <3>2. [up EXCEPT !.pc = "stage"] \in Uploading
      BY <3>1 DEF Uploading
    <3> QED
      BY <2>1, <3>2 DEF UploadRestore, UploadOK
  <2>2. CASE UploadStage \/ DownloadApprove
    BY <2>2 DEF UploadStage, DownloadApprove, UploadOK
  <2> QED
    BY <2>1, <2>2
<1>4. Inserting = {} /\ UNCHANGED <<disk, reclaim, pr>>
  BY DEF UploadRestore, UploadStage, DownloadApprove, Inserting
<1>5. RowsOK(db') /\ SavedNamed(db') /\ Fits(db') /\ HashesOf(db) \subseteq HashesOf(db')
  BY <1>2, StaysKeeps
<1>6. disk \subseteq HashesOf(db') \cup reclaim \cup Pruning
  BY <1>4, <1>5 DEF LibraryInv, BytesInv
<1> QED
  BY <1>3, <1>4, <1>5, <1>6, UploadKeeps

LEMMA AttachStep ==
  ASSUME LibraryInv, UploadAttach \/ AttachRemoteTagset
  PROVE  LibraryInv' /\ HashesOf(db) \subseteq HashesOf(db')
<1>1. RowsOK(db) /\ Fits(db) /\ SavedNamed(db)
  BY DEF LibraryInv, RowsInv
<1>2. /\ up.pc = "attach" /\ db' = AttachDraftTagset(db, up.file, up.key) /\ Fits(db')
      /\ UNCHANGED <<disk, reclaim, pr>> /\ (up' = Idle \/ up'.pc = "approve")
  BY DEF UploadAttach, AttachRemoteTagset, Attach
<1>3. up \in Uploading
  BY <1>2 DEF LibraryInv, UploadOK, Idle
<1>4. up.key \in Keys
  BY <1>3 DEF Uploading
<1>5. Sound(db, db')
  BY <1>1, <1>2, <1>4, SoundAdditions
<1>6. RowsOK(db') /\ SavedNamed(db') /\ HashesOf(db) \subseteq HashesOf(db')
  BY <1>1, <1>5, SoundNames DEF Sound
<1>7. disk \subseteq HashesOf(db') \cup reclaim \cup Pruning
  BY <1>2, <1>6 DEF LibraryInv, BytesInv, Inserting
<1>8. UploadOK'
  BY <1>2 DEF UploadOK
<1> QED
  BY <1>2, <1>6, <1>7, <1>8, UploadKeeps

LEMMA UploadStep ==
  ASSUME LibraryInv, Upload
  PROVE  LibraryInv' /\ HashesOf(db) \subseteq HashesOf(db')
<1>1. CASE UploadLookup \/ DownloadLookup \/ RestoreForUploader
  BY <1>1, ArrivalStep
<1>2. CASE Put
  BY <1>2, PutStep
<1>3. CASE UploadInsert \/ DownloadInsert
  BY <1>3, InsertStep
<1>4. CASE UploadRestore \/ UploadStage \/ DownloadApprove
  BY <1>4, RestageStep
<1>5. CASE UploadAttach \/ AttachRemoteTagset
  BY <1>5, AttachStep
<1> QED
  BY <1>1, <1>2, <1>3, <1>4, <1>5 DEF Upload

(* The steps of the resolver and of a prune run.                           *)
LEMMA ResolveStep ==
  ASSUME LibraryInv, Resolve
  PROVE  LibraryInv' /\ HashesOf(db) \subseteq HashesOf(db')
<1>1. RowsOK(db)
  BY DEF LibraryInv, RowsInv
<1>2. Sound(db, db') /\ Stays(db, db')
  <2>1. CASE ResolveRead
    BY <1>1, <2>1, SoundSelf DEF ResolveRead, Stays
  <2>2. CASE ResolveMove
    BY <1>1, <2>2, ResolveIs DEF ResolveMove
  <2> QED
    BY <2>1, <2>2 DEF Resolve
<1>3. UNCHANGED <<disk, reclaim, up, pr>>
  BY DEF Resolve, ResolveRead, ResolveMove
<1>4. Harmless
  BY <1>2, <1>3, StaysKeeps DEF Harmless
<1> QED
  BY <1>4, HarmlessKeeps DEF Harmless

LEMMA PruneStep ==
  ASSUME LibraryInv, Prune
  PROVE  LibraryInv' /\ (HashesOf(db) \subseteq HashesOf(db') \/ PruneDelete)
<1>1. RowsOK(db)
  BY DEF LibraryInv, RowsInv
<1>2. HashesOf(db) \subseteq Hashes
  BY <1>1 DEF HashesOf, RowsOK, FileShape
<1>3. CASE ScanDangling
  <2>1. Dangling \subseteq Hashes
    BY <1>2 DEF Dangling, LiveFiles, FilesOf, HashesOf
  <2> HIDE DEF Dangling
  <2>2. PruneOK' /\ Pruning = {} /\ Pruning' = {}
    BY <1>3, <2>1 DEF ScanDangling, PruneOK, Pruning, Idle
  <2>3. RowsInv' /\ UploadOK' /\ BytesInv' /\ db' = db
    BY <1>3, <2>2 DEF ScanDangling, LibraryInv, RowsInv, UploadOK, Idle, BytesInv, Inserting
  <2> QED
    BY <2>2, <2>3 DEF LibraryInv
<1>4. CASE PruneCheck
  <2>1. pr \in [pc : {"check"}, todo : SUBSET Hashes]
    BY <1>4 DEF PruneCheck, LibraryInv, PruneOK, Idle
  <2>2. PICK h \in pr.todo : pr' = IF h \in disk THEN [pr EXCEPT !.todo = @ \ {h}]
                                  ELSE [pc |-> "delete", todo |-> pr.todo \ {h}, hash |-> h]
    BY <1>4 DEF PruneCheck
  <2>3. PruneOK' /\ Pruning = {} /\ (Pruning' = {} \/ h \notin disk)
    <3>1. pr.todo \ {h} \subseteq Hashes /\ h \in Hashes
      BY <2>1
    <3>2. CASE h \in disk
      <4>1. pr' = [pr EXCEPT !.todo = pr.todo \ {h}]
        BY <2>2, <3>2
      <4>2. pr' \in [pc : {"check"}, todo : SUBSET Hashes] /\ pr'.pc = "check"
        BY <2>1, <3>1, <4>1
      <4> QED
        BY <2>1, <4>2 DEF PruneOK, Pruning
    <3>3. CASE h \notin disk
      BY <2>1, <2>2, <3>1, <3>3 DEF PruneOK, Pruning
    <3> QED
      BY <3>2, <3>3
  <2>4. RowsInv' /\ UploadOK' /\ BytesInv' /\ db' = db
    BY <1>4, <2>3 DEF PruneCheck, LibraryInv, RowsInv, UploadOK, Idle, BytesInv, Inserting
  <2> QED
    BY <2>3, <2>4 DEF LibraryInv
<1>5. CASE PruneDelete
  <2>1. pr \in [pc : {"delete", "sweep"}, todo : SUBSET Hashes, hash : Hashes]
    BY <1>5 DEF PruneDelete, LibraryInv, PruneOK, Idle
  <2>2. pr' \in [pc : {"delete", "sweep"}, todo : SUBSET Hashes, hash : Hashes]
        /\ pr'.pc = "sweep" /\ pr'.hash = pr.hash
    BY <1>5, <2>1 DEF PruneDelete
  <2> DEFINE F == FileWith(db, pr.hash)
  <2>3. /\ db' = ReapOn(DeleteFileRows(db, F), {db.files[f].rec : f \in F})
        /\ \A f \in F : db.files[f].hash = pr.hash
    BY <1>5 DEF PruneDelete, HardDeleteFileByHash, FileWith
  <2> HIDE DEF F
  <2>4. RowsOK(db') /\ Sheds(db, db') /\ HashesOf(db) \subseteq HashesOf(db') \cup {db.files[f].hash : f \in F}
    BY <1>1, <2>3, DeleteFilesIs
  <2>5. RowsInv'
    BY <2>4, ShedsKeeps
  <2>6. UploadOK' /\ PruneOK' /\ UNCHANGED <<disk, reclaim, up>>
    BY <1>5, <2>2 DEF PruneDelete, LibraryInv, UploadOK, Idle, PruneOK
  <2>7. BytesInv'
    <3>1. HashesOf(db) \subseteq HashesOf(db') \cup {pr.hash}
      BY <2>3, <2>4
    <3>2. Inserting' = Inserting /\ Pruning' = {pr.hash} /\ Pruning = {pr.hash}
      BY <1>5, <2>2, <2>6 DEF PruneDelete, Inserting, Pruning
    <3> QED
      BY <2>6, <3>1, <3>2 DEF LibraryInv, BytesInv
  <2> QED
    BY <1>5, <2>5, <2>6, <2>7 DEF LibraryInv
<1>6. CASE PruneSweep
  <2>1. pr \in [pc : {"delete", "sweep"}, todo : SUBSET Hashes, hash : Hashes]
    BY <1>6 DEF PruneSweep, LibraryInv, PruneOK, Idle
  <2>2. PruneOK' /\ Pruning = {pr.hash} /\ Pruning' = {}
    BY <1>6, <2>1 DEF PruneSweep, PruneOK, Pruning
  <2>3. RowsInv' /\ UploadOK' /\ BytesInv' /\ db' = db
    BY <1>6, <2>2 DEF PruneSweep, LibraryInv, RowsInv, UploadOK, Idle, BytesInv, Inserting
  <2> QED
    BY <2>2, <2>3 DEF LibraryInv
<1>7. CASE PruneReap
  <2>1. RowsOK(db') /\ SavedNamed(db') /\ Fits(db') /\ HashesOf(db) \subseteq HashesOf(db')
    <3>1. Sound(db, db') /\ Stays(db, db')
      BY <1>1, <1>7, SoundMarks, StaysMarks DEF PruneReap
    <3> QED
      BY <3>1, StaysKeeps
  <2>2. PruneOK' /\ Pruning = {} /\ Pruning' = {}
    BY <1>7 DEF PruneReap, PruneOK, Pruning, Idle
  <2>3. RowsInv' /\ UploadOK' /\ BytesInv'
    BY <1>7, <2>1, <2>2 DEF PruneReap, LibraryInv, RowsInv, UploadOK, Idle, BytesInv, Inserting
  <2> QED
    BY <2>1, <2>2, <2>3 DEF LibraryInv
<1> QED
  BY <1>3, <1>4, <1>5, <1>6, <1>7 DEF Prune

LEMMA ByteStep ==
  ASSUME LibraryInv, BulkResolve \/ ReclaimBytes \/ LoseBytes
  PROVE  LibraryInv' /\ db' = db
<1>1. UNCHANGED <<db, up, pr>>
  BY DEF BulkResolve, ReclaimBytes, LoseBytes
<1>2. BytesInv'
  <2>1. Inserting' = Inserting /\ Pruning' = Pruning
    BY <1>1 DEF Inserting, Pruning
  <2> QED
    BY <1>1, <2>1 DEF BulkResolve, ReclaimBytes, LoseBytes, LibraryInv, BytesInv
<1>3. RowsInv' /\ UploadOK' /\ PruneOK'
  BY <1>1 DEF LibraryInv, RowsInv, UploadOK, PruneOK, Idle
<1> QED
  BY <1>1, <1>2, <1>3 DEF LibraryInv

LEMMA LibraryStarts ==
  ASSUME Init
  PROVE  LibraryInv
<1> DEFINE one == CHOOSE h \in UploadHashes : TRUE
           two == CHOOSE h \in Hashes : h \notin UploadHashes
           k == CHOOSE x \in Keys : x # Nameless
           files == [f \in {1, 2} |-> [hash |-> IF f = 1 THEN one ELSE two, rec |-> f,
                                       gone |-> FALSE, pin |-> FALSE]]
           tags == [t \in {1, 2} |-> [rec |-> t, key |-> k, state |-> "approved",
                                      gone |-> FALSE, origin |-> t]]
<1>1. one \in UploadHashes /\ two \in Hashes /\ two \notin UploadHashes /\ one \in Hashes
  <2>1. one \in UploadHashes
    BY LibraryAssumption
  <2>2. \E h \in Hashes : h \notin UploadHashes
    BY LibraryAssumption
  <2>3. two \in Hashes /\ two \notin UploadHashes
    BY <2>2
  <2> QED
    BY <2>1, <2>3, LibraryAssumption
<1>2. k \in Keys /\ k # Nameless
  <2>1. \E x \in Keys : x # Nameless
    BY StoreAssumption, LibraryAssumption
  <2> QED
    BY <2>1
<1>3. /\ db = [recs |-> {1, 2}, saved |-> {2}, files |-> files, tags |-> tags]
      /\ disk = {one, two} /\ reclaim = {} /\ up = Idle /\ pr = Idle
  BY DEF Init
<1> HIDE DEF one, two, k
<1>4. /\ DOMAIN db = Tables /\ db.recs = {1, 2} /\ db.saved = {2}
      /\ DOMAIN db.files = {1, 2} /\ DOMAIN db.tags = {1, 2}
      /\ db.files = files /\ db.tags = tags
  BY <1>3 DEF Tables
<1>5. /\ \A f \in {1, 2} : db.files[f] \in [hash : Hashes, rec : {1, 2}, gone : BOOLEAN, pin : BOOLEAN]
      /\ db.files[1].hash = one /\ db.files[2].hash = two
  BY <1>1, <1>4
<1>6. /\ \A t \in {1, 2} : db.tags[t] \in [rec : {1, 2}, key : Keys, state : States,
                                           gone : BOOLEAN, origin : {1, 2} \cup {NoFile}]
      /\ db.tags[2].key = k
  BY <1>2, <1>4 DEF States
<1> HIDE DEF files, tags
<1>7. RowsOK(db)
  BY <1>1, <1>4, <1>5, <1>6 DEF RowsOK, FileShape, TagShape
<1>8. Fits(db) /\ SavedNamed(db)
  <2>1. RecMax \in Nat \ {0, 1} /\ FileMax \in Nat \ {0, 1} /\ TagMax \in Nat \ {0, 1}
    BY StoreAssumption
  <2> QED
    BY <1>2, <1>4, <1>6, <2>1 DEF Fits, SavedNamed
<1>9. UploadOK /\ PruneOK
  BY <1>3 DEF UploadOK, PruneOK
<1>10. BytesInv
  BY <1>1, <1>3, <1>4, <1>5 DEF BytesInv, HashesOf
<1> QED
  BY <1>7, <1>8, <1>9, <1>10 DEF LibraryInv, RowsInv

LEMMA LibraryStep ==
  ASSUME LibraryInv, Next
  PROVE  /\ LibraryInv'
         /\ ~(HashesOf(db) \subseteq HashesOf(db')) => Purge \/ PruneDelete
<1>1. CASE Harmless
  BY <1>1, HarmlessKeeps DEF Harmless
<1>2. CASE Review \/ Trash \/ Restore
  BY <1>1, <1>2, ReviewStep, TrashStep, RestoreStep
<1>3. CASE Curate
  BY <1>1, <1>3, MergeStep, AbsorbStep, MoveStep, SplitStep DEF Curate, Regroup
<1>4. CASE Purge
  BY <1>4, PurgeStep
<1>5. CASE BulkResolve \/ ReclaimBytes \/ LoseBytes
  BY <1>5, ByteStep
<1>6. CASE Upload
  BY <1>6, UploadStep
<1>7. CASE Resolve
  BY <1>7, ResolveStep
<1>8. CASE Prune
  BY <1>8, PruneStep
<1> QED
  BY <1>2, <1>3, <1>4, <1>5, <1>6, <1>7, <1>8 DEF Next

LEMMA LibraryOrNot ==
  ASSUME [HomeNext]_home
  PROVE  Next \/ UNCHANGED vars
BY DEF HomeNext, HomeRestart, home

LEMMA LibraryRests ==
  ASSUME LibraryInv, UNCHANGED vars
  PROVE  LibraryInv'
BY DEF vars, LibraryInv, RowsInv, UploadOK, PruneOK, Idle, BytesInv, Inserting, Pruning

(* The invariant of the library, of every behaviour of an instance.        *)
THEOREM LibraryHolds == HomeSpec => []LibraryInv
<1>1. HomeInit => LibraryInv
  BY LibraryStarts DEF HomeInit
<1>2. LibraryInv /\ [HomeNext]_home => LibraryInv'
  BY LibraryOrNot, LibraryStep, LibraryRests
<1> QED
  BY <1>1, <1>2, PTL DEF HomeSpec

(* Rows and bytes agree, whatever uploads, downloads, requests, purges and *)
(* prune runs there are: every foreign key has its row, a hash is in one   *)
(* file row, and bytes without a row are still to be reclaimed or in the   *)
(* hands of the upload or the prune run that deals with them.              *)
THEOREM BytesHold == HomeSpec => []BytesAreAccounted
<1>1. LibraryInv => TypeOK
  <2> SUFFICES ASSUME LibraryInv PROVE TypeOK
    OBVIOUS
  <2>1. RowsOK(db) /\ Fits(db) /\ disk \subseteq Hashes /\ reclaim \subseteq Hashes
    BY DEF LibraryInv, RowsInv, BytesInv
  <2>2. \A f \in Files : db.files[f] \in FileRow /\ db.files[f].rec \in db.recs
    BY <2>1 DEF RowsOK, Fits, FileShape, FileRow, Files
  <2>3. DOMAIN db.files \cup {NoFile} \subseteq 0..FileMax
    BY <2>1, StoreAssumption DEF Fits, NoFile
  <2>4. ASSUME NEW t \in Tags
        PROVE  /\ db.tags[t] \in TagRow /\ db.tags[t].rec \in db.recs
               /\ db.tags[t].origin \in Files \cup {NoFile}
    <3>1. db.tags[t] \in TagShape(db)
      BY <2>1 DEF RowsOK, Tags
    <3> QED
      BY <2>1, <2>3, <3>1 DEF Fits, TagShape, TagRow, Files
  <2>5. db.saved \subseteq Tags /\ \A f, g \in Files : db.files[f].hash = db.files[g].hash => f = g
    BY <2>1 DEF RowsOK, Tags, Files
  <2> QED
    BY <2>1, <2>2, <2>4, <2>5 DEF TypeOK, Fits
<1>2. LibraryInv => NoBytesLeak
  <2> SUFFICES ASSUME LibraryInv PROVE Inserting \subseteq InHand /\ Pruning \subseteq InHand
    BY DEF LibraryInv, BytesInv, NoBytesLeak
  <2>1. ASSUME NEW p \in {up, pr}, "hash" \in DOMAIN p PROVE p["hash"] \in InHand
    BY <2>1 DEF InHand
  <2>2. up.pc = "insert" => "hash" \in DOMAIN up
    BY DEF LibraryInv, UploadOK, Uploading, Idle
  <2>3. pr.pc \in {"delete", "sweep"} => "hash" \in DOMAIN pr
    BY DEF LibraryInv, PruneOK, Idle
  <2> QED
    BY <2>1, <2>2, <2>3 DEF Inserting, Pruning
<1> QED
  BY <1>1, <1>2, LibraryHolds, PTL DEF BytesAreAccounted

(* Nothing but a purge or a prune destroys a file row, whatever the reaper *)
(* finds abandoned behind a review, a restore, a merge or the resolver.    *)
THEOREM DestroyersHold == HomeSpec => OnlyPurgeDestroys
<1>1. LibraryInv /\ [HomeNext]_home
        => [~(HashesOf(db) \subseteq HashesOf(db')) => Purge \/ PruneDelete]_vars
  BY LibraryOrNot, LibraryStep
<1> QED
  BY <1>1, LibraryHolds, PTL DEF HomeSpec, OnlyPurgeDestroys

(* Deduplication is free, however the recordings, keys, states and origins *)
(* of the appearances overlap: it drops no pending row, each named entry   *)
(* that the library shows has a twin that stays and plays, and a playlist  *)
(* entry that goes hands over to a named twin.                             *)
THEOREM DedupHolds == HomeSpec => DedupCostsNothing
<1>1. LibraryInv => [~(Pending \subseteq DOMAIN db'.tags) => ~Curate]_vars
  <2> SUFFICES ASSUME LibraryInv, Curate PROVE Pending \subseteq DOMAIN db'.tags
    OBVIOUS
  <2>1. PendingOf(db) \subseteq DOMAIN db'.tags
    BY MergeStep, AbsorbStep, MoveStep, SplitStep DEF Curate, Regroup
  <2> QED
    BY <2>1 DEF PendingOf, Pending, Tags
<1>2. LibraryInv => [~(Shown(db) \subseteq Shown(db')) => ~(RecordingsMerge \/ Absorb)]_vars
  BY MergeStep, AbsorbStep
<1>3. LibraryInv => [db.saved # {} /\ db'.saved = {} => ~Absorb]_vars
  BY AbsorbStep
<1> QED
  BY <1>1, <1>2, <1>3, LibraryHolds, PTL
     DEF DedupCostsNothing, DedupSparesPending, DedupKeepsLibrary, AbsorbKeepsSaved

(* What is live and named stays so through a merge, a move, an absorb or a *)
(* new appearance; a split takes the name of none that has its own; and    *)
(* what a restore of recordings publishes again has a live rendition.      *)
THEOREM CurationHolds == HomeSpec => CurationKeepsPlaying
<1>1. LibraryInv => [/\ ~StayNamed(NamedFiles(db)) => ~Regroup
                     /\ ~StayNamed(OwnNamed(db)) => ~RenditionSplit]_vars
  <2>1. ASSUME LibraryInv, Regroup PROVE StayNamed(NamedFiles(db))
    <3>1. NamesKept(db, db') /\ HashesOf(db) \subseteq HashesOf(db')
      BY <2>1, MergeStep, AbsorbStep, MoveStep DEF Regroup, Harmless
    <3> QED
      BY <3>1 DEF StayNamed, NamedFiles, NamesKept, LiveFiles, FilesOf
  <2>2. ASSUME LibraryInv, RenditionSplit PROVE StayNamed(OwnNamed(db))
    <3>1. OwnNamesKept(db, db')
      BY <2>2, SplitStep
    <3>2. \A f \in OwnNamed(db) : f \in DOMAIN db.files /\ OwnTag(db, db.files[f].rec)
      BY DEF OwnNamed, OwnTag, LiveFiles, FilesOf
    <3> QED
      BY <3>1, <3>2 DEF StayNamed, NamedFiles, OwnNamesKept
  <2> QED
    BY <2>1, <2>2
<1>2. LibraryInv => [(\E r \in Republished : FilesOf(db, {r}) # {} /\ TagsOf(db', {r}) \cap Visible(db') = {})
                       => ~RestoreFromBin]_vars
  BY RestorePlaysStep
<1> QED
  BY <1>1, <1>2, LibraryHolds, PTL DEF CurationKeepsPlaying, CuratedFilesStayNamed, RestoredRecordingsPlay
==============================================================================
