-------------------------- MODULE ChunkPlanProofs --------------------------
(***************************************************************************)
(* Safety of the chunk scheduler for any number of holders, workers and     *)
(* chunks.                                                                  *)
(***************************************************************************)
EXTENDS ChunkPlan, FiniteSetTheorems, SequenceTheorems, WellFoundedInduction, TLAPS

(***************************************************************************)
(* What removing, inserting and appending one element does to the elements *)
(* of a sequence.                                                          *)
(***************************************************************************)

\* x occurs in s; nothing occurs in s twice.
In(s, x)  == \E i \in DOMAIN s : s[i] = x
Unique(s) == \A i, j \in DOMAIN s : s[i] = s[j] => i = j

\* A nonempty set of naturals below a bound has a least element.
LEMMA LeastElement ==
  ASSUME NEW n \in Nat, NEW T, T \subseteq 0 .. n, T # {}
  PROVE  \E m \in T : \A k \in T : m <= k
<1> DEFINE Below == {0 .. m : m \in T}
<1>1. IsFiniteSet(0 .. n)
  BY FS_Interval
<1>2. Below \subseteq FiniteSubsetsOf(0 .. n)
  <2> SUFFICES ASSUME NEW m \in T PROVE 0 .. m \in FiniteSubsetsOf(0 .. n)
    OBVIOUS
  <2>1. m \in Nat /\ 0 .. m \subseteq 0 .. n
    OBVIOUS
  <2>2. IsFiniteSet(0 .. m)
    BY <2>1, FS_Interval
  <2> QED
    BY <2>1, <2>2 DEF FiniteSubsetsOf
<1>3. IsWellFoundedOn(StrictSubsetOrdering(0 .. n), FiniteSubsetsOf(0 .. n))
  BY <1>1, FS_StrictSubsetOrderingWellFounded
<1>4. PICK B \in Below : \A C \in Below : ~(<<C, B>> \in StrictSubsetOrdering(0 .. n))
  <2> HIDE DEF Below
  <2>1. Below # {}
    BY DEF Below
  <2> QED
    BY <1>2, <1>3, <2>1, WFMin
<1>5. PICK m \in T : B = 0 .. m
  OBVIOUS
<1>6. ASSUME NEW k \in T, ~(m <= k) PROVE FALSE
  <2>1. m \in Nat /\ k \in Nat /\ k < m
    BY <1>6
  <2>2. 0 .. k \subseteq 0 .. m /\ m \notin 0 .. k /\ m \in 0 .. m
    BY <2>1
  <2>3. 0 .. k \in SUBSET (0 .. n) /\ 0 .. m \in SUBSET (0 .. n)
    BY <2>1
  <2>4. <<0 .. k, 0 .. m>> \in StrictSubsetOrdering(0 .. n)
    BY <2>2, <2>3 DEF StrictSubsetOrdering
  <2> QED
    BY <1>4, <1>5, <2>4
<1> QED
  BY <1>6

\* Removing position i shifts what follows it one place down.
LEMMA RemoveAtFacts ==
  ASSUME NEW S, NEW s \in Seq(S), NEW i \in DOMAIN s
  PROVE  /\ RemoveAt(s, i) \in Seq(S)
         /\ DOMAIN RemoveAt(s, i) = 1 .. Len(s) - 1
         /\ \A k \in 1 .. Len(s) - 1 : RemoveAt(s, i)[k] = IF k < i THEN s[k] ELSE s[k + 1]
<1> DEFINE front == SubSeq(s, 1, i - 1)
           back  == SubSeq(s, i + 1, Len(s))
<1>1. Len(s) \in Nat /\ i \in 1 .. Len(s) /\ \A k \in 1 .. Len(s) : s[k] \in S
  OBVIOUS
<1>2. /\ front \in Seq(S) /\ Len(front) = i - 1
      /\ \A k \in 1 .. i - 1 : front[k] = s[k]
  <2>1. \A k \in 1 .. i - 1 : s[k] \in S
    BY <1>1
  <2> QED
    BY <1>1, <2>1, SubSeqProperties
<1>3. /\ back \in Seq(S) /\ Len(back) = Len(s) - i
      /\ \A k \in 1 .. Len(s) - i : back[k] = s[i + k]
  <2>1. \A k \in i + 1 .. Len(s) : s[k] \in S
    BY <1>1
  <2> QED
    BY <1>1, <2>1, SubSeqProperties
<1> HIDE DEF front, back
<1>4. /\ front \o back \in Seq(S) /\ Len(front \o back) = Len(s) - 1
      /\ \A k \in 1 .. Len(s) - 1 :
           (front \o back)[k] = IF k <= i - 1 THEN front[k] ELSE back[k - (i - 1)]
  BY <1>1, <1>2, <1>3, ConcatProperties, SMTT(60)
<1>5. RemoveAt(s, i) = front \o back
  BY DEF RemoveAt, front, back
<1>6. ASSUME NEW k \in 1 .. Len(s) - 1
      PROVE  RemoveAt(s, i)[k] = IF k < i THEN s[k] ELSE s[k + 1]
  <2>1. CASE k < i
    BY <1>1, <1>2, <1>4, <1>5, <2>1
  <2>2. CASE ~(k < i)
    <3>1. k \in Nat /\ k - (i - 1) \in 1 .. Len(s) - i /\ i + (k - (i - 1)) = k + 1 /\ ~(k <= i - 1)
      BY <1>1, <2>2
    <3>2. back[k - (i - 1)] = s[k + 1]
      BY <1>3, <3>1
    <3> QED
      BY <1>4, <1>5, <2>2, <3>1, <3>2
  <2> QED
    BY <2>1, <2>2
<1>7. DOMAIN RemoveAt(s, i) = 1 .. Len(s) - 1
  BY <1>4, <1>5, LenProperties
<1> QED
  BY <1>4, <1>5, <1>6, <1>7

\* Inserting at position i shifts what follows it one place up.
LEMMA InsertAtFacts ==
  ASSUME NEW S, NEW s \in Seq(S), NEW i \in 1 .. Len(s) + 1, NEW e \in S
  PROVE  /\ InsertAt(s, i, e) \in Seq(S)
         /\ DOMAIN InsertAt(s, i, e) = 1 .. Len(s) + 1
         /\ \A k \in 1 .. Len(s) + 1 :
              InsertAt(s, i, e)[k] = IF k < i THEN s[k] ELSE IF k = i THEN e ELSE s[k - 1]
<1> DEFINE front == SubSeq(s, 1, i - 1)
           back  == SubSeq(s, i, Len(s))
           most  == front \o <<e>>
<1>1. Len(s) \in Nat /\ i \in Nat \ {0} /\ \A k \in 1 .. Len(s) : s[k] \in S
  OBVIOUS
<1>2. /\ front \in Seq(S) /\ Len(front) = i - 1
      /\ \A k \in 1 .. i - 1 : front[k] = s[k]
  <2>1. \A k \in 1 .. i - 1 : s[k] \in S
    BY <1>1
  <2> QED
    BY <1>1, <2>1, SubSeqProperties
<1>3. /\ back \in Seq(S) /\ Len(back) = Len(s) + 1 - i
      /\ \A k \in 1 .. Len(s) + 1 - i : back[k] = s[i + k - 1]
  <2>1. \A k \in i .. Len(s) : s[k] \in S
    BY <1>1
  <2>2. /\ SubSeq(s, i, Len(s)) \in Seq(S)
        /\ Len(SubSeq(s, i, Len(s))) = IF i <= Len(s) THEN Len(s) - i + 1 ELSE 0
        /\ \A k \in 1 .. Len(s) - i + 1 : SubSeq(s, i, Len(s))[k] = s[i + k - 1]
    BY <1>1, <2>1, SubSeqProperties
  <2> QED
    BY <1>1, <2>2
<1>4. <<e>> \in Seq(S) /\ Len(<<e>>) = 1 /\ <<e>>[1] = e
  OBVIOUS
<1> HIDE DEF front, back
<1>5. /\ most \in Seq(S) /\ Len(most) = i
      /\ \A k \in 1 .. i : most[k] = IF k < i THEN s[k] ELSE e
  <2>1. /\ most \in Seq(S) /\ Len(most) = i - 1 + 1
        /\ \A k \in 1 .. i - 1 + 1 :
             most[k] = IF k <= i - 1 THEN front[k] ELSE <<e>>[k - (i - 1)]
    BY <1>1, <1>2, <1>4, ConcatProperties
  <2> QED
    BY <1>1, <1>2, <1>4, <2>1
<1> HIDE DEF most
<1>6. /\ most \o back \in Seq(S) /\ Len(most \o back) = Len(s) + 1
      /\ \A k \in 1 .. Len(s) + 1 : (most \o back)[k] = IF k <= i THEN most[k] ELSE back[k - i]
  BY <1>1, <1>3, <1>5, ConcatProperties
<1>7. InsertAt(s, i, e) = most \o back
  BY DEF InsertAt, front, back, most
<1>8. DOMAIN InsertAt(s, i, e) = 1 .. Len(s) + 1
  BY <1>6, <1>7, LenProperties
<1>9. ASSUME NEW k \in 1 .. Len(s) + 1
      PROVE  InsertAt(s, i, e)[k] = IF k < i THEN s[k] ELSE IF k = i THEN e ELSE s[k - 1]
  BY <1>1, <1>3, <1>5, <1>6, <1>7
<1> QED
  BY <1>6, <1>7, <1>8, <1>9

\* Removing position i keeps every element but s[i], whose other occurrences,
\* if any, remain.
LEMMA RemoveAtIn ==
  ASSUME NEW S, NEW s \in Seq(S), NEW i \in DOMAIN s
  PROVE  /\ RemoveAt(s, i) \in Seq(S)
         /\ \A x : In(RemoveAt(s, i), x) => In(s, x)
         /\ \A x : In(s, x) /\ x # s[i] => In(RemoveAt(s, i), x)
         /\ Unique(s) => Unique(RemoveAt(s, i)) /\ ~In(RemoveAt(s, i), s[i])
<1> DEFINE t == RemoveAt(s, i)
<1>1. /\ t \in Seq(S)
      /\ DOMAIN t = 1 .. Len(s) - 1
      /\ \A k \in 1 .. Len(s) - 1 : t[k] = IF k < i THEN s[k] ELSE s[k + 1]
  BY RemoveAtFacts
<1>2. Len(s) \in Nat /\ DOMAIN s = 1 .. Len(s) /\ i \in 1 .. Len(s)
  OBVIOUS
<1> HIDE DEF t
<1>3. ASSUME NEW k \in DOMAIN t
      PROVE  \E j \in DOMAIN s : j # i /\ t[k] = s[j] /\ j = IF k < i THEN k ELSE k + 1
  BY <1>1, <1>2
<1>4. ASSUME NEW x, In(t, x) PROVE In(s, x)
  BY <1>3, <1>4 DEF In
<1>5. ASSUME NEW x, In(s, x), x # s[i] PROVE In(t, x)
  <2>1. PICK j \in DOMAIN s : s[j] = x
    BY <1>5 DEF In
  <2>2. CASE j < i
    <3>1. j \in DOMAIN t /\ t[j] = s[j]
      BY <1>1, <1>2, <2>2
    <3> QED
      BY <2>1, <3>1 DEF In
  <2>3. CASE j > i
    <3>1. j - 1 \in DOMAIN t /\ t[j - 1] = s[j]
      BY <1>1, <1>2, <2>3
    <3> QED
      BY <2>1, <3>1 DEF In
  <2>4. j # i
    BY <1>5, <2>1
  <2> QED
    BY <1>2, <2>2, <2>3, <2>4
<1>6. ASSUME Unique(s) PROVE Unique(t) /\ ~In(t, s[i])
  <2>1. ASSUME NEW k \in DOMAIN t, NEW l \in DOMAIN t, t[k] = t[l] PROVE k = l
    <3>1. PICK j \in DOMAIN s : j # i /\ t[k] = s[j] /\ j = IF k < i THEN k ELSE k + 1
      BY <1>3
    <3>2. PICK m \in DOMAIN s : m # i /\ t[l] = s[m] /\ m = IF l < i THEN l ELSE l + 1
      BY <1>3
    <3>3. j = m
      BY <1>6, <2>1, <3>1, <3>2 DEF Unique
    <3> QED
      BY <1>1, <1>2, <3>1, <3>2, <3>3
  <2>2. ASSUME NEW k \in DOMAIN t PROVE t[k] # s[i]
    BY <1>2, <1>3, <1>6 DEF Unique
  <2> QED
    BY <2>1, <2>2 DEF Unique, In
<1> QED
  BY <1>1, <1>4, <1>5, <1>6 DEF t

\* Inserting e adds exactly e.
LEMMA InsertAtIn ==
  ASSUME NEW S, NEW s \in Seq(S), NEW i \in 1 .. Len(s) + 1, NEW e \in S
  PROVE  /\ InsertAt(s, i, e) \in Seq(S)
         /\ \A x : In(InsertAt(s, i, e), x) <=> In(s, x) \/ x = e
         /\ Unique(s) /\ ~In(s, e) => Unique(InsertAt(s, i, e))
<1> DEFINE t == InsertAt(s, i, e)
<1>1. /\ t \in Seq(S)
      /\ DOMAIN t = 1 .. Len(s) + 1
      /\ \A k \in 1 .. Len(s) + 1 :
           t[k] = IF k < i THEN s[k] ELSE IF k = i THEN e ELSE s[k - 1]
  BY InsertAtFacts
<1>2. Len(s) \in Nat /\ DOMAIN s = 1 .. Len(s) /\ i \in Nat
  OBVIOUS
<1> HIDE DEF t
<1>3. ASSUME NEW k \in DOMAIN t, k # i
      PROVE  \E j \in DOMAIN s : t[k] = s[j] /\ j = IF k < i THEN k ELSE k - 1
  BY <1>1, <1>2, <1>3
<1>4. i \in DOMAIN t /\ t[i] = e
  BY <1>1, <1>2
<1>5. ASSUME NEW x, In(t, x) PROVE In(s, x) \/ x = e
  BY <1>3, <1>4, <1>5 DEF In
<1>6. ASSUME NEW x, In(s, x) PROVE In(t, x)
  <2>1. PICK j \in DOMAIN s : s[j] = x
    BY <1>6 DEF In
  <2>2. CASE j < i
    <3>1. j \in DOMAIN t /\ t[j] = s[j]
      BY <1>1, <1>2, <2>2
    <3> QED
      BY <2>1, <3>1 DEF In
  <2>3. CASE ~(j < i)
    <3>1. j + 1 \in DOMAIN t /\ t[j + 1] = s[j]
      BY <1>1, <1>2, <2>3
    <3> QED
      BY <2>1, <3>1 DEF In
  <2> QED
    BY <2>2, <2>3
<1>7. ASSUME Unique(s), ~In(s, e), NEW k \in DOMAIN t, NEW l \in DOMAIN t, t[k] = t[l]
      PROVE  k = l
  <2>1. ASSUME NEW a \in DOMAIN t, a # i PROVE t[a] # e
    BY <1>3, <1>7, <2>1 DEF In
  <2>2. CASE k = i \/ l = i
    BY <1>4, <1>7, <2>1, <2>2
  <2>3. CASE k # i /\ l # i
    <3>1. PICK j \in DOMAIN s : t[k] = s[j] /\ j = IF k < i THEN k ELSE k - 1
      BY <1>3, <2>3
    <3>2. PICK m \in DOMAIN s : t[l] = s[m] /\ m = IF l < i THEN l ELSE l - 1
      BY <1>3, <2>3
    <3>3. j = m
      BY <1>7, <3>1, <3>2 DEF Unique
    <3> QED
      BY <1>1, <1>2, <2>3, <3>1, <3>2, <3>3
  <2> QED
    BY <2>2, <2>3
<1>8. \A x : In(t, x) <=> In(s, x) \/ x = e
  <2>1. In(t, e)
    BY <1>4 DEF In
  <2> QED
    BY <1>5, <1>6, <2>1
<1>9. Unique(s) /\ ~In(s, e) => Unique(t)
  BY <1>7 DEF Unique
<1> QED
  BY <1>1, <1>8, <1>9 DEF t

\* Appending e adds e and nothing else, and keeps a sequence without repeats one.
LEMMA AppendIn ==
  ASSUME NEW S, NEW s \in Seq(S), NEW e \in S
  PROVE  /\ Append(s, e) \in Seq(S)
         /\ \A x : In(Append(s, e), x) <=> In(s, x) \/ x = e
         /\ Unique(s) /\ ~In(s, e) => Unique(Append(s, e))
<1> DEFINE t == Append(s, e)
<1>1. /\ t \in Seq(S) /\ Len(t) = Len(s) + 1
      /\ \A k \in 1 .. Len(s) : t[k] = s[k]
      /\ t[Len(s) + 1] = e
  BY AppendProperties
<1>2. /\ Len(s) \in Nat /\ DOMAIN s = 1 .. Len(s)
      /\ DOMAIN t = 1 .. Len(s) + 1
  BY <1>1, LenProperties
<1> HIDE DEF t
<1>3. \A k \in DOMAIN t : (k \in DOMAIN s /\ t[k] = s[k]) \/ (k = Len(s) + 1 /\ t[k] = e)
  BY <1>1, <1>2
<1>4. \A k \in DOMAIN s : k \in DOMAIN t /\ t[k] = s[k]
  BY <1>1, <1>2
<1>5. Len(s) + 1 \in DOMAIN t
  BY <1>2
<1>6. \A x : In(t, x) <=> In(s, x) \/ x = e
  BY <1>1, <1>3, <1>4, <1>5 DEF In
<1>7. Unique(s) /\ ~In(s, e) => Unique(t)
  BY <1>3 DEF Unique, In
<1> QED
  BY <1>1, <1>6, <1>7 DEF t

\* The tail has every element but the head.
LEMMA TailIn ==
  ASSUME NEW S, NEW s \in Seq(S), s # <<>>
  PROVE  /\ Tail(s) \in Seq(S) /\ Head(s) \in S
         /\ \A x : In(s, x) => x = Head(s) \/ In(Tail(s), x)
         /\ \A x : In(Tail(s), x) => In(s, x)
<1>1. /\ Head(s) \in S /\ Tail(s) \in Seq(S) /\ Len(Tail(s)) = Len(s) - 1
      /\ \A k \in 1 .. Len(Tail(s)) : Tail(s)[k] = s[k + 1]
  BY HeadTailProperties
<1>2. Len(s) \in Nat \ {0} /\ DOMAIN s = 1 .. Len(s) /\ Head(s) = s[1]
  OBVIOUS
<1>3. DOMAIN Tail(s) = 1 .. Len(s) - 1
  BY <1>1, LenProperties
<1>4. ASSUME NEW k \in DOMAIN s, k # 1
      PROVE  k - 1 \in DOMAIN Tail(s) /\ Tail(s)[k - 1] = s[k]
  BY <1>1, <1>2, <1>3, <1>4
<1>5. ASSUME NEW k \in DOMAIN Tail(s) PROVE k + 1 \in DOMAIN s /\ Tail(s)[k] = s[k + 1]
  BY <1>1, <1>2, <1>3
<1>6. ASSUME NEW x, In(s, x) PROVE x = Head(s) \/ In(Tail(s), x)
  BY <1>2, <1>4, <1>6 DEF In
<1>7. ASSUME NEW x, In(Tail(s), x) PROVE In(s, x)
  BY <1>5, <1>7 DEF In
<1> QED
  BY <1>1, <1>6, <1>7

\* Putting an element in front adds exactly that element.
LEMMA ConsIn ==
  ASSUME NEW S, NEW s \in Seq(S), NEW e \in S
  PROVE  /\ <<e>> \o s \in Seq(S)
         /\ \A x : In(<<e>> \o s, x) <=> In(s, x) \/ x = e
         /\ Unique(s) /\ ~In(s, e) => Unique(<<e>> \o s)
<1> DEFINE t == <<e>> \o s
<1>1. <<e>> \in Seq(S) /\ Len(<<e>>) = 1 /\ <<e>>[1] = e
  OBVIOUS
<1>2. /\ t \in Seq(S) /\ Len(t) = 1 + Len(s)
      /\ \A k \in 1 .. 1 + Len(s) : t[k] = IF k <= 1 THEN <<e>>[k] ELSE s[k - 1]
  BY <1>1, ConcatProperties
<1>3. /\ Len(s) \in Nat /\ DOMAIN s = 1 .. Len(s)
      /\ DOMAIN t = 1 .. 1 + Len(s)
  BY <1>2, LenProperties
<1> HIDE DEF t
<1>4. \A k \in DOMAIN t : (k = 1 /\ t[k] = e) \/ (k # 1 /\ k - 1 \in DOMAIN s /\ t[k] = s[k - 1])
  BY <1>1, <1>2, <1>3
<1>5. \A k \in DOMAIN s : k + 1 \in DOMAIN t /\ t[k + 1] = s[k]
  BY <1>2, <1>3
<1>6. 1 \in DOMAIN t /\ t[1] = e
  BY <1>1, <1>2, <1>3
<1>7. \A x : In(t, x) <=> In(s, x) \/ x = e
  BY <1>4, <1>5, <1>6 DEF In
<1>8. ASSUME Unique(s), ~In(s, e), NEW k \in DOMAIN t, NEW l \in DOMAIN t, t[k] = t[l]
      PROVE  k = l
  <2>1. CASE k = 1 \/ l = 1
    BY <1>4, <1>8, <2>1 DEF In
  <2>2. CASE k # 1 /\ l # 1
    <3>1. k - 1 = l - 1
      BY <1>4, <1>8, <2>2 DEF Unique
    <3> QED
      BY <1>3, <3>1
  <2> QED
    BY <2>1, <2>2
<1>9. Unique(s) /\ ~In(s, e) => Unique(t)
  BY <1>8 DEF Unique
<1> QED
  BY <1>2, <1>7, <1>9 DEF t

(* The queue and the clock *)

\* Taking x out of the queue or the clock (unqueueLocked, a pause that ends) loses nothing else.
LEMMA WithoutFacts ==
  ASSUME NEW S, NEW s \in Seq(S), NEW x
  PROVE  /\ Without(s, x) \in Seq(S)
         /\ \A y : In(Without(s, x), y) => In(s, y)
         /\ \A y : In(s, y) /\ y # x => In(Without(s, x), y)
         /\ Unique(s) => Unique(Without(s, x)) /\ ~In(Without(s, x), x)
<1> DEFINE at == {i \in DOMAIN s : s[i] = x}
<1>1. CASE at = {}
  <2>1. Without(s, x) = s
    BY <1>1 DEF Without
  <2> QED
    BY <1>1, <2>1 DEF In
<1>2. CASE at # {}
  <2> DEFINE i == CHOOSE i \in at : TRUE
  <2>1. i \in DOMAIN s /\ s[i] = x
    BY <1>2
  <2>2. Without(s, x) = RemoveAt(s, i)
    BY <1>2 DEF Without
  <2> HIDE DEF i
  <2> QED
    BY <2>1, <2>2, RemoveAtIn
<1> QED
  BY <1>1, <1>2

\* A holder that starts a pause takes its place on the clock; nothing else
\* leaves it.
LEMMA RestFacts ==
  ASSUME TypeOK, NEW h \in Holders, Rest(h)
  PROVE  /\ clock' \in Seq(Holders \cup {Timer})
         /\ TimerArmed => TimerArmed'
<1> DEFINE others == Without(clock, h)
<1>1. clock \in Seq(Holders \cup {Timer}) /\ h # Timer
  BY PlanAssumption DEF TypeOK
<1>2. others \in Seq(Holders \cup {Timer}) /\ (In(clock, Timer) => In(others, Timer))
  BY <1>1, WithoutFacts
<1>3. PICK i \in 1 .. Len(others) + 1 : clock' = InsertAt(others, i, h)
  BY DEF Rest
<1> HIDE DEF others
<1>4. clock' \in Seq(Holders \cup {Timer}) /\ (In(others, Timer) => In(clock', Timer))
  BY <1>2, <1>3, InsertAtIn
<1> QED
  BY <1>2, <1>4 DEF TimerArmed, In

\* Where the watermark stops: at the first chunk not delivered.
LEMMA WatermarkFacts ==
  ASSUME watermark \in 0 .. NumChunks, NEW d
  PROVE  /\ WatermarkOf(d) \in watermark .. NumChunks
         /\ watermark .. WatermarkOf(d) - 1 \subseteq d
         /\ WatermarkOf(d) = NumChunks \/ WatermarkOf(d) \notin d
<1> DEFINE Stops == {m \in watermark .. NumChunks : m = NumChunks \/ m \notin d}
<1>1. NumChunks \in Nat \ {0}
  BY PlanAssumption
<1>2. Stops \subseteq 0 .. NumChunks /\ Stops # {}
  BY <1>1
<1>3. PICK m \in Stops : \A k \in Stops : m <= k
  <2> HIDE DEF Stops
  <2> QED
    BY <1>1, <1>2, LeastElement
<1>4. watermark .. m - 1 \subseteq d
  BY <1>1, <1>3
<1> QED
  BY <1>3, <1>4 DEF WatermarkOf

\* The timer's place is just behind the first awaited holder.
LEMMA ArmFacts ==
  ASSUME TypeOK, ArmBackoff
  PROVE  /\ clock' \in Seq(Holders \cup {Timer})
         /\ Awaited # {} \/ TimerArmed => TimerArmed'
<1> DEFINE due == {i \in DOMAIN clock : clock[i] \in Awaited}
<1>1. clock \in Seq(Holders \cup {Timer})
  BY DEF TypeOK
<1>2. CASE Awaited = {} \/ TimerArmed
  BY <1>1, <1>2 DEF ArmBackoff, TimerArmed
<1>3. CASE ~(Awaited = {} \/ TimerArmed)
  <2> DEFINE First(i) == clock[i] \in Awaited /\ \A j \in 1 .. i - 1 : clock[j] \notin Awaited
             at == CHOOSE i \in DOMAIN clock : First(i)
  <2>1. Len(clock) \in Nat /\ DOMAIN clock = 1 .. Len(clock)
    BY <1>1
  <2>2. due # {} /\ due \subseteq 0 .. Len(clock)
    BY <1>3, <2>1 DEF Awaited, Resting
  <2>3. PICK m \in due : \A k \in due : m <= k
    <3> HIDE DEF due
    <3> QED
      BY <2>1, <2>2, LeastElement
  <2>4. \E i \in DOMAIN clock : First(i)
    BY <2>1, <2>3
  <2>5. at \in DOMAIN clock
    BY <2>4
  <2>6. clock' = InsertAt(clock, at + 1, Timer)
    BY <1>3 DEF ArmBackoff
  <2> HIDE DEF at
  <2>7. at + 1 \in 1 .. Len(clock) + 1
    BY <2>1, <2>5
  <2>8. clock' \in Seq(Holders \cup {Timer}) /\ In(clock', Timer)
    BY <1>1, <2>6, <2>7, InsertAtIn, SMTT(60)
  <2> QED
    BY <2>8 DEF TimerArmed, In
<1> QED
  BY <1>2, <1>3

\* Whatever Match returns is a position of the queue and an askable holder.
LEMMA MatchFacts ==
  ASSUME TypeOK, NEW m \in Match
  PROVE  m[1] \in DOMAIN pending /\ m[2] \in Askable
<1>1. pending \in Seq(Chunks) /\ Len(pending) \in Nat /\ DOMAIN pending = 1 .. Len(pending)
  BY DEF TypeOK
<1> DEFINE Serves(h, i) == CanServe(h, pending[i])
           able == {h \in Askable : \E i \in DOMAIN pending : Serves(h, i)}
<1>2. pending # <<>>
  BY DEF Match
<1>3. 1 \in DOMAIN pending
  BY <1>1, <1>2
<1>4. CASE able = {}
  BY <1>2, <1>3, <1>4 DEF Match, Best
<1>5. CASE able # {}
  <2>1. PICK h \in Best(able) : m = <<FirstServable(h), h>>
    BY <1>2, <1>5 DEF Match
  <2>2. h \in able
    BY <2>1 DEF Best
  <2> DEFINE fit == {i \in DOMAIN pending : Serves(h, i)}
  <2>3. fit # {} /\ fit \subseteq 0 .. Len(pending)
    BY <1>1, <2>2
  <2>4. PICK i \in fit : \A k \in fit : i <= k
    <3> HIDE DEF fit
    <3> QED
      BY <1>1, <2>3, LeastElement
  <2>5. \E j \in DOMAIN pending : Serves(h, j) /\ \A k \in 1 .. j - 1 : ~Serves(h, k)
    BY <1>1, <2>4
  <2>6. FirstServable(h) \in DOMAIN pending
    BY <2>5 DEF FirstServable
  <2> QED
    BY <2>1, <2>2, <2>6
<1> QED
  BY <1>4, <1>5

------------------------------------------------------------------------------
(* Type correctness *)

\* What PlanAssumption gives the proofs below.
LEMMA ConstantFacts ==
  /\ NumChunks \in Nat \ {0} /\ 0 \in Chunks
  /\ ChunkBytes \in [Chunks -> Nat \ {0}]
  /\ FirstHolder \in Holders /\ Prefetch \in Procs
  /\ None \notin Holders
BY PlanAssumption DEF Chunks, Procs

\* The two outcomes a step may leave the plan with.
LEMMA AbortType ==
  ASSUME TypeOK, NEW why \in Reasons, Abort(why) \/ UNCHANGED outcomeVars
  PROVE  aborted' \in BOOLEAN /\ err' \in Reasons
BY DEF TypeOK, Abort, outcomeVars

\* landedLocked keeps the types of the flight table and of the charges.
LEMMA LandedType ==
  ASSUME TypeOK, NEW c \in Chunks, NEW h \in Holders, NEW won \in BOOLEAN, Landed(c, h, won)
  PROVE  /\ flight' \in [Chunks -> SUBSET Holders] /\ wanted' \subseteq Chunks
         /\ inFlight' \in Int
         /\ reqs' \in [Holders -> Nat] /\ load' \in [Holders -> Nat]
<1>1. ChunkBytes[c] \in Nat
  BY ConstantFacts
<1>2. flight' \in [Chunks -> SUBSET Holders] /\ wanted' \subseteq Chunks /\ inFlight' \in Int
  BY DEF TypeOK, Landed
<1>3. NotBelowZero(reqs[h] - 1) \in Nat /\ NotBelowZero(load[h] - ChunkBytes[c]) \in Nat
  BY <1>1, SMTT(60) DEF TypeOK, NotBelowZero
<1> QED
  BY <1>2, <1>3 DEF TypeOK, Landed

\* A broadcast moves sleepers to take() and nobody into a fetch.
LEMMA BroadcastType ==
  ASSUME TypeOK, NEW w, NEW next \in {"take", "publish", "exit"}, Broadcast(w, next)
  PROVE  /\ pc' \in [Procs -> {"take", "wait", "fetch", "publish", "exit"}]
         /\ \A p \in Procs \ {w} : pc'[p] \in {"fetch", "publish"} => pc[p] = pc'[p]
         /\ w \in Procs => pc'[w] = next
BY DEF TypeOK, Broadcast

\* The end of fail() keeps the types of the queue and of the outcome.
LEMMA SettleType ==
  ASSUME TypeOK, NEW c \in Chunks, NEW suspect \in BOOLEAN, NEW why \in Reasons,
         SettleFailure(c, suspect, why)
  PROVE  /\ pending' \in Seq(Chunks)
         /\ aborted' \in BOOLEAN /\ err' \in Reasons
<1>1. "suspect" \in Reasons /\ "attempts" \in Reasons /\ "none" \in Reasons
  BY DEF Reasons
<1>2. aborted' \in BOOLEAN /\ err' \in Reasons
  BY <1>1 DEF SettleFailure, Abort, outcomeVars, TypeOK
<1>3. pending' \in Seq(Chunks)
  BY AppendProperties DEF SettleFailure, TypeOK
<1> QED
  BY <1>2, <1>3

\* The part every failure has in common.
LEMMA FailType ==
  ASSUME TypeOK, NEW w \in Procs, NEW spend \in {0, 1}, FailCommon(w, spend)
  PROVE  /\ job[w].chunk \in Chunks /\ job[w].holder \in Holders
         /\ flight' \in [Chunks -> SUBSET Holders] /\ wanted' \subseteq Chunks
         /\ inFlight' \in Int
         /\ reqs' \in [Holders -> Nat] /\ load' \in [Holders -> Nat]
         /\ attempts' \in [Chunks -> Nat]
         /\ pc' \in [Procs -> {"take", "wait", "fetch", "publish", "exit"}]
         /\ job' \in [Procs -> Attempt \cup {None}]
         /\ \A p \in Procs : pc'[p] \in {"fetch", "publish"} => job'[p] \in Attempt
<1>1. job[w] \in Attempt /\ job[w].chunk \in Chunks /\ job[w].holder \in Holders
  BY DEF TypeOK, FailCommon, Attempt
<1>2. Landed(job[w].chunk, job[w].holder, FALSE)
  BY DEF FailCommon
<1>3. AfterAnswer(w) \in {"take", "publish", "exit"} /\ AfterAnswer(w) \notin {"fetch", "publish"}
  BY DEF AfterAnswer
<1>4. Broadcast(w, AfterAnswer(w))
  BY DEF FailCommon
<1>5. attempts' \in [Chunks -> Nat]
  BY <1>1 DEF TypeOK, FailCommon
<1>6. job' = [job EXCEPT ![w] = None]
  BY DEF FailCommon
<1> QED
  BY <1>1, <1>2, <1>3, <1>4, <1>5, <1>6, LandedType, BroadcastType, ZenonT(60) DEF TypeOK

\* A plan starts well typed, with or without an adopted speculative fetch.
LEMMA TypeInit == Init => TypeOK
<1> SUFFICES ASSUME Init PROVE TypeOK
  OBVIOUS
<1>1. PICK adopted \in BOOLEAN :
        /\ pending = [i \in 1 .. NumChunks - (IF adopted THEN 1 ELSE 0) |->
                       IF adopted THEN i ELSE i - 1]
        /\ flight = [c \in Chunks |-> IF adopted /\ c = 0 THEN {FirstHolder} ELSE {}]
        /\ inFlight = IF adopted THEN 1 ELSE 0
        /\ reqs = [h \in Holders |-> IF adopted /\ h = FirstHolder THEN 1 ELSE 0]
        /\ load = [h \in Holders |-> IF adopted /\ h = FirstHolder THEN ChunkBytes[0] ELSE 0]
        /\ tried = IF adopted THEN {FirstHolder} ELSE {}
        /\ pc = [p \in Procs |-> IF p # Prefetch THEN "take"
                                   ELSE IF adopted THEN "fetch" ELSE "exit"]
        /\ job = [p \in Procs |-> IF p = Prefetch /\ adopted
                     THEN [chunk |-> 0, holder |-> FirstHolder, mark |-> 0] ELSE None]
  BY DEF Init
<1>2. pending \in Seq(Chunks)
  <2> DEFINE n == NumChunks - (IF adopted THEN 1 ELSE 0)
  <2>1. n \in Nat /\ n <= NumChunks /\ (adopted => n <= NumChunks - 1)
    BY ConstantFacts
  <2>2. \A i \in 1 .. n : (IF adopted THEN i ELSE i - 1) \in Chunks
    BY <2>1, ConstantFacts DEF Chunks
  <2>3. pending = [i \in 1 .. n |-> IF adopted THEN i ELSE i - 1]
    BY <1>1
  <2> HIDE DEF n
  <2>4. pending \in [1 .. n -> Chunks]
    BY <2>2, <2>3
  <2> QED
    BY <2>1, <2>4, SeqDef
<1>3. [chunk |-> 0, holder |-> FirstHolder, mark |-> 0] \in Attempt
  BY ConstantFacts DEF Attempt
<1>4. /\ pc \in [Procs -> {"take", "wait", "fetch", "publish", "exit"}]
      /\ job \in [Procs -> Attempt \cup {None}]
      /\ \A p \in Procs : pc[p] \in {"fetch", "publish"} => job[p] \in Attempt
  BY <1>1, <1>3
<1>5. /\ flight \in [Chunks -> SUBSET Holders] /\ inFlight \in Int /\ tried \subseteq Holders
      /\ reqs \in [Holders -> Nat] /\ load \in [Holders -> Nat]
  BY <1>1, ConstantFacts
<1>6. /\ done \subseteq Chunks /\ remaining \in Int /\ watermark \in 0 .. NumChunks
      /\ wanted \subseteq Chunks /\ attempts \in [Chunks -> Nat]
      /\ aborted \in BOOLEAN /\ err \in Reasons
  <2>1. /\ done = {} /\ remaining = NumChunks /\ watermark = 0 /\ wanted = {}
        /\ attempts = [c \in Chunks |-> 0] /\ aborted = FALSE /\ err = "none"
    BY DEF Init
  <2>2. remaining \in Int /\ watermark \in 0 .. NumChunks
    BY <2>1, ConstantFacts
  <2>3. attempts \in [Chunks -> Nat]
    BY <2>1
  <2> QED
    BY <2>1, <2>2, <2>3 DEF Reasons
<1>7. /\ dead \subseteq Holders /\ fails \in [Holders -> Nat]
      /\ have \in [Holders -> SUBSET Chunks] /\ lacks \in [Holders -> SUBSET Chunks]
      /\ corruptFrom \subseteq Holders /\ firstCorrupt \in Holders \cup {None}
  BY DEF Init
<1>8. /\ clock \in Seq(Holders \cup {Timer}) /\ overdue \in BOOLEAN /\ cancelled \in BOOLEAN
      /\ probing \subseteq Holders /\ chunkOK \subseteq Chunks /\ progress \in 0 .. NumChunks
  <2>1. /\ clock = <<>> /\ overdue = FALSE /\ cancelled = FALSE /\ probing = Holders
        /\ chunkOK = {} /\ progress = 0
    BY DEF Init
  <2> QED
    BY <2>1, ConstantFacts
<1> QED
  BY <1>2, <1>4, <1>5, <1>6, <1>7, <1>8 DEF TypeOK

\* dispatchLocked keeps every type.
LEMMA DispatchType ==
  ASSUME TypeOK, NEW w \in Procs, NEW c \in Chunks, NEW h \in Holders, Dispatch(w, c, h),
         pending' \in Seq(Chunks)
  PROVE  TypeOK'
<1>1. ChunkBytes[c] \in Nat
  BY ConstantFacts
<1>2. [chunk |-> c, holder |-> h, mark |-> 0] \in Attempt
  BY ConstantFacts DEF Attempt
<1>3. /\ inFlight' \in Int /\ flight' \in [Chunks -> SUBSET Holders]
      /\ reqs' \in [Holders -> Nat] /\ load' \in [Holders -> Nat] /\ tried' \subseteq Holders
  <2>1. inFlight' \in Int /\ tried' \subseteq Holders
    BY DEF TypeOK, Dispatch
  <2>2. flight' \in [Chunks -> SUBSET Holders]
    BY DEF TypeOK, Dispatch
  <2>3. reqs' \in [Holders -> Nat]
    BY DEF TypeOK, Dispatch
  <2>4. load' \in [Holders -> Nat]
    BY <1>1, SMTT(60) DEF TypeOK, Dispatch
  <2> QED
    BY <2>1, <2>2, <2>3, <2>4
<1>4. /\ pc' \in [Procs -> {"take", "wait", "fetch", "publish", "exit"}]
      /\ job' \in [Procs -> Attempt \cup {None}]
      /\ \A p \in Procs : pc'[p] \in {"fetch", "publish"} => job'[p] \in Attempt
  BY <1>2 DEF TypeOK, Dispatch
<1> QED
  BY <1>3, <1>4 DEF TypeOK, Dispatch, outcomeVars, timeVars, readVars

\* What hedgeLocked checks before it names a holder.
LEMMA HedgeFacts ==
  ASSUME NEW c, NEW h \in Hedge(c)
  PROVE  h \in Holders /\ h \in Askable /\ h \notin flight[c]
         /\ c \notin done /\ flight[c] # {} /\ ~(Cardinality(flight[c]) >= MaxChunkCopies)
BY DEF Hedge, Best, Askable, Live

\* take() keeps every type.
LEMMA TypeTake ==
  ASSUME TypeOK, NEW w \in Procs, Take(w)
  PROVE  TypeOK'
<1>1. CASE TakeStops(w)
  <2>1. aborted' \in BOOLEAN /\ err' \in Reasons
    BY <1>1, AbortType DEF TakeStops, Reasons
  <2>2. /\ pc' \in [Procs -> {"take", "wait", "fetch", "publish", "exit"}]
        /\ \A p \in Procs : pc'[p] \in {"fetch", "publish"} => job'[p] \in Attempt
    BY <1>1 DEF TakeStops, TypeOK
  <2> QED
    BY <1>1, <2>1, <2>2 DEF TakeStops, TypeOK, queueVars, holderVars, timeVars, readVars
<1>2. CASE TakeWanted(w)
  <2>1. PICK c \in wanted : \E h \in Hedge(c) : Dispatch(w, c, h)
    BY <1>2 DEF TakeWanted
  <2>2. PICK h \in Hedge(c) : Dispatch(w, c, h)
    BY <2>1
  <2>3. c \in Chunks /\ h \in Holders /\ pending' \in Seq(Chunks)
    BY <1>2, <2>2, HedgeFacts DEF TypeOK, TakeWanted
  <2> QED
    BY <2>2, <2>3, DispatchType
<1>3. CASE TakePending(w)
  <2>1. PICK m \in Match : /\ Dispatch(w, pending[m[1]], m[2])
                           /\ pending' = RemoveAt(pending, m[1])
    BY <1>3 DEF TakePending
  <2>2. m[1] \in DOMAIN pending /\ m[2] \in Holders
    BY MatchFacts DEF Askable, Live
  <2>3. pending \in Seq(Chunks) /\ pending[m[1]] \in Chunks
    BY <2>2 DEF TypeOK
  <2>4. pending' \in Seq(Chunks)
    BY <2>1, <2>2, <2>3, RemoveAtIn
  <2> QED
    BY <2>1, <2>2, <2>3, <2>4, DispatchType
<1>4. CASE TakeEndgame(w)
  <2>1. PICK c \in Chunks : \E h \in Hedge(c) : Dispatch(w, c, h)
    BY <1>4 DEF TakeEndgame
  <2>2. PICK h \in Hedge(c) : Dispatch(w, c, h)
    BY <2>1
  <2>3. h \in Holders /\ pending' \in Seq(Chunks)
    BY <1>4, <2>2, HedgeFacts DEF TypeOK, TakeEndgame
  <2> QED
    BY <2>2, <2>3, DispatchType
<1>5. CASE TakeIdles(w)
  <2>1. clock' \in Seq(Holders \cup {Timer})
    BY <1>5, ArmFacts DEF TakeIdles
  <2>2. aborted' \in BOOLEAN /\ err' \in Reasons
    BY <1>5, AbortType DEF TakeIdles, Reasons
  <2>3. /\ pc' \in [Procs -> {"take", "wait", "fetch", "publish", "exit"}]
        /\ \A p \in Procs : pc'[p] \in {"fetch", "publish"} => job'[p] \in Attempt
    BY <1>5 DEF TakeIdles, TypeOK
  <2> QED
    BY <1>5, <2>1, <2>2, <2>3 DEF TakeIdles, TypeOK, queueVars, holderVars, readVars
<1> QED
  BY <1>1, <1>2, <1>3, <1>4, <1>5 DEF Take

\* succeed() and fail() keep every type.
LEMMA TypeAnswer ==
  ASSUME TypeOK, NEW w \in Procs, Answer(w)
  PROVE  TypeOK'
<1> DEFINE c == job[w].chunk
           h == job[w].holder
<1>0. job[w] \in Attempt /\ c \in Chunks /\ h \in Holders
  BY DEF TypeOK, Answer, Succeed, FailLost, FailCorrupt, FailAbsent, FailBusy, FailTransient,
         FailCommon, Attempt
<1>1. CASE Succeed(w)
  <2>1. Landed(c, h, c \notin done) /\ Broadcast(w, "publish")
    BY <1>1 DEF Succeed
  <2>2. /\ flight' \in [Chunks -> SUBSET Holders] /\ wanted' \subseteq Chunks
        /\ inFlight' \in Int
        /\ reqs' \in [Holders -> Nat] /\ load' \in [Holders -> Nat]
    BY <1>0, <2>1, LandedType
  <2>3. watermark' \in 0 .. NumChunks
    <3>1. watermark' = WatermarkOf(done')
      BY <1>1 DEF Succeed
    <3>2. watermark \in 0 .. NumChunks
      BY DEF TypeOK
    <3> QED
      BY <3>1, <3>2, WatermarkFacts, ConstantFacts
  <2>4. job' = [job EXCEPT ![w].mark = watermark']
    BY <1>1 DEF Succeed
  <2>5. job'[w] \in Attempt
    <3>1. job'[w] = [job[w] EXCEPT !.mark = watermark']
      BY <2>4 DEF TypeOK
    <3> QED
      BY <1>0, <2>3, <3>1 DEF Attempt
  <2>6. /\ job' \in [Procs -> Attempt \cup {None}]
        /\ \A p \in Procs \ {w} : job'[p] = job[p]
    BY <2>4, <2>5 DEF TypeOK
  <2>7. /\ pc' \in [Procs -> {"take", "wait", "fetch", "publish", "exit"}]
        /\ \A p \in Procs : pc'[p] \in {"fetch", "publish"} => job'[p] \in Attempt
    BY <2>1, <2>5, <2>6, BroadcastType DEF TypeOK
  <2>8. clock' \in Seq(Holders \cup {Timer})
    <3>1. clock' = Without(clock, h) /\ clock \in Seq(Holders \cup {Timer})
      BY <1>1 DEF Succeed, TypeOK
    <3> QED
      BY <3>1, WithoutFacts
  <2>9. /\ done' \subseteq Chunks /\ remaining' \in Int /\ overdue' \in BOOLEAN
        /\ fails' \in [Holders -> Nat]
    <3>1. fails' \in [Holders -> Nat]
      BY <1>0, <1>1 DEF Succeed, TypeOK
    <3>2. done' \subseteq Chunks
      BY <1>0, <1>1 DEF Succeed, TypeOK
    <3>3. remaining' = IF c \notin done THEN remaining - 1 ELSE remaining
      BY <1>1 DEF Succeed
    <3>4. remaining' \in Int
      BY <3>3 DEF TypeOK
    <3>5. overdue' = FALSE \/ overdue' = overdue
      BY <1>1 DEF Succeed
    <3>6. overdue' \in BOOLEAN
      BY <3>5 DEF TypeOK
    <3> QED
      BY <3>1, <3>2, <3>4, <3>6
  <2> QED
    BY <1>1, <2>2, <2>3, <2>6, <2>7, <2>8, <2>9 DEF Succeed, TypeOK, outcomeVars, readVars
<1>2. CASE FailLost(w)
  <2>1. AfterAnswer(w) \in {"take", "publish", "exit"} /\ AfterAnswer(w) \notin {"fetch", "publish"}
    BY DEF AfterAnswer
  <2>2. Landed(c, h, FALSE) /\ Broadcast(w, AfterAnswer(w)) /\ job' = [job EXCEPT ![w] = None]
    BY <1>2 DEF FailLost
  <2>3. /\ flight' \in [Chunks -> SUBSET Holders] /\ wanted' \subseteq Chunks
        /\ inFlight' \in Int
        /\ reqs' \in [Holders -> Nat] /\ load' \in [Holders -> Nat]
    BY <1>0, <2>2, LandedType
  <2>4. /\ pc' \in [Procs -> {"take", "wait", "fetch", "publish", "exit"}]
        /\ job' \in [Procs -> Attempt \cup {None}]
        /\ \A p \in Procs : pc'[p] \in {"fetch", "publish"} => job'[p] \in Attempt
    BY <2>1, <2>2, BroadcastType DEF TypeOK
  <2> QED
    BY <1>2, <2>3, <2>4 DEF FailLost, TypeOK, outcomeVars, timeVars, readVars
<1>3. CASE FailCorrupt(w)
  <2> DEFINE suspect == corruptFrom \cup {h} # {h}
  <2>1. FailCommon(w, 1) /\ SettleFailure(c, suspect, "corrupt")
    BY <1>3 DEF FailCorrupt
  <2>2. /\ dead' \subseteq Holders /\ corruptFrom' \subseteq Holders
        /\ firstCorrupt' \in Holders \cup {None}
        /\ UNCHANGED <<fails, lacks, clock>>
    BY <1>0, <1>3 DEF FailCorrupt, TypeOK
  <2>3. /\ pending' \in Seq(Chunks) /\ aborted' \in BOOLEAN /\ err' \in Reasons
    BY <1>0, <2>1, SettleType DEF Reasons
  <2> HIDE DEF c, h, suspect
  <2> QED
    BY <2>1, <2>2, <2>3, FailType DEF FailCommon, TypeOK, readVars
<1>4. CASE FailAbsent(w)
  <2>1. FailCommon(w, 1) /\ SettleFailure(c, FALSE, "absent")
    BY <1>4 DEF FailAbsent
  <2>2. /\ lacks' \in [Holders -> SUBSET Chunks]
        /\ UNCHANGED <<dead, fails, corruptFrom, firstCorrupt, clock>>
    BY <1>0, <1>4 DEF FailAbsent, TypeOK
  <2>3. /\ pending' \in Seq(Chunks) /\ aborted' \in BOOLEAN /\ err' \in Reasons
    BY <1>0, <2>1, SettleType DEF Reasons
  <2> HIDE DEF c, h
  <2> QED
    BY <2>1, <2>2, <2>3, FailType DEF FailCommon, TypeOK, readVars
<1>5. CASE FailBusy(w)
  <2>1. FailCommon(w, 0) /\ SettleFailure(c, FALSE, "busy") /\ Rest(h)
    BY <1>5 DEF FailBusy
  <2>2. UNCHANGED <<dead, fails, lacks, corruptFrom, firstCorrupt>>
    BY <1>5 DEF FailBusy
  <2>3. /\ pending' \in Seq(Chunks) /\ aborted' \in BOOLEAN /\ err' \in Reasons
    BY <1>0, <2>1, SettleType DEF Reasons
  <2>4. clock' \in Seq(Holders \cup {Timer})
    BY <1>0, <2>1, RestFacts
  <2> HIDE DEF c, h
  <2> QED
    BY <2>1, <2>2, <2>3, <2>4, FailType DEF FailCommon, TypeOK, readVars
<1>6. CASE FailTransient(w)
  <2>1. FailCommon(w, 1) /\ SettleFailure(c, FALSE, "transient") /\ Rest(h)
    BY <1>6 DEF FailTransient
  <2>2. /\ fails' \in [Holders -> Nat] /\ dead' \subseteq Holders
        /\ UNCHANGED <<lacks, corruptFrom, firstCorrupt>>
    BY <1>0, <1>6, SMTT(60) DEF FailTransient, TypeOK
  <2>3. /\ pending' \in Seq(Chunks) /\ aborted' \in BOOLEAN /\ err' \in Reasons
    BY <1>0, <2>1, SettleType DEF Reasons
  <2>4. clock' \in Seq(Holders \cup {Timer})
    BY <1>0, <2>1, RestFacts
  <2> HIDE DEF c, h
  <2> QED
    BY <2>1, <2>2, <2>3, <2>4, FailType DEF FailCommon, TypeOK, readVars
<1> QED
  BY <1>1, <1>2, <1>3, <1>4, <1>5, <1>6 DEF Answer

\* chunkDone keeps every type.
LEMMA TypePublish ==
  ASSUME TypeOK, NEW w \in Procs, Publish(w)
  PROVE  TypeOK'
<1>1. job[w] \in Attempt /\ job[w].chunk \in Chunks /\ job[w].mark \in 0 .. NumChunks
  BY DEF TypeOK, Publish, Attempt
<1>2. chunkOK' \subseteq Chunks /\ progress' \in 0 .. NumChunks
  BY <1>1 DEF TypeOK, Publish
<1>3. AfterAnswer(w) \in {"take", "exit"}
  BY DEF AfterAnswer
<1>4. /\ pc' \in [Procs -> {"take", "wait", "fetch", "publish", "exit"}]
      /\ job' \in [Procs -> Attempt \cup {None}]
      /\ \A p \in Procs : pc'[p] \in {"fetch", "publish"} => job'[p] \in Attempt
  BY <1>3 DEF TypeOK, Publish
<1> QED
  BY <1>2, <1>4 DEF TypeOK, Publish, queueVars, outcomeVars, holderVars, timeVars

\* prioritize keeps every type.
LEMMA TypeReader ==
  ASSUME TypeOK, NEW c \in Chunks, Prioritize(c)
  PROVE  TypeOK'
<1>1. pending' \in Seq(Chunks) /\ wanted' \subseteq Chunks
  <2>1. pending \in Seq(Chunks) /\ wanted \subseteq Chunks
    BY DEF TypeOK
  <2>2. Without(pending, c) \in Seq(Chunks)
    BY <2>1, WithoutFacts
  <2>3. <<c>> \o Without(pending, c) \in Seq(Chunks)
    BY <2>2, ConsIn
  <2> QED
    BY <2>1, <2>3 DEF Prioritize
<1>2. Broadcast(None, "take")
  BY DEF Prioritize
<1>3. /\ pc' \in [Procs -> {"take", "wait", "fetch", "publish", "exit"}]
      /\ \A p \in Procs : pc'[p] \in {"fetch", "publish"} => pc'[p] = pc[p]
  BY <1>2 DEF Broadcast, TypeOK
<1> QED
  BY <1>1, <1>3 DEF Prioritize, TypeOK, outcomeVars, holderVars, timeVars, readVars

\* setCoverage and probeUnanswered keep every type.
LEMMA TypeProbe ==
  ASSUME TypeOK, NEW h \in Holders, SetCoverage(h) \/ ProbeUnanswered(h)
  PROVE  TypeOK'
<1>1. CASE SetCoverage(h)
  <2>1. have' \in [Holders -> SUBSET Chunks] /\ lacks' \in [Holders -> SUBSET Chunks]
        /\ probing' \subseteq Holders
    BY <1>1, PlanAssumption, SMTT(60) DEF SetCoverage, TypeOK, Chunks
  <2>2. Broadcast(None, "take")
    BY <1>1 DEF SetCoverage
  <2>3. /\ pc' \in [Procs -> {"take", "wait", "fetch", "publish", "exit"}]
        /\ \A p \in Procs : pc'[p] \in {"fetch", "publish"} => pc'[p] = pc[p]
    BY <2>2 DEF Broadcast, TypeOK
  <2> QED
    BY <1>1, <2>1, <2>3 DEF SetCoverage, TypeOK, queueVars, outcomeVars, readVars
<1>2. CASE ProbeUnanswered(h)
  <2>1. clock' \in Seq(Holders \cup {Timer})
    BY <1>2, RestFacts DEF ProbeUnanswered
  <2> QED
    BY <1>2, <2>1
    DEF ProbeUnanswered, TypeOK, queueVars, outcomeVars, holderVars, procVars, readVars
<1> QED
  BY <1>1, <1>2

\* Time, patience and cancellation keep every type.
LEMMA TypeTime ==
  ASSUME TypeOK, ClockTick \/ PatienceElapses \/ Abandon \/ UNCHANGED vars
  PROVE  TypeOK'
<1>1. CASE ClockTick
  <2>1. clock' \in Seq(Holders \cup {Timer})
    BY <1>1, TailIn DEF ClockTick, TypeOK
  <2>2. /\ pc' \in [Procs -> {"take", "wait", "fetch", "publish", "exit"}]
        /\ \A p \in Procs : pc'[p] \in {"fetch", "publish"} => pc'[p] = pc[p]
    BY <1>1 DEF ClockTick, Broadcast, TypeOK
  <2> QED
    BY <1>1, <2>1, <2>2 DEF ClockTick, TypeOK, queueVars, outcomeVars, holderVars, readVars
<1>2. CASE PatienceElapses
  BY <1>2 DEF PatienceElapses, TypeOK, queueVars, outcomeVars, holderVars, procVars, readVars
<1>3. CASE Abandon
  BY <1>3 DEF Abandon, TypeOK, queueVars, outcomeVars, holderVars, procVars, readVars
<1>4. CASE UNCHANGED vars
  BY <1>4 DEF TypeOK, vars, queueVars, outcomeVars, holderVars, timeVars, procVars, readVars
<1> QED
  BY <1>1, <1>2, <1>3, <1>4

\* The state of the scheduler is always well-typed.
THEOREM TypeCorrect == Spec => []TypeOK
<1>1. TypeOK /\ [Next]_vars => TypeOK'
  BY TypeTake, TypeAnswer, TypePublish, TypeReader, TypeProbe, TypeTime DEF Next, Step, Terminated
<1> QED
  BY <1>1, TypeInit, PTL DEF Spec

------------------------------------------------------------------------------
(* How a step changes who is fetching what *)

Adds(w, c, h) ==
  /\ w \in Procs /\ w \notin Fetching /\ Fetching' = Fetching \cup {w}
  /\ job'[w].chunk = c /\ job'[w].holder = h
  /\ \A p \in Fetching : job'[p] = job[p]

Drops(w) ==
  /\ w \in Fetching /\ Fetching' = Fetching \ {w}
  /\ \A p \in Fetching \ {w} : job'[p] = job[p]

Keeps == Fetching' = Fetching /\ \A p \in Fetching : job'[p] = job[p]

\* A broadcast moves sleepers, and moves w out of its fetch.
LEMMA BroadcastDrops ==
  ASSUME TypeOK, NEW w \in Procs, pc[w] = "fetch", NEW next \in {"take", "publish", "exit"},
         Broadcast(w, next), \A p \in Procs \ {w} : job'[p] = job[p]
  PROVE  Drops(w) /\ \A p \in Procs : pc'[p] # "wait"
BY DEF TypeOK, Broadcast, Fetching, Drops

\* A broadcast leaves the set of fetches as it is.
LEMMA BroadcastKeeps ==
  ASSUME TypeOK, Broadcast(None, "take"), job' = job
  PROVE  Keeps /\ \A p \in Procs : pc'[p] # "wait"
<1>1. None \notin Procs
  BY PlanAssumption DEF Procs
<1> QED
  BY <1>1 DEF TypeOK, Broadcast, Fetching, Keeps

\* dispatchLocked adds one fetch, the dispatching worker's.
LEMMA DispatchAdds ==
  ASSUME TypeOK, NEW w \in Procs, NEW c, NEW h, pc[w] = "take", Dispatch(w, c, h)
  PROVE  Adds(w, c, h) /\ \A p \in Procs : pc'[p] = "wait" => pc[p] = "wait"
<1>1. job'[w] = [chunk |-> c, holder |-> h, mark |-> 0] /\ \A p \in Procs \ {w} : job'[p] = job[p]
  BY DEF TypeOK, Dispatch
<1>2. pc'[w] = "fetch" /\ \A p \in Procs \ {w} : pc'[p] = pc[p]
  BY DEF TypeOK, Dispatch
<1> QED
  BY <1>1, <1>2 DEF Adds, Fetching

\* The chunks and holders of fetching goroutines are the plan's.
LEMMA FetchingType ==
  ASSUME TypeOK
  PROVE  /\ IsFiniteSet(Procs) /\ IsFiniteSet(Fetching)
         /\ \A h : IsFiniteSet(FetchingOf(h))
         /\ \A p \in Fetching : p \in Procs /\ job[p].chunk \in Chunks /\ job[p].holder \in Holders
<1>1. IsFiniteSet(Procs)
  BY PlanAssumption, FS_AddElement DEF Procs
<1>2. Fetching \in SUBSET Procs /\ \A h : FetchingOf(h) \in SUBSET Procs
  BY DEF Fetching, FetchingOf
<1>3. \A p \in Fetching : job[p] \in Attempt
  BY DEF TypeOK, Fetching
<1> QED
  BY <1>1, <1>2, <1>3, FS_Subset DEF Attempt

------------------------------------------------------------------------------
(* The counts *)

Counts == /\ inFlight = Cardinality(Fetching)
          /\ \A h \in Holders : reqs[h] = Cardinality(FetchingOf(h))

\* The counts stay exact when a fetch is charged.
LEMMA CountsAdd ==
  ASSUME TypeOK, Counts, NEW w, NEW c, NEW h \in Holders, Adds(w, c, h),
         inFlight' = inFlight + 1, reqs' = [reqs EXCEPT ![h] = @ + 1]
  PROVE  Counts'
<1>1. w \notin Fetching /\ Fetching' = Fetching \cup {w}
  BY DEF Adds
<1>2. inFlight' = Cardinality(Fetching')
  BY <1>1, FetchingType, FS_AddElement DEF Counts
<1>3. ASSUME NEW g \in Holders PROVE reqs'[g] = Cardinality(FetchingOf(g)')
  <2>1. CASE g = h
    <3>1. FetchingOf(g)' = FetchingOf(g) \cup {w} /\ w \notin FetchingOf(g)
      BY <2>1 DEF Adds, FetchingOf
    <3>2. Cardinality(FetchingOf(g)') = Cardinality(FetchingOf(g)) + 1
      BY <3>1, FetchingType, FS_AddElement
    <3> QED
      BY <2>1, <3>2 DEF Counts, TypeOK
  <2>2. CASE g # h
    <3>1. FetchingOf(g)' = FetchingOf(g)
      BY <2>2 DEF Adds, FetchingOf
    <3> QED
      BY <2>2, <3>1 DEF Counts, TypeOK
  <2> QED
    BY <2>1, <2>2
<1> QED
  BY <1>2, <1>3 DEF Counts

\* The counts stay exact when a fetch lands, lost copies included.
LEMMA CountsDrop ==
  ASSUME TypeOK, Counts, NEW w \in Procs, NEW won, Drops(w),
         Landed(job[w].chunk, job[w].holder, won)
  PROVE  Counts'
<1> DEFINE h == job[w].holder
<1>1. w \in Fetching /\ Fetching' = Fetching \ {w} /\ h \in Holders
  BY FetchingType DEF Drops
<1>2. inFlight' = Cardinality(Fetching')
  <2>1. inFlight' = inFlight - 1
    BY DEF Landed
  <2> QED
    BY <1>1, <2>1, FetchingType, FS_RemoveElement DEF Counts
<1>3. ASSUME NEW g \in Holders PROVE reqs'[g] = Cardinality(FetchingOf(g)')
  <2>0. reqs' = [reqs EXCEPT ![h] = NotBelowZero(@ - 1)] /\ reqs \in [Holders -> Nat]
    BY DEF Landed, TypeOK
  <2>1. CASE g = h
    <3>1. FetchingOf(g)' = FetchingOf(g) \ {w} /\ w \in FetchingOf(g)
      BY <1>1, <2>1 DEF Drops, FetchingOf
    <3>2. Cardinality(FetchingOf(g)') = Cardinality(FetchingOf(g)) - 1
      BY <3>1, FetchingType, FS_RemoveElement
    <3>3. reqs[g] = Cardinality(FetchingOf(g)) /\ reqs[g] # 0
      <4>1. reqs[g] = Cardinality(FetchingOf(g)) /\ FetchingOf(g) # {}
        BY <3>1 DEF Counts
      <4> QED
        BY <4>1, FetchingType, FS_EmptySet
    <3>4. reqs'[g] = NotBelowZero(reqs[g] - 1) /\ reqs[g] \in Nat
      BY <1>1, <2>0, <2>1
    <3> QED
      BY <3>2, <3>3, <3>4 DEF NotBelowZero
  <2>2. CASE g # h
    <3>1. FetchingOf(g)' = FetchingOf(g)
      BY <1>1, <2>2 DEF Drops, FetchingOf
    <3> QED
      BY <2>0, <2>2, <3>1 DEF Counts
  <2> QED
    BY <2>1, <2>2
<1> QED
  BY <1>2, <1>3 DEF Counts

\* The counts stay exact when no fetch starts or ends.
LEMMA CountsKeep ==
  ASSUME Counts, Keeps, UNCHANGED <<inFlight, reqs>>
  PROVE  Counts'
<1>1. \A g : FetchingOf(g)' = FetchingOf(g)
  BY DEF Keeps, FetchingOf
<1> QED
  BY <1>1 DEF Counts, Keeps

------------------------------------------------------------------------------
(* The copies of one chunk *)

Distinct ==
  \A p, q \in Fetching : job[p].chunk = job[q].chunk /\ p # q => job[p].holder # job[q].holder
TwoCopies ==
  \A c \in Chunks : \A p, q, r \in CopiesOf(c) : p = q \/ q = r \/ p = r

\* A set of fewer than two elements has at most one.
LEMMA FewerThanTwo ==
  ASSUME NEW S, IsFiniteSet(S), ~(Cardinality(S) >= 2), NEW x \in S, NEW y \in S
  PROVE  x = y
<1>1. Cardinality(S) \in Nat /\ Cardinality(S) # 0
  BY FS_CardinalityType, FS_EmptySet
<1>2. Cardinality(S) = 1
  BY <1>1
<1> QED
  BY <1>2, FS_Singleton

\* A dispatch to a holder not yet fetching the chunk keeps the flight table exact.
LEMMA CopiesAdd ==
  ASSUME TypeOK, FlightIsFetching, Distinct, TwoCopies,
         NEW w, NEW c \in Chunks, NEW h \in Holders, Adds(w, c, h),
         c \notin done, h \notin flight[c], ~(Cardinality(flight[c]) >= 2),
         flight' = [flight EXCEPT ![c] = @ \cup {h}], done' = done
  PROVE  FlightIsFetching' /\ Distinct' /\ TwoCopies'
<1>1. /\ w \notin Fetching /\ Fetching' = Fetching \cup {w}
      /\ job'[w].chunk = c /\ job'[w].holder = h
      /\ \A p \in Fetching : job'[p] = job[p]
  BY DEF Adds
<1>2. flight[c] = {job[p].holder : p \in CopiesOf(c)}
  BY DEF FlightIsFetching
<1>3. CopiesOf(c)' = CopiesOf(c) \cup {w}
  BY <1>1 DEF CopiesOf
<1>4. \A d \in Chunks \ {c} : CopiesOf(d)' = CopiesOf(d)
  BY <1>1 DEF CopiesOf
<1>5. \A p \in CopiesOf(c) : job'[p] = job[p] /\ job[p].holder \in flight[c] /\ job[p].holder # h
  BY <1>1, <1>2 DEF CopiesOf
<1>6. FlightIsFetching'
  <2> SUFFICES ASSUME NEW d \in Chunks \ done
               PROVE  flight'[d] = {job'[p].holder : p \in CopiesOf(d)'}
    BY DEF FlightIsFetching
  <2>1. CASE d = c
    <3>1. flight'[c] = flight[c] \cup {h}
      BY DEF TypeOK
    <3>2. {job'[p].holder : p \in CopiesOf(c)'} = {job[p].holder : p \in CopiesOf(c)} \cup {h}
      BY <1>1, <1>3, <1>5
    <3> QED
      BY <1>2, <2>1, <3>1, <3>2
  <2>2. CASE d # c
    <3>1. flight'[d] = flight[d]
      BY <2>2 DEF TypeOK
    <3>2. CopiesOf(d)' = CopiesOf(d) /\ \A p \in CopiesOf(d) : job'[p] = job[p]
      BY <1>1, <1>4, <2>2 DEF CopiesOf
    <3> QED
      BY <3>1, <3>2 DEF FlightIsFetching
  <2> QED
    BY <2>1, <2>2
<1>7. Distinct'
  <2> SUFFICES ASSUME NEW p \in Fetching', NEW q \in Fetching',
                      job'[p].chunk = job'[q].chunk, p # q
               PROVE  job'[p].holder # job'[q].holder
    BY DEF Distinct
  <2>1. CASE p \in Fetching /\ q \in Fetching
    BY <1>1, <2>1 DEF Distinct
  <2>2. CASE p = w
    BY <1>1, <1>5, <2>2 DEF CopiesOf
  <2>3. CASE q = w
    BY <1>1, <1>5, <2>3 DEF CopiesOf
  <2> QED
    BY <1>1, <2>1, <2>2, <2>3
<1>8. ASSUME NEW p \in CopiesOf(c), NEW q \in CopiesOf(c) PROVE p = q
  <2>1. IsFiniteSet(flight[c])
    BY PlanAssumption, FS_Subset DEF TypeOK
  <2>2. job[p].holder = job[q].holder
    BY <1>5, <2>1, FewerThanTwo
  <2> QED
    BY <2>2 DEF Distinct, CopiesOf
<1>9. TwoCopies'
  <2> SUFFICES ASSUME NEW d \in Chunks, NEW p \in CopiesOf(d)', NEW q \in CopiesOf(d)',
                      NEW r \in CopiesOf(d)'
               PROVE  p = q \/ q = r \/ p = r
    BY DEF TwoCopies
  <2>1. CASE d = c
    BY <1>3, <1>8, <2>1
  <2>2. CASE d # c
    BY <1>4, <2>2 DEF TwoCopies
  <2> QED
    BY <2>1, <2>2
<1> QED
  BY <1>6, <1>7, <1>9

\* A landing keeps the flight table exact: a win empties it, a loss removes one holder.
LEMMA CopiesDrop ==
  ASSUME TypeOK, FlightIsFetching, Distinct, TwoCopies,
         NEW w \in Procs, NEW won \in BOOLEAN, Drops(w),
         Landed(job[w].chunk, job[w].holder, won),
         done' = IF won THEN done \cup {job[w].chunk} ELSE done
  PROVE  FlightIsFetching' /\ Distinct' /\ TwoCopies'
<1> DEFINE c == job[w].chunk
           h == job[w].holder
<1>1. /\ w \in Fetching /\ Fetching' = Fetching \ {w}
      /\ \A p \in Fetching \ {w} : job'[p] = job[p]
      /\ c \in Chunks /\ h \in Holders
  BY FetchingType DEF Drops
<1>2. \A d : CopiesOf(d)' = CopiesOf(d) \ {w}
  BY <1>1 DEF CopiesOf
<1>3. Distinct'
  BY <1>1 DEF Distinct
<1>4. TwoCopies'
  BY <1>2 DEF TwoCopies
<1>5. ASSUME NEW d \in Chunks \ done'
      PROVE  flight'[d] = {job'[p].holder : p \in CopiesOf(d)'}
  <2>1. d \in Chunks \ done /\ flight[d] = {job[p].holder : p \in CopiesOf(d)}
    BY DEF FlightIsFetching
  <2>2. \A p \in CopiesOf(d) \ {w} : job'[p] = job[p]
    BY <1>1 DEF CopiesOf
  <2>3. CASE d = c
    <3>1. ~won
      BY <2>3
    <3>2. flight'[c] = flight[c] \ {h}
      BY <1>1, <3>1 DEF Landed, TypeOK
    <3>3. w \in CopiesOf(c) /\ \A p \in CopiesOf(c) \ {w} : job[p].holder # h
      BY <1>1 DEF CopiesOf, Distinct
    <3> QED
      BY <1>2, <2>1, <2>2, <2>3, <3>2, <3>3
  <2>4. CASE d # c
    <3>1. flight'[d] = flight[d]
      BY <1>1, <2>4 DEF Landed, TypeOK
    <3>2. CopiesOf(d)' = CopiesOf(d)
      BY <1>1, <1>2, <2>4 DEF CopiesOf
    <3>3. \A p \in CopiesOf(d) : job'[p] = job[p]
      BY <1>2, <2>2, <3>2
    <3> QED
      BY <2>1, <3>1, <3>2, <3>3
  <2> QED
    BY <2>3, <2>4
<1> QED
  BY <1>3, <1>4, <1>5 DEF FlightIsFetching

\* The flight table stays exact when no fetch starts or ends.
LEMMA CopiesKeep ==
  ASSUME FlightIsFetching, Distinct, TwoCopies, Keeps, UNCHANGED <<flight, done>>
  PROVE  FlightIsFetching' /\ Distinct' /\ TwoCopies'
<1>1. /\ Fetching' = Fetching /\ \A p \in Fetching : job'[p] = job[p]
      /\ \A d : CopiesOf(d)' = CopiesOf(d)
  BY DEF Keeps, CopiesOf
<1>2. Distinct' /\ TwoCopies'
  BY <1>1 DEF Distinct, TwoCopies
<1>3. ASSUME NEW d \in Chunks \ done'
      PROVE  flight'[d] = {job'[p].holder : p \in CopiesOf(d)'}
  <2>1. flight[d] = {job[p].holder : p \in CopiesOf(d)}
    BY DEF FlightIsFetching
  <2>2. \A p \in CopiesOf(d) : job'[p] = job[p]
    BY <1>1 DEF CopiesOf
  <2> QED
    BY <1>1, <2>1, <2>2
<1> QED
  BY <1>2, <1>3 DEF FlightIsFetching

------------------------------------------------------------------------------
(* Where every chunk is *)

\* Queued is membership of the queue, as the lemmas on sequences state it.
LEMMA QueuedIn == \A c : Queued(c) <=> In(pending, c)
BY DEF Queued, In

\* Moving a chunk from the queue into flight loses no chunk.
LEMMA AccountedDequeue ==
  ASSUME TypeOK, ChunkAccounted, NEW i \in DOMAIN pending, NEW h,
         pending' = RemoveAt(pending, i), done' = done, ~aborted, aborted' = aborted,
         flight' = [flight EXCEPT ![pending[i]] = @ \cup {h}]
  PROVE  ChunkAccounted'
<1> DEFINE c == pending[i]
<1>1. pending \in Seq(Chunks) /\ c \in Chunks /\ Unique(pending) /\ In(pending, c)
  BY DEF TypeOK, ChunkAccounted, Unique, In
<1>2. /\ Unique(pending') /\ ~In(pending', c)
      /\ \A d : In(pending', d) => In(pending, d)
      /\ \A d : In(pending, d) /\ d # c => In(pending', d)
  BY <1>1, RemoveAtIn
<1>3. flight'[c] = flight[c] \cup {h} /\ \A d \in Chunks \ {c} : flight'[d] = flight[d]
  BY <1>1 DEF TypeOK
<1>4. c \notin done
  BY <1>1, QueuedIn DEF ChunkAccounted
<1>5. ASSUME NEW d \in Chunks
      PROVE  /\ In(pending', d) => d \notin done' /\ flight'[d] = {}
             /\ d \in done' => flight'[d] = {}
             /\ ~aborted' /\ d \notin done' => In(pending', d) \/ flight'[d] # {}
  BY <1>2, <1>3, <1>4, QueuedIn DEF ChunkAccounted
<1> QED
  BY <1>2, <1>5 DEF ChunkAccounted, Queued, In, Unique

\* A second copy of a chunk in flight loses no chunk.
LEMMA AccountedHedge ==
  ASSUME TypeOK, ChunkAccounted, NEW c \in Chunks, NEW h, c \notin done, flight[c] # {},
         UNCHANGED <<pending, done, aborted>>, flight' = [flight EXCEPT ![c] = @ \cup {h}]
  PROVE  ChunkAccounted'
<1>1. flight'[c] = flight[c] \cup {h} /\ \A d \in Chunks \ {c} : flight'[d] = flight[d]
  BY DEF TypeOK
<1> QED
  BY <1>1 DEF ChunkAccounted, Queued

\* Steps that touch neither queue nor flight lose no chunk.
LEMMA AccountedKeep ==
  ASSUME ChunkAccounted, UNCHANGED <<pending, done, flight>>, aborted => aborted'
  PROVE  ChunkAccounted'
BY DEF ChunkAccounted, Queued

\* An attempt at an undelivered chunk is in the flight table, so the chunk is
\* not in the queue.
LEMMA FetchedNotQueued ==
  ASSUME TypeOK, ChunkAccounted, FlightIsFetching, NEW w \in Fetching, job[w].chunk \notin done
  PROVE  job[w].holder \in flight[job[w].chunk] /\ ~Queued(job[w].chunk)
<1>1. job[w].chunk \in Chunks
  BY FetchingType
<1>2. job[w].holder \in flight[job[w].chunk]
  BY <1>1 DEF FlightIsFetching, CopiesOf
<1> QED
  BY <1>1, <1>2 DEF ChunkAccounted

\* A delivery loses no chunk: the delivered one has left queue and flight.
LEMMA AccountedSucceed ==
  ASSUME TypeOK, ChunkAccounted, NEW c \in Chunks, NEW h, Landed(c, h, c \notin done),
         ~Queued(c) \/ c \in done,
         done' = done \cup {c}, UNCHANGED <<pending, aborted>>
  PROVE  ChunkAccounted'
<1>1. flight'[c] = {} /\ \A d \in Chunks \ {c} : flight'[d] = flight[d]
  <2>1. flight' = [flight EXCEPT ![c] = IF c \notin done THEN {} ELSE flight[c] \ {h}]
    BY DEF Landed
  <2>2. c \in done => flight[c] = {}
    BY DEF ChunkAccounted
  <2> QED
    BY <2>1, <2>2 DEF TypeOK
<1>2. ~Queued(c)
  BY DEF ChunkAccounted
<1> QED
  BY <1>1, <1>2 DEF ChunkAccounted, Queued

\* A failure re-queues the chunk, leaves it to its other copy, or gives the plan up.
LEMMA AccountedFail ==
  ASSUME TypeOK, ChunkAccounted, NEW c \in Chunks, NEW h, Landed(c, h, FALSE), ~Queued(c),
         c \notin done, done' = done, NEW suspect \in BOOLEAN, NEW why \in Reasons,
         SettleFailure(c, suspect, why)
  PROVE  ChunkAccounted'
<1>1. \A d \in Chunks \ {c} : flight'[d] = flight[d]
  BY DEF Landed, TypeOK
<1>2. aborted => aborted'
  BY DEF SettleFailure, Abort, outcomeVars
<1>3. pending \in Seq(Chunks) /\ Unique(pending) /\ ~In(pending, c)
  BY QueuedIn DEF TypeOK, ChunkAccounted, Unique
<1>4. CASE aborted' \/ flight'[c] # {}
  <2>1. pending' = pending
    BY <1>4 DEF SettleFailure
  <2> QED
    BY <1>1, <1>2, <1>4, <2>1 DEF ChunkAccounted, Queued
<1>5. CASE ~(aborted' \/ flight'[c] # {})
  <2>1. pending' = Append(pending, c)
    BY <1>5 DEF SettleFailure
  <2>2. Unique(pending') /\ \A d : In(pending', d) <=> In(pending, d) \/ d = c
    BY <1>3, <2>1, AppendIn
  <2>3. ASSUME NEW d \in Chunks
        PROVE  /\ In(pending', d) => d \notin done' /\ flight'[d] = {}
               /\ d \in done' => flight'[d] = {}
               /\ ~aborted' /\ d \notin done' => In(pending', d) \/ flight'[d] # {}
    BY <1>1, <1>2, <1>5, <2>2, QueuedIn DEF ChunkAccounted
  <2> QED
    BY <2>2, <2>3 DEF ChunkAccounted, Queued, In, Unique
<1> QED
  BY <1>4, <1>5

\* Moving a chunk to the front of the queue neither loses nor repeats it.
LEMMA AccountedPrioritize ==
  ASSUME TypeOK, ChunkAccounted, NEW c \in Chunks, Prioritize(c)
  PROVE  ChunkAccounted'
<1>1. UNCHANGED <<done, flight, aborted>>
  BY DEF Prioritize, outcomeVars
<1>2. CASE ~Queued(c)
  BY <1>1, <1>2, AccountedKeep DEF Prioritize
<1>3. CASE Queued(c)
  <2> DEFINE rest == Without(pending, c)
  <2>1. pending \in Seq(Chunks) /\ Unique(pending) /\ In(pending, c)
    BY <1>3, QueuedIn DEF TypeOK, ChunkAccounted, Unique
  <2>2. /\ rest \in Seq(Chunks) /\ Unique(rest) /\ ~In(rest, c)
        /\ \A d : In(rest, d) => In(pending, d)
        /\ \A d : In(pending, d) /\ d # c => In(rest, d)
    BY <2>1, WithoutFacts
  <2>3. pending' = <<c>> \o rest
    BY <1>3 DEF Prioritize
  <2> HIDE DEF rest
  <2>4. Unique(pending') /\ \A d : In(pending', d) <=> In(pending, d)
    BY <2>1, <2>2, <2>3, ConsIn
  <2>5. ASSUME NEW d \in Chunks PROVE Queued(d)' <=> Queued(d)
    BY <2>4 DEF Queued, In
  <2> QED
    BY <1>1, <2>4, <2>5 DEF ChunkAccounted, Unique
<1> QED
  BY <1>2, <1>3

------------------------------------------------------------------------------
(* The inductive invariant *)

\* The invariant in the parts the lemmas above are about.
LEMMA InvParts ==
  PlanInv <=> /\ TypeOK /\ ChunkAccounted /\ FlightIsFetching /\ Distinct /\ TwoCopies /\ Counts
              /\ remaining = NumChunks - Cardinality(done)
              /\ \A h \in Holders : reqs[h] <= MaxHolderRequests
              /\ SleepersAreWoken
BY DEF PlanInv, ChargesExact, Counts, HedgingBounded, Distinct, TwoCopies

\* The parts put together in the next state.
LEMMA InvNext ==
  ASSUME TypeOK', ChunkAccounted', FlightIsFetching', Distinct', TwoCopies', Counts',
         remaining' = NumChunks - Cardinality(done'),
         \A h \in Holders : reqs'[h] <= MaxHolderRequests,
         SleepersAreWoken'
  PROVE  PlanInv'
BY DEF PlanInv, ChargesExact, Counts, HedgingBounded, Distinct, TwoCopies

\* A dispatch keeps the invariant.
LEMMA InvDispatch ==
  ASSUME PlanInv, NEW w \in Procs, NEW c \in Chunks, NEW h \in Askable, h \notin flight[c],
         c \notin done, ~(Cardinality(flight[c]) >= MaxChunkCopies),
         pc[w] = "take", Dispatch(w, c, h), ChunkAccounted', TypeOK'
  PROVE  PlanInv'
<1>1. h \in Holders /\ Adds(w, c, h) /\ \A p \in Procs : pc'[p] = "wait" => pc[p] = "wait"
  BY DispatchAdds DEF PlanInv, Askable, Live
<1>2. Counts'
  BY <1>1, CountsAdd, InvParts DEF Dispatch
<1>3. FlightIsFetching' /\ Distinct' /\ TwoCopies'
  BY <1>1, CopiesAdd, InvParts DEF Dispatch, MaxChunkCopies
<1>4. \A g \in Holders : reqs'[g] <= MaxHolderRequests
  <2>1. reqs[h] < RequestCap /\ RequestCap \in {1, 2} /\ MaxHolderRequests = 2
    BY DEF Askable, RequestCap, MaxHolderRequests
  <2>2. reqs' = [reqs EXCEPT ![h] = @ + 1] /\ reqs \in [Holders -> Nat]
    BY DEF Dispatch, PlanInv, TypeOK
  <2> QED
    BY <1>1, <2>1, <2>2, InvParts
<1>5. SleepersAreWoken'
  BY <1>1 DEF Adds, SleepersAreWoken
<1>6. remaining' = NumChunks - Cardinality(done')
  BY InvParts DEF Dispatch
<1> QED
  BY <1>2, <1>3, <1>4, <1>5, <1>6, InvNext

\* Every way out of take() keeps the invariant.
LEMMA InvTake ==
  ASSUME PlanInv, NEW w \in Procs, Take(w), TypeOK'
  PROVE  PlanInv'
<1>0. TypeOK /\ ChunkAccounted /\ FlightIsFetching
  BY DEF PlanInv
<1>1. CASE TakeStops(w)
  <2>1. Keeps
    BY <1>0, <1>1 DEF TakeStops, Keeps, Fetching, TypeOK
  <2>2. FlightIsFetching' /\ Distinct' /\ TwoCopies' /\ Counts'
    BY <1>1, <2>1, CopiesKeep, CountsKeep, InvParts DEF TakeStops, queueVars, holderVars
  <2>3. ChunkAccounted'
    BY <1>0, <1>1, AccountedKeep DEF TakeStops, Abort, outcomeVars, queueVars
  <2>4. SleepersAreWoken'
    BY <1>0, <1>1, <2>1
    DEF TakeStops, Keeps, SleepersAreWoken, PlanInv, TimerArmed, timeVars, TypeOK
  <2>5. UNCHANGED <<remaining, done, reqs>>
    BY <1>1 DEF TakeStops, queueVars, holderVars
  <2>6. remaining' = NumChunks - Cardinality(done') /\ \A h \in Holders : reqs'[h] <= MaxHolderRequests
    BY <2>5, InvParts
  <2> QED
    BY <2>2, <2>3, <2>4, <2>6, InvNext
<1>2. CASE TakeWanted(w) \/ TakeEndgame(w)
  <2>1. PICK c \in Chunks : \E h \in Hedge(c) : Dispatch(w, c, h)
    BY <1>0, <1>2 DEF TakeWanted, TakeEndgame, TypeOK
  <2>2. PICK h \in Hedge(c) : Dispatch(w, c, h)
    BY <2>1
  <2>3. /\ h \in Holders /\ h \in Askable /\ h \notin flight[c] /\ c \notin done
        /\ flight[c] # {} /\ ~(Cardinality(flight[c]) >= MaxChunkCopies)
    BY HedgeFacts
  <2>4. ChunkAccounted'
    BY <1>0, <1>2, <2>2, <2>3, AccountedHedge DEF Dispatch, TakeWanted, TakeEndgame, outcomeVars
  <2>5. pc[w] = "take"
    BY <1>2 DEF TakeWanted, TakeEndgame, CanTake
  <2> QED
    BY <2>2, <2>3, <2>4, <2>5, InvDispatch
<1>3. CASE TakePending(w)
  <2>1. PICK m \in Match : /\ Dispatch(w, pending[m[1]], m[2])
                           /\ pending' = RemoveAt(pending, m[1])
    BY <1>3 DEF TakePending
  <2> DEFINE c == pending[m[1]]
  <2>2. m[1] \in DOMAIN pending /\ m[2] \in Askable
    BY <1>0, MatchFacts
  <2>3. c \in Chunks /\ c \notin done /\ flight[c] = {}
    <3>1. c \in Chunks
      BY <1>0, <2>2, SMTT(60) DEF TypeOK
    <3>2. Queued(c)
      BY <2>2 DEF Queued
    <3> QED
      BY <1>0, <3>1, <3>2 DEF ChunkAccounted
  <2>4. ChunkAccounted'
    BY <1>0, <1>3, <2>1, <2>2, AccountedDequeue DEF Dispatch, TakePending, CanTake, outcomeVars
  <2>5. ~(Cardinality(flight[c]) >= MaxChunkCopies)
    BY <2>3, FS_EmptySet DEF MaxChunkCopies
  <2>6. pc[w] = "take"
    BY <1>3 DEF TakePending, CanTake
  <2> QED
    BY <2>1, <2>2, <2>3, <2>4, <2>5, <2>6, InvDispatch
<1>4. CASE TakeIdles(w)
  <2>1. Keeps
    BY <1>0, <1>4 DEF TakeIdles, CanTake, Keeps, Fetching, TypeOK
  <2>2. FlightIsFetching' /\ Distinct' /\ TwoCopies' /\ Counts'
    BY <1>4, <2>1, CopiesKeep, CountsKeep, InvParts DEF TakeIdles, queueVars, holderVars
  <2>3. ChunkAccounted'
    BY <1>0, <1>4, AccountedKeep DEF TakeIdles, Abort, outcomeVars, queueVars
  <2>4. SleepersAreWoken'
    <3>1. (Awaited # {} \/ TimerArmed) => TimerArmed'
      BY <1>0, <1>4, ArmFacts DEF TakeIdles
    <3>2. CASE Awaited = {} /\ inFlight = 0
      BY <1>0, <1>4, <2>1, <3>1, <3>2
      DEF TakeIdles, Keeps, SleepersAreWoken, PlanInv, TypeOK
    <3>3. CASE Awaited # {}
      BY <3>1, <3>3 DEF SleepersAreWoken
    <3>4. CASE inFlight # 0
      <4>1. Fetching # {}
        BY <3>4, FS_EmptySet, InvParts DEF Counts
      <4> QED
        BY <2>1, <4>1 DEF Keeps, SleepersAreWoken
    <3> QED
      BY <3>2, <3>3, <3>4
  <2>5. UNCHANGED <<remaining, done, reqs>>
    BY <1>4 DEF TakeIdles, queueVars, holderVars
  <2>6. remaining' = NumChunks - Cardinality(done') /\ \A h \in Holders : reqs'[h] <= MaxHolderRequests
    BY <2>5, InvParts
  <2> QED
    BY <2>2, <2>3, <2>4, <2>6, InvNext
<1> QED
  BY <1>1, <1>2, <1>3, <1>4 DEF Take

\* What every failed or lost copy leaves behind.
LEMMA InvLanded ==
  ASSUME PlanInv, NEW w \in Procs, NEW won \in BOOLEAN, pc[w] = "fetch",
         Landed(job[w].chunk, job[w].holder, won),
         done' = IF won THEN done \cup {job[w].chunk} ELSE done,
         NEW next \in {"take", "publish", "exit"}, Broadcast(w, next),
         \A p \in Procs \ {w} : job'[p] = job[p],
         TypeOK', ChunkAccounted',
         remaining' = NumChunks - Cardinality(done')
  PROVE  PlanInv'
<1>1. TypeOK /\ FlightIsFetching /\ Distinct /\ TwoCopies /\ Counts
  BY InvParts
<1>2. Drops(w) /\ \A p \in Procs : pc'[p] # "wait"
  BY <1>1, BroadcastDrops
<1>3. FlightIsFetching' /\ Distinct' /\ TwoCopies'
  BY <1>1, <1>2, CopiesDrop
<1>4. Counts'
  BY <1>1, <1>2, CountsDrop
<1>5. \A h \in Holders : reqs'[h] <= MaxHolderRequests
  <2>1. reqs' = [reqs EXCEPT ![job[w].holder] = NotBelowZero(@ - 1)] /\ reqs \in [Holders -> Nat]
    BY <1>1 DEF Landed, TypeOK
  <2>2. \A h \in Holders : reqs[h] <= 2 /\ MaxHolderRequests = 2
    BY InvParts DEF MaxHolderRequests
  <2>3. \A n \in Nat : n <= 2 => NotBelowZero(n - 1) <= 2
    BY DEF NotBelowZero
  <2> QED
    BY <2>1, <2>2, <2>3
<1>6. SleepersAreWoken'
  BY <1>2 DEF SleepersAreWoken
<1> QED
  BY <1>3, <1>4, <1>5, <1>6, InvNext

\* A failure of an attempt at an undelivered chunk.
LEMMA InvFail ==
  ASSUME PlanInv, NEW w \in Procs, NEW spend, FailCommon(w, spend), TypeOK',
         NEW suspect \in BOOLEAN, NEW why \in Reasons, SettleFailure(job[w].chunk, suspect, why)
  PROVE  PlanInv'
<1>1. TypeOK /\ ChunkAccounted /\ FlightIsFetching
  BY InvParts
<1>2. /\ w \in Fetching /\ job[w].chunk \notin done
      /\ Landed(job[w].chunk, job[w].holder, FALSE) /\ done' = done /\ remaining' = remaining
      /\ Broadcast(w, AfterAnswer(w)) /\ job' = [job EXCEPT ![w] = None]
  BY DEF FailCommon, Fetching
<1>3. job[w].chunk \in Chunks /\ ~Queued(job[w].chunk)
  BY <1>1, <1>2, FetchingType, FetchedNotQueued
<1>4. ChunkAccounted'
  BY <1>1, <1>2, <1>3, AccountedFail
<1>5. AfterAnswer(w) \in {"take", "publish", "exit"}
  BY DEF AfterAnswer
<1>6. \A p \in Procs \ {w} : job'[p] = job[p]
  BY <1>1, <1>2 DEF TypeOK
<1>7. remaining' = NumChunks - Cardinality(done')
  BY <1>2, InvParts
<1>8. pc[w] = "fetch"
  BY <1>2 DEF Fetching
<1> QED
  BY <1>2, <1>4, <1>5, <1>6, <1>7, <1>8, InvLanded

\* Every answer to an attempt keeps the invariant.
LEMMA InvAnswer ==
  ASSUME PlanInv, NEW w \in Procs, Answer(w), TypeOK'
  PROVE  PlanInv'
<1> DEFINE c == job[w].chunk
           h == job[w].holder
<1>0. TypeOK /\ ChunkAccounted /\ FlightIsFetching
  BY DEF PlanInv
<1>1. CASE Succeed(w)
  <2>1. /\ pc[w] = "fetch" /\ w \in Fetching
        /\ Landed(c, h, c \notin done) /\ Broadcast(w, "publish")
        /\ done' = done \cup {c} /\ UNCHANGED <<pending, aborted>>
        /\ remaining' = IF c \notin done THEN remaining - 1 ELSE remaining
        /\ job' = [job EXCEPT ![w].mark = watermark']
    BY <1>1 DEF Succeed, outcomeVars, Fetching
  <2>2. c \in Chunks /\ (c \notin done => ~Queued(c))
    BY <1>0, <2>1, FetchingType, FetchedNotQueued
  <2>3. ChunkAccounted'
    BY <1>0, <2>1, <2>2, AccountedSucceed
  <2>4. remaining' = NumChunks - Cardinality(done')
    <3>1. IsFiniteSet(Chunks)
      BY ConstantFacts, FS_Interval DEF Chunks
    <3>2. IsFiniteSet(done)
      BY <1>0, <3>1, FS_Subset DEF TypeOK
    <3>3. Cardinality(done') = IF c \in done THEN Cardinality(done) ELSE Cardinality(done) + 1
      BY <2>1, <3>2, FS_AddElement
    <3>4. Cardinality(done) \in Nat /\ remaining = NumChunks - Cardinality(done)
      BY <3>2, FS_CardinalityType, InvParts
    <3> QED
      BY <2>1, <3>3, <3>4, ConstantFacts
  <2>5. \A p \in Procs \ {w} : job'[p] = job[p]
    BY <1>0, <2>1 DEF TypeOK
  <2>6. done' = IF c \notin done THEN done \cup {c} ELSE done
    BY <2>1
  <2> QED
    BY <2>1, <2>3, <2>4, <2>5, <2>6, InvLanded
<1>2. CASE FailLost(w)
  <2>1. /\ pc[w] = "fetch" /\ w \in Fetching /\ c \in done
        /\ Landed(c, h, FALSE) /\ Broadcast(w, AfterAnswer(w))
        /\ job' = [job EXCEPT ![w] = None]
        /\ UNCHANGED <<pending, done, remaining, aborted>>
    BY <1>2 DEF FailLost, outcomeVars, Fetching
  <2>2. flight[c] = {}
    BY <1>0, <2>1, FetchingType DEF ChunkAccounted
  <2>3. flight' = flight
    BY <1>0, <2>1, <2>2 DEF Landed, TypeOK
  <2>4. ChunkAccounted'
    BY <1>0, <2>1, <2>3, AccountedKeep
  <2>5. AfterAnswer(w) \in {"take", "publish", "exit"} /\ \A p \in Procs \ {w} : job'[p] = job[p]
    BY <1>0, <2>1 DEF AfterAnswer, TypeOK
  <2>6. remaining' = NumChunks - Cardinality(done')
    BY <2>1, InvParts
  <2> QED
    BY <2>1, <2>4, <2>5, <2>6, InvLanded
<1>3. CASE FailCorrupt(w)
  BY <1>3, InvFail DEF FailCorrupt, Reasons
<1>4. CASE FailAbsent(w)
  BY <1>4, InvFail DEF FailAbsent, Reasons
<1>5. CASE FailBusy(w)
  BY <1>5, InvFail DEF FailBusy, Reasons
<1>6. CASE FailTransient(w)
  BY <1>6, InvFail DEF FailTransient, Reasons
<1> QED
  BY <1>1, <1>2, <1>3, <1>4, <1>5, <1>6 DEF Answer

\* The steps that touch no attempt.
LEMMA InvOther ==
  ASSUME PlanInv, Keeps, ChunkAccounted', SleepersAreWoken', TypeOK',
         UNCHANGED <<flight, done, inFlight, reqs, remaining>>
  PROVE  PlanInv'
<1>1. FlightIsFetching' /\ Distinct' /\ TwoCopies'
  BY CopiesKeep, InvParts
<1>2. Counts'
  BY CountsKeep, InvParts
<1>3. remaining' = NumChunks - Cardinality(done') /\ \A h \in Holders : reqs'[h] <= MaxHolderRequests
  BY InvParts
<1> QED
  BY <1>1, <1>2, <1>3, InvNext

\* Readers, probes, time and cancellation keep the invariant.
LEMMA InvEnvironment ==
  ASSUME PlanInv, TypeOK',
         \/ \E w \in Procs : Publish(w)
         \/ \E c \in Chunks : Prioritize(c)
         \/ \E h \in Holders : SetCoverage(h) \/ ProbeUnanswered(h)
         \/ ClockTick \/ PatienceElapses \/ Abandon \/ UNCHANGED vars
  PROVE  PlanInv'
<1>0. TypeOK /\ ChunkAccounted /\ SleepersAreWoken
  BY DEF PlanInv
<1>1. ASSUME NEW w \in Procs, Publish(w) PROVE PlanInv'
  <2>1. AfterAnswer(w) \in {"take", "exit"}
    BY DEF AfterAnswer
  <2>2. Keeps /\ \A p \in Procs : pc'[p] = "wait" => pc[p] = "wait"
    BY <1>0, <1>1, <2>1 DEF Publish, Keeps, Fetching, TypeOK
  <2>3. /\ UNCHANGED <<flight, done, inFlight, reqs, remaining>>
        /\ UNCHANGED <<pending, aborted, clock>>
    BY <1>1 DEF Publish, queueVars, outcomeVars, holderVars, timeVars
  <2>4. ChunkAccounted'
    BY <1>0, <2>3, AccountedKeep
  <2>5. SleepersAreWoken'
    BY <1>0, <2>2, <2>3 DEF SleepersAreWoken, TimerArmed, Keeps
  <2> QED
    BY <2>2, <2>3, <2>4, <2>5, InvOther
<1>2. ASSUME NEW c \in Chunks, Prioritize(c) PROVE PlanInv'
  <2>1. Keeps /\ \A p \in Procs : pc'[p] # "wait"
    BY <1>0, <1>2, BroadcastKeeps DEF Prioritize
  <2>2. UNCHANGED <<flight, done, inFlight, reqs, remaining>>
    BY <1>2 DEF Prioritize, holderVars
  <2>3. ChunkAccounted'
    BY <1>0, <1>2, AccountedPrioritize
  <2>4. SleepersAreWoken'
    BY <2>1 DEF SleepersAreWoken
  <2> QED
    BY <2>1, <2>2, <2>3, <2>4, InvOther
<1>3. ASSUME NEW h \in Holders, SetCoverage(h) PROVE PlanInv'
  <2>1. Keeps /\ \A p \in Procs : pc'[p] # "wait"
    BY <1>0, <1>3, BroadcastKeeps DEF SetCoverage
  <2>2. UNCHANGED <<flight, done, inFlight, reqs, remaining>> /\ UNCHANGED <<pending, aborted>>
    BY <1>3 DEF SetCoverage, queueVars, outcomeVars
  <2>3. ChunkAccounted' /\ SleepersAreWoken'
    BY <1>0, <2>1, <2>2, AccountedKeep DEF SleepersAreWoken
  <2> QED
    BY <2>1, <2>2, <2>3, InvOther
<1>4. ASSUME NEW h \in Holders, ProbeUnanswered(h) PROVE PlanInv'
  <2>1. TimerArmed => TimerArmed'
    BY <1>0, <1>4, RestFacts DEF ProbeUnanswered
  <2>2. /\ UNCHANGED <<flight, done, inFlight, reqs, remaining>> /\ UNCHANGED <<pending, aborted>>
        /\ UNCHANGED <<pc, job>>
    BY <1>4 DEF ProbeUnanswered, queueVars, outcomeVars, holderVars, procVars
  <2>3. Keeps
    BY <2>2 DEF Keeps, Fetching
  <2>4. ChunkAccounted'
    BY <1>0, <2>2, AccountedKeep
  <2>5. SleepersAreWoken'
    BY <1>0, <2>1, <2>2, <2>3 DEF SleepersAreWoken, Keeps
  <2> QED
    BY <2>2, <2>3, <2>4, <2>5, InvOther
<1>5. CASE ClockTick
  <2>1. /\ UNCHANGED <<flight, done, inFlight, reqs, remaining>> /\ UNCHANGED <<pending, aborted, job>>
    BY <1>5 DEF ClockTick, queueVars, outcomeVars, holderVars
  <2>2. CASE Head(clock) = Timer
    <3>1. Keeps /\ \A p \in Procs : pc'[p] # "wait"
      BY <1>0, <1>5, <2>1, <2>2, BroadcastKeeps DEF ClockTick
    <3>2. ChunkAccounted' /\ SleepersAreWoken'
      BY <1>0, <2>1, <3>1, AccountedKeep DEF SleepersAreWoken
    <3> QED
      BY <2>1, <3>1, <3>2, InvOther
  <2>3. CASE Head(clock) # Timer
    <3>1. clock' = Tail(clock) /\ clock # <<>> /\ pc' = pc
      BY <1>5, <2>3 DEF ClockTick
    <3>2. TimerArmed => TimerArmed'
      <4>1. clock \in Seq(Holders \cup {Timer})
        BY <1>0 DEF TypeOK
      <4>2. In(clock, Timer) => In(clock', Timer)
        BY <2>3, <3>1, <4>1, TailIn
      <4> QED
        BY <4>2 DEF TimerArmed, In
    <3>3. Keeps
      BY <2>1, <3>1 DEF Keeps, Fetching
    <3>4. ChunkAccounted'
      BY <1>0, <2>1, AccountedKeep
    <3>5. SleepersAreWoken'
      BY <1>0, <3>1, <3>2, <3>3 DEF SleepersAreWoken, Keeps
    <3> QED
      BY <2>1, <3>3, <3>4, <3>5, InvOther
  <2> QED
    BY <2>2, <2>3
<1>6. CASE PatienceElapses \/ Abandon \/ UNCHANGED vars
  <2>1. /\ UNCHANGED <<flight, done, inFlight, reqs, remaining>>
        /\ UNCHANGED <<pending, aborted, clock>> /\ UNCHANGED <<pc, job>>
    BY <1>6
    DEF PatienceElapses, Abandon, vars, queueVars, outcomeVars, holderVars, timeVars, procVars
  <2>2. Keeps
    BY <2>1 DEF Keeps, Fetching
  <2>3. ChunkAccounted'
    BY <1>0, <2>1, AccountedKeep
  <2>4. SleepersAreWoken'
    BY <1>0, <2>1, <2>2 DEF SleepersAreWoken, TimerArmed, Keeps
  <2> QED
    BY <2>1, <2>2, <2>3, <2>4, InvOther
<1> QED
  BY <1>1, <1>2, <1>3, <1>4, <1>5, <1>6

\* A plan starts in the invariant.
LEMMA InvInit == Init => PlanInv
<1> SUFFICES ASSUME Init PROVE PlanInv
  OBVIOUS
<1>0. TypeOK
  BY TypeInit
<1>1. PICK adopted \in BOOLEAN :
        /\ pending = [i \in 1 .. NumChunks - (IF adopted THEN 1 ELSE 0) |->
                       IF adopted THEN i ELSE i - 1]
        /\ flight = [c \in Chunks |-> IF adopted /\ c = 0 THEN {FirstHolder} ELSE {}]
        /\ inFlight = IF adopted THEN 1 ELSE 0
        /\ reqs = [h \in Holders |-> IF adopted /\ h = FirstHolder THEN 1 ELSE 0]
        /\ pc = [p \in Procs |-> IF p # Prefetch THEN "take"
                                   ELSE IF adopted THEN "fetch" ELSE "exit"]
        /\ job = [p \in Procs |-> IF p = Prefetch /\ adopted
                     THEN [chunk |-> 0, holder |-> FirstHolder, mark |-> 0] ELSE None]
  BY DEF Init
<1>2. Fetching = IF adopted THEN {Prefetch} ELSE {}
  BY <1>1, ConstantFacts DEF Fetching
<1>3. adopted => job[Prefetch].chunk = 0 /\ job[Prefetch].holder = FirstHolder
  BY <1>1, ConstantFacts
<1>4. done = {} /\ remaining = NumChunks
  BY DEF Init
<1>5. ChunkAccounted
  <2> DEFINE n == NumChunks - (IF adopted THEN 1 ELSE 0)
  <2>1. n \in Nat /\ DOMAIN pending = 1 .. n
        /\ \A i \in 1 .. n : pending[i] = IF adopted THEN i ELSE i - 1
    BY <1>1, ConstantFacts
  <2>2. ASSUME NEW c \in Chunks
        PROVE  /\ Queued(c) => flight[c] = {}
               /\ Queued(c) \/ flight[c] # {}
    <3>1. CASE adopted /\ c = 0
      <4>1. flight[c] = {FirstHolder}
        BY <1>1, <3>1
      <4>2. \A i \in 1 .. n : pending[i] # 0
        BY <2>1, <3>1
      <4> QED
        BY <2>1, <3>1, <4>1, <4>2 DEF Queued
    <3>2. CASE ~(adopted /\ c = 0)
      <4>1. flight[c] = {}
        BY <1>1, <3>2
      <4>2. c \in Int /\ 0 <= c /\ c <= NumChunks - 1 /\ NumChunks \in Nat
        BY ConstantFacts DEF Chunks
      <4>3. (IF adopted THEN c ELSE c + 1) \in 1 .. n
        BY <3>2, <4>2
      <4>4. pending[IF adopted THEN c ELSE c + 1] = c
        BY <2>1, <4>2, <4>3
      <4> QED
        BY <2>1, <4>1, <4>3, <4>4 DEF Queued
    <3> QED
      BY <3>1, <3>2
  <2>3. \A i, j \in DOMAIN pending : pending[i] = pending[j] => i = j
    BY <2>1
  <2> QED
    BY <1>4, <2>2, <2>3 DEF ChunkAccounted
<1>6. FlightIsFetching
  <2> SUFFICES ASSUME NEW c \in Chunks PROVE flight[c] = {job[p].holder : p \in CopiesOf(c)}
    BY <1>4 DEF FlightIsFetching
  <2>1. CASE adopted /\ c = 0
    BY <1>1, <1>2, <1>3, <2>1 DEF CopiesOf
  <2>2. CASE ~(adopted /\ c = 0)
    BY <1>1, <1>2, <1>3, <2>2 DEF CopiesOf
  <2> QED
    BY <2>1, <2>2
<1>7. Distinct /\ TwoCopies
  BY <1>2 DEF Distinct, TwoCopies, CopiesOf
<1>8. Counts
  <2>1. inFlight = Cardinality(Fetching)
    BY <1>1, <1>2, FS_EmptySet, FS_Singleton
  <2>2. ASSUME NEW h \in Holders PROVE reqs[h] = Cardinality(FetchingOf(h))
    <3>1. FetchingOf(h) = IF adopted /\ h = FirstHolder THEN {Prefetch} ELSE {}
      BY <1>2, <1>3 DEF FetchingOf
    <3> QED
      BY <1>1, <3>1, FS_EmptySet, FS_Singleton
  <2> QED
    BY <2>1, <2>2 DEF Counts
<1>9. remaining = NumChunks - Cardinality(done)
  BY <1>4, FS_EmptySet, ConstantFacts
<1>10. \A h \in Holders : reqs[h] <= MaxHolderRequests
  BY <1>1 DEF MaxHolderRequests
<1>11. SleepersAreWoken
  BY <1>1 DEF SleepersAreWoken
<1> QED
  BY <1>0, <1>5, <1>6, <1>7, <1>8, <1>9, <1>10, <1>11, InvParts

\* Every step of the plan keeps the invariant.
LEMMA InvStep ==
  ASSUME PlanInv, [Next]_vars
  PROVE  PlanInv'
<1>1. TypeOK'
  BY TypeTake, TypeAnswer, TypePublish, TypeReader, TypeProbe, TypeTime
  DEF Next, Step, Terminated, PlanInv
<1> QED
  BY <1>1, InvTake, InvAnswer, InvEnvironment DEF Next, Step, Terminated

\* The invariant holds in every reachable state of the plan.
THEOREM Invariance == Spec => []PlanInv
<1>1. PlanInv /\ [Next]_vars => PlanInv'
  BY InvStep
<1> QED
  BY <1>1, InvInit, PTL DEF Spec

\* Every chunk is in exactly one place until the plan is given up: no failure,
\* hedge or lost copy loses a chunk or queues it twice.
THEOREM ChunksAccountedFor == Spec => []ChunkAccounted
<1>1. PlanInv => ChunkAccounted
  BY DEF PlanInv
<1> QED
  BY <1>1, Invariance, PTL

\* The flight table is exact, so a failed copy is told from a lost chunk.
THEOREM FlightTableExact == Spec => []FlightIsFetching
<1>1. PlanInv => FlightIsFetching
  BY DEF PlanInv
<1> QED
  BY <1>1, Invariance, PTL

\* inFlight, reqs and remaining are what they count, whatever the order in
\* which hedged copies end.
THEOREM CountsExact == Spec => []ChargesExact
<1>1. PlanInv => ChargesExact
  BY DEF PlanInv
<1> QED
  BY <1>1, Invariance, PTL

\* At most two copies of a chunk, never two at one holder, and no holder has
\* more than two requests, however many workers there are.
THEOREM HedgingIsBounded == Spec => []HedgingBounded
<1>1. PlanInv => HedgingBounded
  BY DEF PlanInv
<1> QED
  BY <1>1, Invariance, PTL

\* The flight table, the charges and the bounds of hedging are exact together,
\* for any number of workers, holders and chunks.
THEOREM FlightIsExact == Spec => []FlightExact
<1>1. PlanInv => FlightExact
  BY DEF PlanInv, FlightExact
<1> QED
  BY <1>1, Invariance, PTL

\* No worker sleeps in take() with nothing left that would wake it.
THEOREM NoLostWakeUp == Spec => []SleepersAreWoken
<1>1. PlanInv => SleepersAreWoken
  BY DEF PlanInv
<1> QED
  BY <1>1, Invariance, PTL

------------------------------------------------------------------------------
(* What readers are told *)

\* Steps that deliver and publish nothing; the ones that end a goroutine are
\* among them.
Quiet ==
  /\ UNCHANGED <<done, watermark, chunkOK, progress, remaining>>
  /\ aborted => aborted'
  /\ \A p \in Procs : pc'[p] = "publish" <=> pc[p] = "publish"
  /\ \A p \in Procs : pc[p] = "publish" => job'[p] = job[p]
  /\ \A w \in Workers : pc'[w] = "exit" => pc[w] = "exit" \/ aborted' \/ remaining = 0
  /\ Finished => Finished' /\ aborted' = aborted

\* Everything but a delivery and its publication is quiet.
LEMMA QuietTake ==
  ASSUME TypeOK, NEW w \in Procs, Take(w)
  PROVE  Quiet
<1>0. pc \in [Procs -> {"take", "wait", "fetch", "publish", "exit"}] /\ Workers \subseteq Procs
  BY DEF TypeOK, Procs
<1>1. pc[w] = "take" /\ ~Finished
  BY DEF Take, TakeStops, TakeWanted, TakePending, TakeEndgame, TakeIdles, CanTake, Finished
<1>2. CASE TakeStops(w) \/ TakeIdles(w)
  <2>1. UNCHANGED <<done, watermark, chunkOK, progress, remaining, job>>
    BY <1>2 DEF TakeStops, TakeIdles, queueVars, readVars
  <2>2. PICK to \in {"wait", "exit"} : pc' = [pc EXCEPT ![w] = to]
    BY <1>2 DEF TakeStops, TakeIdles
  <2>3. (aborted => aborted') /\ (to = "exit" => aborted' \/ remaining = 0)
    BY <1>0, <1>2, <2>2 DEF TakeStops, TakeIdles, Abort, outcomeVars
  <2> QED
    BY <1>0, <1>1, <2>1, <2>2, <2>3 DEF Quiet
<1>3. CASE TakeWanted(w) \/ TakePending(w) \/ TakeEndgame(w)
  <2>1. PICK c, h : Dispatch(w, c, h)
    BY <1>3 DEF TakeWanted, TakePending, TakeEndgame
  <2>2. UNCHANGED <<done, watermark, chunkOK, progress, remaining, aborted>>
    BY <2>1 DEF Dispatch, outcomeVars, readVars
  <2>3. pc' = [pc EXCEPT ![w] = "fetch"] /\ \A p \in Procs \ {w} : job'[p] = job[p]
    BY <2>1 DEF Dispatch, TypeOK
  <2> QED
    BY <1>0, <1>1, <2>2, <2>3 DEF Quiet
<1> QED
  BY <1>2, <1>3 DEF Take

\* A failed attempt is quiet: a worker goes on, the settler leaves.
LEMMA QuietFail ==
  ASSUME TypeOK, NEW w \in Procs, Answer(w), ~Succeed(w)
  PROVE  Quiet
<1>0. /\ pc \in [Procs -> {"take", "wait", "fetch", "publish", "exit"}] /\ Workers \subseteq Procs
      /\ Prefetch \notin Workers
  BY PlanAssumption DEF TypeOK, Procs
<1>1. /\ pc[w] = "fetch" /\ Broadcast(w, AfterAnswer(w)) /\ job' = [job EXCEPT ![w] = None]
      /\ UNCHANGED <<done, watermark, chunkOK, progress, remaining>>
  BY DEF Answer, FailLost, FailCorrupt, FailAbsent, FailBusy, FailTransient, FailCommon, readVars
<1>2. aborted => aborted'
  BY DEF Answer, FailLost, FailCorrupt, FailAbsent, FailBusy, FailTransient, SettleFailure, Abort, outcomeVars
<1>3. ~Finished
  BY <1>1 DEF Finished
<1>4. \A p \in Procs \ {w} : job'[p] = job[p]
  BY <1>1 DEF TypeOK
<1>5. /\ pc'[w] = AfterAnswer(w)
      /\ \A p \in Procs \ {w} : pc'[p] = IF pc[p] = "wait" THEN "take" ELSE pc[p]
  BY <1>1 DEF Broadcast
<1>6. AfterAnswer(w) # "publish" /\ (w \in Workers => AfterAnswer(w) # "exit")
  BY <1>0 DEF AfterAnswer
<1> QED
  BY <1>0, <1>1, <1>2, <1>3, <1>4, <1>5, <1>6 DEF Quiet

\* Readers' pokes, probes and time are quiet.
LEMMA QuietOther ==
  ASSUME TypeOK,
         \/ \E c \in Chunks : Prioritize(c)
         \/ \E h \in Holders : SetCoverage(h) \/ ProbeUnanswered(h)
         \/ ClockTick \/ PatienceElapses \/ Abandon \/ UNCHANGED vars
  PROVE  Quiet
<1>0. Workers \subseteq Procs /\ None \notin Procs
  BY PlanAssumption DEF Procs
<1>1. UNCHANGED <<done, watermark, chunkOK, progress, remaining, aborted, job>>
  BY DEF Prioritize, SetCoverage, ProbeUnanswered, ClockTick, PatienceElapses, Abandon, vars,
         queueVars, outcomeVars, procVars, readVars
<1>2. Broadcast(None, "take") \/ pc' = pc
  BY DEF Prioritize, SetCoverage, ProbeUnanswered, ClockTick, PatienceElapses, Abandon, vars, procVars
<1>3. \A p \in Procs : pc'[p] = pc[p] \/ (pc[p] = "wait" /\ pc'[p] = "take")
  BY <1>0, <1>2 DEF Broadcast
<1> QED
  BY <1>0, <1>1, <1>3 DEF Quiet, Finished

\* A step is quiet, a delivery or a publication.
LEMMA Steps ==
  ASSUME TypeOK, [Next]_vars
  PROVE  Quiet \/ \E w \in Procs : Succeed(w) \/ Publish(w)
BY QuietTake, QuietFail, QuietOther DEF Next, Step, Terminated, Answer

\* What a delivery does to what readers are told of.
LEMMA SucceedFacts ==
  ASSUME TypeOK, NEW w \in Procs, Succeed(w)
  PROVE  /\ pc[w] = "fetch" /\ pc'[w] = "publish" /\ job[w].chunk \in Chunks
         /\ done' = done \cup {job[w].chunk} /\ UNCHANGED <<chunkOK, progress, aborted>>
         /\ job'[w].chunk = job[w].chunk /\ job'[w].mark = watermark'
         /\ watermark' \in watermark .. NumChunks /\ watermark .. watermark' - 1 \subseteq done'
         /\ watermark' = NumChunks \/ watermark' \notin done'
         /\ \A p \in Procs \ {w} : job'[p] = job[p] /\ pc'[p] = IF pc[p] = "wait" THEN "take" ELSE pc[p]
<1>1. /\ pc[w] = "fetch" /\ Broadcast(w, "publish") /\ job' = [job EXCEPT ![w].mark = watermark']
      /\ done' = done \cup {job[w].chunk} /\ watermark' = WatermarkOf(done')
      /\ UNCHANGED <<chunkOK, progress, aborted>>
  BY DEF Succeed, outcomeVars, readVars
<1>2. job[w] \in Attempt /\ watermark \in 0 .. NumChunks
  BY <1>1 DEF TypeOK
<1>3. /\ watermark' \in watermark .. NumChunks /\ watermark .. watermark' - 1 \subseteq done'
      /\ watermark' = NumChunks \/ watermark' \notin done'
  BY <1>1, <1>2, WatermarkFacts
<1>4. job'[w].chunk = job[w].chunk /\ job'[w].mark = watermark' /\ \A p \in Procs \ {w} : job'[p] = job[p]
  BY <1>1, <1>2 DEF TypeOK, Attempt
<1>5. /\ pc'[w] = "publish"
      /\ \A p \in Procs \ {w} : pc'[p] = IF pc[p] = "wait" THEN "take" ELSE pc[p]
  BY <1>1 DEF Broadcast
<1> QED
  BY <1>1, <1>2, <1>3, <1>4, <1>5 DEF Attempt

\* What a publication does.
LEMMA PublishFacts ==
  ASSUME TypeOK, NEW w \in Procs, Publish(w)
  PROVE  /\ pc[w] = "publish" /\ job[w].chunk \in Chunks /\ job[w].mark \in 0 .. NumChunks
         /\ UNCHANGED <<done, watermark, remaining, aborted>>
         /\ chunkOK' = chunkOK \cup {job[w].chunk}
         /\ progress' = IF job[w].mark > progress THEN job[w].mark ELSE progress
         /\ pc'[w] = AfterAnswer(w) /\ \A p \in Procs \ {w} : pc'[p] = pc[p] /\ job'[p] = job[p]
<1>1. job[w] \in Attempt
  BY DEF Publish, TypeOK
<1> QED
  BY <1>1 DEF Publish, TypeOK, Attempt, queueVars, outcomeVars

\* A plan that counts nothing as missing has delivered every chunk.
LEMMA AllDelivered ==
  ASSUME PlanInv, remaining = 0
  PROVE  done = Chunks
<1>1. done \subseteq Chunks /\ NumChunks \in Nat /\ Cardinality(done) \in Int
  <2>1. IsFiniteSet(Chunks)
    BY ConstantFacts, FS_Interval DEF Chunks
  <2> QED
    BY <2>1, ConstantFacts, FS_Subset, FS_CardinalityType DEF PlanInv, TypeOK
<1>2. Cardinality(done) = NumChunks
  BY <1>1 DEF PlanInv, ChargesExact
<1>3. IsFiniteSet(Chunks) /\ Cardinality(Chunks) = NumChunks
  BY <1>1, FS_Interval DEF Chunks
<1> QED
  BY <1>1, <1>2, <1>3, FS_Subset

\* Whoever is told of a chunk or a prefix is told of one that has landed, and
\* what has landed is told or about to be.
LEMMA DeliveryNext ==
  ASSUME PlanInv, DeliveryInv, [Next]_vars, TypeOK'
  PROVE  DeliveryInv'
<1>0. /\ TypeOK /\ Told /\ ToBeTold /\ Leaving /\ Workers \subseteq Procs /\ Prefetch \notin Workers
      /\ NumChunks \in Nat /\ watermark \in 0 .. NumChunks /\ progress \in 0 .. NumChunks
  BY PlanAssumption DEF PlanInv, DeliveryInv, Procs, TypeOK
<1>1. CASE Quiet
  <2>1. Told'
    BY <1>0, <1>1 DEF Told, Quiet
  <2>2. ToBeTold'
    BY <1>0, <1>1 DEF ToBeTold, Quiet
  <2>3. Leaving'
    BY <1>0, <1>1 DEF Leaving, Quiet
  <2> QED
    BY <2>1, <2>2, <2>3 DEF DeliveryInv
<1>2. ASSUME NEW w \in Procs, Succeed(w) PROVE DeliveryInv'
  <2> DEFINE c == job[w].chunk
  <2>1. /\ pc[w] = "fetch" /\ pc'[w] = "publish" /\ c \in Chunks
        /\ done' = done \cup {c} /\ UNCHANGED <<chunkOK, progress, aborted>>
        /\ job'[w].chunk = c /\ job'[w].mark = watermark'
        /\ watermark' \in watermark .. NumChunks /\ watermark .. watermark' - 1 \subseteq done'
        /\ watermark' = NumChunks \/ watermark' \notin done'
        /\ \A p \in Procs \ {w} : job'[p] = job[p] /\ pc'[p] = IF pc[p] = "wait" THEN "take" ELSE pc[p]
    BY <1>0, <1>2, SucceedFacts
  <2> HIDE DEF c
  <2>2. 0 .. watermark' - 1 \subseteq done'
    <3>1. 0 .. watermark - 1 \subseteq done'
      BY <1>0, <2>1 DEF Told
    <3> QED
      BY <1>0, <2>1, <3>1
  <2>3. \A p \in Procs : pc'[p] = "publish" => job'[p].chunk \in done' /\ job'[p].mark <= watermark'
    <3> SUFFICES ASSUME NEW p \in Procs \ {w}, pc'[p] = "publish"
                 PROVE  job'[p].chunk \in done' /\ job'[p].mark <= watermark'
      BY <1>0, <2>1
    <3>1. pc[p] = "publish" /\ job'[p] = job[p] /\ job[p] \in Attempt
      BY <1>0, <2>1 DEF TypeOK
    <3> QED
      BY <1>0, <2>1, <3>1 DEF Told, Attempt
  <2>4. Told'
    <3>1. progress' <= watermark'
      BY <1>0, <2>1 DEF Told
    <3> QED
      BY <1>0, <2>1, <2>2, <2>3, <3>1 DEF Told
  <2>5. ToBeTold'
    <3>1. ASSUME NEW d \in done' \ chunkOK' PROVE \E p \in Procs : pc'[p] = "publish" /\ job'[p].chunk = d
      <4>1. CASE d = c
        BY <2>1, <4>1
      <4>2. CASE d # c
        <5>1. PICK p \in Procs : pc[p] = "publish" /\ job[p].chunk = d
          BY <1>0, <2>1, <3>1, <4>2 DEF ToBeTold
        <5> QED
          BY <2>1, <5>1
      <4> QED
        BY <4>1, <4>2
    <3> QED
      BY <2>1, <3>1 DEF ToBeTold
  <2>6. Leaving'
    <3> SUFFICES ASSUME NEW v \in Workers, pc'[v] = "exit" PROVE aborted' \/ remaining' = 0
      BY DEF Leaving
    <3>1. pc[v] = "exit"
      BY <1>0, <2>1
    <3>2. aborted \/ remaining = 0
      BY <1>0, <3>1 DEF Leaving
    <3>3. CASE remaining = 0
      <4>1. c \in done
        BY <2>1, <3>3, AllDelivered
      <4> QED
        BY <1>2, <3>3, <4>1 DEF Succeed, c
    <3> QED
      BY <2>1, <3>2, <3>3
  <2> QED
    BY <2>4, <2>5, <2>6 DEF DeliveryInv
<1>3. ASSUME NEW w \in Procs, Publish(w) PROVE DeliveryInv'
  <2> DEFINE c == job[w].chunk
             m == job[w].mark
  <2>1. /\ pc[w] = "publish" /\ c \in Chunks /\ m \in 0 .. NumChunks
        /\ UNCHANGED <<done, watermark, remaining, aborted>>
        /\ chunkOK' = chunkOK \cup {c}
        /\ progress' = IF m > progress THEN m ELSE progress
        /\ pc'[w] = AfterAnswer(w) /\ \A p \in Procs \ {w} : pc'[p] = pc[p] /\ job'[p] = job[p]
    BY <1>0, <1>3, PublishFacts
  <2>2. c \in done /\ m <= watermark
    BY <1>0, <2>1 DEF Told
  <2>3. AfterAnswer(w) # "publish" /\ (w \in Workers => AfterAnswer(w) # "exit")
    BY <1>0 DEF AfterAnswer
  <2>4. Told'
    <3>1. progress' <= watermark'
      BY <1>0, <2>1, <2>2 DEF Told
    <3>2. \A p \in Procs : pc'[p] = "publish" => p # w
      BY <2>1, <2>3
    <3> QED
      BY <1>0, <2>1, <2>2, <3>1, <3>2 DEF Told
  <2>5. ToBeTold'
    <3>1. ASSUME NEW d \in done' \ chunkOK' PROVE \E p \in Procs : pc'[p] = "publish" /\ job'[p].chunk = d
      <4>1. PICK p \in Procs : pc[p] = "publish" /\ job[p].chunk = d
        BY <1>0, <2>1, <3>1 DEF ToBeTold
      <4>2. p # w
        BY <2>1, <3>1, <4>1
      <4> QED
        BY <2>1, <4>1, <4>2
    <3>2. ASSUME progress' < watermark' PROVE \E p \in Procs : pc'[p] = "publish" /\ job'[p].mark = watermark'
      <4>1. progress < watermark /\ m < watermark
        BY <1>0, <2>1, <2>2, <3>2
      <4>2. PICK p \in Procs : pc[p] = "publish" /\ job[p].mark = watermark
        BY <1>0, <4>1 DEF ToBeTold
      <4>3. p # w
        BY <1>0, <2>1, <4>1, <4>2
      <4> QED
        BY <2>1, <4>2, <4>3
    <3> QED
      BY <3>1, <3>2 DEF ToBeTold
  <2>6. Leaving'
    BY <1>0, <2>1, <2>3 DEF Leaving
  <2> QED
    BY <2>4, <2>5, <2>6 DEF DeliveryInv
<1> QED
  BY <1>0, <1>1, <1>2, <1>3, Steps

\* A plan starts with nothing told.
LEMMA DeliveryInit == Init => DeliveryInv
<1> SUFFICES ASSUME Init PROVE DeliveryInv
  OBVIOUS
<1>1. done = {} /\ chunkOK = {} /\ watermark = 0 /\ progress = 0
  BY DEF Init
<1>2. PICK adopted \in BOOLEAN :
        pc = [p \in Procs |-> IF p # Prefetch THEN "take" ELSE IF adopted THEN "fetch" ELSE "exit"]
  BY DEF Init
<1>3. \A p \in Procs : pc[p] # "publish" /\ (p \in Workers => pc[p] = "take")
  BY <1>2, PlanAssumption
<1> QED
  BY <1>1, <1>3 DEF DeliveryInv, Told, ToBeTold, Leaving, Procs

\* The scheduler's books and what readers are told hold together throughout.
THEOREM Deliveries == Spec => [](PlanInv /\ DeliveryInv)
<1>1. PlanInv /\ DeliveryInv /\ [Next]_vars => PlanInv' /\ DeliveryInv'
  BY InvStep, DeliveryNext DEF PlanInv
<1> QED
  BY <1>1, InvInit, DeliveryInit, PTL DEF Spec

\* A plan that ends and is not given up has told the readers everything.
Whole == Finished /\ ~aborted => chunkOK = Chunks /\ progress = NumChunks
LEMMA EndsWhole == PlanInv /\ DeliveryInv => Whole
<1> SUFFICES ASSUME PlanInv, DeliveryInv, Finished, ~aborted
             PROVE  chunkOK = Chunks /\ progress = NumChunks
  BY DEF Whole
<1>1. \A p \in Procs : pc[p] # "publish"
  BY DEF Finished
<1>2. remaining = 0
  BY PlanAssumption DEF Finished, DeliveryInv, Leaving, Procs
<1>3. done = Chunks
  BY <1>2, AllDelivered
<1>4. chunkOK = done
  BY <1>1 DEF DeliveryInv, Told, ToBeTold
<1>5. watermark = NumChunks
  BY <1>3, ConstantFacts DEF PlanInv, TypeOK, DeliveryInv, Told, Chunks
<1>6. progress = watermark
  BY <1>1, <1>5, ConstantFacts DEF PlanInv, TypeOK, DeliveryInv, Told, ToBeTold
<1> QED
  BY <1>3, <1>4, <1>5, <1>6

\* Every step of the plan is a step of the promise, or shows readers nothing.
LEMMA StepsDeliver ==
  ASSUME PlanInv, DeliveryInv, [Next]_vars, Whole'
  PROVE  [Promise!Deliver]_(Promise!deliveryVars)
<1> DEFINE outcome == IF ~Finished THEN "running" ELSE IF aborted THEN "failed" ELSE "whole"
<1>0. TypeOK /\ Told /\ ToBeTold
  BY DEF PlanInv, DeliveryInv
<1>1. outcome' = "whole" => chunkOK' = 0 .. NumChunks - 1 /\ progress' = NumChunks
  BY DEF Whole, Chunks
<1>2. outcome \in {"running", "whole", "failed"} /\ outcome' \in {"running", "whole", "failed"}
  OBVIOUS
<1>3. CASE Quiet
  <2>1. UNCHANGED <<done, chunkOK, progress>>
    BY <1>3 DEF Quiet
  <2>2. CASE outcome = "running"
    <3>1. CASE outcome' = "running"
      BY <2>1, <2>2, <3>1 DEF Promise!deliveryVars
    <3>2. CASE outcome' # "running"
      <4>1. Promise!End
        BY <1>1, <1>2, <2>1, <2>2, <3>2 DEF Promise!End, Promise!MayEnd
      <4> QED
        BY <4>1 DEF Promise!Deliver
    <3> QED
      BY <3>1, <3>2
  <2>3. CASE outcome # "running"
    <3>1. outcome' = outcome
      BY <1>3, <2>3 DEF Quiet
    <3> QED
      BY <2>1, <3>1 DEF Promise!deliveryVars
  <2> QED
    BY <2>2, <2>3
<1>4. ASSUME NEW w \in Procs, Succeed(w) PROVE [Promise!Deliver]_(Promise!deliveryVars)
  <2>1. /\ pc[w] = "fetch" /\ pc'[w] = "publish" /\ job[w].chunk \in Chunks
        /\ done' = done \cup {job[w].chunk} /\ UNCHANGED <<chunkOK, progress, aborted>>
    BY <1>0, <1>4, SucceedFacts
  <2>2. outcome = "running" /\ outcome' = "running"
    BY <2>1 DEF Finished
  <2>3. CASE job[w].chunk \in done
    BY <2>1, <2>2, <2>3 DEF Promise!deliveryVars
  <2>4. CASE job[w].chunk \notin done
    <3>1. Promise!Land(job[w].chunk)
      BY <2>1, <2>2, <2>4 DEF Promise!Land
    <3> QED
      BY <2>1, <3>1 DEF Promise!Deliver, Chunks
  <2> QED
    BY <2>3, <2>4
<1>5. ASSUME NEW w \in Procs, Publish(w) PROVE [Promise!Deliver]_(Promise!deliveryVars)
  <2> DEFINE c == job[w].chunk
             m == job[w].mark
  <2>1. /\ pc[w] = "publish" /\ c \in Chunks /\ m \in 0 .. NumChunks
        /\ done' = done /\ chunkOK' = chunkOK \cup {c}
        /\ progress' = IF m > progress THEN m ELSE progress
    BY <1>0, <1>5, PublishFacts
  <2>2. outcome = "running"
    BY <2>1 DEF Finished
  <2>3. c \in done /\ 0 .. m - 1 \subseteq done
    <3>1. c \in done /\ m <= watermark /\ 0 .. watermark - 1 \subseteq done /\ watermark \in Int
      BY <1>0, <2>1 DEF Told, TypeOK
    <3> QED
      BY <2>1, <3>1
  <2>4. Promise!PublishUpTo(c, m)
    BY <1>1, <1>2, <2>1, <2>2, <2>3 DEF Promise!PublishUpTo, Promise!MayEnd
  <2> QED
    BY <2>1, <2>4 DEF Promise!Deliver, Chunks
<1> QED
  BY <1>0, <1>3, <1>4, <1>5, Steps

\* The scheduler implements ChunkDelivery: chunks land once, are published
\* after they have landed, the published prefix never shrinks or covers a hole,
\* and a fetch that ends whole has published everything - for any holders,
\* answers, coverage, workers and chunks.
THEOREM PromiseKept == Spec => KeepsThePromise
<1>1. Init => Promise!Fresh
  <2> SUFFICES ASSUME Init PROVE Promise!Fresh
    OBVIOUS
  <2>1. PICK adopted \in BOOLEAN :
          pc = [p \in Procs |-> IF p # Prefetch THEN "take" ELSE IF adopted THEN "fetch" ELSE "exit"]
    BY DEF Init
  <2>2. \A w \in Workers : w \in Procs /\ pc[w] = "take"
    BY <2>1, PlanAssumption DEF Procs
  <2>3. ~Finished
    BY <2>2, PlanAssumption DEF Finished
  <2> QED
    BY <2>3 DEF Init, Promise!Fresh
<1>2. PlanInv /\ DeliveryInv /\ [Next]_vars /\ Whole'
        => [Promise!Deliver]_(Promise!deliveryVars)
  BY StepsDeliver
<1> QED
  BY <1>1, <1>2, EndsWhole, Deliveries, PTL DEF Spec, KeepsThePromise, Promise!Delivery

------------------------------------------------------------------------------
(* What take() decides by *)

\* A step charges a new attempt, settles one that ends, or leaves the charges be.
LEMMA Charging ==
  ASSUME TypeOK, [Next]_vars
  PROVE  \/ Keeps /\ load' = load
         \/ \E w \in Procs, c \in Chunks, h \in Askable :
              Adds(w, c, h) /\ load' = [load EXCEPT ![h] = @ + ChunkBytes[c]]
         \/ \E w \in Procs :
              /\ Drops(w)
              /\ load' = [load EXCEPT ![job[w].holder] = NotBelowZero(@ - ChunkBytes[job[w].chunk])]
<1>1. ASSUME NEW w \in Procs, TakeStops(w) \/ TakeIdles(w)
      PROVE  Keeps /\ load' = load
  BY <1>1 DEF TakeStops, TakeIdles, CanTake, Keeps, Fetching, TypeOK, holderVars
<1>2. ASSUME NEW w \in Procs, TakeWanted(w) \/ TakeEndgame(w) \/ TakePending(w)
      PROVE  \E c \in Chunks, h \in Askable :
               Adds(w, c, h) /\ load' = [load EXCEPT ![h] = @ + ChunkBytes[c]]
  <2>1. PICK c \in Chunks, h \in Askable : Dispatch(w, c, h)
    <3>1. CASE TakeWanted(w) \/ TakeEndgame(w)
      BY <3>1, HedgeFacts DEF TakeWanted, TakeEndgame, TypeOK
    <3>2. CASE TakePending(w)
      <4>1. PICK m \in Match : Dispatch(w, pending[m[1]], m[2])
        BY <3>2 DEF TakePending
      <4>2. pending[m[1]] \in Chunks /\ m[2] \in Askable
        BY MatchFacts DEF TypeOK
      <4> QED
        BY <4>1, <4>2
    <3> QED
      BY <1>2, <3>1, <3>2
  <2>2. pc[w] = "take"
    BY <1>2 DEF TakeWanted, TakeEndgame, TakePending, CanTake
  <2> QED
    BY <2>1, <2>2, DispatchAdds DEF Dispatch
<1>3. ASSUME NEW w \in Procs, Answer(w)
      PROVE  /\ Drops(w)
             /\ load' = [load EXCEPT ![job[w].holder] = NotBelowZero(@ - ChunkBytes[job[w].chunk])]
  <2>1. PICK next \in {"take", "publish", "exit"} : pc[w] = "fetch" /\ Broadcast(w, next)
    BY <1>3
    DEF Answer, Succeed, FailLost, FailCorrupt, FailAbsent, FailBusy, FailTransient, FailCommon, AfterAnswer
  <2>2. \A p \in Procs \ {w} : job'[p] = job[p]
    BY <1>3
    DEF Answer, Succeed, FailLost, FailCorrupt, FailAbsent, FailBusy, FailTransient, FailCommon, TypeOK
  <2>3. \E won : Landed(job[w].chunk, job[w].holder, won)
    BY <1>3
    DEF Answer, Succeed, FailLost, FailCorrupt, FailAbsent, FailBusy, FailTransient, FailCommon
  <2> QED
    BY <2>1, <2>2, <2>3, BroadcastDrops DEF Landed
<1>4. ASSUME NEW w \in Procs, Publish(w) PROVE Keeps /\ load' = load
  BY <1>4 DEF Publish, AfterAnswer, Keeps, Fetching, TypeOK, holderVars
<1>5. ASSUME \/ \E c \in Chunks : Prioritize(c)
             \/ \E h \in Holders : SetCoverage(h) \/ ProbeUnanswered(h)
             \/ ClockTick \/ PatienceElapses \/ Abandon \/ UNCHANGED vars
      PROVE  Keeps /\ load' = load
  <2>1. job' = job /\ load' = load
    BY <1>5 DEF Prioritize, SetCoverage, ProbeUnanswered, ClockTick, PatienceElapses, Abandon, vars,
                holderVars, procVars
  <2>2. Broadcast(None, "take") \/ pc' = pc
    BY <1>5
    DEF Prioritize, SetCoverage, ProbeUnanswered, ClockTick, PatienceElapses, Abandon, vars, procVars
  <2>3. CASE Broadcast(None, "take")
    BY <2>1, <2>3, BroadcastKeeps
  <2>4. CASE pc' = pc
    BY <2>1, <2>4 DEF Keeps, Fetching
  <2> QED
    BY <2>1, <2>2, <2>3, <2>4
<1> QED
  BY <1>1, <1>2, <1>3, <1>4, <1>5 DEF Next, Step, Terminated, Take

\* The bytes charged to one holder.
BytesOf(h) ==
  LET out == FetchingOf(h)
  IN  \/ out = {} /\ load[h] = 0
      \/ \E p \in out : out = {p} /\ load[h] = ChunkBytes[job[p].chunk]
      \/ \E p, q \in out :
           /\ p # q /\ out = {p, q}
           /\ load[h] = ChunkBytes[job[p].chunk] + ChunkBytes[job[q].chunk]

\* A holder whose attempts stay as they are.
LEMMA BytesKept ==
  ASSUME NEW h, BytesOf(h), load'[h] = load[h], FetchingOf(h)' = FetchingOf(h),
         \A p \in FetchingOf(h) : job'[p] = job[p]
  PROVE  BytesOf(h)'
BY DEF BytesOf

\* The bytes charged stay what is on the wire.
LEMMA BytesStep ==
  ASSUME PlanInv, BytesExact, [Next]_vars
  PROVE  BytesExact'
<1>0. /\ TypeOK /\ load \in [Holders -> Nat] /\ (\A h \in Holders : BytesOf(h))
      /\ ChunkBytes \in [Chunks -> Nat \ {0}]
  BY PlanAssumption DEF PlanInv, TypeOK, BytesExact, BytesOf
<1> SUFFICES ASSUME NEW g \in Holders PROVE BytesOf(g)'
  BY DEF BytesExact, BytesOf
<1>1. CASE Keeps /\ load' = load
  <2>1. FetchingOf(g)' = FetchingOf(g) /\ \A p \in FetchingOf(g) : job'[p] = job[p]
    BY <1>1 DEF Keeps, FetchingOf
  <2> QED
    BY <1>0, <1>1, <2>1, BytesKept
<1>2. ASSUME NEW w \in Procs, NEW c \in Chunks, NEW h \in Askable,
             Adds(w, c, h), load' = [load EXCEPT ![h] = @ + ChunkBytes[c]]
      PROVE  BytesOf(g)'
  <2>1. CASE g # h
    <3>1. FetchingOf(g)' = FetchingOf(g) /\ \A p \in FetchingOf(g) : job'[p] = job[p]
      BY <1>2, <2>1 DEF Adds, FetchingOf
    <3>2. load'[g] = load[g]
      BY <1>0, <1>2, <2>1
    <3> QED
      BY <1>0, <3>1, <3>2, BytesKept
  <2>2. CASE g = h
    <3> DEFINE out == FetchingOf(g)
    <3>1. FetchingOf(g)' = out \cup {w} /\ w \notin out /\ job'[w].chunk = c
          /\ \A p \in out : job'[p] = job[p]
      BY <1>2, <2>2 DEF Adds, FetchingOf
    <3>2. ~(Cardinality(out) >= 2) /\ IsFiniteSet(out)
      <4>1. reqs[h] < RequestCap /\ RequestCap \in {1, 2} /\ reqs[g] = Cardinality(out) /\ reqs[g] \in Nat
        BY <1>0, <2>2 DEF Askable, RequestCap, MaxHolderRequests, PlanInv, ChargesExact, TypeOK
      <4> QED
        BY <1>0, <2>2, <4>1, FetchingType
    <3>3. load'[g] = load[g] + ChunkBytes[c]
      BY <1>0, <1>2, <2>2
    <3> HIDE DEF out
    <3>4. \A p, q \in out : p = q
      BY <3>2, FewerThanTwo
    <3>5. \/ out = {} /\ load[g] = 0
          \/ \E p \in out : out = {p} /\ load[g] = ChunkBytes[job[p].chunk]
      BY <1>0, <3>4 DEF BytesOf, out
    <3>6. CASE out = {} /\ load[g] = 0
      <4>1. FetchingOf(g)' = {w} /\ load'[g] = ChunkBytes[job'[w].chunk]
        BY <1>0, <3>1, <3>3, <3>6
      <4> QED
        BY <4>1 DEF BytesOf
    <3>7. ASSUME NEW p \in out, out = {p}, load[g] = ChunkBytes[job[p].chunk]
          PROVE  BytesOf(g)'
      <4>1. FetchingOf(g)' = {p, w} /\ p # w
            /\ load'[g] = ChunkBytes[job'[p].chunk] + ChunkBytes[job'[w].chunk]
        BY <3>1, <3>3, <3>7
      <4> QED
        BY <4>1 DEF BytesOf
    <3> QED
      BY <3>5, <3>6, <3>7
  <2> QED
    BY <2>1, <2>2
<1>3. ASSUME NEW w \in Procs, Drops(w),
             load' = [load EXCEPT ![job[w].holder] = NotBelowZero(@ - ChunkBytes[job[w].chunk])]
      PROVE  BytesOf(g)'
  <2>0. w \in Fetching /\ job[w].chunk \in Chunks /\ job[w].holder \in Holders
    BY <1>0, <1>3, FetchingType DEF Drops
  <2>1. CASE g # job[w].holder
    <3>1. FetchingOf(g)' = FetchingOf(g) /\ \A p \in FetchingOf(g) : job'[p] = job[p]
      BY <1>3, <2>1 DEF Drops, FetchingOf
    <3>2. load'[g] = load[g]
      BY <1>0, <1>3, <2>1
    <3> QED
      BY <1>0, <3>1, <3>2, BytesKept
  <2>2. CASE g = job[w].holder
    <3> DEFINE out == FetchingOf(g)
               b == ChunkBytes[job[w].chunk]
    <3>1. FetchingOf(g)' = out \ {w} /\ w \in out /\ \A p \in out \ {w} : job'[p] = job[p]
      BY <1>3, <2>0, <2>2 DEF Drops, FetchingOf
    <3>2. load'[g] = NotBelowZero(load[g] - b) /\ b \in Nat
      BY <1>0, <1>3, <2>0, <2>2
    <3>3. \A p \in out : ChunkBytes[job[p].chunk] \in Nat
      BY <1>0, FetchingType DEF FetchingOf
    <3> HIDE DEF out, b
    <3>4. \/ out = {w} /\ load[g] = b
          \/ \E p \in out : p # w /\ out = {p, w} /\ load[g] = ChunkBytes[job[p].chunk] + b
      BY <1>0, <3>1, <3>2, <3>3 DEF BytesOf, out, b
    <3>5. CASE out = {w} /\ load[g] = b
      <4>1. FetchingOf(g)' = {} /\ load'[g] = 0
        BY <3>1, <3>2, <3>5 DEF NotBelowZero
      <4> QED
        BY <4>1 DEF BytesOf
    <3>6. ASSUME NEW p \in out, p # w, out = {p, w}, load[g] = ChunkBytes[job[p].chunk] + b
          PROVE  BytesOf(g)'
      <4>1. FetchingOf(g)' = {p} /\ load'[g] = ChunkBytes[job'[p].chunk]
        BY <3>1, <3>2, <3>3, <3>6 DEF NotBelowZero
      <4> QED
        BY <4>1 DEF BytesOf
    <3> QED
      BY <3>4, <3>5, <3>6
  <2> QED
    BY <2>1, <2>2
<1> QED
  BY <1>0, <1>1, <1>2, <1>3, Charging

\* Of the holders that may be asked, one ranks before all others: the books
\* are numbers.
LEMMA BestExists ==
  ASSUME TypeOK, NEW S, S \subseteq Holders, S # {}
  PROVE  Best(S) # {}
<1>0. load \in [Holders -> Nat]
  BY DEF TypeOK
<1>1. PICK h0 \in S : load[h0] \in Nat
  BY <1>0
<1> DEFINE T == {load[h] : h \in {g \in S : load[g] <= load[h0]}}
<1>2. T \subseteq 0 .. load[h0] /\ T # {}
  BY <1>0, <1>1
<1>3. PICK m \in T : \A k \in T : m <= k
  <2> HIDE DEF T
  <2> QED
    BY <1>1, <1>2, LeastElement
<1>4. m \in Nat /\ (\A h \in S : m <= load[h]) /\ \E h \in S : load[h] = m
  BY <1>0, <1>1, <1>2, <1>3
<1>5. PICK h \in S : load[h] = m /\ (h \in tried => \A g \in S : load[g] = m => g \in tried)
  BY <1>4
<1>6. \A g \in S : ~RanksBefore(g, h)
  BY <1>0, <1>4, <1>5 DEF RanksBefore
<1> QED
  BY <1>6 DEF Best

\* While the plan goes on somebody is left to ask.
Alive == (~aborted => Live # {}) /\ NeverUnschedulable

\* With nothing in flight and nobody resting, there is something to hand out.
LEMMA Schedulable ==
  ASSUME PlanInv, NEW w, CanTake(w), Match = {}, Awaited = {}, inFlight = 0
  PROVE  FALSE
<1>0. TypeOK /\ ChunkAccounted /\ FlightIsFetching /\ Counts
  BY InvParts
<1>1. Fetching = {} /\ \A h \in Holders : reqs[h] = 0
  <2>1. Fetching = {}
    BY <1>0, FetchingType, FS_EmptySet DEF Counts
  <2>2. \A h : FetchingOf(h) = {}
    BY <2>1 DEF FetchingOf
  <2> QED
    BY <1>0, <2>1, <2>2, FS_EmptySet DEF Counts
<1>2. pending # <<>>
  <2>1. done # Chunks
    <3>1. IsFiniteSet(Chunks) /\ Cardinality(Chunks) = NumChunks
      BY ConstantFacts, FS_Interval DEF Chunks
    <3>2. remaining = NumChunks - Cardinality(done) /\ remaining # 0
      BY DEF PlanInv, ChargesExact, CanTake
    <3> QED
      BY <3>1, <3>2, ConstantFacts
  <2>2. PICK c \in Chunks : c \notin done
    BY <1>0, <2>1 DEF TypeOK
  <2>3. flight[c] = {}
    BY <1>0, <1>1, <2>2 DEF FlightIsFetching, CopiesOf
  <2>4. Queued(c)
    BY <1>0, <2>2, <2>3 DEF ChunkAccounted, CanTake
  <2> QED
    BY <2>4 DEF Queued
<1>3. Askable # {} /\ Askable \subseteq Holders
  <2>1. PICK h \in Live : ~Resting(h)
    BY DEF CanTake, Awaited
  <2>2. reqs[h] = 0 /\ RequestCap \in {1, 2}
    BY <1>1 DEF Live, RequestCap, MaxHolderRequests
  <2> QED
    BY <2>1, <2>2 DEF Askable, Live
<1> DEFINE able == {h \in Askable : \E i \in DOMAIN pending : CanServe(h, pending[i])}
<1>4. CASE able # {}
  <2>1. PICK h \in Best(able) : TRUE
    BY <1>0, <1>3, <1>4, BestExists
  <2> QED
    BY <1>2, <1>4, <2>1 DEF Match
<1>5. CASE able = {}
  <2>1. PICK h \in Best(Askable) : TRUE
    BY <1>0, <1>3, BestExists
  <2> QED
    BY <1>2, <1>5, <2>1 DEF Match
<1> QED
  BY <1>4, <1>5

\* The plan gives up for a reason, and no holder is retired as the last one
\* without giving up.
LEMMA AliveStep ==
  ASSUME PlanInv, Alive, [Next]_vars
  PROVE  Alive'
<1>0. TypeOK /\ dead \subseteq Holders /\ Holders # {}
  BY PlanAssumption DEF PlanInv, TypeOK
<1>1. CASE UNCHANGED <<dead, aborted, err>>
  BY <1>1 DEF Alive, Live, NeverUnschedulable
<1>2. ASSUME NEW w \in Procs, TakeStops(w) PROVE Alive'
  <2>1. UNCHANGED outcomeVars /\ dead' = dead
    BY <1>2 DEF Alive, TakeStops, holderVars
  <2> QED
    BY <1>1, <2>1 DEF outcomeVars
<1>3. ASSUME NEW w \in Procs, TakeIdles(w) PROVE Alive'
  <2>1. dead' = dead /\ ~(Awaited = {} /\ inFlight = 0)
    BY <1>3, Schedulable DEF TakeIdles, holderVars
  <2>2. Abort("patience") \/ UNCHANGED outcomeVars
    BY <1>3, <2>1 DEF TakeIdles
  <2> QED
    BY <2>1, <2>2 DEF Alive, Live, NeverUnschedulable, Abort, outcomeVars
<1>4. ASSUME NEW w \in Procs, NEW suspect \in BOOLEAN, NEW why \in {"corrupt", "absent", "busy", "transient"},
             SettleFailure(job[w].chunk, suspect, why), dead' \subseteq Holders
      PROVE  Alive'
  <2>1. CASE suspect
    BY <1>4, <2>1 DEF SettleFailure, Abort, Alive, NeverUnschedulable
  <2>2. CASE ~suspect /\ aborted
    BY <1>4, <2>2 DEF SettleFailure, Abort, Alive, NeverUnschedulable, outcomeVars
  <2>3. CASE ~suspect /\ ~aborted /\ dead' = Holders
    BY <1>4, <2>3 DEF SettleFailure, Abort, Alive, NeverUnschedulable
  <2>4. CASE ~suspect /\ ~aborted /\ dead' # Holders
    <3>1. Live' # {}
      BY <1>4, <2>4 DEF Live
    <3>2. Abort("attempts") \/ UNCHANGED outcomeVars
      BY <1>4, <2>4 DEF SettleFailure
    <3> QED
      BY <3>1, <3>2 DEF Alive, NeverUnschedulable, Abort, outcomeVars
  <2> QED
    BY <2>1, <2>2, <2>3, <2>4
<1>5. ASSUME NEW w \in Procs, Answer(w), ~Succeed(w), ~FailLost(w) PROVE Alive'
  <2>0. job[w].holder \in Holders
    <3>1. w \in Fetching
      BY <1>5 DEF Answer, FailCorrupt, FailAbsent, FailBusy, FailTransient, FailCommon, Fetching
    <3> QED
      BY <1>0, <3>1, FetchingType
  <2>1. dead' \subseteq Holders
    BY <1>0, <1>5, <2>0 DEF Answer, FailCorrupt, FailAbsent, FailBusy, FailTransient
  <2>2. \E suspect \in BOOLEAN, why \in {"corrupt", "absent", "busy", "transient"} :
          SettleFailure(job[w].chunk, suspect, why)
    BY <1>5 DEF Answer, FailCorrupt, FailAbsent, FailBusy, FailTransient
  <2> QED
    BY <1>4, <2>1, <2>2
<1>6. ASSUME NEW w \in Procs, \/ TakeWanted(w) \/ TakePending(w) \/ TakeEndgame(w)
                              \/ Succeed(w) \/ FailLost(w) \/ Publish(w)
      PROVE  UNCHANGED <<dead, aborted, err>>
  BY <1>6 DEF TakeWanted, TakePending, TakeEndgame, Dispatch, Succeed, FailLost, Publish, outcomeVars, holderVars
<1>7. ASSUME \/ \E c \in Chunks : Prioritize(c)
             \/ \E h \in Holders : SetCoverage(h) \/ ProbeUnanswered(h)
             \/ ClockTick \/ PatienceElapses \/ Abandon \/ UNCHANGED vars
      PROVE  UNCHANGED <<dead, aborted, err>>
  BY <1>7 DEF Prioritize, SetCoverage, ProbeUnanswered, ClockTick, PatienceElapses, Abandon, vars,
              outcomeVars, holderVars
<1> QED
  BY <1>1, <1>2, <1>3, <1>5, <1>6, <1>7 DEF Next, Step, Terminated, Take, Answer

\* take() ranks holders by bytes that are on the wire, and neither runs out of
\* holders to name nor finds itself with a queue and nobody to wait for.
THEOREM TakesAreSound == Spec => []TakeIsSound
<1>1. Init => BytesExact /\ Alive
  <2> SUFFICES ASSUME Init PROVE BytesExact /\ Alive
    OBVIOUS
  <2>1. PICK adopted \in BOOLEAN :
          /\ load = [h \in Holders |-> IF adopted /\ h = FirstHolder THEN ChunkBytes[0] ELSE 0]
          /\ pc = [p \in Procs |-> IF p # Prefetch THEN "take" ELSE IF adopted THEN "fetch" ELSE "exit"]
          /\ job = [p \in Procs |-> IF p = Prefetch /\ adopted
                      THEN [chunk |-> 0, holder |-> FirstHolder, mark |-> 0] ELSE None]
    BY DEF Init
  <2>2. Fetching = IF adopted THEN {Prefetch} ELSE {}
    BY <2>1, ConstantFacts DEF Fetching
  <2>3. adopted => job[Prefetch].chunk = 0 /\ job[Prefetch].holder = FirstHolder
    BY <2>1, ConstantFacts
  <2>4. ASSUME NEW h \in Holders PROVE BytesOf(h)
    <3>1. FetchingOf(h) = IF adopted /\ h = FirstHolder THEN {Prefetch} ELSE {}
      BY <2>2, <2>3 DEF FetchingOf
    <3> QED
      BY <2>1, <2>3, <3>1 DEF BytesOf
  <2>5. Alive
    BY PlanAssumption DEF Init, Alive, Live, NeverUnschedulable
  <2> QED
    BY <2>4, <2>5 DEF BytesExact, BytesOf
<1>2. PlanInv /\ BytesExact /\ Alive /\ [Next]_vars => BytesExact' /\ Alive'
  BY BytesStep, AliveStep
<1>3. BytesExact /\ Alive => TakeIsSound
  BY DEF Alive, TakeIsSound
<1> QED
  BY <1>1, <1>2, <1>3, Invariance, PTL DEF Spec

=============================================================================
