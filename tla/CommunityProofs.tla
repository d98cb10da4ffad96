-------------------------- MODULE CommunityProofs ---------------------------
(***************************************************************************)
(* Theorems about the two halves of a node's community.  Gossip: what it    *)
(* reads out of the friendship graph and keeps of it, for any set of nodes, *)
(* any friendships and whatever the others publish.  Membership: the memo   *)
(* it answers from, for any number of requests and mutators, any TTL and    *)
(* any bounds on the clock and on the changes of the inputs.                *)
(***************************************************************************)
EXTENDS Gossip, Membership, FiniteSetTheorems, WellFoundedInduction, TLAPS

-----------------------------------------------------------------------------
(* The graph. *)

\* A nonempty set of naturals below a bound has a least element.
LEMMA LeastElement ==
  ASSUME NEW n \in Nat, NEW T, T \subseteq 0 .. n, T # {}
  PROVE  \E m \in T : \A k \in T : m <= k
<1> DEFINE Below == {0 .. m : m \in T}
<1>1. IsFiniteSet(0 .. n)
  BY FS_Interval
<1>2. Below \subseteq FiniteSubsetsOf(0 .. n)
  <2> SUFFICES ASSUME NEW m \in T PROVE 0 .. m \in FiniteSubsetsOf(0 .. n)
    OBVIOUS
  <2>1. m \in Nat /\ 0 .. m \subseteq 0 .. n
    OBVIOUS
  <2>2. IsFiniteSet(0 .. m)
    BY <2>1, FS_Interval
  <2> QED
    BY <2>1, <2>2 DEF FiniteSubsetsOf
<1>3. IsWellFoundedOn(StrictSubsetOrdering(0 .. n), FiniteSubsetsOf(0 .. n))
  BY <1>1, FS_StrictSubsetOrderingWellFounded
<1>4. PICK B \in Below : \A C \in Below : ~(<<C, B>> \in StrictSubsetOrdering(0 .. n))
  <2> HIDE DEF Below
  <2>1. Below # {}
    BY DEF Below
  <2> QED
    BY <1>2, <1>3, <2>1, WFMin
<1>5. PICK m \in T : B = 0 .. m
  OBVIOUS
<1>6. ASSUME NEW k \in T, ~(m <= k) PROVE FALSE
  <2>1. m \in Nat /\ k \in Nat /\ k < m
    BY <1>6
  <2>2. 0 .. k \subseteq 0 .. m /\ m \notin 0 .. k /\ m \in 0 .. m
    BY <2>1
  <2>3. 0 .. k \in SUBSET (0 .. n) /\ 0 .. m \in SUBSET (0 .. n)
    BY <2>1
  <2>4. <<0 .. k, 0 .. m>> \in StrictSubsetOrdering(0 .. n)
    BY <2>2, <2>3 DEF StrictSubsetOrdering
  <2> QED
    BY <1>4, <1>5, <2>4
<1> QED
  BY <1>6

\* Induction over an interval.
LEMMA Upward ==
  ASSUME NEW N \in Nat, NEW P, 0 \in P, \A d \in 1 .. N : d - 1 \in P => d \in P
  PROVE  0 .. N \subseteq P
<1> SUFFICES ASSUME 0 .. N \ P # {} PROVE FALSE
  OBVIOUS
<1> DEFINE Missed == 0 .. N \ P
<1>1. PICK m \in Missed : \A k \in Missed : m <= k
  <2>1. Missed \subseteq 0 .. N
    OBVIOUS
  <2> HIDE DEF Missed
  <2> QED
    BY <2>1, LeastElement DEF Missed
<1>2. m \in 1 .. N /\ m - 1 \in 0 .. N /\ ~(m <= m - 1)
  OBVIOUS
<1>3. m - 1 \in P
  BY <1>1, <1>2
<1> QED
  BY <1>2, <1>3

\* What is defined at each place of an interval from its value one place before
\* exists, and stays in the set its steps stay in.
Chain(w, N, a, F) == w[0] = a /\ \A d \in 1 .. N : w[d] = F[d][w[d - 1]]

LEMMA Recursion ==
  ASSUME NEW N \in Nat, NEW S, NEW a \in S, NEW F \in [1 .. N -> [S -> S]]
  PROVE  \E w \in [0 .. N -> S] : Chain(w, N, a, F)
<1> DEFINE Upto(n, w) == w[0] = a /\ \A d \in 1 .. n : w[d] = F[d][w[d - 1]]
           P == {n \in 0 .. N : \E w \in [0 .. n -> S] : Upto(n, w)}
<1>1. 0 \in P
  <2>1. [d \in 0 .. 0 |-> a] \in [0 .. 0 -> S] /\ Upto(0, [d \in 0 .. 0 |-> a])
    OBVIOUS
  <2>2. \E w \in [0 .. 0 -> S] : Upto(0, w)
    <3> HIDE DEF Upto
    <3> QED
      BY <2>1
  <2> QED
    BY <2>2
<1>2. ASSUME NEW n \in 1 .. N, n - 1 \in P PROVE n \in P
  <2>1. PICK w \in [0 .. n - 1 -> S] : Upto(n - 1, w)
    BY <1>2
  <2> DEFINE v == [d \in 0 .. n |-> IF d = n THEN F[n][w[n - 1]] ELSE w[d]]
  <2>2. w[n - 1] \in S /\ F[n][w[n - 1]] \in S
    OBVIOUS
  <2>3. v \in [0 .. n -> S]
    BY <2>2
  <2>4. v[0] = a
    BY <2>1
  <2>5. ASSUME NEW d \in 1 .. n PROVE v[d] = F[d][v[d - 1]]
    <3>1. v[d - 1] = w[d - 1]
      OBVIOUS
    <3>2. d # n => d \in 1 .. n - 1 /\ v[d] = w[d]
      OBVIOUS
    <3>3. CASE d = n
      BY <3>1, <3>3
    <3>4. CASE d # n
      BY <2>1, <3>1, <3>2, <3>4
    <3> QED
      BY <3>3, <3>4
  <2>6. \E u \in [0 .. n -> S] : Upto(n, u)
    <3>1. Upto(n, v)
      BY <2>4, <2>5
    <3> HIDE DEF Upto, v
    <3> QED
      BY <2>3, <3>1
  <2> QED
    BY <2>6, SMTT(60)
<1>3. 0 .. N \subseteq P
  <2> HIDE DEF P
  <2> QED
    BY <1>1, <1>2, Upward
<1>4. \E w \in [0 .. N -> S] : Upto(N, w)
  BY <1>3
<1> QED
  BY <1>4 DEF Chain

-----------------------------------------------------------------------------
(* The walk. *)

Wave == [ring : SUBSET Keys, seen : SUBSET Keys]
First == [ring |-> {Self}, seen |-> {Self}]
Onward(t, L, w) ==
  [ring |-> Step(t, L, w.ring) \ w.seen, seen |-> w.seen \cup (Step(t, L, w.ring) \ w.seen)]

LEMMA DepthIsNat == Depth \in Nat
BY KeysAssumption, FS_CardinalityType DEF Depth

LEMMA KeysAreFinite == IsFiniteSet(Keys) /\ Cardinality(Keys) = Depth + 1
<1>1. IsFiniteSet(Others) /\ Self \notin Others
  BY KeysAssumption
<1> QED
  BY <1>1, FS_AddElement DEF Keys, Depth

LEMMA WalkFacts ==
  ASSUME NEW t, NEW L
  PROVE  LET W == Walk(t, L)
         IN  /\ W \in [0 .. Depth -> Wave] /\ W[0] = First
             /\ \A d \in 1 .. Depth : W[d] = Onward(t, L, W[d - 1])
<1> DEFINE F == [d \in 1 .. Depth |-> [w \in Wave |-> Onward(t, L, w)]]
           W == Walk(t, L)
<1>1. ASSUME NEW w \in Wave PROVE Onward(t, L, w) \in Wave
  BY DEF Onward, Wave, Step
<1>2. F \in [1 .. Depth -> [Wave -> Wave]]
  BY <1>1
<1>3. First \in Wave
  BY DEF First, Wave, Keys
<1>4. PICK w \in [0 .. Depth -> Wave] : Chain(w, Depth, First, F)
  <2>1. ASSUME NEW G \in [1 .. Depth -> [Wave -> Wave]], NEW b \in Wave
        PROVE  \E w \in [0 .. Depth -> Wave] : Chain(w, Depth, b, G)
    BY DepthIsNat, Recursion
  <2> HIDE DEF F
  <2> QED
    BY <1>2, <1>3, <2>1
<1>5. ASSUME NEW d \in 1 .. Depth PROVE w[d] = Onward(t, L, w[d - 1])
  <2>1. w[d - 1] \in Wave /\ d \in 1 .. Depth
    BY DepthIsNat
  <2>2. F[d][w[d - 1]] = Onward(t, L, w[d - 1])
    BY <2>1
  <2> QED
    BY <1>4, <2>2 DEF Chain
<1>6. w = [d \in 0 .. Depth |-> IF d = 0 THEN First ELSE Onward(t, L, w[d - 1])]
  BY <1>4, <1>5, DepthIsNat, SMTT(60) DEF Chain
<1>7. W = [d \in 0 .. Depth |-> IF d = 0 THEN First ELSE Onward(t, L, W[d - 1])]
  BY <1>6 DEF Walk, First, Onward
<1> HIDE DEF W
<1>8. W[0] = First /\ \A d \in 1 .. Depth : W[d] = Onward(t, L, W[d - 1])
  BY <1>7, DepthIsNat
<1> DEFINE P == {d \in 0 .. Depth : W[d] \in Wave}
<1>9. 0 \in P /\ \A d \in 1 .. Depth : d - 1 \in P => d \in P
  BY <1>1, <1>3, <1>8, DepthIsNat
<1>10. 0 .. Depth \subseteq P
  <2> HIDE DEF P
  <2> QED
    BY <1>9, DepthIsNat, Upward
<1>11. W \in [0 .. Depth -> Wave]
  BY <1>7, <1>10
<1> QED
  BY <1>8, <1>11 DEF W

Ring(t, L, d) == Walk(t, L)[d].ring
Seen(t, L, d) == Walk(t, L)[d].seen

LEMMA FirstWave == \A t, L : Ring(t, L, 0) = {Self} /\ Seen(t, L, 0) = {Self}
BY WalkFacts DEF Ring, Seen, First

LEMMA WaveTyped ==
  ASSUME NEW t, NEW L, NEW d \in 0 .. Depth
  PROVE  Ring(t, L, d) \subseteq Keys /\ Seen(t, L, d) \subseteq Keys
<1>1. Walk(t, L)[d] \in Wave
  BY WalkFacts
<1> QED
  BY <1>1 DEF Ring, Seen, Wave

LEMMA NextWave ==
  ASSUME NEW t, NEW L, NEW d \in 1 .. Depth
  PROVE  /\ Ring(t, L, d) = Step(t, L, Ring(t, L, d - 1)) \ Seen(t, L, d - 1)
         /\ Seen(t, L, d) = Seen(t, L, d - 1) \cup Ring(t, L, d)
<1>1. Walk(t, L)[d] = Onward(t, L, Walk(t, L)[d - 1])
  BY WalkFacts
<1> QED
  BY <1>1 DEF Ring, Seen, Onward

\* Nobody is forgotten on the way, and who was seen was found at some hop of it.
LEMMA SeenGrows ==
  ASSUME NEW t, NEW L
  PROVE  \A d \in 0 .. Depth : \A e \in 0 .. d :
           Seen(t, L, e) \subseteq Seen(t, L, d) /\ Ring(t, L, e) \subseteq Seen(t, L, d)
<1> DEFINE P == {d \in 0 .. Depth : \A e \in 0 .. d :
             Seen(t, L, e) \subseteq Seen(t, L, d) /\ Ring(t, L, e) \subseteq Seen(t, L, d)}
<1>1. 0 \in P
  BY FirstWave, DepthIsNat
<1>2. ASSUME NEW d \in 1 .. Depth, d - 1 \in P PROVE d \in P
  <2>1. Seen(t, L, d) = Seen(t, L, d - 1) \cup Ring(t, L, d)
    BY NextWave
  <2>2. ASSUME NEW e \in 0 .. d
        PROVE  Seen(t, L, e) \subseteq Seen(t, L, d) /\ Ring(t, L, e) \subseteq Seen(t, L, d)
    <3>1. e = d \/ e \in 0 .. d - 1
      BY DepthIsNat
    <3> QED
      BY <1>2, <2>1, <3>1
  <2> QED
    BY <2>2
<1>3. 0 .. Depth \subseteq P
  <2> HIDE DEF P
  <2> QED
    BY <1>1, <1>2, DepthIsNat, Upward
<1> QED
  BY <1>3

LEMMA SeenIsRings ==
  ASSUME NEW t, NEW L
  PROVE  \A d \in 0 .. Depth : \A k \in Seen(t, L, d) : \E e \in 0 .. d : k \in Ring(t, L, e)
<1> DEFINE P == {d \in 0 .. Depth : \A k \in Seen(t, L, d) : \E e \in 0 .. d : k \in Ring(t, L, e)}
<1>1. 0 \in P
  BY FirstWave, DepthIsNat
<1>2. ASSUME NEW d \in 1 .. Depth, d - 1 \in P PROVE d \in P
  <2>1. Seen(t, L, d) = Seen(t, L, d - 1) \cup Ring(t, L, d)
    BY NextWave
  <2>2. ASSUME NEW k \in Seen(t, L, d) PROVE \E e \in 0 .. d : k \in Ring(t, L, e)
    <3>1. CASE k \in Ring(t, L, d)
      BY <3>1, DepthIsNat
    <3>2. CASE k \in Seen(t, L, d - 1)
      <4>1. PICK e \in 0 .. d - 1 : k \in Ring(t, L, e)
        BY <1>2, <3>2
      <4>2. e \in 0 .. d
        BY DepthIsNat
      <4> QED
        BY <4>1, <4>2
    <3> QED
      BY <2>1, <3>1, <3>2
  <2> QED
    BY <2>2
<1>3. 0 .. Depth \subseteq P
  <2> HIDE DEF P
  <2> QED
    BY <1>1, <1>2, DepthIsNat, Upward
<1> QED
  BY <1>3

\* Nobody stands at two distances.
LEMMA RingsApart ==
  ASSUME NEW t, NEW L, NEW d \in 0 .. Depth, NEW e \in 0 .. Depth, NEW k,
         k \in Ring(t, L, d), k \in Ring(t, L, e)
  PROVE  d = e
<1>1. ASSUME NEW x \in 0 .. Depth, NEW y \in 0 .. Depth, x < y, k \in Ring(t, L, x), k \in Ring(t, L, y)
      PROVE  FALSE
  <2>1. y \in 1 .. Depth /\ x \in 0 .. y - 1 /\ y - 1 \in 0 .. Depth
    BY <1>1, DepthIsNat
  <2>2. k \in Seen(t, L, y - 1)
    BY <1>1, <2>1, SeenGrows
  <2> QED
    BY <1>1, <2>1, <2>2, NextWave
<1>2. d < e \/ e < d \/ d = e
  BY DepthIsNat
<1> QED
  BY <1>1, <1>2

\* What a link leads to from somebody seen is seen a hop later, and whoever is found
\* is found over a link.
LEMMA Follows ==
  ASSUME NEW t, NEW L, NEW d \in 1 .. Depth, NEW c \in Seen(t, L, d - 1) \ Blocked(t),
         NEW k \in Keys, <<c, k>> \in L
  PROVE  k \in Seen(t, L, d)
<1>1. d - 1 \in 0 .. Depth
  BY DepthIsNat
<1>2. PICK e \in 0 .. d - 1 : c \in Ring(t, L, e)
  BY <1>1, SeenIsRings
<1>3. e + 1 \in 1 .. Depth /\ e + 1 \in 0 .. d /\ d \in 0 .. Depth /\ (e + 1) - 1 = e
  BY DepthIsNat
<1>4. k \in Step(t, L, Ring(t, L, e))
  BY <1>2 DEF Step
<1>5. /\ Ring(t, L, e + 1) = Step(t, L, Ring(t, L, e)) \ Seen(t, L, e)
      /\ Seen(t, L, e + 1) = Seen(t, L, e) \cup Ring(t, L, e + 1)
  BY <1>3, NextWave
<1>6. k \in Seen(t, L, e + 1)
  BY <1>4, <1>5
<1> QED
  BY <1>3, <1>6, SeenGrows

LEMMA Comes ==
  ASSUME NEW t, NEW L, NEW d \in 1 .. Depth, NEW k \in Ring(t, L, d)
  PROVE  \E c \in Ring(t, L, d - 1) \ Blocked(t) : <<c, k>> \in L
BY NextWave DEF Step

\* With fewer blocked and more links no walk finds less, nor later.
LEMMA WalkGrows ==
  ASSUME NEW t, NEW L, NEW u, NEW M, Blocked(u) \subseteq Blocked(t), L \subseteq M
  PROVE  \A d \in 0 .. Depth : Seen(t, L, d) \subseteq Seen(u, M, d)
<1> DEFINE P == {d \in 0 .. Depth : Seen(t, L, d) \subseteq Seen(u, M, d)}
<1>1. 0 \in P
  BY FirstWave, DepthIsNat
<1>2. ASSUME NEW d \in 1 .. Depth, d - 1 \in P PROVE d \in P
  <2> SUFFICES ASSUME NEW k \in Seen(t, L, d) PROVE k \in Seen(u, M, d)
    BY DepthIsNat
  <2>0. d - 1 \in 0 .. Depth /\ d \in 0 .. Depth
    BY DepthIsNat
  <2>1. Seen(t, L, d) = Seen(t, L, d - 1) \cup Ring(t, L, d)
    BY NextWave
  <2>2. CASE k \in Seen(t, L, d - 1)
    <3>1. k \in Seen(u, M, d - 1)
      BY <1>2, <2>2
    <3>2. d - 1 \in 0 .. d
      BY DepthIsNat
    <3> QED
      BY <2>0, <3>1, <3>2, SeenGrows
  <2>3. CASE k \in Ring(t, L, d)
    <3>1. PICK c \in Ring(t, L, d - 1) \ Blocked(t) : <<c, k>> \in L
      BY <2>3, Comes
    <3>2. c \in Seen(t, L, d - 1)
      <4>1. d - 1 \in 0 .. d - 1
        BY DepthIsNat
      <4> QED
        BY <2>0, <4>1, SeenGrows
    <3>3. c \in Seen(u, M, d - 1) \ Blocked(u) /\ <<c, k>> \in M
      BY <1>2, <3>1, <3>2
    <3>4. k \in Keys
      BY <2>0, <2>3, WaveTyped
    <3> QED
      BY <3>3, <3>4, Follows
  <2> QED
    BY <2>1, <2>2, <2>3
<1>3. 0 .. Depth \subseteq P
  <2> HIDE DEF P
  <2> QED
    BY <1>1, <1>2, DepthIsNat, Upward
<1> QED
  BY <1>3

-----------------------------------------------------------------------------
(* Whom the walks find. *)

LEMMA ReachFacts ==
  ASSUME NEW t, NEW L
  PROVE  /\ Self \in Reach(t, L) /\ Reach(t, L) \subseteq Keys
         /\ \A k \in Reach(t, L) : \E d \in 0 .. Depth : k \in Ring(t, L, d)
         /\ \A d \in 0 .. Depth : Ring(t, L, d) \subseteq Reach(t, L)
<1>1. Reach(t, L) = Seen(t, L, Depth) /\ Depth \in 0 .. Depth /\ 0 \in 0 .. Depth
  BY DepthIsNat DEF Reach, Seen
<1>2. Reach(t, L) \subseteq Keys
  BY <1>1, WaveTyped
<1>3. \A k \in Reach(t, L) : \E d \in 0 .. Depth : k \in Ring(t, L, d)
  BY <1>1, SeenIsRings
<1>4. \A d \in 0 .. Depth : Ring(t, L, d) \subseteq Reach(t, L)
  BY <1>1, SeenGrows
<1>5. Self \in Reach(t, L)
  BY <1>1, <1>4, FirstWave
<1> QED
  BY <1>2, <1>3, <1>4, <1>5

LEMMA ReachedOver ==
  ASSUME NEW t, NEW L, NEW k \in Reach(t, L) \ {Self}
  PROVE  \E c \in Reach(t, L) \ Blocked(t) : <<c, k>> \in L
<1>1. PICK d \in 0 .. Depth : k \in Ring(t, L, d)
  BY ReachFacts
<1>2. d \in 1 .. Depth /\ d - 1 \in 0 .. Depth
  BY <1>1, DepthIsNat, FirstWave
<1>3. PICK c \in Ring(t, L, d - 1) \ Blocked(t) : <<c, k>> \in L
  BY <1>1, <1>2, Comes
<1> QED
  BY <1>2, <1>3, ReachFacts

LEMMA ReachGrows ==
  ASSUME NEW t, NEW L, NEW u, NEW M, Blocked(u) \subseteq Blocked(t), L \subseteq M
  PROVE  Reach(t, L) \subseteq Reach(u, M)
<1>1. Reach(t, L) = Seen(t, L, Depth) /\ Reach(u, M) = Seen(u, M, Depth) /\ Depth \in 0 .. Depth
  BY DepthIsNat DEF Reach, Seen
<1> QED
  BY <1>1, WalkGrows

\* A member is a friend or has itself claimed a link to another member.
LEMMA MembersDeclare ==
  ASSUME NEW t, NEW E, NEW m \in MemberKeys(t, E)
  PROVE  /\ m \in Others
         /\ t[m] = "friend" \/ \E c \in MemberKeys(t, E) \ {m} : <<m, c>> \in E
<1> DEFINE L == Agreed(E) \cup Both(Own(t))
<1>1. m \in Reach(t, L) \ {Self} /\ m \in Others
  BY ReachFacts DEF MemberKeys, Keys
<1>2. PICK c \in Reach(t, L) \ Blocked(t) : <<c, m>> \in L
  BY <1>1, ReachedOver
<1>3. CASE <<c, m>> \in Agreed(E)
  <2>1. c # m /\ c # Self /\ <<m, c>> \in E
    BY <1>3 DEF Agreed, Evidence
  <2>2. c \in MemberKeys(t, E)
    BY <1>2, <2>1 DEF MemberKeys
  <2> QED
    BY <1>1, <2>1, <2>2
<1>4. CASE <<c, m>> \in Both(Own(t))
  BY <1>1, <1>4, KeysAssumption DEF Both, Own, Friends
<1> QED
  BY <1>2, <1>3, <1>4

\* Whoever is served is kept, and with more claims nobody less is.
LEMMA MembersAreKept ==
  ASSUME NEW t, NEW E
  PROVE  MemberKeys(t, E) \subseteq ReachableKeys(t, E)
<1>1. Agreed(E) \cup Both(Own(t)) \subseteq Links(t, E)
  BY DEF Agreed, Both, Links
<1> QED
  BY <1>1, ReachGrows DEF MemberKeys, ReachableKeys, Found

LEMMA ReachableGrows ==
  ASSUME NEW t, NEW E, NEW D, E \subseteq D
  PROVE  ReachableKeys(t, E) \subseteq ReachableKeys(t, D)
<1>1. Links(t, E) \subseteq Links(t, D)
  BY DEF Links, Both, Evidence
<1> QED
  BY <1>1, ReachGrows DEF ReachableKeys, Found

\* A ring that somebody is found on has somebody on every ring before it, and so many
\* nodes have been seen.
LEMMA RingsAreCounted ==
  ASSUME NEW t, NEW L
  PROVE  \A d \in 0 .. Depth : Ring(t, L, d) # {} => Cardinality(Seen(t, L, d)) >= d + 1
<1> DEFINE P == {d \in 0 .. Depth : Ring(t, L, d) # {} => Cardinality(Seen(t, L, d)) >= d + 1}
<1>1. 0 \in P
  BY FirstWave, FS_Singleton, DepthIsNat
<1>2. ASSUME NEW d \in 1 .. Depth, d - 1 \in P PROVE d \in P
  <2> SUFFICES ASSUME Ring(t, L, d) # {} PROVE Cardinality(Seen(t, L, d)) >= d + 1
    BY DepthIsNat
  <2>1. PICK k \in Ring(t, L, d) : TRUE
    OBVIOUS
  <2>2. Ring(t, L, d - 1) # {} /\ k \notin Seen(t, L, d - 1)
    <3>1. \E c \in Ring(t, L, d - 1) \ Blocked(t) : <<c, k>> \in L
      BY Comes
    <3>2. k \notin Seen(t, L, d - 1)
      BY NextWave
    <3> QED
      BY <3>1, <3>2
  <2>3. Cardinality(Seen(t, L, d - 1)) >= (d - 1) + 1
    BY <1>2, <2>2
  <2>4. d - 1 \in 0 .. Depth /\ d \in 0 .. Depth
    BY DepthIsNat
  <2>5. IsFiniteSet(Seen(t, L, d)) /\ IsFiniteSet(Seen(t, L, d - 1))
    BY <2>4, KeysAreFinite, WaveTyped, FS_Subset
  <2>6. Seen(t, L, d - 1) \cup {k} \subseteq Seen(t, L, d)
    BY <2>1, NextWave
  <2>7. Cardinality(Seen(t, L, d - 1) \cup {k}) = Cardinality(Seen(t, L, d - 1)) + 1
    BY <2>2, <2>5, FS_AddElement
  <2>8. Cardinality(Seen(t, L, d - 1) \cup {k}) <= Cardinality(Seen(t, L, d))
    BY <2>5, <2>6, FS_Subset
  <2>9. Cardinality(Seen(t, L, d)) \in Nat /\ Cardinality(Seen(t, L, d - 1)) \in Nat
    BY <2>5, FS_CardinalityType
  <2> QED
    BY <2>3, <2>7, <2>8, <2>9, DepthIsNat
<1>3. 0 .. Depth \subseteq P
  <2> HIDE DEF P
  <2> QED
    BY <1>1, <1>2, DepthIsNat, Upward
<1> QED
  BY <1>3

(***************************************************************************)
(* The walk misses nobody: it goes on for as many hops as there are nodes,  *)
(* so what a link leads to from somebody found and not blocked is found, as *)
(* walkGraph's loop finds it, that ends when a ring is empty.               *)
(***************************************************************************)
THEOREM WalkIsWhole ==
  \A t, L : \A c \in Reach(t, L) \ Blocked(t) : \A k \in Keys : <<c, k>> \in L => k \in Reach(t, L)
<1> SUFFICES ASSUME NEW t, NEW L, NEW c \in Reach(t, L) \ Blocked(t), NEW k \in Keys, <<c, k>> \in L,
                    k \notin Reach(t, L)
             PROVE  FALSE
  OBVIOUS
<1>1. PICK d \in 0 .. Depth : c \in Ring(t, L, d)
  BY ReachFacts
<1>2. Reach(t, L) = Seen(t, L, Depth) /\ Depth \in 0 .. Depth
  BY DepthIsNat DEF Reach, Seen
<1>3. ASSUME d # Depth PROVE FALSE
  <2>1. d + 1 \in 1 .. Depth /\ d \in 0 .. d /\ d + 1 \in 0 .. Depth /\ (d + 1) - 1 = d
    BY <1>3, DepthIsNat
  <2>2. c \in Seen(t, L, d)
    BY <1>1, <2>1, SeenGrows
  <2>3. k \in Seen(t, L, d + 1)
    BY <2>1, <2>2, Follows
  <2> QED
    BY <1>2, <2>1, <2>3, SeenGrows
<1>4. Cardinality(Seen(t, L, Depth)) >= Depth + 1
  BY <1>1, <1>2, <1>3, RingsAreCounted
<1>5. Seen(t, L, Depth) \subseteq Keys \ {k} /\ IsFiniteSet(Keys \ {k})
  BY <1>2, KeysAreFinite, WaveTyped, FS_Subset
<1>6. Cardinality(Keys \ {k}) = Depth
  <2>1. Cardinality(Keys \ {k}) = Cardinality(Keys) - 1
    BY KeysAreFinite, FS_RemoveElement, Zenon
  <2> QED
    BY <2>1, KeysAreFinite, DepthIsNat
<1>7. Cardinality(Seen(t, L, Depth)) <= Depth /\ Cardinality(Seen(t, L, Depth)) \in Nat
  BY <1>5, <1>6, FS_Subset, FS_CardinalityType
<1> QED
  BY <1>4, <1>7, DepthIsNat

-----------------------------------------------------------------------------
(* The friends on the shortest ways. *)

Labels == [Keys -> SUBSET Keys]
Spread(t, L, d, near) ==
  [k \in Keys |->
     IF d <= 1 THEN {k}
     ELSE UNION {near[c] : c \in {x \in Ring(t, L, d - 1) \ Blocked(t) : <<x, k>> \in L}}]

LEMMA LabelsExist ==
  ASSUME NEW t, NEW L
  PROVE  \E lab : lab = [d \in 0 .. Depth |-> Spread(t, L, d, lab[d - 1])]
<1> DEFINE F == [d \in 1 .. Depth |-> [near \in Labels |-> Spread(t, L, d, near)]]
           a == [k \in Keys |-> {k}]
<1>1. ASSUME NEW d \in 1 .. Depth, NEW near \in Labels PROVE Spread(t, L, d, near) \in Labels
  <2>1. d - 1 \in 0 .. Depth
    BY DepthIsNat
  <2>2. Ring(t, L, d - 1) \subseteq Keys
    BY <2>1, WaveTyped
  <2> QED
    BY <2>2 DEF Spread, Labels
<1>2. F \in [1 .. Depth -> [Labels -> Labels]]
  BY <1>1
<1>3. a \in Labels
  BY DEF Labels
<1>4. PICK w \in [0 .. Depth -> Labels] : Chain(w, Depth, a, F)
  <2>1. ASSUME NEW G \in [1 .. Depth -> [Labels -> Labels]], NEW b \in Labels
        PROVE  \E w \in [0 .. Depth -> Labels] : Chain(w, Depth, b, G)
    BY DepthIsNat, Recursion
  <2> HIDE DEF F, a
  <2> QED
    BY <1>2, <1>3, <2>1
<1>5. ASSUME NEW d \in 0 .. Depth PROVE w[d] = Spread(t, L, d, w[d - 1])
  <2>1. CASE d = 0
    BY <1>4, <2>1 DEF Chain, Spread
  <2>2. CASE d \in 1 .. Depth
    <3>1. w[d - 1] \in Labels
      BY <2>2, DepthIsNat
    <3>2. F[d][w[d - 1]] = Spread(t, L, d, w[d - 1])
      BY <2>2, <3>1
    <3> QED
      BY <1>4, <2>2, <3>2 DEF Chain
  <2> QED
    BY <2>1, <2>2, DepthIsNat
<1>6. w = [d \in 0 .. Depth |-> Spread(t, L, d, w[d - 1])]
  BY <1>5
<1> QED
  BY <1>6

LEMMA ViaFacts ==
  ASSUME NEW t, NEW E
  PROVE  \E lab :
           /\ \A d \in 0 .. Depth : lab[d] = Spread(t, Links(t, E), d, lab[d - 1])
           /\ Via(t, E) = [k \in Found(t, E) \ {Self} |-> lab[Distance(t, E, k)][k]]
<1> DEFINE L == Links(t, E)
           lab == CHOOSE f : f = [d \in 0 .. Depth |-> Spread(t, L, d, f[d - 1])]
<1>1. lab = [d \in 0 .. Depth |-> Spread(t, L, d, lab[d - 1])]
  <2>1. \E f : f = [d \in 0 .. Depth |-> Spread(t, L, d, f[d - 1])]
    BY LabelsExist, Zenon
  <2> HIDE DEF L
  <2> QED
    BY <2>1, Zenon
<1>2. Via(t, E) = [k \in Found(t, E) \ {Self} |-> lab[Distance(t, E, k)][k]]
  BY DEF Via, Spread, Ring
<1> HIDE DEF lab
<1> QED
  BY <1>1, <1>2

LEMMA DistanceFacts ==
  ASSUME NEW t, NEW E, NEW k \in Found(t, E)
  PROVE  Distance(t, E, k) \in 0 .. Depth /\ k \in Ring(t, Links(t, E), Distance(t, E, k))
<1>1. \E d \in 0 .. Depth : k \in Walk(t, Links(t, E))[d].ring
  BY ReachFacts DEF Found, Ring
<1> QED
  BY <1>1 DEF Distance, Ring

Cut(t, B) == [f \in Others |-> IF f \in B THEN "blocked" ELSE t[f]]

\* Whoever keeps its distance although the friends of B are blocked is still
\* labelled with a friend outside B.
LEMMA StillLabelled ==
  ASSUME NEW t, NEW E, NEW B, NEW u, u = Cut(t, B),
         NEW lab, \A d \in 0 .. Depth : lab[d] = Spread(t, Links(t, E), d, lab[d - 1])
  PROVE  /\ Blocked(t) \subseteq Blocked(u) /\ Links(u, E) \subseteq Links(t, E)
         /\ \A d \in 1 .. Depth : \A k \in Ring(t, Links(t, E), d) \cap Ring(u, Links(u, E), d) :
              \E f \in lab[d][k] : f \notin B
<1> DEFINE L == Links(t, E)
           M == Links(u, E)
           P == {0} \cup {d \in 1 .. Depth : \A k \in Ring(t, L, d) \cap Ring(u, M, d) : \E f \in lab[d][k] : f \notin B}
<1>1. Blocked(t) \subseteq Blocked(u) /\ Friends(u) \subseteq Friends(t) /\ Friends(u) \cap B = {}
  BY DEF Blocked, Friends, Cut
<1>2. M \subseteq L
  BY <1>1 DEF Links, Both, Own
<1>3. ASSUME NEW d \in 1 .. Depth, d - 1 \in P PROVE d \in P
  <2> SUFFICES ASSUME NEW k \in Ring(t, L, d), k \in Ring(u, M, d) PROVE \E f \in lab[d][k] : f \notin B
    OBVIOUS
  <2>1. d \in 0 .. Depth /\ d - 1 \in 0 .. Depth
    BY DepthIsNat
  <2>2. k \in Keys /\ lab[d] = Spread(t, L, d, lab[d - 1])
    BY <2>1, WaveTyped
  <2>3. PICK c \in Ring(u, M, d - 1) \ Blocked(u) : <<c, k>> \in M
    BY Comes
  <2>4. CASE d = 1
    <3>1. c = Self
      BY <2>3, <2>4, FirstWave
    <3>2. k # Self
      BY <2>1, <2>4, NextWave, FirstWave
    <3>3. k \in Friends(u)
      BY <2>3, <3>1, <3>2 DEF Links, Both, Evidence, Own
    <3>4. lab[d][k] = {k}
      BY <2>2, <2>4 DEF Spread
    <3> QED
      BY <1>1, <3>3, <3>4
  <2>5. CASE d # 1
    <3>1. d - 1 \in 1 .. Depth /\ ~(d <= 1)
      BY <2>5, DepthIsNat
    <3>2. c \in Seen(t, L, d - 1)
      <4>1. c \in Seen(u, M, d - 1)
        <5>1. d - 1 \in 0 .. d - 1
          BY <2>1
        <5> QED
          BY <2>1, <2>3, <5>1, SeenGrows
      <4> QED
        BY <1>1, <1>2, <2>1, <4>1, WalkGrows
    <3>3. c \in Ring(t, L, d - 1)
      <4>1. Seen(t, L, d - 1) = Seen(t, L, (d - 1) - 1) \cup Ring(t, L, d - 1)
        BY <3>1, NextWave
      <4>2. ASSUME c \in Seen(t, L, (d - 1) - 1) PROVE FALSE
        <5>1. k \in Seen(t, L, d - 1)
          BY <1>1, <1>2, <2>2, <2>3, <3>1, <4>2, Follows
        <5> QED
          BY <5>1, NextWave
      <4> QED
        BY <3>2, <4>1, <4>2
    <3>4. PICK f \in lab[d - 1][c] : f \notin B
      BY <1>3, <2>3, <3>1, <3>3
    <3>5. c \notin Blocked(t) /\ <<c, k>> \in L
      BY <1>1, <1>2, <2>3
    <3>6. f \in lab[d][k]
      BY <2>2, <3>1, <3>3, <3>4, <3>5 DEF Spread
    <3> QED
      BY <3>4, <3>6
  <2> QED
    BY <2>4, <2>5
<1>4. 0 .. Depth \subseteq P
  <2>1. 0 \in P
    OBVIOUS
  <2> HIDE DEF P
  <2> QED
    BY <1>3, <2>1, DepthIsNat, Upward
<1>5. \A d \in 1 .. Depth : d \in P /\ d # 0
  BY <1>4, DepthIsNat
<1> QED
  BY <1>1, <1>2, <1>5

LEMMA ViaCuts ==
  ASSUME NEW t, NEW E, NEW k \in DOMAIN Via(t, E),
         NEW u, u = Cut(t, Via(t, E)[k]),
         k \in Found(u, E)
  PROVE  Distance(u, E, k) > Distance(t, E, k)
<1> DEFINE L == Links(t, E)
           M == Links(u, E)
           d == Distance(t, E, k)
           e == Distance(u, E, k)
           B == Via(t, E)[k]
<1>1. PICK lab : /\ \A x \in 0 .. Depth : lab[x] = Spread(t, L, x, lab[x - 1])
                 /\ Via(t, E) = [x \in Found(t, E) \ {Self} |-> lab[Distance(t, E, x)][x]]
  BY ViaFacts
<1>2. k \in Found(t, E) /\ k # Self /\ B = lab[d][k]
  BY <1>1
<1>3. d \in 0 .. Depth /\ k \in Ring(t, L, d) /\ e \in 0 .. Depth /\ k \in Ring(u, M, e)
  BY <1>2, DistanceFacts
<1>4. /\ Blocked(t) \subseteq Blocked(u) /\ M \subseteq L
      /\ \A x \in 1 .. Depth : \A y \in Ring(t, L, x) \cap Ring(u, M, x) : \E f \in lab[x][y] : f \notin B
  <2>1. u = Cut(t, B)
    OBVIOUS
  <2> HIDE DEF B
  <2> QED
    BY <1>1, <2>1, StillLabelled
<1>5. ASSUME e = d PROVE FALSE
  <2>1. d \in 1 .. Depth
    BY <1>2, <1>3, FirstWave, DepthIsNat
  <2> QED
    BY <1>2, <1>3, <1>4, <1>5, <2>1
<1>6. ASSUME e < d PROVE FALSE
  <2>1. k \in Seen(u, M, e)
    <3>1. e \in 0 .. e
      BY <1>3, DepthIsNat
    <3> QED
      BY <1>3, <3>1, SeenGrows
  <2>2. k \in Seen(t, L, e)
    BY <1>3, <1>4, <2>1, WalkGrows
  <2>3. PICK x \in 0 .. e : k \in Ring(t, L, x)
    BY <1>3, <2>2, SeenIsRings
  <2>4. x \in 0 .. Depth /\ x # d
    BY <1>3, <1>6, DepthIsNat
  <2> QED
    BY <1>3, <2>3, <2>4, RingsApart
<1> HIDE DEF d, e
<1>7. d < e
  BY <1>3, <1>5, <1>6, DepthIsNat
<1> QED
  BY <1>7 DEF d, e

-----------------------------------------------------------------------------
(* The invariant.  A record's content never changes once published; the store *)
(* holds what was published; while its keep set waits to be applied, the       *)
(* retention walk covers whom we serve and, as long as no friendship changed,  *)
(* whom a walk would reach now.                                                *)

Feeds  == [Kinds -> [Keys -> Seq(SUBSET Keys)]]
Stored == [seq : Nat, via : Keys]
Stores == UNION {[D -> Stored] : D \in SUBSET Keys}
Backed(h, p) == \A k \in Kinds : \A o \in DOMAIN h[k] : h[k][o].seq \in 1 .. Len(p[k][o])

FeedsTyped ==
  /\ pub \in Feeds /\ gone \in [Kinds -> [Keys -> Nat]]
  /\ \A k \in Kinds : \A o \in Keys : gone[k][o] <= Len(pub[k][o])
HeldTyped == held \in [Kinds -> Stores] /\ Backed(held, pub)
NodeTyped == trust \in [Others -> TrustStates] /\ slot \subseteq Others /\ members \subseteq Others
Typed == FeedsTyped /\ HeldTyped /\ NodeTyped

KeepIsWide ==
  pc = "drop" =>
    /\ members \subseteq sweep.keep
    /\ ~moved => ReachableKeys(trust, GraphEdges) \subseteq sweep.keep

GossipInv ==
  /\ Typed /\ MembersDeclareThemselves /\ PerimeterInsideStore /\ DigestIsCurrent /\ KeepIsWide

LEMMA KindsFacts == "graph" \in Kinds /\ "mark" \in Kinds /\ Self \in Keys /\ Others \subseteq Keys
BY DEF Kinds, Keys

\* A store's rows are typed, and a table of typed rows is a store.
LEMMA StoreFacts ==
  ASSUME NEW s
  PROVE  s \in Stores <=>
           /\ s = [o \in DOMAIN s |-> s[o]] /\ DOMAIN s \subseteq Keys
           /\ \A o \in DOMAIN s : s[o] \in Stored
<1>1. ASSUME s \in Stores
      PROVE  /\ s = [o \in DOMAIN s |-> s[o]] /\ DOMAIN s \subseteq Keys
             /\ \A o \in DOMAIN s : s[o] \in Stored
  <2>1. PICK D \in SUBSET Keys : s \in [D -> Stored]
    BY <1>1 DEF Stores
  <2> QED
    BY <2>1
<1>2. ASSUME s = [o \in DOMAIN s |-> s[o]], DOMAIN s \subseteq Keys, \A o \in DOMAIN s : s[o] \in Stored
      PROVE  s \in Stores
  <2>1. s \in [DOMAIN s -> Stored]
    BY <1>2
  <2> QED
    BY <1>2, <2>1 DEF Stores
<1> QED
  BY <1>1, <1>2

LEMMA MadeStore ==
  ASSUME NEW D \in SUBSET Keys, NEW r, \A o \in D : r[o] \in Stored
  PROVE  [o \in D |-> r[o]] \in Stores
<1>1. [o \in D |-> r[o]] \in [D -> Stored]
  OBVIOUS
<1> QED
  BY <1>1 DEF Stores

LEMMA InitInv == GossipInit => GossipInv
<1> SUFFICES ASSUME GossipInit PROVE GossipInv
  OBVIOUS
<1> USE DEF GossipInit
<1>1. FeedsTyped
  <2>1. ASSUME NEW k \in Kinds, NEW o \in Keys PROVE pub[k][o] \in Seq(SUBSET Keys)
    <3>1. << >> \in Seq(SUBSET Keys) /\ \A r \in SUBSET Keys : <<r>> \in Seq(SUBSET Keys)
      OBVIOUS
    <3>2. CASE <<k, o>> = <<"mark", Self>>
      <4>1. pub[k][o] = <<Marked>>
        BY <3>2
      <4> QED
        BY <3>1, <4>1, GossipAssumption, KindsFacts
    <3>3. CASE <<k, o>> # <<"mark", Self>> /\ (k = "mark" \/ o = Self \/ Lists[k][o] = << >>)
      <4>1. pub[k][o] = << >>
        BY <3>3
      <4> QED
        BY <3>1, <4>1
    <3>4. CASE k # "mark" /\ o # Self /\ Lists[k][o] # << >>
      <4>1. pub[k][o] = <<Head(Lists[k][o])>>
        BY <3>4
      <4>2. Lists[k][o] \in Seq(SUBSET Keys)
        BY <3>4, GossipAssumption DEF Keys
      <4>3. Head(Lists[k][o]) \in SUBSET Keys
        BY <3>4, <4>2
      <4> QED
        BY <3>1, <4>1, <4>3
    <3> QED
      BY <3>2, <3>3, <3>4
  <2>2. pub = [k \in Kinds |-> [o \in Keys |-> pub[k][o]]]
    OBVIOUS
  <2>3. pub \in Feeds
    BY <2>1, <2>2 DEF Feeds
  <2>4. gone \in [Kinds -> [Keys -> Nat]] /\ \A k \in Kinds : \A o \in Keys : gone[k][o] = 0
    OBVIOUS
  <2>5. \A k \in Kinds : \A o \in Keys : Len(pub[k][o]) \in Nat
    BY <2>1
  <2> QED
    BY <2>3, <2>4, <2>5 DEF FeedsTyped
<1>2. HeldTyped
  <2>1. ASSUME NEW k \in Kinds
        PROVE  /\ DOMAIN held[k] \subseteq {Self} /\ (DOMAIN held[k] # {} => k = "mark")
               /\ held[k] \in [DOMAIN held[k] -> Stored]
               /\ \A o \in DOMAIN held[k] : held[k][o].seq = 1
    BY KindsFacts DEF Nobody, Stored
  <2>2. ASSUME NEW k \in Kinds PROVE held[k] \in Stores
    <3>1. DOMAIN held[k] \in SUBSET Keys /\ held[k] \in [DOMAIN held[k] -> Stored]
      BY <2>1, KindsFacts
    <3> HIDE DEF GossipInit
    <3> QED
      BY <3>1 DEF Stores
  <2>3. held \in [Kinds -> Stores]
    <3>1. held = [k \in Kinds |-> held[k]]
      OBVIOUS
    <3> HIDE DEF GossipInit
    <3> QED
      BY <2>2, <3>1
  <2>4. ASSUME NEW k \in Kinds, NEW o \in DOMAIN held[k] PROVE held[k][o].seq \in 1 .. Len(pub[k][o])
    <3>1. k = "mark" /\ o = Self /\ held[k][o].seq = 1
      BY <2>1
    <3>2. pub[k][o] = <<Marked>>
      BY <3>1, KindsFacts
    <3>3. Len(pub[k][o]) = 1
      BY <3>2
    <3> HIDE DEF GossipInit
    <3> QED
      BY <3>1, <3>3
  <2> QED
    BY <2>3, <2>4 DEF HeldTyped, Backed
<1>3. NodeTyped
  BY GossipAssumption DEF NodeTyped
<1> QED
  BY <1>1, <1>2, <1>3
     DEF GossipInv, Typed, MembersDeclareThemselves, PerimeterInsideStore, DigestIsCurrent, KeepIsWide

-----------------------------------------------------------------------------
(* Storing records. *)

\* g is h with that record of o in it.
PutIs(g, h, k, o, i, f) ==
  /\ g \in [Kinds -> Stores]
  /\ \A x \in Kinds : DOMAIN g[x] = IF x = k THEN DOMAIN h[x] \cup {o} ELSE DOMAIN h[x]
  /\ \A x \in Kinds : \A y \in DOMAIN g[x] :
       g[x][y] = IF x = k /\ y = o THEN [seq |-> i, via |-> f] ELSE h[x][y]

LEMMA PutFacts ==
  ASSUME NEW h \in [Kinds -> Stores], NEW k \in Kinds, NEW o \in Keys, NEW i \in Nat, NEW f \in Keys
  PROVE  PutIs(Put(h, k, o, i, f), h, k, o, i, f)
<1> DEFINE row == [y \in DOMAIN h[k] \cup {o} |-> IF y = o THEN [seq |-> i, via |-> f] ELSE h[k][y]]
<1>1. Put(h, k, o, i, f) = [h EXCEPT ![k] = row]
  BY DEF Put
<1>2. row \in Stores
  <2>1. h[k] \in Stores
    OBVIOUS
  <2>2. DOMAIN h[k] \subseteq Keys /\ \A y \in DOMAIN h[k] : h[k][y] \in Stored
    BY <2>1, StoreFacts
  <2>3. DOMAIN row \in SUBSET Keys /\ row = [y \in DOMAIN row |-> row[y]]
    BY <2>2
  <2>4. \A y \in DOMAIN row : row[y] \in Stored
    BY <2>2 DEF Stored
  <2> HIDE DEF row
  <2> QED
    BY <2>3, <2>4, StoreFacts
<1>3. /\ DOMAIN row = DOMAIN h[k] \cup {o}
      /\ \A y \in DOMAIN row : row[y] = IF y = o THEN [seq |-> i, via |-> f] ELSE h[k][y]
  OBVIOUS
<1> HIDE DEF row
<1> QED
  BY <1>1, <1>2, <1>3 DEF PutIs

\* What a reply may make of the store: it only adds to it, and what it adds has
\* been published.
ReadSoFar ==
  {n \in [held : [Kinds -> Stores], slot : SUBSET Others] :
     Backed(n.held, pub) /\ \A k \in Kinds : DOMAIN held[k] \subseteq DOMAIN n.held[k]}

LEMMA AcceptFacts ==
  ASSUME FeedsTyped, NEW f \in Others, NEW n \in ReadSoFar, NEW x \in Published
  PROVE  Accept(f, n, x) \in ReadSoFar
<1>1. x.kind \in Kinds /\ x.origin \in Keys /\ x.seq \in 1 .. Len(pub[x.kind][x.origin])
  <2>1. PICK X \in {[kind : {k}, origin : {o}, seq : 1 .. Len(pub[k][o])] : k \in Kinds, o \in Keys} : x \in X
    BY DEF Published
  <2>2. PICK k \in Kinds, o \in Keys : X = [kind : {k}, origin : {o}, seq : 1 .. Len(pub[k][o])]
    BY <2>1
  <2>3. x.kind = k /\ x.origin = o /\ x.seq \in 1 .. Len(pub[k][o])
    BY <2>1, <2>2
  <2> QED
    BY <2>3
<1>2. /\ n.held \in [Kinds -> Stores] /\ n.slot \subseteq Others /\ Backed(n.held, pub)
      /\ \A k \in Kinds : DOMAIN held[k] \subseteq DOMAIN n.held[k]
  BY DEF ReadSoFar
<1> DEFINE a == Accept(f, n, x)
           h == Put(n.held, x.kind, x.origin, x.seq, f)
<1>3. /\ a = [held |-> a.held, slot |-> a.slot]
      /\ a.held = n.held \/ a.held = h
      /\ a.slot \subseteq n.slot \cup (Keys \ {Self})
  BY <1>1 DEF Accept
<1>4. x.seq \in Nat /\ f \in Keys
  <2>1. pub[x.kind][x.origin] \in Seq(SUBSET Keys)
    BY <1>1 DEF FeedsTyped, Feeds
  <2> QED
    BY <1>1, <2>1, KindsFacts
<1>5. h \in [Kinds -> Stores] /\ Backed(h, pub) /\ \A k \in Kinds : DOMAIN held[k] \subseteq DOMAIN h[k]
  <2>1. /\ h \in [Kinds -> Stores]
        /\ \A k \in Kinds : DOMAIN h[k] = IF k = x.kind THEN DOMAIN n.held[k] \cup {x.origin} ELSE DOMAIN n.held[k]
        /\ \A k \in Kinds : \A y \in DOMAIN h[k] :
             h[k][y] = IF k = x.kind /\ y = x.origin THEN [seq |-> x.seq, via |-> f] ELSE n.held[k][y]
    <3>1. PutIs(h, n.held, x.kind, x.origin, x.seq, f)
      BY <1>1, <1>2, <1>4, PutFacts
    <3> HIDE DEF h
    <3> QED
      BY <3>1 DEF PutIs
  <2> HIDE DEF h
  <2>2. \A k \in Kinds : DOMAIN held[k] \subseteq DOMAIN h[k]
    BY <1>2, <2>1
  <2>3. ASSUME NEW k \in Kinds, NEW y \in DOMAIN h[k] PROVE h[k][y].seq \in 1 .. Len(pub[k][y])
    <3>1. CASE k = x.kind /\ y = x.origin
      BY <1>1, <2>1, <3>1
    <3>2. CASE ~(k = x.kind /\ y = x.origin)
      <4>1. y \in DOMAIN n.held[k] /\ h[k][y] = n.held[k][y]
        BY <2>1, <3>2, ZenonT(60)
      <4> QED
        BY <1>2, <4>1 DEF Backed
    <3> QED
      BY <3>1, <3>2
  <2> QED
    BY <2>1, <2>2, <2>3 DEF Backed
<1>6. a.slot \subseteq Others
  BY <1>2, <1>3 DEF Keys
<1> HIDE DEF a, h
<1>7. a \in [held : [Kinds -> Stores], slot : SUBSET Others]
  BY <1>2, <1>3, <1>5, <1>6
<1> QED
  BY <1>2, <1>3, <1>5, <1>7 DEF ReadSoFar, a

LEMMA ReadingFacts ==
  ASSUME FeedsTyped, HeldTyped, NodeTyped, NEW f \in Others, NEW R \in SUBSET Published
  PROVE  Reading(f, R) \in ReadSoFar
<1> DEFINE D == 2 * Len(KeyOrder)
           G(i, n) == LET X == {x \in R : Place(f, R, x) = i}
                      IN  IF X = {} THEN n ELSE Accept(f, n, CHOOSE x \in X : TRUE)
           F == [i \in 1 .. D |-> [n \in ReadSoFar |-> G(i, n)]]
           a == [held |-> held, slot |-> slot]
<1>1. D \in Nat
  BY GossipAssumption
<1>2. ASSUME NEW i \in 1 .. D, NEW n \in ReadSoFar PROVE G(i, n) \in ReadSoFar
  <2> DEFINE X == {x \in R : Place(f, R, x) = i}
  <2>1. X # {} => (CHOOSE x \in X : TRUE) \in Published
    OBVIOUS
  <2>2. G(i, n) = IF X = {} THEN n ELSE Accept(f, n, CHOOSE x \in X : TRUE)
    OBVIOUS
  <2> HIDE DEF X, G
  <2> QED
    BY <2>1, <2>2, AcceptFacts
<1>3. F \in [1 .. D -> [ReadSoFar -> ReadSoFar]]
  <2> HIDE DEF G, D
  <2> QED
    BY <1>2
<1>4. a \in ReadSoFar
  BY DEF ReadSoFar, HeldTyped, NodeTyped
<1>5. PICK w \in [0 .. D -> ReadSoFar] : Chain(w, D, a, F)
  <2>1. ASSUME NEW S, NEW b \in S, NEW E \in [1 .. D -> [S -> S]]
        PROVE  \E w \in [0 .. D -> S] : Chain(w, D, b, E)
    <3> HIDE DEF D
    <3> QED
      BY <1>1, Recursion
  <2> HIDE DEF F, a, D
  <2> QED
    BY <1>3, <1>4, <2>1
<1>6. ASSUME NEW i \in 0 .. D PROVE w[i] = IF i = 0 THEN a ELSE G(i, w[i - 1])
  <2>1. CASE i = 0
    BY <1>5, <2>1 DEF Chain
  <2>2. CASE i # 0
    <3> HIDE DEF D, a, G
    <3>1. i \in 1 .. D /\ i - 1 \in 0 .. D
      BY <1>1, <2>2
    <3>2. w[i - 1] \in ReadSoFar
      BY <1>5, <3>1
    <3>3. F[i][w[i - 1]] = G(i, w[i - 1])
      BY <3>1, <3>2
    <3>4. w[i] = F[i][w[i - 1]]
      BY <1>5, <3>1 DEF Chain
    <3> QED
      BY <2>2, <3>3, <3>4
  <2> QED
    BY <2>1, <2>2
<1>7. w = [i \in 0 .. D |-> IF i = 0 THEN a ELSE G(i, w[i - 1])]
  <2> HIDE DEF D, a, G
  <2> QED
    BY <1>5, <1>6
<1> DEFINE N == CHOOSE N : N = [i \in 0 .. D |-> IF i = 0 THEN a ELSE G(i, N[i - 1])]
<1>8. N = [i \in 0 .. D |-> IF i = 0 THEN a ELSE G(i, N[i - 1])]
  <2> HIDE DEF D, a, G
  <2> QED
    BY <1>7
<1>9. Reading(f, R) = N[D]
  BY DEF Reading
<1>10. 0 .. D \subseteq {i \in 0 .. D : N[i] \in ReadSoFar}
  <2> HIDE DEF D, a, G, N
  <2> DEFINE P == {i \in 0 .. D : N[i] \in ReadSoFar}
  <2>1. 0 \in P
    BY <1>1, <1>4, <1>8
  <2>2. ASSUME NEW i \in 1 .. D, i - 1 \in P PROVE i \in P
    <3>1. i \in 0 .. D /\ i # 0
      BY <1>1
    <3> QED
      BY <1>2, <1>8, <2>2, <3>1
  <2> HIDE DEF P
  <2>3. 0 .. D \subseteq P
    BY <1>1, <2>1, <2>2, Upward
  <2> QED
    BY <2>3 DEF P
<1> HIDE DEF D, N
<1> QED
  BY <1>1, <1>9, <1>10

-----------------------------------------------------------------------------
(* Every step keeps the invariant. *)

\* What was published stays what it was.
Grows(p, q) ==
  \A k \in Kinds : \A o \in Keys :
    Len(p[k][o]) <= Len(q[k][o]) /\ \A i \in 1 .. Len(p[k][o]) : q[k][o][i] = p[k][o][i]

LEMMA FeedFacts ==
  ASSUME NEW p \in Feeds, NEW k \in Kinds, NEW o \in Keys
  PROVE  p[k][o] \in Seq(SUBSET Keys) /\ Len(p[k][o]) \in Nat
BY DEF Feeds

LEMMA Same == \A p \in Feeds : Grows(p, p)
BY FeedFacts DEF Grows

LEMMA BackedGrows ==
  ASSUME NEW p \in Feeds, NEW q \in Feeds, Grows(p, q), NEW h \in [Kinds -> Stores], Backed(h, p)
  PROVE  Backed(h, q)
<1> SUFFICES ASSUME NEW k \in Kinds, NEW o \in DOMAIN h[k] PROVE h[k][o].seq \in 1 .. Len(q[k][o])
  BY DEF Backed
<1>1. h[k] \in Stores
  OBVIOUS
<1>2. o \in Keys
  BY <1>1, StoreFacts
<1>3. h[k][o].seq \in 1 .. Len(p[k][o]) /\ Len(p[k][o]) <= Len(q[k][o])
  BY <1>2 DEF Backed, Grows
<1>4. Len(p[k][o]) \in Nat /\ Len(q[k][o]) \in Nat
  BY <1>2, FeedFacts
<1> QED
  BY <1>3, <1>4

\* One more record in one feed.
LEMMA AppendGrows ==
  ASSUME NEW p \in Feeds, NEW q \in Feeds,
         \A k \in Kinds : \A o \in Keys :
           q[k][o] = p[k][o] \/ \E r \in SUBSET Keys : q[k][o] = Append(p[k][o], r)
  PROVE  Grows(p, q)
<1> SUFFICES ASSUME NEW k \in Kinds, NEW o \in Keys
             PROVE  /\ Len(p[k][o]) <= Len(q[k][o])
                    /\ \A i \in 1 .. Len(p[k][o]) : q[k][o][i] = p[k][o][i]
  BY DEF Grows
<1>1. p[k][o] \in Seq(SUBSET Keys) /\ Len(p[k][o]) \in Nat
  BY FeedFacts
<1>2. CASE q[k][o] = p[k][o]
  BY <1>1, <1>2
<1>3. ASSUME NEW r \in SUBSET Keys, q[k][o] = Append(p[k][o], r) PROVE
             /\ Len(p[k][o]) <= Len(q[k][o])
             /\ \A i \in 1 .. Len(p[k][o]) : q[k][o][i] = p[k][o][i]
  BY <1>1, <1>3
<1> QED
  BY <1>2, <1>3

LEMMA HeldFacts ==
  ASSUME Typed, NEW k \in Kinds, NEW o \in DOMAIN held[k]
  PROVE  /\ o \in Keys /\ held[k][o].seq \in 1 .. Len(pub[k][o]) /\ held[k][o].seq \in Nat
         /\ held[k][o].via \in Keys /\ Content(k, o) \in SUBSET Keys
<1>1. held[k] \in Stores
  BY DEF Typed, HeldTyped
<1>2. o \in Keys /\ held[k][o] \in Stored
  BY <1>1, StoreFacts
<1>3. held[k][o].seq \in 1 .. Len(pub[k][o])
  BY DEF Typed, HeldTyped, Backed
<1>4. pub[k][o] \in Seq(SUBSET Keys)
  BY <1>2, FeedFacts DEF Typed, FeedsTyped
<1>5. pub[k][o][held[k][o].seq] \in SUBSET Keys
  BY <1>3, <1>4
<1> QED
  BY <1>2, <1>3, <1>5 DEF Content, Stored

LEMMA EdgeFacts ==
  ASSUME NEW m, NEW c, <<m, c>> \in GraphEdges
  PROVE  m \in DOMAIN held["graph"] /\ c \in Content("graph", m)
<1>1. PICK o \in Fresh("graph") : <<m, c>> \in {o} \X Content("graph", o)
  BY DEF GraphEdges
<1> QED
  BY <1>1 DEF Fresh

\* What members have declared stays declared.
LEMMA DeclaredStays ==
  ASSUME Typed, MembersDeclareThemselves, members' = members, Grows(pub, pub'), pub' \in Feeds,
         moved' \/ (trust' = trust /\ moved' = moved)
  PROVE  MembersDeclareThemselves'
<1> SUFFICES ASSUME NEW m \in members, ~moved', trust'[m] # "friend"
             PROVE  \E i \in 1 .. Len(pub'["graph"][m]) : pub'["graph"][m][i] \cap (members \ {m}) # {}
  BY DEF MembersDeclareThemselves
<1>1. PICK i \in 1 .. Len(pub["graph"][m]) : pub["graph"][m][i] \cap (members \ {m}) # {}
  BY DEF MembersDeclareThemselves
<1>2. m \in Keys /\ "graph" \in Kinds
  BY KindsFacts DEF Typed, NodeTyped
<1>3. /\ Len(pub["graph"][m]) <= Len(pub'["graph"][m]) /\ pub'["graph"][m][i] = pub["graph"][m][i]
      /\ Len(pub["graph"][m]) \in Nat /\ Len(pub'["graph"][m]) \in Nat
  BY <1>2, FeedFacts DEF Grows, Typed, FeedsTyped
<1> QED
  BY <1>1, <1>3, SMTT(60)

LEMMA PublishesInv ==
  ASSUME GossipInv, NEW o \in Others, NodePublishes(o)
  PROVE  GossipInv'
<1> USE DEF GossipInv, Typed
<1>1. PICK k \in Kinds :
        /\ Len(pub[k][o]) < Len(Lists[k][o])
        /\ pub' = [pub EXCEPT ![k][o] = Append(@, Lists[k][o][Len(@) + 1])]
  BY DEF NodePublishes
<1>2. pc = "sync" /\ UNCHANGED <<gone, trust, node, moved>>
  BY DEF NodePublishes
<1> DEFINE r == Lists[k][o][Len(pub[k][o]) + 1]
<1>3. r \in SUBSET Keys
  <2>1. Lists[k][o] \in Seq(SUBSET Keys)
    BY GossipAssumption
  <2>2. Len(pub[k][o]) \in Nat
    BY KindsFacts, FeedFacts DEF FeedsTyped
  <2> QED
    BY <1>1, <2>1, <2>2
<1>4. pub' \in Feeds /\ pub[k][o] \in Seq(SUBSET Keys)
  <2>1. pub[k][o] \in Seq(SUBSET Keys) /\ o \in Keys
    BY KindsFacts, FeedFacts DEF FeedsTyped
  <2>2. Append(pub[k][o], r) \in Seq(SUBSET Keys)
    BY <1>3, <2>1
  <2>3. pub' = [pub EXCEPT ![k][o] = Append(pub[k][o], r)]
    BY <1>1
  <2> HIDE DEF r
  <2> QED
    BY <2>1, <2>2, <2>3 DEF Feeds, FeedsTyped
<1>5. Grows(pub, pub')
  <2>1. ASSUME NEW j \in Kinds, NEW p \in Keys
        PROVE  pub'[j][p] = pub[j][p] \/ \E x \in SUBSET Keys : pub'[j][p] = Append(pub[j][p], x)
    BY <1>1, <1>3, KindsFacts DEF Feeds, FeedsTyped
  <2> QED
    BY <1>4, <2>1, AppendGrows DEF FeedsTyped
<1>6. FeedsTyped'
  <2>1. ASSUME NEW j \in Kinds, NEW p \in Keys PROVE gone'[j][p] <= Len(pub'[j][p])
    <3>1. Len(pub[j][p]) \in Nat /\ Len(pub'[j][p]) \in Nat /\ Len(pub[j][p]) <= Len(pub'[j][p])
      BY <1>4, <1>5, FeedFacts DEF FeedsTyped, Grows
    <3>2. gone[j][p] \in Nat /\ gone[j][p] <= Len(pub[j][p]) /\ gone' = gone
      BY <1>2 DEF FeedsTyped
    <3> QED
      BY <3>1, <3>2
  <2> QED
    BY <1>2, <1>4, <2>1 DEF FeedsTyped
<1>7. HeldTyped' /\ NodeTyped'
  <2>1. Backed(held, pub')
    BY <1>4, <1>5, BackedGrows DEF FeedsTyped, HeldTyped
  <2> QED
    BY <1>2, <2>1 DEF HeldTyped, NodeTyped, node
<1>8. MembersDeclareThemselves'
  BY <1>2, <1>4, <1>5, DeclaredStays DEF node
<1>9. PerimeterInsideStore' /\ KeepIsWide'
  BY <1>2 DEF PerimeterInsideStore, KeepIsWide, node
<1>10. DigestIsCurrent'
  BY <1>2 DEF DigestIsCurrent, node, Fresh, Live
<1> QED
  BY <1>6, <1>7, <1>8, <1>9, <1>10

LEMMA ExpiresInv ==
  ASSUME GossipInv, NEW o \in Keys, RecordExpires(o)
  PROVE  GossipInv'
<1> USE DEF GossipInv, Typed
<1>1. PICK k \in Kinds : gone[k][o] < Len(pub[k][o]) /\ gone' = [gone EXCEPT ![k][o] = @ + 1]
  BY DEF RecordExpires
<1>2. UNCHANGED <<pub, trust, node, moved>>
  BY DEF RecordExpires
<1>3. gone' \in [Kinds -> [Keys -> Nat]]
  BY <1>1 DEF FeedsTyped
<1>4. ASSUME NEW j \in Kinds, NEW p \in Keys
      PROVE  gone[j][p] <= gone'[j][p] /\ gone'[j][p] <= Len(pub[j][p])
  <2>1. gone[j][p] \in Nat /\ gone[j][p] <= Len(pub[j][p]) /\ Len(pub[j][p]) \in Nat
    BY FeedFacts DEF FeedsTyped
  <2>2. CASE j = k /\ p = o
    BY <1>1, <2>1, <2>2 DEF FeedsTyped
  <2>3. CASE ~(j = k /\ p = o)
    <3>1. gone'[j][p] = gone[j][p]
      BY <1>1, <2>3 DEF FeedsTyped
    <3> QED
      BY <2>1, <3>1
  <2> QED
    BY <2>2, <2>3
<1>5. Typed'
  BY <1>2, <1>3, <1>4 DEF FeedsTyped, HeldTyped, NodeTyped, node
<1>6. \A j \in Kinds : Fresh(j)' \subseteq Fresh(j)
  <2> SUFFICES ASSUME NEW j \in Kinds, NEW p \in DOMAIN held[j], held[j][p].seq > gone'[j][p]
               PROVE  held[j][p].seq > gone[j][p]
    BY <1>2 DEF Fresh, Live, node
  <2>1. p \in Keys /\ held[j][p].seq \in Nat
    BY HeldFacts
  <2>2. gone[j][p] \in Nat /\ gone'[j][p] \in Nat
    BY <1>3, <2>1 DEF FeedsTyped
  <2> QED
    BY <1>4, <2>1, <2>2
<1>7. GraphEdges' \subseteq GraphEdges
  <2>1. \A p : Content("graph", p)' = Content("graph", p)
    BY <1>2 DEF Content, node
  <2>2. GraphEdges' = UNION {{p} \X Content("graph", p) : p \in Fresh("graph")'}
    BY <2>1 DEF GraphEdges
  <2> QED
    BY <1>6, <2>2, KindsFacts DEF GraphEdges
<1>8. MembersDeclareThemselves'
  BY <1>2, Same, DeclaredStays DEF FeedsTyped, node
<1>9. PerimeterInsideStore'
  BY <1>2 DEF PerimeterInsideStore, node
<1>10. DigestIsCurrent'
  <2>1. \A j \in Kinds : Fresh(j) \subseteq DOMAIN held[j]
    BY DEF Fresh
  <2> QED
    BY <1>2, <1>6, <2>1 DEF DigestIsCurrent, node
<1>11. KeepIsWide'
  <2>1. ReachableKeys(trust, GraphEdges') \subseteq ReachableKeys(trust, GraphEdges)
    BY <1>7, ReachableGrows
  <2> QED
    BY <1>2, <2>1 DEF KeepIsWide, node
<1> QED
  BY <1>5, <1>8, <1>9, <1>10, <1>11

\* A friendship that changes, and a reader of the digest, leave the store's records
\* alone, but for the friend they came through.
LEMMA SettledInv ==
  ASSUME GossipInv, UNCHANGED <<world, slot, members, pc, sweep>>,
         digest' = digest \/ digest' = NoDigest,
         trust' \in [Others -> TrustStates], moved' \/ (trust' = trust /\ moved' = moved /\ held' = held),
         held' \in [Kinds -> Stores],
         \A k \in Kinds :
           /\ DOMAIN held'[k] = DOMAIN held[k]
           /\ \A o \in DOMAIN held[k] : held'[k][o].seq = held[k][o].seq
  PROVE  GossipInv'
<1> USE DEF GossipInv, Typed, world
<1>1. FeedsTyped' /\ NodeTyped'
  BY DEF FeedsTyped, NodeTyped
<1>2. HeldTyped'
  BY DEF HeldTyped, Backed
<1>3. MembersDeclareThemselves'
  BY Same, DeclaredStays DEF FeedsTyped
<1>4. PerimeterInsideStore'
  BY KindsFacts DEF PerimeterInsideStore
<1>5. KeepIsWide'
  <2>1. CASE moved'
    BY <2>1 DEF KeepIsWide
  <2>2. CASE trust' = trust /\ moved' = moved /\ held' = held
    <3>1. GraphEdges' = GraphEdges
      BY <2>2 DEF GraphEdges, Fresh, Live, Content
    <3> QED
      BY <2>2, <3>1 DEF KeepIsWide
  <2> QED
    BY <2>1, <2>2
<1>6. \A k \in Kinds : Fresh(k)' = Fresh(k)
  BY DEF Fresh, Live
<1>7. DigestIsCurrent'
  <2>1. CASE digest' = NoDigest
    BY <2>1 DEF DigestIsCurrent
  <2>2. CASE digest' = digest
    <3> SUFFICES ASSUME digest # NoDigest, NEW k \in Kinds, NEW o \in Keys
                 PROVE  IF o \in Fresh(k)
                        THEN o \in DOMAIN digest[k] /\ digest[k][o] = held'[k][o].seq
                        ELSE o \in DOMAIN digest[k] => o \in DOMAIN held'[k]
      BY <1>6, <2>2 DEF DigestIsCurrent
    <3>1. IF o \in Fresh(k) THEN o \in DOMAIN digest[k] /\ digest[k][o] = held[k][o].seq
                            ELSE o \in DOMAIN digest[k] => o \in DOMAIN held[k]
      BY DEF DigestIsCurrent
    <3>2. o \in Fresh(k) => o \in DOMAIN held[k]
      BY DEF Fresh
    <3> QED
      BY <3>1, <3>2
  <2> QED
    BY <2>1, <2>2
<1> QED
  BY <1>1, <1>2, <1>3, <1>4, <1>5, <1>7

LEMMA FriendshipInv ==
  ASSUME GossipInv, NEW f \in Others, AskToPair(f) \/ Befriend(f) \/ BlockPeer(f) \/ RemovePeer(f)
  PROVE  GossipInv'
<1>1. trust \in [Others -> TrustStates] /\ held \in [Kinds -> Stores]
  BY DEF GossipInv, Typed, NodeTyped, HeldTyped
<1>2. CASE AskToPair(f) \/ Befriend(f) \/ BlockPeer(f)
  <2>1. trust' \in [Others -> TrustStates] /\ moved'
    BY <1>1, <1>2 DEF AskToPair, Befriend, BlockPeer, SetTrust, TrustStates
  <2>2. UNCHANGED <<world, node>>
    BY <1>2 DEF AskToPair, Befriend, BlockPeer
  <2> QED
    BY <1>1, <2>1, <2>2, SettledInv DEF node
<1>3. CASE RemovePeer(f)
  <2>1. trust' \in [Others -> TrustStates] /\ moved'
    BY <1>1, <1>3 DEF RemovePeer, SetTrust, TrustStates
  <2>2. UNCHANGED <<world, slot, digest, members, pc, sweep>>
    BY <1>3 DEF RemovePeer
  <2>3. /\ held' \in [Kinds -> Stores]
        /\ \A k \in Kinds : /\ DOMAIN held'[k] = DOMAIN held[k]
                            /\ \A o \in DOMAIN held[k] : held'[k][o].seq = held[k][o].seq
    <3>1. CASE held' = held
      BY <1>1, <3>1
    <3> DEFINE Row(k, o) == IF held[k][o].via = f THEN [held[k][o] EXCEPT !.via = Nobody] ELSE held[k][o]
    <3>2. CASE held' = [k \in Kinds |-> [o \in DOMAIN held[k] |-> Row(k, o)]]
      <4>1. ASSUME NEW k \in Kinds, NEW o \in DOMAIN held[k]
            PROVE  Row(k, o) \in Stored /\ Row(k, o).seq = held[k][o].seq
        <5>1. held[k][o] \in Stored
          BY <1>1, StoreFacts
        <5> QED
          BY <5>1, KindsFacts DEF Stored, Nobody
      <4> HIDE DEF Row
      <4>2. ASSUME NEW k \in Kinds PROVE held'[k] \in Stores
        <5>1. DOMAIN held[k] \subseteq Keys
          BY <1>1, StoreFacts
        <5>2. held'[k] \in [DOMAIN held[k] -> Stored]
          BY <3>2, <4>1
        <5> QED
          BY <5>1, <5>2 DEF Stores
      <4> QED
        BY <3>2, <4>1, <4>2
    <3> QED
      BY <1>3, <3>1, <3>2 DEF RemovePeer
  <2> QED
    BY <2>1, <2>2, <2>3, SettledInv
<1> QED
  BY <1>2, <1>3

LEMMA ServesInv ==
  ASSUME GossipInv, (\E f \in Others : HandleGraph(f)) \/ DigestAges
  PROVE  GossipInv'
<1>1. UNCHANGED <<world, trust, held, slot, members, pc, sweep, moved>>
  BY DEF HandleGraph, DigestAges
<1>2. CASE DigestAges
  <2>1. digest' = NoDigest
    BY <1>2 DEF DigestAges
  <2> QED
    BY <1>1, <2>1, SettledInv DEF GossipInv, Typed, NodeTyped, HeldTyped
<1>3. CASE digest' = GraphDigest
  <2> USE DEF GossipInv, Typed, world
  <2>1. FeedsTyped' /\ HeldTyped' /\ NodeTyped'
    BY <1>1 DEF FeedsTyped, HeldTyped, NodeTyped
  <2>2. MembersDeclareThemselves'
    BY <1>1, Same, DeclaredStays DEF FeedsTyped
  <2>3. PerimeterInsideStore' /\ KeepIsWide'
    BY <1>1 DEF PerimeterInsideStore, KeepIsWide, GraphEdges, Fresh, Live, Content
  <2>4. DigestIsCurrent'
    BY <1>1, <1>3 DEF DigestIsCurrent, GraphDigest, Fresh, Live
  <2> QED
    BY <2>1, <2>2, <2>3, <2>4
<1> QED
  BY <1>2, <1>3 DEF HandleGraph

LEMMA OwnListTyped ==
  ASSUME NEW k, NEW t
  PROVE  OwnList(k, t) \in SUBSET Keys
BY KindsFacts DEF OwnList, Friends, Blocked

\* What is published and stored as the sweep begins.
LEMMA PutOwnFacts ==
  ASSUME Typed, NEW K \in SUBSET Kinds, NEW q,
         q = [k \in Kinds |-> IF k \in K THEN [pub[k] EXCEPT ![Self] = Append(@, OwnList(k, trust))]
                              ELSE pub[k]]
  PROVE  /\ q \in Feeds /\ Grows(pub, q)
         /\ PutOwn(K) \in [Kinds -> Stores] /\ Backed(PutOwn(K), q)
<1>1. pub \in Feeds /\ held \in [Kinds -> Stores] /\ Backed(held, pub)
  BY DEF Typed, FeedsTyped, HeldTyped
<1>2. ASSUME NEW k \in Kinds
      PROVE  /\ q[k] \in [Keys -> Seq(SUBSET Keys)]
             /\ \A o \in Keys : q[k][o] = pub[k][o] \/ \E r \in SUBSET Keys : q[k][o] = Append(pub[k][o], r)
             /\ k \in K => Len(q[k][Self]) = Len(pub[k][Self]) + 1
  <2>1. pub[k] \in [Keys -> Seq(SUBSET Keys)] /\ pub[k][Self] \in Seq(SUBSET Keys)
    BY <1>1, KindsFacts DEF Feeds
  <2>2. OwnList(k, trust) \in SUBSET Keys
    BY OwnListTyped
  <2>3. Append(pub[k][Self], OwnList(k, trust)) \in Seq(SUBSET Keys)
    BY <2>1, <2>2
  <2>4. CASE k \in K
    <3>1. q[k] = [pub[k] EXCEPT ![Self] = Append(pub[k][Self], OwnList(k, trust))]
      BY <2>4
    <3>2. q[k] \in [Keys -> Seq(SUBSET Keys)] /\ \A o \in Keys \ {Self} : q[k][o] = pub[k][o]
      BY <2>1, <2>3, <3>1, KindsFacts
    <3>3. q[k][Self] = Append(pub[k][Self], OwnList(k, trust))
      BY <2>1, <3>1, KindsFacts
    <3>4. Len(q[k][Self]) = Len(pub[k][Self]) + 1
      BY <2>1, <2>2, <3>3
    <3> QED
      BY <2>2, <3>2, <3>3, <3>4
  <2>5. CASE k \notin K
    BY <2>1, <2>5
  <2> QED
    BY <2>4, <2>5
<1>3. q \in Feeds
  <2>1. q = [k \in Kinds |-> q[k]]
    OBVIOUS
  <2> QED
    BY <1>2, <2>1 DEF Feeds
<1>4. Grows(pub, q)
  BY <1>1, <1>2, <1>3, AppendGrows
<1> DEFINE P == PutOwn(K)
           n(k) == Len(pub[k][Self]) + 1
<1>5. \A k \in Kinds : P[k] = IF k \in K THEN Put(held, k, Self, n(k), Nobody)[k] ELSE held[k]
  BY DEF PutOwn
<1>6. \A k \in Kinds : n(k) \in Nat
  BY <1>1, FeedFacts, KindsFacts
<1>7. \A k \in Kinds : PutIs(Put(held, k, Self, n(k), Nobody), held, k, Self, n(k), Nobody)
  <2> HIDE DEF n
  <2> QED
    BY <1>1, <1>6, PutFacts, KindsFacts DEF Nobody
<1>8. PutOwn(K) \in [Kinds -> Stores]
  <2>1. \A k \in Kinds : P[k] \in Stores
    BY <1>1, <1>5, <1>7 DEF PutIs
  <2>2. P = [k \in Kinds |-> P[k]]
    BY DEF PutOwn
  <2> QED
    BY <2>1, <2>2
<1>9. ASSUME NEW k \in Kinds, NEW o \in DOMAIN P[k] PROVE P[k][o].seq \in 1 .. Len(q[k][o])
  <2>1. CASE k \in K /\ o = Self
    <3>1. P[k][o] = [seq |-> n(k), via |-> Nobody]
      BY <1>5, <1>7, <2>1 DEF PutIs
    <3>2. Len(q[k][o]) = n(k) /\ n(k) \in 1 .. n(k)
      BY <1>1, <1>2, <2>1, FeedFacts, KindsFacts
    <3> QED
      BY <3>1, <3>2
  <2>2. CASE ~(k \in K /\ o = Self)
    <3>1. o \in DOMAIN held[k] /\ P[k][o] = held[k][o]
      <4> HIDE DEF P, n
      <4>1. CASE k \in K
        <5>1. P[k] = Put(held, k, Self, n(k), Nobody)[k] /\ o # Self
          BY <1>5, <2>2, <4>1
        <5> DEFINE h == Put(held, k, Self, n(k), Nobody)
        <5>2. PutIs(h, held, k, Self, n(k), Nobody) /\ P[k] = h[k]
          BY <1>7, <5>1
        <5> HIDE DEF h
        <5> QED
          BY <5>1, <5>2 DEF PutIs
      <4>2. CASE k \notin K
        BY <1>5, <4>2
      <4> QED
        BY <4>1, <4>2
    <3>2. Backed(held, q)
      BY <1>1, <1>3, <1>4, BackedGrows
    <3> QED
      BY <3>1, <3>2 DEF Backed
  <2> QED
    BY <2>1, <2>2
<1> QED
  BY <1>3, <1>4, <1>8, <1>9 DEF Backed

LEMMA BeginInv ==
  ASSUME GossipInv, NEW rested \in BOOLEAN, BeginSweep(rested)
  PROVE  GossipInv'
<1> USE DEF GossipInv, Typed
<1>1. UNCHANGED <<gone, trust, members, moved>> /\ pc' = "walk"
      /\ digest' = (IF held' # held THEN NoDigest ELSE digest) /\ slot' \subseteq slot
  BY DEF BeginSweep
<1>2. PICK K \in Due :
        /\ pub' = [k \in Kinds |-> IF k \in K THEN [pub[k] EXCEPT ![Self] = Append(@, OwnList(k, trust))]
                                   ELSE pub[k]]
        /\ held' = Unexpired(PutOwn(K))
  BY DEF BeginSweep
<1>3. K \in SUBSET Kinds
  BY DEF Due
<1>4. /\ pub' \in Feeds /\ Grows(pub, pub')
      /\ PutOwn(K) \in [Kinds -> Stores] /\ Backed(PutOwn(K), pub')
  BY <1>2, <1>3, PutOwnFacts
<1> DEFINE P == PutOwn(K)
<1>5. /\ held' \in [Kinds -> Stores]
      /\ \A k \in Kinds : DOMAIN held'[k] \subseteq DOMAIN P[k] /\ \A o \in DOMAIN held'[k] : held'[k][o] = P[k][o]
  <2> DEFINE D(k) == {x \in DOMAIN P[k] : Live(k, x, P[k][x].seq)}
  <2>1. held' = [k \in Kinds |-> [o \in D(k) |-> P[k][o]]]
    BY <1>2 DEF Unexpired
  <2>2. ASSUME NEW k \in Kinds PROVE D(k) \in SUBSET Keys /\ \A o \in D(k) : P[k][o] \in Stored
    <3>1. P[k] \in Stores
      BY <1>4
    <3> HIDE DEF P
    <3> QED
      BY <3>1, StoreFacts
  <2>3. \A k \in Kinds : D(k) \subseteq DOMAIN P[k]
    OBVIOUS
  <2> HIDE DEF D, P
  <2>4. \A k \in Kinds : held'[k] = [o \in D(k) |-> P[k][o]]
    BY <2>1
  <2>5. \A k \in Kinds : held'[k] \in [D(k) -> Stored]
    BY <2>2, <2>4
  <2>6. \A k \in Kinds : held'[k] \in Stores
    BY <2>2, <2>5 DEF Stores
  <2> QED
    BY <2>1, <2>3, <2>4, <2>6
<1>6. HeldTyped'
  <2> HIDE DEF P
  <2>1. \A k \in Kinds : \A o \in DOMAIN P[k] : P[k][o].seq \in 1 .. Len(pub'[k][o])
    BY <1>4 DEF Backed, P
  <2> QED
    BY <1>5, <2>1 DEF HeldTyped, Backed
<1>7. FeedsTyped'
  <2>1. ASSUME NEW j \in Kinds, NEW p \in Keys PROVE gone'[j][p] <= Len(pub'[j][p])
    <3>1. Len(pub[j][p]) \in Nat /\ Len(pub'[j][p]) \in Nat /\ Len(pub[j][p]) <= Len(pub'[j][p])
      BY <1>4, FeedFacts DEF FeedsTyped, Grows
    <3>2. gone[j][p] \in Nat /\ gone[j][p] <= Len(pub[j][p]) /\ gone' = gone
      BY <1>1 DEF FeedsTyped
    <3> QED
      BY <3>1, <3>2
  <2> QED
    BY <1>1, <1>4, <2>1 DEF FeedsTyped
<1>8. NodeTyped'
  BY <1>1 DEF NodeTyped
<1>9. MembersDeclareThemselves'
  BY <1>1, <1>4, DeclaredStays
<1>10. PerimeterInsideStore' /\ KeepIsWide'
  BY <1>1 DEF PerimeterInsideStore, KeepIsWide
<1>11. DigestIsCurrent'
  <2>1. CASE held' # held
    BY <1>1, <2>1 DEF DigestIsCurrent
  <2>2. CASE held' = held
    BY <1>1, <2>2 DEF DigestIsCurrent, Fresh, Live
  <2> QED
    BY <2>1, <2>2
<1> QED
  BY <1>6, <1>7, <1>8, <1>9, <1>10, <1>11

LEMMA RetentionInv ==
  ASSUME GossipInv, Retention
  PROVE  GossipInv'
<1> USE DEF GossipInv, Typed
<1>1. /\ UNCHANGED <<world, trust, held, slot, digest>> /\ pc' = "drop" /\ ~moved'
      /\ members' = MemberKeys(trust, GraphEdges)
      /\ sweep'.keep = ReachableKeys(trust, GraphEdges)
  BY DEF Retention, WalkPeers
<1>2. \A m \in members' :
        m \in Others /\ (trust[m] = "friend" \/ \E c \in members' \ {m} : <<m, c>> \in GraphEdges)
  BY <1>1, MembersDeclare
<1>3. FeedsTyped' /\ HeldTyped' /\ NodeTyped'
  BY <1>1, <1>2 DEF FeedsTyped, HeldTyped, NodeTyped, world
<1>4. MembersDeclareThemselves' /\ PerimeterInsideStore'
  <2> SUFFICES ASSUME NEW m \in members', trust[m] # "friend"
               PROVE  /\ \E i \in 1 .. Len(pub["graph"][m]) : pub["graph"][m][i] \cap (members' \ {m}) # {}
                      /\ m \in DOMAIN held["graph"]
    BY <1>1 DEF MembersDeclareThemselves, PerimeterInsideStore, world
  <2>1. PICK c \in members' \ {m} : <<m, c>> \in GraphEdges
    BY <1>2
  <2>2. m \in DOMAIN held["graph"] /\ c \in Content("graph", m)
    BY <2>1, EdgeFacts
  <2>3. held["graph"][m].seq \in 1 .. Len(pub["graph"][m])
    BY <2>2, HeldFacts, KindsFacts
  <2> QED
    BY <2>1, <2>2, <2>3 DEF Content
<1>5. DigestIsCurrent'
  BY <1>1 DEF DigestIsCurrent, Fresh, Live, world
<1>6. KeepIsWide'
  <2>1. GraphEdges' = GraphEdges
    BY <1>1 DEF GraphEdges, Fresh, Live, Content, world
  <2>2. members' \subseteq sweep'.keep
    BY <1>1, MembersAreKept
  <2> QED
    BY <1>1, <2>1, <2>2 DEF KeepIsWide
<1> QED
  BY <1>3, <1>4, <1>5, <1>6

LEMMA DropInv ==
  ASSUME GossipInv, DropUnreachableGraph
  PROVE  GossipInv'
<1> USE DEF GossipInv, Typed
<1>1. /\ UNCHANGED <<world, trust, slot, members, moved>> /\ pc = "drop" /\ pc' \in {"idle", "sync"}
      /\ held' = Kept /\ digest' = (IF held' # held THEN NoDigest ELSE digest)
  BY DEF DropUnreachableGraph, Told, Syncing
<1>2. \A k \in Kinds : held'[k] = [o \in DOMAIN held[k] \cap sweep.keep |-> held[k][o]]
  BY <1>1 DEF Kept
<1>3. FeedsTyped' /\ NodeTyped'
  BY <1>1 DEF FeedsTyped, NodeTyped, world
<1>4. HeldTyped'
  <2>1. ASSUME NEW k \in Kinds PROVE held'[k] \in Stores
    <3>1. held[k] \in Stores
      BY DEF HeldTyped
    <3> DEFINE D == DOMAIN held[k] \cap sweep.keep
    <3>2. D \in SUBSET Keys /\ \A o \in D : held[k][o] \in Stored
      BY <3>1, StoreFacts
    <3>3. held'[k] \in [D -> Stored]
      BY <1>2, <3>2
    <3> QED
      BY <3>2, <3>3 DEF Stores
  <2>2. held' = [k \in Kinds |-> held'[k]]
    BY <1>1 DEF Kept
  <2>3. held' \in [Kinds -> Stores]
    BY <2>1, <2>2
  <2>4. Backed(held', pub)
    BY <1>2, ZenonT(60) DEF Backed, HeldTyped
  <2> QED
    BY <1>1, <2>3, <2>4 DEF HeldTyped, world
<1>5. MembersDeclareThemselves'
  BY <1>1, Same, DeclaredStays DEF FeedsTyped, world
<1>6. PerimeterInsideStore'
  BY <1>1, <1>2, KindsFacts, ZenonT(60) DEF PerimeterInsideStore, KeepIsWide
<1>7. DigestIsCurrent'
  <2>1. CASE held' # held
    BY <1>1, <2>1 DEF DigestIsCurrent
  <2>2. CASE held' = held
    BY <1>1, <2>2 DEF DigestIsCurrent, Fresh, Live, world
  <2> QED
    BY <2>1, <2>2
<1>8. KeepIsWide'
  BY <1>1 DEF KeepIsWide
<1> QED
  BY <1>3, <1>4, <1>5, <1>6, <1>7, <1>8

LEMMA TurnInv ==
  ASSUME GossipInv, NEW f \in Others, NEW R \in SUBSET Published, Turn(f, R)
  PROVE  GossipInv'
<1> USE DEF GossipInv, Typed
<1>1. /\ UNCHANGED <<world, trust, members, moved>> /\ pc = "sync" /\ pc' \in {"idle", "sync"}
      /\ held' = Reading(f, R).held /\ slot' = Reading(f, R).slot
      /\ digest' = (IF held' # held THEN NoDigest ELSE digest)
  BY DEF Turn, Told, Syncing
<1>2. /\ held' \in [Kinds -> Stores] /\ slot' \subseteq Others /\ Backed(held', pub)
      /\ \A k \in Kinds : DOMAIN held[k] \subseteq DOMAIN held'[k]
  <2>1. Reading(f, R) \in ReadSoFar
    BY ReadingFacts
  <2> QED
    BY <1>1, <2>1 DEF ReadSoFar
<1>3. FeedsTyped' /\ HeldTyped' /\ NodeTyped'
  BY <1>1, <1>2 DEF FeedsTyped, HeldTyped, NodeTyped, world
<1>4. MembersDeclareThemselves'
  BY <1>1, Same, DeclaredStays DEF FeedsTyped, world
<1>5. PerimeterInsideStore' /\ KeepIsWide'
  BY <1>1, <1>2, KindsFacts DEF PerimeterInsideStore, KeepIsWide
<1>6. DigestIsCurrent'
  <2>1. CASE held' # held
    BY <1>1, <2>1 DEF DigestIsCurrent
  <2>2. CASE held' = held
    BY <1>1, <2>2 DEF DigestIsCurrent, Fresh, Live, world
  <2> QED
    BY <2>1, <2>2
<1> QED
  BY <1>3, <1>4, <1>5, <1>6

\* What is asked for has been published.
LEMMA AskedFor ==
  /\ Missing \subseteq Published /\ Everything \subseteq Published
  /\ \A n \in Nat : \A R \in kSubset(n, Missing) : R \in SUBSET Published
BY DEF Missing, Everything, kSubset

LEMMA NextInv == GossipInv /\ [GossipNext]_gossip => GossipInv'
<1> SUFFICES ASSUME GossipInv, [GossipNext]_gossip PROVE GossipInv'
  OBVIOUS
<1>1. CASE UNCHANGED gossip
  BY <1>1, SettledInv DEF gossip, world, node, GossipInv, Typed, NodeTyped, HeldTyped
<1>2. CASE Sweeping
  BY <1>2, BeginInv, RetentionInv, DropInv DEF Sweeping
<1>3. CASE DigestAges \/ \E f \in Others : HandleGraph(f)
  BY <1>3, ServesInv
<1>4. ASSUME NEW f \in Others,
             NodePublishes(f) \/ AskToPair(f) \/ Befriend(f) \/ BlockPeer(f) \/ RemovePeer(f)
      PROVE  GossipInv'
  BY <1>4, PublishesInv, FriendshipInv
<1>5. ASSUME NEW f \in Others, Withheld(f) PROVE GossipInv'
  <2>1. PICK n \in 0 .. MaxReply : \E R \in kSubset(n, Missing) : Turn(f, R)
    BY <1>5 DEF Withheld
  <2>2. PICK R \in kSubset(n, Missing) : Turn(f, R)
    BY <2>1
  <2>3. R \in SUBSET Published
    BY AskedFor, GossipAssumption
  <2> QED
    BY <2>2, <2>3, TurnInv
<1>6. ASSUME NEW f \in Others, SyncGraph(f) PROVE GossipInv'
  BY <1>6, AskedFor, TurnInv DEF SyncGraph
<1>7. ASSUME NEW o \in Keys, RecordExpires(o) PROVE GossipInv'
  BY <1>7, ExpiresInv
<1> QED
  BY <1>1, <1>2, <1>3, <1>4, <1>5, <1>6, <1>7 DEF GossipNext

\* The store, the perimeter, the digest and what the retention walk keeps agree.
THEOREM GossipInvariance == GossipSpec => []GossipInv
<1> QED
  BY InitInv, NextInv, PTL DEF GossipSpec

\* What the sweep drops, the retention walk did not reach.
LEMMA SparesStep ==
  ASSUME GossipInv, [GossipNext]_gossip, pc = "drop", ~moved
  PROVE  ReachableKeys(trust, GraphEdges) \cap (DOMAIN held["graph"] \ DOMAIN held'["graph"]) = {}
<1>1. CASE DropUnreachableGraph
  <2>1. DOMAIN held'["graph"] = DOMAIN held["graph"] \cap sweep.keep
    BY <1>1, KindsFacts DEF DropUnreachableGraph, Kept
  <2> QED
    BY <2>1 DEF GossipInv, KeepIsWide
<1>2. ASSUME NEW f \in Others, RemovePeer(f) PROVE DOMAIN held'["graph"] = DOMAIN held["graph"]
  BY <1>2, KindsFacts DEF RemovePeer
<1>3. ASSUME ~DropUnreachableGraph, \A f \in Others : ~RemovePeer(f) PROVE held' = held
  <2>1. CASE UNCHANGED gossip
    BY <2>1 DEF gossip, node
  <2>2. CASE Sweeping
    BY <1>3, <2>2 DEF Sweeping, BeginSweep, Retention
  <2>3. CASE DigestAges \/ \E f \in Others : HandleGraph(f)
    BY <2>3 DEF DigestAges, HandleGraph
  <2>4. ASSUME NEW f \in Others, NodePublishes(f) \/ AskToPair(f) \/ Befriend(f) \/ BlockPeer(f)
        PROVE  held' = held
    BY <2>4 DEF NodePublishes, AskToPair, Befriend, BlockPeer, node
  <2>5. ASSUME NEW f \in Others, Withheld(f) \/ SyncGraph(f) PROVE FALSE
    BY <2>5 DEF Withheld, SyncGraph, Turn
  <2>6. ASSUME NEW o \in Keys, RecordExpires(o) PROVE held' = held
    BY <2>6 DEF RecordExpires, node
  <2> QED
    BY <1>3, <2>1, <2>2, <2>3, <2>4, <2>5, <2>6 DEF GossipNext
<1> QED
  BY <1>1, <1>2, <1>3

\* Every way the map shows is one its friends cut, whatever was published.
LEMMA ViaHolds == ViaCutsShortestWays
<1> SUFFICES ASSUME NEW k \in DOMAIN Via(trust, GraphEdges),
                    k \in Found(Cut(trust, Via(trust, GraphEdges)[k]), GraphEdges)
             PROVE  Distance(Cut(trust, Via(trust, GraphEdges)[k]), GraphEdges, k)
                      > Distance(trust, GraphEdges, k)
  BY DEF ViaCutsShortestWays, Cut
<1> QED
  BY ViaCuts

(***************************************************************************)
(* Who is served, what the store holds, what is offered of it and how the  *)
(* map is drawn agree, for any friendships, any lists other nodes publish   *)
(* and in any order of sweeps, replies, expiries and admin acts: no one is  *)
(* served as a member on somebody else's word.                             *)
(***************************************************************************)
THEOREM PerimeterHolds == GossipSpec => []PerimeterIsSound
<1>1. GossipInv => GossipTypeOK
  <2> SUFFICES ASSUME GossipInv PROVE GossipTypeOK
    OBVIOUS
  <2> USE DEF GossipInv, Typed
  <2>1. ASSUME NEW k \in Kinds
        PROVE  /\ DOMAIN held[k] \subseteq Keys
               /\ \A o \in DOMAIN held[k] :
                    held[k][o].seq \in 1 .. Len(pub[k][o]) /\ held[k][o].via \in Keys
    BY HeldFacts
  <2>2. ASSUME NEW k \in Kinds, NEW o \in Keys PROVE gone[k][o] \in 0 .. Len(pub[k][o])
    <3>1. gone[k][o] \in Nat /\ gone[k][o] <= Len(pub[k][o]) /\ Len(pub[k][o]) \in Nat
      BY FeedFacts DEF FeedsTyped
    <3> QED
      BY <3>1
  <2> QED
    BY <2>1, <2>2 DEF GossipTypeOK, NodeTyped
<1>2. GossipInv => PerimeterIsSound
  BY <1>1, ViaHolds DEF GossipInv, PerimeterIsSound
<1> QED
  BY <1>2, GossipInvariance, PTL

\* No sweep forgets a record its own walk would reach, unless a friendship changed
\* between the two.
THEOREM RetentionHolds == GossipSpec => RetentionSparesFriends
<1>1. GossipInv /\ [GossipNext]_gossip =>
        [pc = "drop" /\ ~moved =>
           ReachableKeys(trust, GraphEdges) \cap (DOMAIN held["graph"] \ DOMAIN held'["graph"]) = {}]_gossip
  BY SparesStep
<1> QED
  BY <1>1, GossipInvariance, PTL DEF GossipSpec, RetentionSparesFriends

-----------------------------------------------------------------------------
(* The memo. *)

\* What the constants give: the labels of the inputs and places, and that no
\* record is None.
LEMMA Constants ==
  /\ TTL \in Nat /\ MaxTime \in Nat /\ MaxVersion \in Nat
  /\ Local = {"peers", "homes"} /\ Inputs = {"peers", "homes", "edges"}
  /\ Sweep \notin Requests /\ Producers = Requests \cup {Sweep}
  /\ 0 \in Stamps /\ Stamps \subseteq Nat
BY MembershipAssumption DEF Local, Inputs, Producers, Stamps

\* The initial state has the types and every part of the invariant.
LEMMA InitMemoInv == Init => MemoInv
<1> SUFFICES ASSUME Init PROVE MemoInv
  OBVIOUS
<1>1. TypeOK
  BY Constants DEF Init, TypeOK, Idle, NothingRead, AtFirst, Versions, Places, Stamps
<1>2. StoreKnows
  BY Constants DEF Init, StoreKnows, NothingRead, AtFirst
<1>3. \A p \in Producers : \A i \in Inputs : ~HasRead(p, i)
  BY Constants DEF Init, HasRead, Behind, Idle
<1>4. FloorGuards /\ RequestsKeepUp
  BY <1>3, Constants DEF Init, FloorGuards, RequestsKeepUp
<1>5. EdgesAreDated /\ ServedInOrder
  BY <1>3, Constants DEF Init, EdgesAreDated, ServedInOrder, Idle, NothingRead
<1> QED
  BY <1>1, <1>2, <1>4, <1>5 DEF MemoInv

\* A reading of the clock.
LEMMA StampFacts ==
  ASSUME TypeOK, Stamp
  PROVE  now \in Nat /\ now' = now + 1 /\ now' \in Stamps /\ now' <= MaxTime
BY Constants DEF TypeOK, Stamp, Stamps

\* TypeOK in parts, for the steps below.
ClockTyped    == now \in Stamps /\ floor \in 0 .. now /\ served \in 0 .. now
StoreTyped    == /\ version \in Versions /\ storedAt \in [1 .. MaxVersion -> 1 .. MaxTime + 1]
                 /\ settled \in [Local -> 0 .. MaxVersion]
Mutation      == [input : Local, version : 1 .. MaxVersion, at : Stamps]
MutationTyped == /\ mutation \in [Mutators -> Mutation \cup {None}]
                 /\ \A m \in Mutators : mutation[m] # None => mutation[m].at <= now
MemoTyped     == memo # None => memo \in [built : floor .. now, read : Versions]
Job           == [pc : Places, built : Stamps, read : Versions]
JobTyped      == job \in [Producers -> Job] /\ \A p \in Producers : job[p].built <= now
SinceTyped    ==
  since \in [Requests -> [local : [Local -> 0 .. MaxVersion], at : Stamps, served : Stamps]]

\* The parts are TypeOK, ...
LEMMA TypeParts ==
  TypeOK <=> ClockTyped /\ StoreTyped /\ MutationTyped /\ MemoTyped /\ JobTyped /\ SinceTyped
BY DEF TypeOK, ClockTyped, StoreTyped, MutationTyped, Mutation, MemoTyped, JobTyped, Job, SinceTyped

\* ... in the next state too.
LEMMA TypePartsNext ==
  ASSUME ClockTyped', StoreTyped', MutationTyped', MemoTyped', JobTyped', SinceTyped'
  PROVE  TypeOK'
BY DEF TypeOK, ClockTyped, StoreTyped, MutationTyped, Mutation, MemoTyped, JobTyped, Job, SinceTyped

\* Time passes and nobody notices.
LEMMA LaterTypes ==
  ASSUME TypeOK, now' \in {now, now + 1}, now' \in Stamps
  PROVE  /\ UNCHANGED <<floor, served>> => ClockTyped'
         /\ UNCHANGED <<version, storedAt, settled>> => StoreTyped'
         /\ UNCHANGED mutation => MutationTyped'
         /\ UNCHANGED memoVars => MemoTyped'
         /\ UNCHANGED job => JobTyped'
         /\ UNCHANGED since => SinceTyped'
<1> USE Constants, TypeParts
<1>0. now \in Nat /\ now' \in Nat /\ now <= now'
  BY DEF ClockTyped, Stamps
<1>1. UNCHANGED <<floor, served>> => ClockTyped'
  BY <1>0 DEF ClockTyped
<1>2. UNCHANGED <<version, storedAt, settled>> => StoreTyped'
  BY DEF StoreTyped
<1>3. ASSUME UNCHANGED mutation PROVE MutationTyped'
  <2>1. \A m \in Mutators : mutation[m] # None => mutation[m].at \in Nat
    BY DEF MutationTyped, Mutation
  <2> QED
    BY <1>0, <1>3, <2>1 DEF MutationTyped
<1>4. ASSUME UNCHANGED memoVars PROVE MemoTyped'
  BY <1>0, <1>4 DEF MemoTyped, memoVars, ClockTyped
<1>5. ASSUME UNCHANGED job PROVE JobTyped'
  <2>1. \A p \in Producers : job[p].built \in Nat
    BY DEF JobTyped, Job
  <2> QED
    BY <1>0, <1>5, <2>1 DEF JobTyped
<1>6. UNCHANGED since => SinceTyped'
  BY DEF SinceTyped
<1> QED
  BY <1>1, <1>2, <1>3, <1>4, <1>5, <1>6

\* A set a producer has computed may be the memo.
LEMMA ComputedFacts ==
  ASSUME TypeOK, NEW p \in Producers
  PROVE  /\ Computed(p) # None
         /\ Computed(p).built = job[p].built /\ Computed(p).read = job[p].read
         /\ job[p].built \in 0 .. now /\ job[p].read \in Versions
<1>1. /\ Computed(p).built = job[p].built /\ Computed(p).read = job[p].read
      /\ job[p].built \in 0 .. now /\ job[p].read \in Versions
  BY Constants DEF TypeOK, Computed, Stamps
<1>2. Computed(p) \in [built : Nat, read : [Inputs -> Nat]]
  BY <1>1, Constants DEF Computed, Versions
<1> QED
  BY <1>1, <1>2, MembershipAssumption

\* A producer begins, goes on or ends: its entry of job is the one changed.
LEMMA JobStep ==
  ASSUME TypeOK, now' \in {now, now + 1}, now' \in Stamps, NEW p \in Producers,
         NEW j \in Job, j.built <= now', job' = [job EXCEPT ![p] = j]
  PROVE  JobTyped'
<1>1. \A q \in Producers : job[q] \in Job /\ job[q].built \in Nat /\ job[q].built <= now
  BY Constants, TypeParts DEF JobTyped, Job
<1>2. now \in Nat /\ now <= now'
  BY Constants, TypeParts DEF ClockTyped
<1>3. \A q \in Producers : job'[q] \in Job /\ job'[q].built <= now'
  BY <1>1, <1>2, TypeParts DEF JobTyped
<1> QED
  BY <1>3, TypeParts DEF JobTyped

\* The record of a producer at rest.
LEMMA IdleTyped == Idle \in Job /\ Idle.built = 0 /\ Idle.pc = "idle" /\ Idle.read = NothingRead
BY Constants DEF Idle, Job, NothingRead, Versions, Places

\* What a request is held to before it begins.
LEMMA AtFirstTyped == AtFirst \in [local : [Local -> 0 .. MaxVersion], at : Stamps, served : Stamps]
BY Constants DEF AtFirst

\* The actions keep the types.
LEMMA TypeStep == TypeOK /\ [Next]_vars => TypeOK'
<1> SUFFICES ASSUME TypeOK, [Next]_vars PROVE TypeOK'
  OBVIOUS
<1> USE Constants, TypeParts, TypePartsNext
<1>0. now \in Nat /\ now \in Stamps
  BY DEF ClockTyped
<1>1. CASE GossipArrives
  <2>1. now' = now + 1 /\ now' \in Stamps
    BY <1>1, StampFacts DEF GossipArrives
  <2>2. StoreTyped'
    <3>1. version["edges"] \in 0 .. MaxVersion - 1
      BY <1>1 DEF GossipArrives, StoreTyped, Versions
    <3>2. version' \in Versions /\ settled' = settled
      BY <1>1, <3>1, SMTT(60) DEF GossipArrives, StoreTyped, Versions
    <3>3. storedAt' \in [1 .. MaxVersion -> 1 .. MaxTime + 1]
      BY <1>0, <1>1, <2>1, <3>1 DEF GossipArrives, StoreTyped, Stamps
    <3> QED
      BY <3>2, <3>3 DEF StoreTyped
  <2> QED
    BY <1>1, <2>1, <2>2, LaterTypes DEF GossipArrives, memoVars
<1>2. CASE TimePasses
  BY <1>2, StampFacts, LaterTypes DEF TimePasses, memoVars, storeVars
<1>3. ASSUME NEW m \in Mutators, Mutates(m) PROVE TypeOK'
  <2>1. PICK i \in Local :
          /\ version[i] < MaxVersion /\ version' = [version EXCEPT ![i] = @ + 1]
          /\ mutation' = [mutation EXCEPT ![m] = [input |-> i, version |-> version[i] + 1, at |-> 0]]
    BY <1>3 DEF Mutates
  <2>2. version[i] \in 0 .. MaxVersion /\ i \in Inputs
    BY DEF StoreTyped, Versions
  <2>3. StoreTyped'
    BY <1>3, <2>1, <2>2, SMTT(60) DEF Mutates, StoreTyped, Versions
  <2>4. [input |-> i, version |-> version[i] + 1, at |-> 0] \in Mutation
    BY <2>1, <2>2 DEF Mutation
  <2>5. MutationTyped'
    BY <1>0, <1>3, <2>1, <2>4 DEF Mutates, MutationTyped
  <2> QED
    BY <1>0, <1>3, <2>3, <2>5, LaterTypes DEF Mutates, memoVars
<1>4. ASSUME NEW m \in Mutators, StampsFloor(m) PROVE TypeOK'
  <2>1. now' = now + 1 /\ now' \in Stamps
    BY <1>4, StampFacts DEF StampsFloor
  <2>2. \A k \in Mutators : mutation[k] # None => mutation[k] \in Mutation /\ mutation[k].at \in Nat
    BY DEF MutationTyped, Mutation
  <2>3. \A k \in Mutators : mutation'[k] # None => mutation'[k] \in Mutation /\ mutation'[k].at <= now'
    <3> SUFFICES ASSUME NEW k \in Mutators, mutation'[k] # None
                 PROVE  mutation'[k] \in Mutation /\ mutation'[k].at <= now'
      OBVIOUS
    <3>1. CASE k = m
      BY <1>0, <1>4, <2>1, <2>2, <3>1 DEF StampsFloor, MutationTyped, Mutation
    <3>2. CASE k # m
      BY <1>0, <1>4, <2>1, <2>2, <3>2 DEF StampsFloor, MutationTyped
    <3> QED
      BY <3>1, <3>2
  <2>4. MutationTyped'
    BY <1>4, <2>3 DEF StampsFloor, MutationTyped
  <2> QED
    BY <1>4, <2>1, <2>4, LaterTypes DEF StampsFloor, memoVars
<1>5. ASSUME NEW m \in Mutators, Invalidates(m) PROVE TypeOK'
  <2>1. mutation[m] \in Mutation /\ mutation[m].at <= now
    BY <1>5 DEF Invalidates, MutationTyped
  <2>2. now' = now /\ memo' = None /\ served' = 0 /\ UNCHANGED <<version, storedAt, job, since>>
    BY <1>5 DEF Invalidates, Drop
  <2>3. floor' \in {floor, mutation[m].at}
    BY <1>5 DEF Invalidates, Drop, Later
  <2>4. ClockTyped' /\ MemoTyped'
    <3>1. mutation[m].at \in 0 .. now /\ floor \in 0 .. now
      BY <1>0, <2>1 DEF ClockTyped, Mutation, Stamps
    <3> QED
      BY <1>0, <2>2, <2>3, <3>1 DEF ClockTyped, MemoTyped
  <2>5. Later(settled[mutation[m].input], mutation[m].version) \in 0 .. MaxVersion
    BY <2>1 DEF Later, StoreTyped, Mutation
  <2>6. StoreTyped'
    BY <1>5, <2>2, <2>5 DEF Invalidates, StoreTyped
  <2>7. MutationTyped'
    BY <1>5, <2>2 DEF Invalidates, MutationTyped
  <2> QED
    BY <1>0, <2>2, <2>4, <2>6, <2>7, LaterTypes
<1>6. ASSUME NEW r \in Requests, AnswerFromMemo(r) PROVE TypeOK'
  <2>1. memo # None /\ memo.built \in 0 .. now /\ memo.read \in Versions
    BY <1>0, <1>6 DEF AnswerFromMemo, FreshEnough, MemoTyped, ClockTyped
  <2>2. [pc |-> "answered", built |-> memo.built, read |-> memo.read] \in Job
    BY <1>0, <2>1 DEF Places, Stamps, Job
  <2>3. now' = now /\ UNCHANGED <<storeVars, memoVars>>
    BY <1>6 DEF AnswerFromMemo
  <2>4. JobTyped'
    <3>1. r \in Producers /\ memo.built <= now'
      BY <1>0, <2>1, <2>3
    <3>2. job' = [job EXCEPT ![r] = [pc |-> "answered", built |-> memo.built, read |-> memo.read]]
      BY <1>6 DEF AnswerFromMemo
    <3> QED
      BY <1>0, <2>2, <2>3, <3>1, <3>2, JobStep
  <2>5. SinceTyped'
    BY <1>6, SMTT(60) DEF AnswerFromMemo, Begins, SinceTyped, ClockTyped, StoreTyped, Stamps
  <2>6. ClockTyped'
    BY <1>0, <1>6, <2>1, <2>3 DEF AnswerFromMemo, Later, ClockTyped, memoVars
  <2> QED
    BY <1>0, <2>3, <2>4, <2>5, <2>6, LaterTypes DEF storeVars, memoVars
<1>7. ASSUME NEW r \in Requests, End(r) PROVE TypeOK'
  <2>1. JobTyped'
    <3>1. r \in Producers /\ now' = now /\ Idle \in Job /\ Idle.built <= now'
      BY <1>0, <1>7, IdleTyped DEF End
    <3>2. job' = [job EXCEPT ![r] = Idle]
      BY <1>7 DEF End
    <3> QED
      BY <1>0, <3>1, <3>2, JobStep
  <2>2. SinceTyped'
    BY <1>7, AtFirstTyped DEF End, SinceTyped
  <2> QED
    BY <1>0, <1>7, <2>1, <2>2, LaterTypes DEF End, storeVars, memoVars
<1>8. ASSUME NEW p \in Producers, BeginReads(p) PROVE TypeOK'
  <2>1. now' = now + 1 /\ now' \in Stamps
    BY <1>8, StampFacts DEF BeginReads
  <2>2. [Idle EXCEPT !.pc = "peers", !.built = now + 1] \in Job
    BY <2>1, IdleTyped DEF Job, Idle, Places
  <2>3. JobTyped'
    <3>1. job' = [job EXCEPT ![p] = [Idle EXCEPT !.pc = "peers", !.built = now + 1]]
      BY <1>8 DEF BeginReads
    <3>2. [Idle EXCEPT !.pc = "peers", !.built = now + 1].built <= now'
      BY <1>0, <2>1 DEF Idle
    <3> QED
      BY <1>0, <2>1, <2>2, <3>1, <3>2, JobStep
  <2>4. SinceTyped'
    <3>1. CASE UNCHANGED since
      BY <3>1 DEF SinceTyped
    <3>2. CASE p \in Requests /\ Begins(p)
      <4>1. [local |-> settled, at |-> now, served |-> served]
              \in [local : [Local -> 0 .. MaxVersion], at : Stamps, served : Stamps]
        BY <1>0 DEF ClockTyped, StoreTyped, Stamps
      <4> QED
        BY <3>2, <4>1 DEF Begins, SinceTyped
    <3> QED
      BY <1>8, <3>1, <3>2 DEF BeginReads
  <2> QED
    BY <1>8, <2>1, <2>3, <2>4, LaterTypes DEF BeginReads, storeVars, memoVars
<1>9. ASSUME NEW p \in Producers, Read(p) PROVE TypeOK'
  <2>1. After(job[p].pc) \in Places
    BY <1>9 DEF Read, After, Places
  <2>2. job[p] \in Job /\ job[p].built <= now /\ version[job[p].pc] \in 0 .. MaxVersion
    BY <1>9 DEF Read, StoreTyped, JobTyped, Versions
  <2>3. PICK j \in Job : j.built <= now /\ job' = [job EXCEPT ![p] = j]
    <3>1. [job[p] EXCEPT !.read[job[p].pc] = version[job[p].pc], !.pc = After(job[p].pc)] \in Job
      BY <1>9, <2>1, <2>2 DEF Read, Job, Versions
    <3> QED
      BY <1>9, <2>2, <3>1 DEF Read, Job
  <2>4. JobTyped'
    BY <1>0, <1>9, <2>3, JobStep DEF Read
  <2> QED
    BY <1>0, <1>9, <2>4, LaterTypes DEF Read, storeVars, memoVars
<1>10. ASSUME NEW p \in Producers, ReadFails(p) PROVE TypeOK'
  <2>1. JobTyped'
    <3>1. now' = now /\ Idle \in Job /\ Idle.built <= now' /\ job' = [job EXCEPT ![p] = Idle]
      BY <1>0, <1>10, IdleTyped DEF ReadFails
    <3> QED
      BY <1>0, <3>1, JobStep
  <2>2. SinceTyped'
    BY <1>10, AtFirstTyped DEF ReadFails, SinceTyped
  <2> QED
    BY <1>0, <1>10, <2>1, <2>2, LaterTypes DEF ReadFails, storeVars, memoVars
<1>11. ASSUME NEW p \in Producers, Install(p) PROVE TypeOK'
  <2>1. Computed(p) \in [built : 0 .. now, read : Versions]
    BY ComputedFacts DEF Computed
  <2>2. now' = now /\ UNCHANGED <<storeVars, floor, since>>
    BY <1>11 DEF Install
  <2>3. MemoTyped'
    BY <1>11, <2>1, <2>2 DEF Install, Accepts, MemoTyped, ClockTyped
  <2>4. ClockTyped'
    BY <1>11, <2>1, <2>2 DEF Install, Later, ClockTyped
  <2>5. [pc |-> "answered", built |-> Computed(p).built, read |-> Computed(p).read] \in Job
    BY <1>0, <2>1 DEF Places, Stamps, Job
  <2>6. JobTyped'
    <3>1. CASE p = Sweep
      <4>1. Idle \in Job /\ Idle.built <= now' /\ job' = [job EXCEPT ![p] = Idle]
        BY <1>0, <1>11, <2>2, <3>1, IdleTyped DEF Install
      <4> QED
        BY <1>0, <2>2, <4>1, JobStep
    <3>2. CASE p # Sweep
      <4>1. /\ Computed(p).built <= now'
            /\ job' = [job EXCEPT ![p] = [pc |-> "answered", built |-> Computed(p).built,
                                         read |-> Computed(p).read]]
        BY <1>0, <1>11, <2>1, <2>2, <3>2 DEF Install
      <4> QED
        BY <1>0, <2>2, <2>5, <4>1, JobStep
    <3> QED
      BY <3>1, <3>2
  <2> QED
    BY <1>0, <2>2, <2>3, <2>4, <2>6, LaterTypes DEF storeVars
<1>12. CASE UNCHANGED vars
  BY <1>0, <1>12, LaterTypes DEF vars, storeVars, memoVars
<1> QED
  BY <1>1, <1>2, <1>3, <1>4, <1>5, <1>6, <1>7, <1>8, <1>9, <1>10, <1>11, <1>12 DEF Next

\* The variables of the memo keep their types.
THEOREM TypeCorrect == Spec => []TypeOK
<1>1. Init => TypeOK
  BY InitMemoInv DEF MemoInv
<1> QED
  BY <1>1, TypeStep, PTL DEF Spec

-----------------------------------------------------------------------------
\* The types of what the invariant compares.
Numbers ==
  /\ now \in Nat /\ floor \in Nat /\ served \in Nat /\ floor <= now /\ served <= now
  /\ \A i \in Inputs : version[i] \in Nat
  /\ \A i \in Local : settled[i] \in Nat
  /\ \A v \in 1 .. MaxVersion : storedAt[v] \in Nat
  /\ \A m \in Mutators : mutation[m] # None =>
       /\ mutation[m].input \in Local /\ mutation[m].version \in Nat
       /\ mutation[m].at \in Nat /\ mutation[m].at <= now
  /\ memo # None => memo.built \in Nat /\ floor <= memo.built /\ memo.built <= now
                      /\ \A i \in Inputs : memo.read[i] \in Nat
  /\ \A p \in Producers : /\ job[p].pc \in Places /\ job[p].built \in Nat /\ job[p].built <= now
                          /\ \A i \in Inputs : job[p].read[i] \in Nat
  /\ \A r \in Requests : /\ since[r].at \in Nat /\ since[r].served \in Nat
                         /\ \A i \in Local : since[r].local[i] \in Nat

\* They follow from TypeOK.
LEMMA NumbersTyped == TypeOK => Numbers
<1> SUFFICES ASSUME TypeOK PROVE Numbers
  OBVIOUS
<1> USE Constants, TypeParts DEF Stamps, Versions
<1>1. /\ now \in Nat /\ floor \in Nat /\ served \in Nat /\ floor <= now /\ served <= now
      /\ \A i \in Inputs : version[i] \in Nat
      /\ \A i \in Local : settled[i] \in Nat
      /\ \A v \in 1 .. MaxVersion : storedAt[v] \in Nat
  BY DEF ClockTyped, StoreTyped
<1>2. \A m \in Mutators : mutation[m] # None =>
       /\ mutation[m].input \in Local /\ mutation[m].version \in Nat
       /\ mutation[m].at \in Nat /\ mutation[m].at <= now
  BY DEF MutationTyped, Mutation
<1>3. memo # None => memo.built \in Nat /\ floor <= memo.built /\ memo.built <= now
                      /\ \A i \in Inputs : memo.read[i] \in Nat
  BY <1>1 DEF MemoTyped
<1>4. \A p \in Producers : /\ job[p].pc \in Places /\ job[p].built \in Nat /\ job[p].built <= now
                          /\ \A i \in Inputs : job[p].read[i] \in Nat
  BY DEF JobTyped, Job
<1>5. \A r \in Requests : /\ since[r].at \in Nat /\ since[r].served \in Nat
                         /\ \A i \in Local : since[r].local[i] \in Nat
  BY DEF SinceTyped
<1> QED
  BY <1>1, <1>2, <1>3, <1>4, <1>5 DEF Numbers

\* The five parts of the invariant that are not types.
Parts == StoreKnows /\ FloorGuards /\ RequestsKeepUp /\ EdgesAreDated /\ ServedInOrder

\* They are put together again in the next state.
LEMMA PartsNext ==
  ASSUME StoreKnows', FloorGuards', RequestsKeepUp', EdgesAreDated', ServedInOrder'
  PROVE  Parts'
BY DEF Parts

\* Gossip changes what no request and no floor is held to, and is dated later
\* than every reading.
LEMMA ArrivesInv ==
  ASSUME TypeOK, Parts, GossipArrives
  PROVE  Parts'
<1> USE Constants, NumbersTyped
<1>1. /\ \A i \in Local : version'[i] = version[i]
      /\ version'["edges"] = version["edges"] + 1 /\ version["edges"] < MaxVersion
      /\ UNCHANGED <<settled, mutation, memo, floor, job, since, served>>
  BY DEF GossipArrives, TypeOK, Versions, memoVars
<1>2. \A v \in 1 .. MaxVersion :
        storedAt'[v] = IF v = version["edges"] + 1 THEN now + 1 ELSE storedAt[v]
  BY DEF GossipArrives, TypeOK
<1>3. StoreKnows'
  BY <1>1 DEF Parts, StoreKnows, Numbers
<1>4. FloorGuards' /\ RequestsKeepUp' /\ ServedInOrder'
  BY <1>1 DEF Parts, FloorGuards, RequestsKeepUp, ServedInOrder, Answered, HasRead
<1>5. EdgesAreDated'
  <2>1. \A v \in 1 .. MaxVersion : v > version'["edges"] => storedAt'[v] = MaxTime + 1
    BY <1>1, <1>2 DEF Parts, EdgesAreDated, Numbers
  <2>2. memo' # None => \A v \in 1 .. MaxVersion : storedAt'[v] <= memo'.built => memo'.read["edges"] >= v
    BY <1>1, <1>2 DEF Parts, EdgesAreDated, Numbers
  <2>3. \A p \in Producers : HasRead(p, "edges")' =>
          \A v \in 1 .. MaxVersion : storedAt'[v] <= job'[p].built => job'[p].read["edges"] >= v
    BY <1>1, <1>2 DEF Parts, EdgesAreDated, Numbers, HasRead
  <2> QED
    BY <1>1, <2>1, <2>2, <2>3 DEF Parts, EdgesAreDated
<1> QED
  BY <1>3, <1>4, <1>5, PartsNext

\* The clock alone disturbs nothing.
LEMMA TimeInv ==
  ASSUME Parts, UNCHANGED <<storeVars, memoVars, job, since, served>>
  PROVE  Parts'
<1>1. UNCHANGED <<version, storedAt, settled, mutation, memo, floor, job, since, served>>
  BY DEF storeVars, memoVars
<1>2. StoreKnows' /\ FloorGuards' /\ RequestsKeepUp' /\ EdgesAreDated' /\ ServedInOrder'
  BY <1>1 DEF Parts, StoreKnows, FloorGuards, RequestsKeepUp, EdgesAreDated, ServedInOrder, Answered, HasRead
<1> QED
  BY <1>2, PartsNext

\* A mutation is held to nothing before it has stamped its floor.
LEMMA MutatesInv ==
  ASSUME TypeOK, Parts, NEW m \in Mutators, Mutates(m)
  PROVE  Parts'
<1> USE Constants, NumbersTyped
<1>1. PICK i \in Local :
        /\ version' = [version EXCEPT ![i] = @ + 1]
        /\ mutation' = [mutation EXCEPT ![m] = [input |-> i, version |-> version[i] + 1, at |-> 0]]
  BY DEF Mutates
<1>2. /\ version'[i] = version[i] + 1 /\ \A k \in Inputs \ {i} : version'[k] = version[k]
      /\ mutation'[m] = [input |-> i, version |-> version[i] + 1, at |-> 0]
      /\ \A k \in Mutators \ {m} : mutation'[k] = mutation[k]
      /\ UNCHANGED <<now, storedAt, settled, memo, floor, job, since, served>>
  BY <1>1, ZenonT(60) DEF Mutates, TypeOK, Versions, memoVars
<1>3. StoreKnows'
  <2>1. \A k \in Inputs : version'[k] >= version[k]
    BY <1>2 DEF Numbers
  <2>2. \A k \in Mutators : mutation'[k] # None => mutation'[k].version <= version'[mutation'[k].input]
    BY <1>2, <2>1 DEF Parts, StoreKnows, Numbers
  <2>3. (\A k \in Local : settled[k] <= version'[k])
          /\ \A r \in Requests : \A k \in Local : since[r].local[k] <= version'[k]
    BY <1>2, <2>1 DEF Parts, StoreKnows, Numbers
  <2> QED
    BY <1>2, <2>2, <2>3 DEF StoreKnows
<1>4. FloorGuards'
  BY <1>2 DEF Parts, FloorGuards, Answered, HasRead
<1>5. RequestsKeepUp' /\ EdgesAreDated' /\ ServedInOrder'
  BY <1>2 DEF Parts, RequestsKeepUp, EdgesAreDated, ServedInOrder, HasRead
<1> QED
  BY <1>3, <1>4, <1>5, PartsNext

\* A floor is stamped later than every reading under way.
LEMMA StampsFloorInv ==
  ASSUME TypeOK, Parts, NEW m \in Mutators, StampsFloor(m)
  PROVE  Parts'
<1> USE Constants, NumbersTyped
<1>1. /\ mutation[m] # None /\ mutation[m].at = 0
      /\ mutation'[m].input = mutation[m].input /\ mutation'[m].version = mutation[m].version
      /\ mutation'[m].at = now + 1
      /\ \A k \in Mutators \ {m} : mutation'[k] = mutation[k]
      /\ UNCHANGED <<version, storedAt, settled, memo, floor, job, since, served>>
  BY DEF StampsFloor, TypeOK, memoVars
<1>2. StoreKnows'
  BY <1>1 DEF Parts, StoreKnows
<1>3. FloorGuards'
  BY <1>1 DEF Parts, FloorGuards, Answered, HasRead, Numbers
<1>4. RequestsKeepUp' /\ EdgesAreDated' /\ ServedInOrder'
  BY <1>1 DEF Parts, RequestsKeepUp, EdgesAreDated, ServedInOrder, HasRead
<1> QED
  BY <1>2, <1>3, <1>4, PartsNext

\* What is settled now was guarded by its floor before.
LEMMA InvalidatesInv ==
  ASSUME TypeOK, Parts, NEW m \in Mutators, Invalidates(m)
  PROVE  Parts'
<1> USE Constants, NumbersTyped
<1> DEFINE mine == mutation[m]
<1>1. /\ mine # None /\ mine.at # 0 /\ mine.input \in Local
      /\ memo' = None /\ served' = 0
      /\ floor' = IF floor > mine.at THEN floor ELSE mine.at
      /\ \A i \in Local : settled'[i] = IF i = mine.input /\ ~(settled[i] > mine.version)
                                          THEN mine.version ELSE settled[i]
      /\ mutation'[m] = None /\ \A k \in Mutators \ {m} : mutation'[k] = mutation[k]
      /\ UNCHANGED <<version, storedAt, job, since>>
  BY DEF Invalidates, Drop, Later, TypeOK, Numbers
<1>2. StoreKnows'
  BY <1>1 DEF Parts, StoreKnows
<1>3. FloorGuards'
  <2> SUFFICES ASSUME NEW p \in Producers, NEW i \in Local, ~Answered(p), HasRead(p, i)
               PROVE  /\ job[p].built >= floor' => job[p].read[i] >= settled'[i]
                      /\ \A k \in Mutators :
                           mutation'[k] # None /\ mutation'[k].input = i /\ mutation'[k].at # 0
                             /\ job[p].built >= mutation'[k].at
                           => job[p].read[i] >= mutation'[k].version
    BY <1>1 DEF FloorGuards, Answered, HasRead
  <2>1. job[p].built >= floor' => job[p].built >= floor /\ job[p].built >= mine.at
    BY <1>1 DEF Numbers
  <2>2. job[p].built >= floor' => job[p].read[i] >= settled'[i]
    BY <1>1, <2>1 DEF Parts, FloorGuards
  <2> QED
    BY <1>1, <2>2 DEF Parts, FloorGuards
<1>4. RequestsKeepUp' /\ EdgesAreDated' /\ ServedInOrder'
  BY <1>1 DEF Parts, RequestsKeepUp, EdgesAreDated, ServedInOrder, HasRead, Numbers
<1> QED
  BY <1>2, <1>3, <1>4, PartsNext

\* What a producer has read, by where it is.
LEMMA ReadBefore ==
  ASSUME NEW p \in Producers
  PROVE  /\ HasRead(p, "peers") <=> job[p].pc \in {"edges", "homes", "install", "answered"}
         /\ HasRead(p, "edges") <=> job[p].pc \in {"homes", "install", "answered"}
         /\ HasRead(p, "homes") <=> job[p].pc \in {"install", "answered"}
BY DEF HasRead, Behind

\* A producer that has read nothing is held to nothing.
LEMMA EmptyHanded ==
  ASSUME TypeOK, Parts, NEW p \in Producers,
         UNCHANGED <<version, storedAt, settled, mutation, memo, floor, served>>,
         \A q \in Producers \ {p} : job'[q] = job[q],
         \A r \in Requests \ {p} : since'[r] = since[r],
         job'[p].pc \in {"idle", "peers"},
         p \in Requests => /\ \A i \in Local : since'[p].local[i] <= version[i]
                           /\ job'[p].pc = "idle" \/ since'[p].at < job'[p].built + TTL
                           /\ job'[p].pc = "idle" \/ since'[p].served <= job'[p].built
  PROVE  Parts'
<1> USE Constants
<1>1. \A i \in Inputs : ~HasRead(p, i)'
  BY DEF HasRead, Behind
<1>2. \A q \in Producers \ {p} :
        /\ Answered(q)' <=> Answered(q)
        /\ \A i \in Inputs : HasRead(q, i)' <=> HasRead(q, i)
  BY DEF Answered, HasRead
<1>3. StoreKnows'
  BY DEF Parts, StoreKnows
<1>4. FloorGuards'
  BY <1>1, <1>2 DEF Parts, FloorGuards
<1>5. RequestsKeepUp'
  BY <1>1, <1>2 DEF Parts, RequestsKeepUp
<1>6. EdgesAreDated'
  BY <1>1, <1>2 DEF Parts, EdgesAreDated
<1>7. ServedInOrder'
  BY DEF Parts, ServedInOrder
<1> QED
  BY <1>3, <1>4, <1>5, <1>6, <1>7, PartsNext

\* A reading begun now is later than whatever was answered, and within the TTL.
LEMMA BeginReadsInv ==
  ASSUME TypeOK, Parts, NEW p \in Producers, BeginReads(p)
  PROVE  Parts'
<1> USE Constants, NumbersTyped
<1>1. now' = now + 1 /\ UNCHANGED <<version, storedAt, settled, mutation, memo, floor, served>>
  BY DEF BeginReads, Stamp, storeVars, memoVars
<1>2. /\ job'[p].pc = "peers" /\ job'[p].built = now + 1
      /\ \A q \in Producers \ {p} : job'[q] = job[q]
  BY DEF BeginReads, Idle, TypeOK
<1>3. \A r \in Requests \ {p} : since'[r] = since[r]
  BY DEF BeginReads, Begins, TypeOK
<1>4. p \in Requests => since'[p] = [local |-> settled, at |-> now, served |-> served]
  BY DEF BeginReads, Begins, TypeOK
<1>5. p \in Requests => /\ \A i \in Local : since'[p].local[i] <= version[i]
                        /\ since'[p].at < job'[p].built + TTL
                        /\ since'[p].served <= job'[p].built
  BY <1>2, <1>4 DEF Parts, StoreKnows, Numbers
<1> QED
  BY <1>1, <1>2, <1>3, <1>5, EmptyHanded

\* A failed read leaves the request to begin again.
LEMMA ReadFailsInv ==
  ASSUME TypeOK, Parts, NEW p \in Producers, ReadFails(p)
  PROVE  Parts'
<1> USE Constants, NumbersTyped
<1>1. UNCHANGED <<version, storedAt, settled, mutation, memo, floor, served>>
  BY DEF ReadFails, storeVars, memoVars
<1>2. job'[p].pc = "idle" /\ \A q \in Producers \ {p} : job'[q] = job[q]
  BY DEF ReadFails, Idle, TypeOK
<1>3. \A r \in Requests : since'[r] = IF r = p THEN AtFirst ELSE since[r]
  BY DEF ReadFails
<1>4. p \in Requests => \A i \in Local : since'[p].local[i] <= version[i]
  BY <1>3 DEF AtFirst, Numbers
<1> QED
  BY <1>1, <1>2, <1>3, <1>4, EmptyHanded

\* So does an answer that was taken.
LEMMA EndInv ==
  ASSUME TypeOK, Parts, NEW r \in Requests, End(r)
  PROVE  Parts'
<1> USE Constants, NumbersTyped
<1>1. UNCHANGED <<version, storedAt, settled, mutation, memo, floor, served>>
  BY DEF End, storeVars, memoVars
<1>2. job'[r].pc = "idle" /\ \A q \in Producers \ {r} : job'[q] = job[q]
  BY DEF End, Idle, TypeOK
<1>3. since'[r] = AtFirst /\ \A q \in Requests \ {r} : since'[q] = since[q]
  BY DEF End, TypeOK
<1>4. \A i \in Local : since'[r].local[i] <= version[i]
  BY <1>3 DEF AtFirst, Numbers
<1> QED
  BY <1>1, <1>2, <1>3, <1>4, EmptyHanded

\* A read sees all that was settled, written or stored before.
LEMMA ReadInv ==
  ASSUME TypeOK, Parts, NEW p \in Producers, Read(p)
  PROVE  Parts'
<1> USE Constants, NumbersTyped
<1> DEFINE here == job[p].pc
<1>1. /\ here \in Inputs /\ job'[p].pc = After(here) /\ job'[p].built = job[p].built
      /\ job'[p].read[here] = version[here]
      /\ \A i \in Inputs \ {here} : job'[p].read[i] = job[p].read[i]
      /\ \A q \in Producers \ {p} : job'[q] = job[q]
      /\ UNCHANGED <<version, storedAt, settled, mutation, memo, floor, since, served>>
  <2>1. /\ here \in Inputs
        /\ job' = [job EXCEPT ![p].read[here] = version[here], ![p].pc = After(here)]
        /\ UNCHANGED <<version, storedAt, settled, mutation, memo, floor, since, served>>
    BY DEF Read, storeVars, memoVars
  <2>2. job \in [Producers -> Job] /\ job[p].read \in [Inputs -> 0 .. MaxVersion]
    BY TypeParts DEF JobTyped, Job, Versions
  <2>3. \A q \in Producers \ {p} : job'[q] = job[q]
    BY <2>1, <2>2
  <2>4. job'[p] = [job[p] EXCEPT !.read = [job[p].read EXCEPT ![here] = version[here]],
                                !.pc = After(here)]
    BY <2>1, <2>2
  <2>5. /\ job'[p].pc = After(here) /\ job'[p].built = job[p].built
        /\ job'[p].read = [job[p].read EXCEPT ![here] = version[here]]
    BY <2>2, <2>4 DEF Job
  <2> QED
    BY <2>1, <2>2, <2>3, <2>5
<1>2. \A i \in Inputs : HasRead(p, i)' => HasRead(p, i) \/ i = here
  BY <1>1 DEF HasRead, Behind, After
<1>3. \A q \in Producers \ {p} :
        /\ Answered(q)' <=> Answered(q)
        /\ \A i \in Inputs : HasRead(q, i)' <=> HasRead(q, i)
  BY <1>1 DEF Answered, HasRead
<1>4. ~Answered(p) /\ here # "idle"
  BY <1>1 DEF Answered
<1>5. StoreKnows' /\ ServedInOrder'
  BY <1>1, <1>4 DEF Parts, StoreKnows, ServedInOrder
<1>6. FloorGuards'
  <2> SUFFICES ASSUME NEW q \in Producers, NEW i \in Local, ~Answered(q)', HasRead(q, i)'
               PROVE  /\ job'[q].built >= floor => job'[q].read[i] >= settled[i]
                      /\ \A m \in Mutators :
                           mutation[m] # None /\ mutation[m].input = i /\ mutation[m].at # 0
                             /\ job'[q].built >= mutation[m].at
                           => job'[q].read[i] >= mutation[m].version
    BY <1>1 DEF Parts, FloorGuards
  <2>1. CASE q # p
    BY <1>1, <1>3, <2>1 DEF Parts, FloorGuards
  <2>2. CASE q = p /\ i # here
    BY <1>1, <1>2, <1>4, <2>2 DEF Parts, FloorGuards
  <2>3. CASE q = p /\ i = here
    BY <1>1, <2>3 DEF Parts, StoreKnows, Numbers
  <2> QED
    BY <2>1, <2>2, <2>3
<1>7. RequestsKeepUp'
  <2> SUFFICES ASSUME NEW r \in Requests, NEW i \in Local, HasRead(r, i)'
               PROVE  job'[r].read[i] >= since[r].local[i]
    BY <1>1 DEF RequestsKeepUp
  <2>1. CASE r # p
    BY <1>1, <1>3, <2>1 DEF Parts, RequestsKeepUp
  <2>2. CASE r = p /\ i # here
    BY <1>1, <1>2, <2>2 DEF Parts, RequestsKeepUp
  <2>3. CASE r = p /\ i = here
    BY <1>1, <2>3 DEF Parts, StoreKnows, Numbers
  <2> QED
    BY <2>1, <2>2, <2>3
<1>8. EdgesAreDated'
  <2>1. ASSUME NEW q \in Producers, HasRead(q, "edges")', NEW v \in 1 .. MaxVersion,
               storedAt[v] <= job'[q].built
        PROVE  job'[q].read["edges"] >= v
    <3>1. CASE q # p
      BY <1>1, <1>3, <2>1, <3>1 DEF Parts, EdgesAreDated
    <3>2. CASE q = p /\ here # "edges"
      BY <1>1, <1>2, <2>1, <3>2 DEF Parts, EdgesAreDated
    <3>3. CASE q = p /\ here = "edges"
      <4>1. storedAt[v] <= now /\ now <= MaxTime
        <5>1. now \in 0 .. MaxTime /\ job[p].built <= now /\ job[p].built \in Nat
          BY DEF Numbers, TypeOK, Stamps
        <5>2. storedAt[v] <= job[p].built /\ storedAt[v] \in Nat
          BY <1>1, <2>1, <3>3 DEF Numbers
        <5> QED
          BY <5>1, <5>2
      <4>2. ~(v > version["edges"])
        BY <4>1 DEF Parts, EdgesAreDated, Numbers
      <4> QED
        BY <1>1, <3>3, <4>2 DEF Numbers
    <3> QED
      BY <3>1, <3>2, <3>3
  <2>2. \A r \in Requests : job'[r].pc # "idle" => since'[r].at < job'[r].built + TTL
    BY <1>1, <1>4 DEF Parts, EdgesAreDated
  <2> QED
    BY <1>1, <2>1, <2>2 DEF Parts, EdgesAreDated
<1> QED
  BY <1>5, <1>6, <1>7, <1>8, PartsNext

\* A memo young enough to answer with has what a request is held to.
LEMMA AnswerFromMemoInv ==
  ASSUME TypeOK, Parts, NEW r \in Requests, AnswerFromMemo(r)
  PROVE  Parts'
<1> USE Constants, NumbersTyped
<1>1. /\ memo # None /\ now - memo.built < TTL
      /\ job'[r] = [pc |-> "answered", built |-> memo.built, read |-> memo.read]
      /\ since'[r] = [local |-> settled, at |-> now, served |-> served]
      /\ \A q \in Producers \ {r} : job'[q] = job[q]
      /\ \A q \in Requests \ {r} : since'[q] = since[q]
      /\ served' = IF served > memo.built THEN served ELSE memo.built
      /\ UNCHANGED <<version, storedAt, settled, mutation, memo, floor>>
  BY DEF AnswerFromMemo, FreshEnough, Begins, Later, TypeOK, storeVars, memoVars
<1>2. Answered(r)'
  BY <1>1 DEF Answered
<1>3. \A q \in Producers \ {r} :
        /\ Answered(q)' <=> Answered(q)
        /\ \A i \in Inputs : HasRead(q, i)' <=> HasRead(q, i)
  BY <1>1 DEF Answered, HasRead
<1>4. StoreKnows'
  BY <1>1 DEF Parts, StoreKnows
<1>5. FloorGuards'
  BY <1>1, <1>2, <1>3 DEF Parts, FloorGuards
<1>6. RequestsKeepUp'
  BY <1>1, <1>3 DEF Parts, RequestsKeepUp, FloorGuards
<1>7. EdgesAreDated'
  <2>1. now < memo.built + TTL
    BY <1>1 DEF Numbers
  <2> QED
    BY <1>1, <1>3, <2>1 DEF Parts, EdgesAreDated
<1>8. ServedInOrder'
  BY <1>1 DEF Parts, ServedInOrder, Numbers
<1> QED
  BY <1>4, <1>5, <1>6, <1>7, <1>8, PartsNext

\* What is installed is above the floor and no older than what it replaces.
LEMMA InstallInv ==
  ASSUME TypeOK, Parts, NEW p \in Producers, Install(p)
  PROVE  Parts'
<1> USE Constants, NumbersTyped
<1>1. /\ job[p].pc = "install"
      /\ Computed(p) # None /\ Computed(p).built = job[p].built /\ Computed(p).read = job[p].read
      /\ \A q \in Producers \ {p} : job'[q] = job[q]
      /\ UNCHANGED <<version, storedAt, settled, mutation, floor, since>>
  BY ComputedFacts DEF Install, TypeOK, storeVars
<1>2. \/ memo' = memo /\ (memo = None => job[p].built < floor) /\ (memo # None => job[p].built <= memo.built)
      \/ /\ memo' = Computed(p) /\ job[p].built >= floor
         /\ memo # None => memo.built <= job[p].built
  BY <1>1 DEF Install, Accepts, Numbers
<1>3. /\ p = Sweep  => job'[p].pc = "idle" /\ served' = served
      /\ p # Sweep => /\ job'[p] = [pc |-> "answered", built |-> job[p].built, read |-> job[p].read]
                      /\ served' = IF served > job[p].built THEN served ELSE job[p].built
  BY <1>1 DEF Install, Later, Idle, TypeOK
<1>4. \A q \in Producers \ {p} :
        /\ Answered(q)' <=> Answered(q)
        /\ \A i \in Inputs : HasRead(q, i)' <=> HasRead(q, i)
  BY <1>1 DEF Answered, HasRead
<1>5. ~Answered(p) /\ \A i \in Inputs : HasRead(p, i)
  BY <1>1, ReadBefore DEF Answered
<1>6. Answered(p)' \/ \A i \in Inputs : ~HasRead(p, i)'
  BY <1>3 DEF Answered, HasRead, Behind
<1>7. StoreKnows'
  BY <1>1 DEF Parts, StoreKnows
<1>8. FloorGuards'
  <2>1. memo' # None => \A i \in Local : memo'.read[i] >= settled[i]
    BY <1>1, <1>2, <1>5 DEF Parts, FloorGuards
  <2> QED
    BY <1>1, <1>4, <1>6, <2>1 DEF Parts, FloorGuards
<1>9. RequestsKeepUp'
  BY <1>1, <1>3, <1>4, <1>5 DEF Parts, RequestsKeepUp
<1>10. EdgesAreDated'
  <2>1. memo' # None => \A v \in 1 .. MaxVersion : storedAt[v] <= memo'.built => memo'.read["edges"] >= v
    BY <1>1, <1>2, <1>5 DEF Parts, EdgesAreDated
  <2>2. \A q \in Producers : HasRead(q, "edges")' =>
          \A v \in 1 .. MaxVersion : storedAt[v] <= job'[q].built => job'[q].read["edges"] >= v
    <3>1. CASE p = Sweep
      BY <1>1, <1>3, <1>4, <3>1 DEF Parts, EdgesAreDated, HasRead, Behind
    <3>2. CASE p # Sweep
      BY <1>1, <1>3, <1>4, <1>5, <3>2 DEF Parts, EdgesAreDated
    <3> QED
      BY <3>1, <3>2
  <2>3. \A r \in Requests : job'[r].pc # "idle" => since'[r].at < job'[r].built + TTL
    BY <1>1, <1>3 DEF Parts, EdgesAreDated
  <2> QED
    BY <1>1, <2>1, <2>2, <2>3 DEF Parts, EdgesAreDated
<1>11. ServedInOrder'
  <2>1. IF memo' = None THEN served' <= floor ELSE served' <= memo'.built
    BY <1>1, <1>2, <1>3 DEF Parts, ServedInOrder, Numbers
  <2>2. \A r \in Requests : job'[r].pc # "idle" => since'[r].served <= job'[r].built
    BY <1>1, <1>3 DEF Parts, ServedInOrder
  <2> QED
    BY <1>1, <2>1, <2>2 DEF ServedInOrder
<1> QED
  BY <1>7, <1>8, <1>9, <1>10, <1>11, PartsNext

\* MemoInv is an invariant.
THEOREM Invariance == Spec => []MemoInv
<1>1. MemoInv /\ [Next]_vars => MemoInv'
  <2> SUFFICES ASSUME MemoInv, [Next]_vars PROVE Parts'
    BY TypeStep DEF MemoInv, Parts
  <2>0. TypeOK /\ Parts
    BY DEF MemoInv, Parts
  <2>1. CASE GossipArrives
    BY <2>0, <2>1, ArrivesInv
  <2>2. CASE TimePasses
    BY <2>0, <2>2, TimeInv DEF TimePasses
  <2>3. ASSUME NEW m \in Mutators, Mutates(m) \/ StampsFloor(m) \/ Invalidates(m)
        PROVE  Parts'
    BY <2>0, <2>3, MutatesInv, StampsFloorInv, InvalidatesInv
  <2>4. ASSUME NEW r \in Requests, AnswerFromMemo(r) \/ End(r)
        PROVE  Parts'
    BY <2>0, <2>4, AnswerFromMemoInv, EndInv
  <2>5. ASSUME NEW p \in Producers, BeginReads(p) \/ Read(p) \/ ReadFails(p) \/ Install(p)
        PROVE  Parts'
    BY <2>0, <2>5, BeginReadsInv, ReadInv, ReadFailsInv, InstallInv
  <2>6. CASE UNCHANGED vars
    BY <2>0, <2>6, TimeInv DEF vars, storeVars, memoVars
  <2> QED
    BY <2>1, <2>2, <2>3, <2>4, <2>5, <2>6 DEF Next
<1> QED
  BY <1>1, InitMemoInv, PTL DEF Spec

\* A request begun after a local action returned is answered from what that
\* action left, or from later.
THEOREM LocalActionsHold == Spec => []LocalActionsHoldAtOnce
<1>1. MemoInv => LocalActionsHoldAtOnce
  <2> SUFFICES ASSUME MemoInv, NEW r \in Requests, Answered(r), NEW i \in Local
               PROVE  job[r].read[i] >= since[r].local[i]
    BY DEF LocalActionsHoldAtOnce
  <2>1. HasRead(r, i)
    BY Constants DEF Answered, HasRead, Behind
  <2> QED
    BY <2>1 DEF MemoInv, RequestsKeepUp
<1> QED
  BY <1>1, Invariance, PTL

\* An answer knows every edge that was stored a TTL before the request began.
THEOREM GossipLag == Spec => []GossipLagsOneTTL
<1>1. MemoInv => GossipLagsOneTTL
  <2> SUFFICES ASSUME MemoInv, NEW r \in Requests, Answered(r), NEW v \in 1 .. MaxVersion,
                      storedAt[v] + TTL <= since[r].at
               PROVE  job[r].read["edges"] >= v
    BY DEF GossipLagsOneTTL
  <2>1. HasRead(r, "edges") /\ job[r].pc # "idle" /\ r \in Producers
    BY Constants DEF Answered, HasRead, Behind
  <2>2. storedAt[v] <= job[r].built
    BY <2>1, Constants, NumbersTyped DEF MemoInv, EdgesAreDated, Numbers
  <2> QED
    BY <2>1, <2>2 DEF MemoInv, EdgesAreDated
<1> QED
  BY <1>1, Invariance, PTL

\* However many requests, sweeps and local actions race, an answer is as fresh
\* as the last local action and as hearsay a TTL old.
THEOREM AnswersFresh == Spec => []AnswersAreFresh
<1>1. TypeOK /\ LocalActionsHoldAtOnce /\ GossipLagsOneTTL => AnswersAreFresh
  BY DEF AnswersAreFresh
<1> QED
  BY <1>1, TypeCorrect, LocalActionsHold, GossipLag, PTL

\* Between two local actions answers never go back.
THEOREM AnswersInOrder == Spec => []AnswersNeverGoBack
<1>1. MemoInv => AnswersNeverGoBack
  <2> SUFFICES ASSUME MemoInv, NEW r \in Requests, Answered(r)
               PROVE  job[r].built >= since[r].served
    BY DEF AnswersNeverGoBack
  <2>1. since[r].served <= job[r].built
    BY DEF MemoInv, ServedInOrder, Answered
  <2> QED
    BY <2>1, Constants, NumbersTyped DEF MemoInv, Numbers
<1> QED
  BY <1>1, Invariance, PTL

=============================================================================
