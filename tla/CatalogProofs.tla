---------------------------- MODULE CatalogProofs ----------------------------
(***************************************************************************)
(* What holds of discovery, of catalog pulls and of the reachability marks *)
(* for any number of nodes, entries and blobs, whatever falls between the  *)
(* steps of the loop and of a pull.                                        *)
(***************************************************************************)
EXTENDS Catalog, FiniteSetTheorems, SequenceTheorems, TLAPS

(***************************************************************************)
(* Reachability.  A row is never younger than the node was last up; an     *)
(* answer that did not move the row's clock found it moved within the      *)
(* throttle; while our uplink is down the last reply only grows older.     *)
(***************************************************************************)
Ages == [seen : 0 .. Old, mark : 0 .. Old, hint : 0 .. Old, touch : 0 .. Throttle]

ReachTypes ==
  /\ clock \in [Peers -> Ages]
  /\ last \in [key : Peers \cup {NoOne}, age : 0 .. Guard]
  /\ up \subseteq Peers /\ cut \in 0 .. Guard + 1
  /\ truth \in [Peers -> [alive : 0 .. Old, answered : 0 .. Old]]

Seen(n) ==
  /\ n \in up => truth[n].alive = 0
  /\ truth[n].alive <= clock[n].seen
  /\ clock[n].touch < Throttle => clock[n].seen <= clock[n].touch
  /\ clock[n].seen <= truth[n].answered + Throttle

Silent == cut # 0 => last.age + 1 >= cut

ReachInv == ReachTypes /\ (\A n \in Peers : Seen(n)) /\ Silent

LEMMA Windows ==
  /\ Wide \in Nat /\ Tight \in Nat /\ Throttle \in Nat /\ Guard \in Nat /\ Kick \in Nat
  /\ Throttle < Tight /\ Tight < Wide /\ Old = Wide + 1 /\ Old \in Nat
BY ReachAssumption DEF Old

LEMMA AgedFacts ==
  ASSUME NEW top \in Nat, NEW a \in 0 .. top
  PROVE  Aged(a, top) \in 0 .. top /\ a <= Aged(a, top) /\ (top > 0 => Aged(a, top) > 0)
         /\ (a < top => Aged(a, top) = a + 1) /\ (a = top => Aged(a, top) = top)
BY DEF Aged

LEMMA InitReachInv == InitReach => ReachInv
BY Windows, ReachAssumption DEF InitReach, ReachInv, ReachTypes, Ages, Seen, Silent

(* One row changes, and what it says of the node stays true.               *)
LEMMA RowKeeps ==
  ASSUME ReachInv, NEW n \in Peers, NEW c \in Ages,
         clock' = [clock EXCEPT ![n] = c], UNCHANGED up,
         \A m \in Peers \ {n} : truth'[m] = truth[m],
         truth' \in [Peers -> [alive : 0 .. Old, answered : 0 .. Old]],
         n \in up => truth'[n].alive = 0,
         truth'[n].alive <= c.seen, c.touch < Throttle => c.seen <= c.touch,
         c.seen <= truth'[n].answered + Throttle
  PROVE  clock' \in [Peers -> Ages] /\ \A m \in Peers : Seen(m)'
<1>1. clock \in [Peers -> Ages]
  BY DEF ReachInv, ReachTypes
<1>2. clock' \in [Peers -> Ages] /\ clock'[n] = c /\ \A m \in Peers \ {n} : clock'[m] = clock[m]
  BY <1>1
<1>3. Seen(n)'
  BY <1>2 DEF Seen
<1>4. ASSUME NEW m \in Peers \ {n} PROVE Seen(m)'
  BY <1>2 DEF Seen, ReachInv
<1> QED
  BY <1>2, <1>3, <1>4

LEMMA RepliedKeeps ==
  ASSUME ReachInv, NEW n \in Peers, Answers(n), NEW c \in Ages, Replied(n, c),
         c.touch < Throttle => c.seen <= c.touch, c.seen <= Throttle
  PROVE  ReachInv'
<1>1. ReachTypes /\ n \in up /\ cut = 0 /\ Seen(n)
  BY DEF ReachInv, Answers
<1>2. truth' \in [Peers -> [alive : 0 .. Old, answered : 0 .. Old]]
      /\ truth'[n].alive = 0 /\ truth'[n].answered = 0 /\ \A m \in Peers \ {n} : truth'[m] = truth[m]
  <2>1. truth \in [Peers -> [alive : 0 .. Old, answered : 0 .. Old]] /\ truth[n].alive = 0
    BY <1>1 DEF ReachTypes, Seen
  <2>2. truth' = [truth EXCEPT ![n] = [truth[n] EXCEPT !.answered = 0]]
    BY DEF Replied
  <2>3. [truth[n] EXCEPT !.answered = 0] \in [alive : 0 .. Old, answered : 0 .. Old]
    BY <2>1, Windows
  <2> QED
    BY <2>1, <2>2, <2>3
<1>3. c.seen \in Nat /\ clock' = [clock EXCEPT ![n] = c] /\ UNCHANGED up
  BY DEF Ages, Replied
<1>4. clock' \in [Peers -> Ages] /\ \A m \in Peers : Seen(m)'
  <2>1. truth'[n].alive <= c.seen /\ c.seen <= truth'[n].answered + Throttle
    BY <1>2, <1>3, Windows
  <2> QED
    BY <1>1, <1>2, <1>3, <2>1, RowKeeps
<1>5. last' = [key |-> n, age |-> 0] /\ cut' = 0 /\ up' = up
  BY <1>1 DEF Replied, NoteContact
<1> QED
  BY <1>1, <1>2, <1>4, <1>5, Windows DEF ReachInv, ReachTypes, Silent

LEMMA ControlKeeps ==
  ASSUME ReachInv, NEW n \in Peers, Control(n) \/ Reply(n)
  PROVE  ReachInv'
<1>1. clock[n] \in Ages /\ Seen(n)
  BY DEF ReachInv, ReachTypes
<1>2. CASE Control(n)
  <2> DEFINE c == [clock[n] EXCEPT !.seen = 0]
  <2>1. c \in Ages /\ c.seen = 0 /\ c.touch \in Nat
    BY <1>1, Windows DEF Ages
  <2>2. Answers(n) /\ Replied(n, c)
    BY <1>2 DEF Control
  <2> HIDE DEF c
  <2>3. (c.touch < Throttle => c.seen <= c.touch) /\ c.seen <= Throttle
    BY <2>1, Windows
  <2> QED
    BY <2>1, <2>2, <2>3, RepliedKeeps
<1>3. CASE Reply(n)
  <2> DEFINE c == Alive(clock[n])
  <2>1. c \in Ages /\ (c.touch < Throttle => c.seen <= c.touch) /\ c.seen <= Throttle
    <3>1. CASE clock[n].touch < Throttle
      <4>1. c = clock[n] /\ clock[n].seen <= clock[n].touch
        BY <1>1, <3>1 DEF Alive, Seen
      <4>2. clock[n].seen \in Nat /\ clock[n].touch \in Nat
        BY <1>1 DEF Ages
      <4> HIDE DEF c
      <4> QED
        BY <1>1, <3>1, <4>1, <4>2, Windows
    <3>2. CASE ~(clock[n].touch < Throttle)
      <4>1. c = [clock[n] EXCEPT !.seen = 0, !.touch = 0]
        BY <3>2 DEF Alive
      <4>2. c \in Ages /\ c.seen = 0 /\ c.touch = 0
        <5>1. 0 \in 0 .. Old /\ 0 \in 0 .. Throttle
          BY Windows
        <5> HIDE DEF c
        <5> QED
          BY <1>1, <4>1, <5>1 DEF Ages
      <4> HIDE DEF c
      <4> QED
        BY <4>2, Windows
    <3> QED
      BY <3>1, <3>2
  <2>2. Answers(n) /\ Replied(n, c)
    BY <1>3 DEF Reply
  <2> HIDE DEF c
  <2> QED
    BY <2>1, <2>2, RepliedKeeps
<1> QED
  BY <1>2, <1>3

LEMMA DialFailsKeeps ==
  ASSUME ReachInv, NEW n \in Peers, DialFails(n)
  PROVE  ReachInv'
<1>1. ReachTypes /\ Seen(n) /\ clock[n] \in Ages
  BY DEF ReachInv, ReachTypes
<1>2. UNCHANGED <<last, up, cut, truth>>
  BY DEF DialFails
<1>3. CASE GuardPasses(n)
  <2> DEFINE c == [clock[n] EXCEPT !.mark = 0]
  <2>1. c \in Ages /\ c.seen = clock[n].seen /\ c.touch = clock[n].touch
    BY <1>1, Windows DEF Ages
  <2>2. clock' = [clock EXCEPT ![n] = c]
    BY <1>3 DEF DialFails
  <2> HIDE DEF c
  <2>3. truth' \in [Peers -> [alive : 0 .. Old, answered : 0 .. Old]]
    BY <1>1, <1>2 DEF ReachTypes
  <2>4. clock' \in [Peers -> Ages] /\ \A m \in Peers : Seen(m)'
    BY <1>1, <1>2, <2>1, <2>2, <2>3, RowKeeps DEF Seen
  <2> QED
    BY <1>1, <1>2, <2>4 DEF ReachInv, ReachTypes, Silent
<1>4. CASE ~GuardPasses(n)
  <2>1. clock' = clock
    BY <1>4 DEF DialFails
  <2> QED
    BY <1>2, <2>1 DEF ReachInv, ReachTypes, Silent, Seen
<1> QED
  BY <1>3, <1>4

LEMMA VouchedKeeps ==
  ASSUME ReachInv, NEW n \in Peers, Vouched(n)
  PROVE  ReachInv'
<1>1. ReachTypes /\ Seen(n) /\ clock[n] \in Ages /\ truth[n] \in [alive : 0 .. Old, answered : 0 .. Old]
  BY DEF ReachInv, ReachTypes
<1>2. UNCHANGED <<last, up, cut, truth>>
  BY DEF Vouched
<1>3. PICK age \in truth[n].alive .. Old :
        clock' = [clock EXCEPT ![n].seen = Younger(@, age), ![n].hint = 0]
  BY DEF Vouched
<1> DEFINE c == [clock[n] EXCEPT !.seen = Younger(@, age), !.hint = 0]
<1>4. clock' = [clock EXCEPT ![n] = c]
  BY <1>1, <1>3 DEF ReachTypes
<1>5. clock[n].seen \in 0 .. Old /\ age \in 0 .. Old /\ truth[n].alive <= age /\ age \in Nat
  BY <1>1, Windows DEF Ages
<1>6. Younger(clock[n].seen, age) \in 0 .. Old /\ Younger(clock[n].seen, age) <= clock[n].seen
      /\ truth[n].alive <= Younger(clock[n].seen, age)
  BY <1>1, <1>5 DEF Younger, Seen
<1>7. c \in Ages /\ c.seen = Younger(clock[n].seen, age) /\ c.touch = clock[n].touch
  <2>1. 0 \in 0 .. Old
    BY Windows
  <2> HIDE DEF Younger
  <2> QED
    BY <1>1, <1>6, <2>1 DEF Ages
<1> HIDE DEF c
<1>8. (c.touch < Throttle => c.seen <= c.touch) /\ c.seen <= truth[n].answered + Throttle
  BY <1>1, <1>6, <1>7, Windows DEF Seen, Ages
<1>9. truth' \in [Peers -> [alive : 0 .. Old, answered : 0 .. Old]] /\ truth' = truth
  BY <1>1, <1>2 DEF ReachTypes
<1>10. clock' \in [Peers -> Ages] /\ \A m \in Peers : Seen(m)'
  BY <1>1, <1>2, <1>4, <1>6, <1>7, <1>8, <1>9, RowKeeps DEF Seen
<1> QED
  BY <1>1, <1>2, <1>10 DEF ReachInv, ReachTypes, Silent

LEMMA MinuteKeeps ==
  ASSUME ReachInv, Minute
  PROVE  ReachInv'
<1>1. ReachTypes /\ Silent /\ up' = up
  BY DEF ReachInv, Minute
<1>2. ASSUME NEW n \in Peers
      PROVE  /\ clock'[n] \in Ages /\ truth'[n] \in [alive : 0 .. Old, answered : 0 .. Old]
             /\ Seen(n)'
  <2> DEFINE c == clock[n]
             t == truth[n]
  <2>1. c \in Ages /\ t \in [alive : 0 .. Old, answered : 0 .. Old] /\ Seen(n)
    BY <1>1 DEF ReachInv, ReachTypes
  <2>2. /\ c.seen \in 0 .. Old /\ c.mark \in 0 .. Old /\ c.hint \in 0 .. Old /\ c.touch \in 0 .. Throttle
        /\ t.alive \in 0 .. Old /\ t.answered \in 0 .. Old
    BY <2>1 DEF Ages
  <2>3. /\ Aged(c.seen, Old) \in 0 .. Old /\ Aged(c.mark, Old) \in 0 .. Old
        /\ Aged(c.hint, Old) \in 0 .. Old /\ Aged(c.touch, Throttle) \in 0 .. Throttle
        /\ Aged(t.alive, Old) \in 0 .. Old /\ Aged(t.answered, Old) \in 0 .. Old
    BY <2>2, Windows, AgedFacts
  <2>4. clock'[n] = [seen |-> Aged(c.seen, Old), mark |-> Aged(c.mark, Old),
                     hint |-> Aged(c.hint, Old), touch |-> Aged(c.touch, Throttle)]
    BY DEF Minute
  <2>5. truth'[n] = [alive |-> IF n \in up THEN 0 ELSE Aged(t.alive, Old), answered |-> Aged(t.answered, Old)]
    BY DEF Minute
  <2>6. t.alive <= c.seen /\ c.seen <= t.answered + Throttle /\ (c.touch < Throttle => c.seen <= c.touch)
    BY <2>1 DEF Seen
  <2> HIDE DEF c, t
  <2>7. Aged(t.alive, Old) <= Aged(c.seen, Old) /\ Aged(c.seen, Old) <= Aged(t.answered, Old) + Throttle
    BY <2>2, <2>6, Windows DEF Aged
  <2>8. Aged(c.touch, Throttle) < Throttle => Aged(c.seen, Old) <= Aged(c.touch, Throttle)
    BY <2>2, <2>6, Windows DEF Aged
  <2>9. Seen(n)'
    BY <1>1, <2>3, <2>4, <2>5, <2>7, <2>8, Windows DEF Seen
  <2> QED
    BY <2>3, <2>4, <2>5, <2>9, Windows DEF Ages
<1>3. clock' \in [Peers -> Ages] /\ truth' \in [Peers -> [alive : 0 .. Old, answered : 0 .. Old]]
  <2>1. clock' = [n \in Peers |-> clock'[n]] /\ truth' = [n \in Peers |-> truth'[n]]
    BY DEF Minute
  <2> QED
    BY <1>2, <2>1
<1>4. /\ last' = [last EXCEPT !.age = Aged(@, Guard)] /\ last.age \in 0 .. Guard
      /\ cut' = IF cut = 0 THEN 0 ELSE Aged(cut, Guard + 1)
      /\ last \in [key : Peers \cup {NoOne}, age : 0 .. Guard] /\ cut \in 0 .. Guard + 1
  BY <1>1 DEF Minute, ReachTypes
<1>5. last'.age = Aged(last.age, Guard) /\ last' \in [key : Peers \cup {NoOne}, age : 0 .. Guard]
  BY <1>4, Windows, AgedFacts
<1>6. cut' \in 0 .. Guard + 1 /\ Silent'
  BY <1>1, <1>4, <1>5, Windows DEF Aged, Silent
<1>7. up' \subseteq Peers
  BY <1>1 DEF ReachTypes
<1> QED
  BY <1>2, <1>3, <1>5, <1>6, <1>7 DEF ReachInv, ReachTypes

LEMMA NetworkKeeps ==
  ASSUME ReachInv, UplinkFails \/ UplinkReturns \/ \E n \in Peers : NodeFails(n) \/ NodeReturns(n)
  PROVE  ReachInv'
<1>1. CASE UplinkFails \/ UplinkReturns
  <2>1. UNCHANGED <<clock, last, up, truth>> /\ cut' \in {0, 1} /\ last.age \in Nat
    BY <1>1 DEF UplinkFails, UplinkReturns, ReachInv, ReachTypes
  <2> QED
    BY <2>1, Windows DEF ReachInv, ReachTypes, Seen, Silent
<1>2. ASSUME NEW n \in Peers, NodeFails(n) PROVE ReachInv'
  BY <1>2 DEF NodeFails, ReachInv, ReachTypes, Seen, Silent
<1>3. ASSUME NEW n \in Peers, NodeReturns(n) PROVE ReachInv'
  <2>1. truth[n] \in [alive : 0 .. Old, answered : 0 .. Old] /\ clock[n] \in Ages
    BY DEF ReachInv, ReachTypes
  <2>2. truth' = [truth EXCEPT ![n].alive = 0] /\ up' = up \cup {n} /\ UNCHANGED <<clock, last, cut>>
    BY <1>3 DEF NodeReturns
  <2>3. /\ truth' \in [Peers -> [alive : 0 .. Old, answered : 0 .. Old]]
        /\ truth'[n].alive = 0 /\ truth'[n].answered = truth[n].answered
        /\ \A m \in Peers \ {n} : truth'[m] = truth[m]
    BY <2>1, <2>2, Windows DEF ReachInv, ReachTypes
  <2>4. Seen(n)'
    BY <2>1, <2>2, <2>3 DEF Seen, ReachInv, Ages
  <2>5. ASSUME NEW m \in Peers \ {n} PROVE Seen(m)'
    BY <2>2, <2>3 DEF Seen, ReachInv
  <2> QED
    BY <2>2, <2>3, <2>4, <2>5 DEF ReachInv, ReachTypes, Silent
<1> QED
  BY <1>1, <1>2, <1>3

LEMMA ReachStep == ReachInv /\ [ReachNext]_reach => ReachInv'
<1> SUFFICES ASSUME ReachInv, [ReachNext]_reach PROVE ReachInv'
  OBVIOUS
<1>1. CASE UNCHANGED reach
  BY <1>1 DEF reach, ReachInv, ReachTypes, Seen, Silent
<1>2. ASSUME NEW n \in Peers, Control(n) \/ Reply(n) \/ DialFails(n) \/ Vouched(n) PROVE ReachInv'
  BY <1>2, ControlKeeps, DialFailsKeeps, VouchedKeeps
<1> QED
  BY <1>1, <1>2, MinuteKeeps, NetworkKeeps DEF ReachNext

(* The two spellings of the predicate are one, by every view a request may *)
(* ask by.                                                                 *)
LEMMA Spelled ==
  ASSUME ReachTypes, NEW n \in Peers, NEW v \in View
  PROVE  ReachClause(n, v) = ReachableAt(n, v)
<1>1. v.cutoff \in {Zero, Tight} /\ v.pull \in {Zero, Tight - 1, Wide} /\ v.pinged \in {Zero, Tight}
  BY DEF View
<1>2. clock[n].seen \in Nat /\ clock[n].mark \in Nat
  BY Windows DEF ReachTypes, Ages
<1>3. v.cutoff \in Int /\ v.pull \in Int /\ (v.cutoff # Zero => v.cutoff = Tight)
  BY <1>1, Windows DEF Zero
<1> DEFINE S == SourcePinged(n, v)
           m == clock[n].mark < clock[n].seen
<1>4. v.pinged = Zero => S
  BY DEF SourcePinged
<1> HIDE DEF S
<1>5. ReachClause(n, v) <=> ReachableAt(n, v)
  <2>1. CASE v.cutoff = Zero
    BY <2>1 DEF ReachClause, ReachableAt
  <2>2. CASE v.cutoff # Zero /\ S
    <3>1. ReachableAt(n, v) <=> Since(clock[n].seen, v.cutoff)
      BY <2>2 DEF ReachableAt, S
    <3>2. ReachClause(n, v) <=> Since(clock[n].seen, v.cutoff)
      BY <2>2 DEF ReachClause, S
    <3> QED
      BY <3>1, <3>2
  <2>3. CASE v.cutoff # Zero /\ ~S
    <3>1. v.pinged # Zero /\ v.cutoff = Tight
      BY <1>3, <1>4, <2>3
    <3>2. CASE v.pull = Wide
      <4>1. v.pull # Zero /\ v.pull > v.cutoff /\ ~(v.pull <= v.cutoff)
        BY <3>1, <3>2, Windows DEF Zero
      <4> QED
        BY <2>3, <3>1, <4>1 DEF ReachClause, ReachableAt, S
    <3>3. CASE v.pull # Wide
      <4>1. v.pull <= v.cutoff /\ ~(v.pull > v.cutoff)
        BY <1>1, <3>1, <3>3, Windows DEF Zero
      <4> QED
        BY <2>3, <3>1, <4>1 DEF ReachClause, ReachableAt, S
    <3> QED
      BY <3>2, <3>3
  <2> QED
    BY <2>1, <2>2, <2>3
<1>6. ReachClause(n, v) \in BOOLEAN /\ ReachableAt(n, v) \in BOOLEAN
  BY DEF ReachClause, ReachableAt
<1> QED
  BY <1>5, <1>6

(* The browse's own view.                                                  *)
LEMMA Browsing ==
  ASSUME ReachTypes, NEW n \in Peers
  PROVE  ReachClause(n, Browse)
           <=> /\ clock[n].seen <= IF SourcePinged(n, Browse) THEN Tight ELSE Wide
               /\ ~(clock[n].mark < clock[n].seen /\ ~(clock[n].seen <= Tight))
<1>1. Browse.cutoff = Tight /\ Browse.pull = Wide /\ Browse.pinged = Tight
  BY DEF Browse
<1>2. Tight # Zero /\ Wide # Zero /\ ~(Wide <= Tight)
  BY Windows DEF Zero
<1> QED
  BY <1>1, <1>2 DEF ReachClause, Since

LEMMA Available == ReachInv => AvailabilityIsTrue
<1> SUFFICES ASSUME ReachInv PROVE AvailabilityIsTrue
  OBVIOUS
<1>1. SpellingsAgree
  BY Spelled DEF ReachInv, SpellingsAgree
<1>2. NoGhosts
  <2> SUFFICES ASSUME NEW n \in Peers, ReachClause(n, Browse)
               PROVE  truth[n].alive <= (IF SourcePinged(n, Browse) THEN Tight ELSE Wide)
    BY DEF NoGhosts
  <2>1. clock[n].seen <= (IF SourcePinged(n, Browse) THEN Tight ELSE Wide)
    BY Browsing DEF ReachInv
  <2>2. /\ truth[n].alive <= clock[n].seen /\ truth[n].alive \in Nat /\ clock[n].seen \in Nat
        /\ Tight \in Nat /\ Wide \in Nat
    BY Windows DEF ReachInv, Seen, ReachTypes, Ages
  <2> QED
    BY <2>1, <2>2
<1>3. AnsweringIsShown
  <2> SUFFICES ASSUME NEW n \in Peers, truth[n].answered <= Tight - Throttle
               PROVE  ReachClause(n, Browse)
    BY DEF AnsweringIsShown
  <2>1. /\ clock[n].seen <= truth[n].answered + Throttle
        /\ truth[n].answered \in Nat /\ clock[n].seen \in Nat
    BY Windows DEF ReachInv, Seen, ReachTypes, Ages
  <2>2. clock[n].seen <= Tight /\ clock[n].seen <= Wide
    BY <2>1, Windows
  <2> QED
    BY <2>2, Browsing DEF ReachInv
<1> QED
  BY <1>1, <1>2, <1>3 DEF AvailabilityIsTrue

(* What a failed dial marks while our uplink is down.                      *)
LEMMA OutageStep ==
  ASSUME ReachInv, [ReachNext]_reach
  PROVE  \A n \in up : clock'[n].mark = 0 /\ clock[n].mark # 0 => cut # 0 /\ cut <= Guard
<1> SUFFICES ASSUME NEW n \in up, clock'[n].mark = 0, clock[n].mark # 0
             PROVE  cut # 0 /\ cut <= Guard
  OBVIOUS
<1>1. n \in Peers /\ clock \in [Peers -> Ages] /\ clock[n].mark \in 0 .. Old
      /\ last.age \in Nat /\ cut \in Nat
  BY Windows DEF ReachInv, ReachTypes, Ages
<1>2. clock' # clock
  OBVIOUS
<1>3. PICK m \in Peers : Control(m) \/ Reply(m) \/ DialFails(m) \/ Vouched(m) \/ Minute
  BY <1>1, <1>2 DEF ReachNext, reach, NodeFails, NodeReturns, UplinkFails, UplinkReturns
<1>4. CASE Control(m) \/ Reply(m)
  <2>1. \E c : clock' = [clock EXCEPT ![m] = c] /\ c.mark = clock[m].mark
    <3>1. clock[m] \in Ages
      BY <1>1
    <3>2. [clock[m] EXCEPT !.seen = 0].mark = clock[m].mark /\ Alive(clock[m]).mark = clock[m].mark
      BY <3>1 DEF Alive, Ages
    <3> QED
      BY <1>4, <3>2 DEF Control, Reply, Replied
  <2> QED
    BY <1>1, <2>1
<1>5. CASE Vouched(m)
  <2>1. PICK age \in truth[m].alive .. Old :
          clock' = [clock EXCEPT ![m].seen = Younger(@, age), ![m].hint = 0]
    BY <1>5 DEF Vouched
  <2>2. clock'[n].mark = clock[n].mark
    BY <1>1, <2>1 DEF Ages
  <2> QED
    BY <2>2
<1>6. CASE Minute
  <2>1. clock'[n].mark = Aged(clock[n].mark, Old)
    BY <1>1, <1>6 DEF Minute
  <2> QED
    BY <1>1, <2>1, Windows, AgedFacts
<1>7. CASE DialFails(m)
  <2>1. GuardPasses(m) /\ clock' = [clock EXCEPT ![m].mark = 0]
    BY <1>2, <1>7 DEF DialFails
  <2>2. m = n
    BY <1>1, <2>1
  <2>3. cut # 0 /\ last.age < Guard
    BY <1>7, <2>1, <2>2 DEF DialFails, Answers, GuardPasses
  <2>4. last.age + 1 >= cut
    BY <2>3 DEF ReachInv, Silent
  <2> QED
    BY <1>1, <2>3, <2>4, Windows
<1> QED
  BY <1>3, <1>4, <1>5, <1>6, <1>7

(* The invariant of the clocks holds throughout.                           *)
THEOREM ReachHolds == Spec => []ReachInv
<1>1. Init => ReachInv
  BY InitReachInv DEF Init
<1>2. [Next]_vars => [ReachNext]_reach
  BY DEF Next, vars, reach
<1>3. ReachInv /\ [Next]_vars => ReachInv'
  BY <1>2, ReachStep
<1> QED
  BY <1>1, <1>3, PTL DEF Spec

(* An available node was up inside its window, one that answered us inside *)
(* the tight window is shown, and what the strip greys the browse hides.   *)
THEOREM AvailabilityHolds == Spec => []AvailabilityIsTrue
BY ReachHolds, Available, PTL

(***************************************************************************)
(* Pulls.  While no snapshot was served to us as to a friend, every        *)
(* listing on its way here names only entries that were listed for members.*)
(* A row and a fingerprint that are not new were compared, or the          *)
(* rendition was grafted; during a scan that holds of all that was there   *)
(* when it began, once the fingerprints have been measured.                *)
(***************************************************************************)
Copies == [Keys -> SUBSET Blobs]
Audiences == {"friend", "member"}
Finding == {Absent, "new", "dismissed"}
Before == [files : SUBSET Blobs, rows : SUBSET Keys]
InScan == {"byHash", "byPrint", "record"}
Scans == [pc : {"byHash"}, before : Before]
           \cup [pc : {"byPrint", "record"}, before : Before, pairs : SUBSET (Blobs \X Blobs)]

SyncTypes ==
  /\ pub \in [has : Copies, wide : SUBSET Keys, sees : Audiences \cup {"none"},
              memo : [Audiences -> Copies \cup {Absent}], cached : SUBSET Blobs, fresh : SUBSET Blobs]
  /\ src \in [copy : Copies, serial : Copies \cup {Absent}, new : SUBSET Keys, marked : BOOLEAN,
              holds : SUBSET Blobs]
  /\ lib \in [files : SUBSET Blobs, prints : SUBSET Blobs, new : SUBSET Blobs] /\ lib.prints \subseteq lib.files
  /\ found \in [report : [Blobs -> Finding], upgrade : [Blobs -> Finding]]
  /\ past \in [wide : SUBSET Keys, friend : BOOLEAN, compared : SUBSET (Blobs \X Blobs),
               grafted : SUBSET (Keys \X Blobs)]

Pulling ==
  /\ sync.pc = "rest" => sync = Rest
  /\ sync.pc = "replace" => sync.snap \in Copies
  /\ sync.pc \in InScan => sync \in Scans
  /\ sync.pc = "store" => sync.list \subseteq Blobs

Wide0(c) == \A k \in Keys : c[k] # {} => k \in past.wide
LeakInv ==
  /\ pub.wide \subseteq past.wide
  /\ ~past.friend => /\ Wide0(src.copy)
                     /\ pub.memo["member"] # Absent => Wide0(pub.memo["member"])
                     /\ sync.pc = "replace" => Wide0(sync.snap)

Known(k, b, f) == <<b, f>> \in past.compared \/ <<k, b>> \in past.grafted
AllKnown(rows, prints) == \A k \in rows, b \in Blobs, f \in prints : b \in src.copy[k] => Known(k, b, f)
ScanInv ==
  /\ AllKnown(Cached \ src.new, lib.prints \ lib.new)
  /\ sync.pc \in InScan => sync.before.files \subseteq lib.prints /\ sync.before.rows = Cached
  /\ sync.pc = "record" => AllKnown(Cached, sync.before.files \cup (lib.prints \ lib.new))

PullInv == SyncTypes /\ Pulling /\ LeakInv /\ ScanInv

LEMMA InitPullInv == InitSync => PullInv
<1> SUFFICES ASSUME InitSync PROVE PullInv
  OBVIOUS
<1>1. PICK w \in SUBSET Keys :
        /\ pub = [has |-> [k \in Keys |-> {}], wide |-> w, sees |-> "member",
                  memo |-> [a \in {"friend", "member"} |-> Absent], cached |-> {}, fresh |-> {}]
        /\ past = [wide |-> w, friend |-> FALSE, compared |-> {}, grafted |-> {}]
  BY DEF InitSync
<1>2. /\ src = [copy |-> [k \in Keys |-> {}], serial |-> Absent, new |-> {}, marked |-> FALSE, holds |-> {}]
      /\ found = [report |-> [b \in Blobs |-> Absent], upgrade |-> [b \in Blobs |-> Absent]]
      /\ sync = Rest
  BY DEF InitSync
<1>3. PICK F \in SUBSET Blobs, P \in {{}, Blobs} : lib = [files |-> F, prints |-> F \cap P, new |-> {}]
  BY DEF InitSync
<1>4. SyncTypes
  <2>1. [k \in Keys |-> {}] \in Copies
    BY DEF Copies
  <2>2. pub \in [has : Copies, wide : SUBSET Keys, sees : Audiences \cup {"none"},
                 memo : [Audiences -> Copies \cup {Absent}], cached : SUBSET Blobs, fresh : SUBSET Blobs]
    BY <1>1, <2>1 DEF Audiences
  <2>3. src \in [copy : Copies, serial : Copies \cup {Absent}, new : SUBSET Keys, marked : BOOLEAN,
                 holds : SUBSET Blobs]
    BY <1>2, <2>1
  <2>4. found \in [report : [Blobs -> Finding], upgrade : [Blobs -> Finding]]
    BY <1>2 DEF Finding
  <2> QED
    BY <1>1, <1>3, <2>2, <2>3, <2>4 DEF SyncTypes
<1>5. Pulling
  BY <1>2 DEF Pulling, Rest, InScan
<1>6. LeakInv
  BY <1>1, <1>2 DEF LeakInv, Rest, Wide0
<1>7. ScanInv
  BY <1>2 DEF ScanInv, AllKnown, Cached, Rest, InScan
<1> QED
  BY <1>4, <1>5, <1>6, <1>7 DEF PullInv

LEMMA Snapshots ==
  ASSUME PullInv, NEW a \in Audiences
  PROVE  /\ OwnSnapshot(a) \in Copies
         /\ a = "member" /\ ~past.friend => Wide0(OwnSnapshot(a))
<1>1. PublishedCatalog(a) \in Copies
  BY DEF PublishedCatalog, Copies, PullInv, SyncTypes
<1>2. OwnSnapshot(a) \in Copies
  <2>1. pub.memo[a] \in Copies \cup {Absent}
    BY DEF PullInv, SyncTypes
  <2> QED
    BY <1>1, <2>1 DEF OwnSnapshot
<1>3. a = "member" => Wide0(PublishedCatalog(a))
  BY DEF PublishedCatalog, Wide0, PullInv, LeakInv
<1>4. a = "member" /\ ~past.friend => Wide0(OwnSnapshot(a))
  BY <1>3 DEF OwnSnapshot, PullInv, LeakInv
<1> QED
  BY <1>2, <1>4

(* Neither the copy nor a fingerprint nor a comparison is touched.         *)
LEMMA ScanKept ==
  ASSUME ScanInv, UNCHANGED <<lib, past>>, src'.copy = src.copy, src'.new = src.new,
         sync' = sync \/ sync'.pc \notin InScan
  PROVE  ScanInv'
BY DEF ScanInv, AllKnown, Known, Cached, InScan

LEMMA ServesKeep ==
  ASSUME PullInv, (\E a \in DOMAIN pub.memo : SnapshotExpires(a) \/ AnotherAsks(a))
  PROVE  PullInv'
<1>1. PICK a \in Audiences : SnapshotExpires(a) \/ AnotherAsks(a)
  BY DEF PullInv, SyncTypes
<1>2. UNCHANGED <<src, lib, found, sync, past>>
  BY <1>1 DEF SnapshotExpires, AnotherAsks
<1>3. PICK m \in Copies \cup {Absent} :
        pub' = [pub EXCEPT !.memo[a] = m] /\ (a = "member" /\ m # Absent /\ ~past.friend => Wide0(m))
  BY <1>1, Snapshots DEF SnapshotExpires, AnotherAsks
<1>4. /\ pub' \in [has : Copies, wide : SUBSET Keys, sees : Audiences \cup {"none"},
                   memo : [Audiences -> Copies \cup {Absent}], cached : SUBSET Blobs, fresh : SUBSET Blobs]
      /\ pub'.wide = pub.wide /\ pub'.memo["member"] \in {pub.memo["member"], m}
      /\ a # "member" => pub'.memo["member"] = pub.memo["member"]
  BY <1>3 DEF PullInv, SyncTypes
<1>5. SyncTypes' /\ Pulling'
  BY <1>2, <1>4 DEF PullInv, SyncTypes, Pulling
<1>6. LeakInv'
  BY <1>2, <1>3, <1>4 DEF PullInv, LeakInv, Wide0
<1>7. ScanInv'
  BY <1>2, ScanKept DEF PullInv
<1> QED
  BY <1>5, <1>6, <1>7 DEF PullInv

LEMMA AsksKeep ==
  ASSUME PullInv, Asks
  PROVE  PullInv'
<1>1. sync.pc = "rest" /\ UNCHANGED <<src, lib, found>>
  BY DEF Asks
<1>2. CASE pub.sees # "none"
  <2> DEFINE snap == OwnSnapshot(pub.sees)
  <2>1. pub.sees \in Audiences
    BY <1>2 DEF PullInv, SyncTypes
  <2>2. snap \in Copies /\ (pub.sees = "member" /\ ~past.friend => Wide0(snap))
    BY <2>1, Snapshots
  <2>3. /\ pub' = [pub EXCEPT !.memo[pub.sees] = snap]
        /\ sync' = IF src.serial = snap THEN [pc |-> "checked"] ELSE [pc |-> "replace", snap |-> snap]
        /\ past' = [past EXCEPT !.friend = @ \/ pub.sees = "friend"]
    BY <1>2 DEF Asks
  <2> HIDE DEF snap
  <2>4. /\ pub' \in [has : Copies, wide : SUBSET Keys, sees : Audiences \cup {"none"},
                     memo : [Audiences -> Copies \cup {Absent}], cached : SUBSET Blobs, fresh : SUBSET Blobs]
        /\ pub'.wide = pub.wide /\ pub'.memo["member"] = IF pub.sees = "member" THEN snap ELSE pub.memo["member"]
    BY <2>1, <2>2, <2>3 DEF PullInv, SyncTypes, Audiences
  <2>5. /\ past' \in [wide : SUBSET Keys, friend : BOOLEAN, compared : SUBSET (Blobs \X Blobs),
                      grafted : SUBSET (Keys \X Blobs)]
        /\ past'.wide = past.wide /\ past'.compared = past.compared /\ past'.grafted = past.grafted
        /\ ~past'.friend => ~past.friend /\ pub.sees = "member"
    BY <2>1, <2>3 DEF PullInv, SyncTypes, Audiences
  <2>6. SyncTypes'
    BY <1>1, <2>4, <2>5 DEF PullInv, SyncTypes
  <2>7. Pulling' /\ sync'.pc \in {"checked", "replace"} /\ (sync'.pc = "replace" => sync'.snap = snap)
    BY <2>2, <2>3 DEF Pulling, InScan
  <2>8. LeakInv'
    BY <1>1, <2>2, <2>4, <2>5, <2>7 DEF PullInv, LeakInv, Wide0
  <2>9. ScanInv'
    BY <1>1, <2>5, <2>7 DEF PullInv, ScanInv, AllKnown, Known, Cached, InScan
  <2> QED
    BY <2>6, <2>7, <2>8, <2>9 DEF PullInv
<1>3. CASE pub.sees = "none"
  <2>1. sync' = [pc |-> "holdings"] /\ UNCHANGED <<pub, past, src, lib, found>>
    BY <1>1, <1>3 DEF Asks
  <2>2. SyncTypes' /\ Pulling' /\ LeakInv'
    BY <2>1 DEF PullInv, SyncTypes, Pulling, LeakInv, Wide0, InScan
  <2>3. ScanInv'
    BY <2>1, ScanKept DEF PullInv, InScan
  <2> QED
    BY <2>2, <2>3 DEF PullInv
<1> QED
  BY <1>2, <1>3

LEMMA ReplaceKeeps ==
  ASSUME PullInv, ReplaceSourceCatalog
  PROVE  PullInv'
<1> DEFINE snap == sync.snap
           kept == {k \in Cached : snap[k] # {}}
           new  == {k \in Keys \ Cached : snap[k] # {}}
<1>1. /\ sync.pc = "replace" /\ snap \in Copies
      /\ src' = [src EXCEPT !.copy = snap, !.serial = snap, !.new = (@ \cap kept) \cup new]
      /\ past' = [past EXCEPT
             !.compared = {p \in @ : p[1] \in Listed([k \in kept |-> snap[k] \cap src.copy[k]])},
             !.grafted = {g \in @ : g[1] \in kept /\ g[2] \in snap[g[1]]}
                           \cup {g \in (kept \ src.new) \X Blobs : g[2] \in snap[g[1]] \ src.copy[g[1]]}]
      /\ sync' = [pc |-> "claims"] /\ UNCHANGED <<pub, lib, found>>
  BY DEF ReplaceSourceCatalog, PullInv, Pulling
<1>2. /\ src'.copy = snap /\ src'.new = (src.new \cap kept) \cup new
      /\ past'.wide = past.wide /\ past'.friend = past.friend
      /\ past'.compared = {p \in past.compared : p[1] \in Listed([k \in kept |-> snap[k] \cap src.copy[k]])}
      /\ past'.grafted = {g \in past.grafted : g[1] \in kept /\ g[2] \in snap[g[1]]}
                           \cup {g \in (kept \ src.new) \X Blobs : g[2] \in snap[g[1]] \ src.copy[g[1]]}
  BY <1>1 DEF PullInv, SyncTypes
<1>3. Cached' = kept \cup new /\ kept \subseteq Keys /\ new \subseteq Keys
  BY <1>1, <1>2, SMTT(60) DEF Cached, Copies
<1>4. SyncTypes'
  <2>1. src' \in [copy : Copies, serial : Copies \cup {Absent}, new : SUBSET Keys, marked : BOOLEAN,
                  holds : SUBSET Blobs]
    BY <1>1, <1>3 DEF PullInv, SyncTypes
  <2>2. past' \in [wide : SUBSET Keys, friend : BOOLEAN, compared : SUBSET (Blobs \X Blobs),
                   grafted : SUBSET (Keys \X Blobs)]
    <3> DEFINE C == past'.compared
               G == past'.grafted
    <3>1. C \subseteq Blobs \X Blobs /\ G \subseteq Keys \X Blobs
      BY <1>2, <1>3 DEF PullInv, SyncTypes
    <3>2. past' = [past EXCEPT !.compared = C, !.grafted = G]
      BY <1>1, <1>2
    <3> HIDE DEF C, G
    <3> QED
      BY <3>1, <3>2 DEF PullInv, SyncTypes
  <2> QED
    BY <1>1, <2>1, <2>2 DEF PullInv, SyncTypes
<1>5. Pulling'
  BY <1>1 DEF Pulling, InScan
<1>6. LeakInv'
  BY <1>1, <1>2 DEF PullInv, LeakInv, Wide0
<1>7. ScanInv'
  <2>1. sync'.pc = "claims"
    BY <1>1
  <2>2. ASSUME NEW k \in Cached' \ src'.new, NEW b \in Blobs, NEW f \in lib.prints \ lib.new, b \in snap[k]
        PROVE  Known(k, b, f)'
    <3>1. k \in kept \ src.new
      BY <1>2, <1>3, <2>2
    <3>2. CASE b \in src.copy[k]
      <4>1. <<b, f>> \in past.compared \/ <<k, b>> \in past.grafted
        BY <2>2, <3>1, <3>2 DEF PullInv, ScanInv, AllKnown, Known
      <4>2. b \in Listed([j \in kept |-> snap[j] \cap src.copy[j]])
        <5> DEFINE c == [j \in kept |-> snap[j] \cap src.copy[j]]
        <5>1. c[k] \in Range(c) /\ b \in c[k]
          BY <2>2, <3>1, <3>2 DEF Range
        <5> HIDE DEF c
        <5>2. b \in Listed(c)
          BY <5>1 DEF Listed
        <5> QED
          BY <5>2 DEF c
      <4>3. <<b, f>> \in past.compared => <<b, f>> \in past'.compared
        BY <1>2, <4>2
      <4>4. <<k, b>> \in past.grafted => <<k, b>> \in past'.grafted
        BY <1>2, <2>2, <3>1
      <4> QED
        BY <4>1, <4>3, <4>4 DEF Known
    <3>3. CASE b \notin src.copy[k]
      <4>1. <<k, b>> \in past'.grafted
        BY <1>2, <2>2, <3>1, <3>3
      <4> QED
        BY <4>1 DEF Known
    <3> QED
      BY <3>2, <3>3
  <2> QED
    BY <1>1, <1>2, <2>1, <2>2 DEF ScanInv, AllKnown, InScan
<1> QED
  BY <1>4, <1>5, <1>6, <1>7 DEF PullInv

(* The steps between storing and sweeping change neither side.             *)
LEMMA PassingKeeps ==
  ASSUME PullInv, MarkSourceCatalogChecked \/ SweepUpgrades \/ AskHoldings \/ ReplaceSourceHoldings \/ Announce
  PROVE  PullInv'
<1>1. /\ UNCHANGED <<lib, past>> /\ src'.copy = src.copy /\ src'.new = src.new
      /\ pub'.wide = pub.wide /\ pub'.memo = pub.memo
      /\ sync' = sync \/ sync'.pc \in {"claims", "holdings", "rest", "store"}
  BY DEF MarkSourceCatalogChecked, SweepUpgrades, AskHoldings, ReplaceSourceHoldings, Announce, Rest,
         PullInv, SyncTypes
<1>2. SyncTypes'
  <2>1. CASE SweepUpgrades
    <3> DEFINE u == [b \in Blobs |-> IF b \in lib.files \/ b \notin Advertised THEN Absent ELSE found.upgrade[b]]
    <3>1. found' = [found EXCEPT !.upgrade = u] /\ UNCHANGED <<pub, src, lib, past>>
      BY <2>1 DEF SweepUpgrades, PullInv, SyncTypes
    <3>2. u \in [Blobs -> Finding]
      BY DEF PullInv, SyncTypes, Finding
    <3> HIDE DEF u
    <3> QED
      BY <3>1, <3>2 DEF PullInv, SyncTypes
  <2>2. CASE ReplaceSourceHoldings
    <3>1. src' = [src EXCEPT !.holds = sync.list] /\ sync.list \subseteq Blobs /\ UNCHANGED <<pub, lib, found, past>>
      BY <2>2 DEF ReplaceSourceHoldings, PullInv, Pulling
    <3> QED
      BY <3>1 DEF PullInv, SyncTypes
  <2>3. CASE Announce
    <3>1. /\ pub' = [pub EXCEPT !.fresh = {}] /\ UNCHANGED <<lib, found, past>>
          /\ src' = [src EXCEPT !.holds = @ \cup pub.fresh] \/ src' = src
      BY <2>3 DEF Announce
    <3> QED
      BY <3>1 DEF PullInv, SyncTypes
  <2>4. CASE MarkSourceCatalogChecked \/ AskHoldings
    BY <2>4 DEF MarkSourceCatalogChecked, AskHoldings, PullInv, SyncTypes
  <2> QED
    BY <2>1, <2>2, <2>3, <2>4
<1>3. Pulling'
  <2>1. CASE AskHoldings
    BY <2>1 DEF AskHoldings, PullInv, Pulling, InScan, Rest, SyncTypes
  <2>2. CASE MarkSourceCatalogChecked \/ SweepUpgrades \/ ReplaceSourceHoldings
    BY <2>2 DEF MarkSourceCatalogChecked, SweepUpgrades, ReplaceSourceHoldings, Pulling, InScan, Rest
  <2>3. CASE Announce
    BY <2>3 DEF Announce, PullInv, Pulling
  <2> QED
    BY <2>1, <2>2, <2>3
<1>4. LeakInv'
  BY <1>1 DEF PullInv, LeakInv, Wide0
<1>5. ScanInv'
  BY <1>1, ScanKept DEF PullInv, InScan
<1> QED
  BY <1>2, <1>3, <1>4, <1>5 DEF PullInv

LEMMA NotedIs ==
  ASSUME NEW f \in [Blobs -> Finding], NEW S
  PROVE  Noted(f, S) \in [Blobs -> Finding] /\ \A b \in Blobs : f[b] # Absent => Noted(f, S)[b] = f[b]
BY DEF Noted, Finding

LEMMA ClaimsKeep ==
  ASSUME PullInv, CheckSourceClaims
  PROVE  PullInv'
<1>1. /\ UNCHANGED <<pub, src, lib, past>> /\ Cached \subseteq Keys
      /\ sync' = [pc |-> "byHash", before |-> [files |-> lib.prints, rows |-> Cached]]
      /\ found' = [found EXCEPT !.report = Noted(@, HeldBlobClaims \cup GroupingClaims)]
  BY DEF CheckSourceClaims, Cached
<1>2. SyncTypes'
  BY <1>1, NotedIs DEF PullInv, SyncTypes
<1>3. Pulling' /\ sync'.pc = "byHash" /\ sync'.before.files = lib.prints /\ sync'.before.rows = Cached
  BY <1>1 DEF PullInv, SyncTypes, Pulling, Scans, Before, InScan
<1>4. LeakInv' /\ ScanInv'
  BY <1>1, <1>3 DEF PullInv, LeakInv, Wide0, ScanInv, AllKnown, Known, Cached
<1> QED
  BY <1>2, <1>3, <1>4 DEF PullInv

LEMMA ByHashKeeps ==
  ASSUME PullInv, ScanUpgradesByHash
  PROVE  PullInv'
<1> DEFINE P == {p \in Blobs \X lib.files : \E k \in Cached : {p[1], p[2]} \subseteq src.copy[k]}
<1>1. /\ UNCHANGED <<pub, src, lib, found, past>> /\ sync.pc = "byHash"
      /\ sync' = [pc |-> "byPrint", before |-> sync.before, pairs |-> P]
  BY DEF ScanUpgradesByHash
<1>2. P \subseteq Blobs \X Blobs
  BY DEF PullInv, SyncTypes
<1> HIDE DEF P
<1>3. Pulling' /\ sync'.pc = "byPrint" /\ sync'.before = sync.before
  BY <1>1, <1>2 DEF PullInv, Pulling, Scans, InScan
<1>4. SyncTypes' /\ LeakInv' /\ ScanInv'
  BY <1>1, <1>3 DEF PullInv, SyncTypes, LeakInv, Wide0, ScanInv, AllKnown, Known, Cached, InScan
<1> QED
  BY <1>3, <1>4 DEF PullInv

LEMMA ByFingerprintKeeps ==
  ASSUME PullInv, ScanUpgradesByFingerprint
  PROVE  PullInv'
<1> DEFINE measured == IF ~src.marked THEN Across(Cached, lib.prints)
                       ELSE Across(src.new, lib.prints) \cup Across(Cached, lib.new)
           P == sync.pairs \cup {p \in measured : Recording[p[1]] = Recording[p[2]]}
<1>1. /\ UNCHANGED <<pub, src, lib, found>> /\ sync.pc = "byPrint"
      /\ sync' = [pc |-> "record", before |-> sync.before, pairs |-> P]
      /\ past' = [past EXCEPT !.compared = @ \cup measured]
  BY DEF ScanUpgradesByFingerprint
<1>2. /\ measured \subseteq Blobs \X Blobs /\ sync.pairs \subseteq Blobs \X Blobs
      /\ sync.before.files \subseteq lib.prints /\ sync.before \in Before
  BY <1>1 DEF PullInv, SyncTypes, Pulling, Scans, InScan, Across, ScanInv
<1>3. ASSUME NEW k \in Cached, NEW b \in Blobs, NEW f \in lib.prints, b \in src.copy[k]
      PROVE  Known(k, b, f) \/ <<b, f>> \in measured
  <2>1. CASE ~src.marked \/ k \in src.new \/ f \in lib.new
    BY <1>3, <2>1 DEF Across
  <2>2. CASE k \notin src.new /\ f \notin lib.new
    BY <1>3, <2>2 DEF PullInv, ScanInv, AllKnown
  <2> QED
    BY <2>1, <2>2
<1> HIDE DEF measured
<1>4. P \subseteq Blobs \X Blobs
  BY <1>2
<1> HIDE DEF P
<1>5. Pulling' /\ sync'.pc = "record" /\ sync'.before = sync.before
  BY <1>1, <1>2, <1>4 DEF Pulling, Scans, InScan
<1>6. /\ past' \in [wide : SUBSET Keys, friend : BOOLEAN, compared : SUBSET (Blobs \X Blobs),
                    grafted : SUBSET (Keys \X Blobs)]
      /\ past'.compared = past.compared \cup measured /\ past'.grafted = past.grafted
      /\ past'.wide = past.wide /\ past'.friend = past.friend
  BY <1>1, <1>2 DEF PullInv, SyncTypes
<1>7. SyncTypes' /\ LeakInv'
  BY <1>1, <1>5, <1>6 DEF PullInv, SyncTypes, LeakInv, Wide0
<1>8. ASSUME NEW k \in Cached, NEW b \in Blobs, NEW f \in lib.prints, b \in src.copy[k]
      PROVE  Known(k, b, f)'
  BY <1>3, <1>6, <1>8 DEF Known
<1>9. ScanInv'
  <2>1. Cached' = Cached /\ src' = src /\ lib' = lib /\ sync'.before.rows = Cached
    BY <1>1, <1>5 DEF Cached, PullInv, ScanInv, InScan
  <2> QED
    BY <1>2, <1>5, <1>8, <2>1 DEF ScanInv, AllKnown
<1> QED
  BY <1>5, <1>7, <1>9 DEF PullInv

LEMMA RecordKeeps ==
  ASSUME PullInv, RecordUpgrades
  PROVE  PullInv'
<1> DEFINE F == {b \in Blobs : \E p \in sync.pairs : p[1] = b /\ Beats(b, Recording[p[2]])}
<1>1. /\ UNCHANGED <<pub, past>> /\ sync.pc = "record" /\ sync' = [pc |-> "sweep"]
      /\ found' = [found EXCEPT !.upgrade = Noted(@, F)]
      /\ src' = [src EXCEPT !.marked = TRUE, !.new = @ \ sync.before.rows]
      /\ lib' = [lib EXCEPT !.new = @ \ sync.before.files]
  BY DEF RecordUpgrades, Unscanned
<1> HIDE DEF F
<1>2. /\ src'.copy = src.copy /\ src'.new = src.new \ Cached
      /\ lib'.prints = lib.prints /\ lib'.new = lib.new \ sync.before.files
      /\ AllKnown(Cached, sync.before.files \cup (lib.prints \ lib.new))
  BY <1>1 DEF PullInv, SyncTypes, ScanInv, InScan
<1>3. SyncTypes'
  BY <1>1, NotedIs DEF PullInv, SyncTypes
<1>4. Pulling' /\ LeakInv'
  BY <1>1, <1>2 DEF PullInv, Pulling, LeakInv, Wide0, InScan
<1>5. ScanInv'
  BY <1>1, <1>2 DEF ScanInv, AllKnown, Known, Cached, InScan
<1> QED
  BY <1>3, <1>4, <1>5 DEF PullInv

LEMMA DropKeeps ==
  ASSUME PullInv, DropCatalogSource
  PROVE  PullInv'
<1>1. PICK marked \in {src.marked, FALSE} :
        src' = [copy |-> [k \in Keys |-> {}], serial |-> Absent, new |-> {}, marked |-> marked, holds |-> {}]
  BY DEF DropCatalogSource
<1>2. /\ found' = [found EXCEPT !.report = [b \in Blobs |-> Absent]]
      /\ past' = [past EXCEPT !.compared = {}, !.grafted = {}]
      /\ UNCHANGED <<pub, lib, sync>> /\ sync.pc = "rest"
  BY DEF DropCatalogSource
<1>3. [k \in Keys |-> {}] \in Copies /\ [b \in Blobs |-> Absent] \in [Blobs -> Finding]
  BY DEF Copies, Finding
<1>4. SyncTypes'
  BY <1>1, <1>2, <1>3 DEF PullInv, SyncTypes
<1>5. Pulling' /\ Cached' = {} /\ past'.wide = past.wide /\ past'.friend = past.friend
  BY <1>1, <1>2 DEF PullInv, SyncTypes, Pulling, Cached
<1>6. LeakInv' /\ ScanInv'
  BY <1>1, <1>2, <1>5 DEF PullInv, LeakInv, Wide0, ScanInv, AllKnown, InScan
<1> QED
  BY <1>4, <1>5, <1>6 DEF PullInv

(* The publisher's side and the admin's decisions move neither the copy    *)
(* nor our files; what is listed for members was listed for members.       *)
LEMMA OutsideKeeps ==
  ASSUME PullInv, Publish \/ SeeUs \/ Acquire \/ Dispose, UNCHANGED sync
  PROVE  PullInv'
<1>1. UNCHANGED <<src, lib, sync>>
  BY DEF Publish, SeeUs, Acquire, Dispose
<1>2. /\ past' \in [wide : SUBSET Keys, friend : BOOLEAN, compared : SUBSET (Blobs \X Blobs),
                    grafted : SUBSET (Keys \X Blobs)]
      /\ past'.compared = past.compared /\ past'.grafted = past.grafted /\ past'.friend = past.friend
      /\ past.wide \subseteq past'.wide
  <2>1. CASE Publish
    BY <2>1 DEF Publish, PullInv, SyncTypes
  <2>2. CASE SeeUs \/ Acquire \/ Dispose
    BY <2>2 DEF SeeUs, Acquire, Dispose, PullInv, SyncTypes
  <2> QED
    BY <2>1, <2>2
<1>3. /\ pub' \in [has : Copies, wide : SUBSET Keys, sees : Audiences \cup {"none"},
                   memo : [Audiences -> Copies \cup {Absent}], cached : SUBSET Blobs, fresh : SUBSET Blobs]
      /\ pub'.memo = pub.memo /\ pub'.wide \subseteq past'.wide
  <2>0. pub.wide \subseteq past.wide
    BY DEF PullInv, LeakInv
  <2>1. CASE Publish
    <3>1. PICK k \in Keys :
            \/ \E b \in Blobs : pub' = [pub EXCEPT !.has[k] = IF b \in @ THEN @ \ {b} ELSE @ \cup {b}] /\ past' = past
            \/ /\ pub' = [pub EXCEPT !.wide = IF k \in @ THEN @ \ {k} ELSE @ \cup {k}]
               /\ past' = [past EXCEPT !.wide = @ \cup {k}]
      BY <2>1 DEF Publish
    <3>2. CASE \E b \in Blobs : pub' = [pub EXCEPT !.has[k] = IF b \in @ THEN @ \ {b} ELSE @ \cup {b}] /\ past' = past
      <4>1. PICK b \in Blobs : pub' = [pub EXCEPT !.has[k] = IF b \in @ THEN @ \ {b} ELSE @ \cup {b}] /\ past' = past
        BY <3>2
      <4>2. PICK B \in SUBSET Blobs : pub' = [pub EXCEPT !.has[k] = B]
        <5>1. pub.has[k] \subseteq Blobs
          BY DEF PullInv, SyncTypes, Copies
        <5> QED
          BY <4>1, <5>1
      <4>3. [pub.has EXCEPT ![k] = B] \in Copies
        BY <4>2 DEF PullInv, SyncTypes, Copies
      <4> QED
        BY <2>0, <4>1, <4>2, <4>3 DEF PullInv, SyncTypes
    <3>3. CASE /\ pub' = [pub EXCEPT !.wide = IF k \in @ THEN @ \ {k} ELSE @ \cup {k}]
               /\ past' = [past EXCEPT !.wide = @ \cup {k}]
      BY <2>0, <3>3 DEF PullInv, SyncTypes
    <3> QED
      BY <3>1, <3>2, <3>3
  <2>2. CASE SeeUs
    BY <2>0, <2>2 DEF SeeUs, PullInv, SyncTypes, Audiences
  <2>3. CASE Acquire
    <3>1. PICK b \in Blobs : pub' = IF b \in pub.cached THEN [pub EXCEPT !.cached = @ \ {b}]
                                   ELSE [pub EXCEPT !.cached = @ \cup {b}, !.fresh = @ \cup {b}]
      BY <2>3, CatalogSyncAssumption DEF Acquire
    <3>2. past' = past
      BY <2>3 DEF Acquire
    <3> QED
      BY <2>0, <3>1, <3>2 DEF PullInv, SyncTypes
  <2>4. CASE Dispose
    BY <2>0, <2>4 DEF Dispose, PullInv, SyncTypes
  <2> QED
    BY <2>1, <2>2, <2>3, <2>4
<1>4. found' \in [report : [Blobs -> Finding], upgrade : [Blobs -> Finding]]
  <2>1. CASE Dispose
    <3>1. PICK b \in Blobs : \/ found' = [found EXCEPT !.report[b] = "dismissed"]
                            \/ found' = [found EXCEPT !.upgrade[b] = "dismissed"]
      BY <2>1 DEF Dispose
    <3>2. "dismissed" \in Finding
      BY DEF Finding
    <3> QED
      BY <3>1, <3>2 DEF PullInv, SyncTypes
  <2>2. CASE Publish \/ SeeUs \/ Acquire
    BY <2>2 DEF Publish, SeeUs, Acquire, PullInv, SyncTypes
  <2> QED
    BY <2>1, <2>2
<1>5. SyncTypes' /\ Pulling'
  BY <1>1, <1>2, <1>3, <1>4 DEF PullInv, SyncTypes, Pulling
<1>6. LeakInv'
  BY <1>1, <1>2, <1>3 DEF PullInv, LeakInv, Wide0
<1>7. ScanInv'
  BY <1>1, <1>2 DEF PullInv, ScanInv, AllKnown, Known, Cached
<1> QED
  BY <1>5, <1>6, <1>7 DEF PullInv

LEMMA LibraryKeeps ==
  ASSUME PullInv, Library
  PROVE  PullInv'
<1>0. UNCHANGED <<pub, src, found>>
  BY DEF Library
<1>1. PICK b \in Blobs :
       \/ b \notin lib.files /\ lib' = [lib EXCEPT !.files = @ \cup {b}] /\ UNCHANGED <<past, sync>>
       \/ /\ b \in lib.files \ lib.prints
          /\ lib' = [lib EXCEPT !.prints = @ \cup {b}, !.new = @ \cup {b}] /\ UNCHANGED <<past, sync>>
       \/ /\ b \in lib.files
          /\ lib' = [files |-> lib.files \ {b}, prints |-> lib.prints \ {b}, new |-> lib.new \ {b}]
          /\ past' = [past EXCEPT !.compared = {p \in @ : p[2] # b}]
          /\ sync' = Undated(sync, b)
  BY DEF Library
<1>2. CASE \/ b \notin lib.files /\ lib' = [lib EXCEPT !.files = @ \cup {b}] /\ UNCHANGED <<past, sync>>
           \/ /\ b \in lib.files \ lib.prints
              /\ lib' = [lib EXCEPT !.prints = @ \cup {b}, !.new = @ \cup {b}] /\ UNCHANGED <<past, sync>>
  <2>1. /\ lib' \in [files : SUBSET Blobs, prints : SUBSET Blobs, new : SUBSET Blobs]
        /\ lib'.prints \subseteq lib'.files /\ lib.prints \subseteq lib'.prints
        /\ lib'.prints \ lib'.new = lib.prints \ lib.new
    <3>0. lib \in [files : SUBSET Blobs, prints : SUBSET Blobs, new : SUBSET Blobs] /\ lib.prints \subseteq lib.files
      BY DEF PullInv, SyncTypes
    <3>1. CASE lib' = [lib EXCEPT !.files = @ \cup {b}]
      BY <3>0, <3>1
    <3>2. CASE b \in lib.files \ lib.prints /\ lib' = [lib EXCEPT !.prints = @ \cup {b}, !.new = @ \cup {b}]
      BY <3>0, <3>2
    <3> QED
      BY <1>2, <3>1, <3>2
  <2>2. SyncTypes' /\ Pulling' /\ LeakInv'
    BY <1>0, <1>2, <2>1 DEF PullInv, SyncTypes, Pulling, LeakInv, Wide0
  <2>3. ScanInv'
    BY <1>0, <1>2, <2>1 DEF PullInv, ScanInv, AllKnown, Known, Cached
  <2> QED
    BY <2>2, <2>3 DEF PullInv
<1>3. CASE /\ b \in lib.files
           /\ lib' = [files |-> lib.files \ {b}, prints |-> lib.prints \ {b}, new |-> lib.new \ {b}]
           /\ past' = [past EXCEPT !.compared = {p \in @ : p[2] # b}]
           /\ sync' = Undated(sync, b)
  <2>1. /\ past'.wide = past.wide /\ past'.friend = past.friend /\ past'.grafted = past.grafted
        /\ past'.compared = {p \in past.compared : p[2] # b}
        /\ past' \in [wide : SUBSET Keys, friend : BOOLEAN, compared : SUBSET (Blobs \X Blobs),
                      grafted : SUBSET (Keys \X Blobs)]
    BY <1>3 DEF PullInv, SyncTypes
  <2>2. SyncTypes'
    BY <1>0, <1>3, <2>1 DEF PullInv, SyncTypes
  <2>3. /\ sync'.pc = sync.pc /\ (sync.pc = "replace" => sync'.snap = sync.snap)
        /\ sync.pc \in InScan => /\ sync'.before.files = sync.before.files \ {b}
                                 /\ sync'.before.rows = sync.before.rows
        /\ Pulling'
    <3>1. CASE sync.pc \in InScan
      <4>1. sync' = [sync EXCEPT !.before.files = @ \ {b}] /\ sync \in Scans
        BY <1>3, <3>1 DEF Undated, InScan, PullInv, Pulling
      <4>2. PICK F \in SUBSET Blobs, R \in SUBSET Keys : sync.before = [files |-> F, rows |-> R]
        BY <4>1 DEF Scans, Before
      <4>3. sync'.pc = sync.pc /\ sync'.before = [files |-> F \ {b}, rows |-> R] /\ sync' \in Scans
        BY <4>1, <4>2, SMTT(60) DEF Scans, Before
      <4> QED
        BY <3>1, <4>2, <4>3 DEF Pulling, InScan
    <3>2. CASE sync.pc \notin InScan
      BY <1>3, <3>2 DEF Undated, InScan, PullInv, Pulling
    <3> QED
      BY <3>1, <3>2
  <2>4. LeakInv'
    BY <1>0, <2>1, <2>3 DEF PullInv, LeakInv, Wide0
  <2>5. ScanInv'
    <3>1. ASSUME NEW k, NEW c \in Blobs, NEW f, f # b, Known(k, c, f)
          PROVE  Known(k, c, f)'
      BY <2>1, <3>1 DEF Known
    <3>2. lib'.prints = lib.prints \ {b} /\ lib'.new = lib.new \ {b} /\ Cached' = Cached
      BY <1>0, <1>3 DEF Cached
    <3> QED
      BY <1>0, <2>3, <3>1, <3>2 DEF PullInv, ScanInv, AllKnown, InScan
  <2> QED
    BY <2>2, <2>3, <2>4, <2>5 DEF PullInv
<1> QED
  BY <1>1, <1>2, <1>3

LEMMA PullStep ==
  ASSUME PullInv, [SyncNext]_catalog
  PROVE  PullInv'
<1>1. CASE UNCHANGED catalog
  BY <1>1 DEF catalog, PullInv, SyncTypes, Pulling, LeakInv, Wide0, ScanInv, AllKnown, Known, Cached
<1>2. CASE Sync
  BY <1>2, AsksKeep, ReplaceKeeps, PassingKeeps, ClaimsKeep, ByHashKeeps, ByFingerprintKeeps, RecordKeeps DEF Sync
<1>3. CASE Edit
  BY <1>3, OutsideKeeps, LibraryKeeps DEF Edit
<1> QED
  BY <1>1, <1>2, <1>3, ServesKeep, PassingKeeps, DropKeeps DEF SyncNext

(* What stands in the copy but not in past.wide was a friend's to see, and *)
(* what a scan has been over was compared: the two halves of PullsAreExact.*)
LEMMA PullsFollow ==
  ASSUME PullInv
  PROVE  PullsAreExact
<1>1. NoListingLeaks
  BY DEF PullInv, LeakInv, Wide0, NoListingLeaks, Cached
<1>2. NothingSlipsPast
  BY DEF PullInv, ScanInv, AllKnown, Known, NothingSlipsPast
<1> QED
  BY <1>1, <1>2 DEF PullsAreExact

(* The invariant of the pull holds throughout.                             *)
THEOREM PullInvHolds == Spec => []PullInv
<1>1. Init => PullInv
  BY InitPullInv DEF Init
<1>2. PullInv /\ [Next]_vars => PullInv'
  BY PullStep DEF Next, vars
<1> QED
  BY <1>1, <1>2, PTL DEF Spec

(* The pull is exact for every catalog, library and schedule: whatever the *)
(* friends alone may see is not cached here before we were one, and no     *)
(* rendition slips past the upgrade scan's watermark (catalog.go,          *)
(* upgrades.go).                                                           *)
THEOREM PullsHold == Spec => []PullsAreExact
BY PullInvHolds, PullsFollow, PTL

(* Noting adds findings, the sweep drops only what is ours or withdrawn,   *)
(* and reports go only with the source.                                    *)
LEMMA DismissalStep ==
  ASSUME PullInv, [SyncNext]_catalog, NEW b \in Blobs
  PROVE  /\ found.upgrade[b] = "dismissed" /\ b \in Advertised \ lib.files => found'.upgrade[b] = "dismissed"
         /\ found.report[b] = "dismissed" /\ (sync.pc # "rest" \/ sync' # Rest)
              => found'.report[b] = "dismissed"
<1>0. found \in [report : [Blobs -> Finding], upgrade : [Blobs -> Finding]] /\ Absent \notin {"new", "dismissed"}
  BY CatalogSyncAssumption DEF PullInv, SyncTypes
<1>1. CASE UNCHANGED found
  BY <1>1
<1>2. CASE CheckSourceClaims
  <2>1. found' = [found EXCEPT !.report = Noted(@, HeldBlobClaims \cup GroupingClaims)]
    BY <1>2 DEF CheckSourceClaims
  <2> QED
    BY <1>0, <2>1, NotedIs
<1>3. CASE RecordUpgrades
  <2> DEFINE F == {c \in Blobs : \E p \in sync.pairs : p[1] = c /\ Beats(c, Recording[p[2]])}
  <2>1. found' = [found EXCEPT !.upgrade = Noted(@, F)]
    BY <1>3 DEF RecordUpgrades
  <2> HIDE DEF F
  <2> QED
    BY <1>0, <2>1, NotedIs
<1>4. CASE SweepUpgrades
  <2>1. found' = [found EXCEPT !.upgrade =
                   [c \in Blobs |-> IF c \in lib.files \/ c \notin Advertised THEN Absent ELSE @[c]]]
    BY <1>4 DEF SweepUpgrades
  <2> QED
    BY <1>0, <2>1
<1>5. CASE DropCatalogSource
  <2>1. sync = Rest /\ sync' = sync /\ found'.upgrade = found.upgrade
    BY <1>0, <1>5 DEF DropCatalogSource, PullInv, Pulling
  <2> QED
    BY <2>1 DEF Rest
<1>6. CASE Dispose
  BY <1>0, <1>6 DEF Dispose
<1> QED
  BY <1>1, <1>2, <1>3, <1>4, <1>5, <1>6
     DEF SyncNext, Sync, catalog, Asks, ReplaceSourceCatalog, MarkSourceCatalogChecked, ScanUpgradesByHash,
         ScanUpgradesByFingerprint, AskHoldings, ReplaceSourceHoldings, SnapshotExpires, AnotherAsks,
         Announce, Edit, Library, Publish, SeeUs, Acquire

(***************************************************************************)
(* Discovery.  Numbers have ranks: no two of a finite set have the same    *)
(* one, so each rank from 1 up to their number is somebody's.              *)
(***************************************************************************)
Rank(S, n) == Cardinality({m \in S : m <= n})

LEMMA RanksDiffer ==
  ASSUME NEW S \in SUBSET Nat, IsFiniteSet(S), NEW n \in S
  PROVE  /\ Rank(S, n) \in 1 .. Cardinality(S)
         /\ \A m \in S : n < m => Rank(S, n) < Rank(S, m)
<1> DEFINE B(m) == {j \in S : j <= m}
<1>1. \A m \in S : IsFiniteSet(B(m)) /\ Cardinality(B(m)) \in Nat /\ Cardinality(B(m)) <= Cardinality(S)
  BY FS_Subset, FS_CardinalityType
<1>2. B(n) # {} /\ Cardinality(B(n)) # 0
  BY <1>1, FS_EmptySet
<1>3. Cardinality(S) \in Nat
  BY FS_CardinalityType
<1>4. ASSUME NEW m \in S, n < m
      PROVE  Cardinality(B(n)) < Cardinality(B(m))
  <2>0. m \in Nat /\ n \in Nat /\ \A j \in S : j \in Nat /\ (j <= n => j <= m)
    BY <1>4
  <2>1. B(n) \in SUBSET B(m) /\ m \in B(m) /\ m \notin B(n)
    <3>1. m <= m /\ ~(m <= n)
      BY <1>4, <2>0
    <3> QED
      BY <2>0, <3>1
  <2>2. Cardinality(B(n)) <= Cardinality(B(m)) /\ Cardinality(B(n)) # Cardinality(B(m))
    BY <1>1, <2>1, FS_Subset
  <2> QED
    BY <1>1, <2>2
<1> QED
  BY <1>1, <1>2, <1>3, <1>4 DEF Rank

LEMMA RanksCover ==
  ASSUME NEW S \in SUBSET Nat, IsFiniteSet(S), NEW k \in 1 .. Cardinality(S)
  PROVE  \E n \in S : Rank(S, n) = k
<1> DEFINE f == [n \in S |-> Rank(S, n)]
           T == 1 .. Cardinality(S)
<1>1. Cardinality(S) \in Nat /\ IsFiniteSet(T) /\ Cardinality(T) = Cardinality(S)
  BY FS_CardinalityType, FS_Interval
<1>2. \A n, m \in S : Rank(S, n) = Rank(S, m) => n = m
  <2> SUFFICES ASSUME NEW n \in S, NEW m \in S, n # m
               PROVE  Rank(S, n) # Rank(S, m)
    OBVIOUS
  <2>1. n < m \/ m < n
    OBVIOUS
  <2>2. Rank(S, n) \in Nat /\ Rank(S, m) \in Nat
    BY RanksDiffer
  <2> QED
    BY <2>1, <2>2, RanksDiffer
<1>3. f \in Injection(S, T)
  <2>1. f \in [S -> T]
    BY RanksDiffer
  <2>2. \A n, m \in S : f[n] = f[m] => n = m
    BY <1>2
  <2> HIDE DEF f, T
  <2> QED
    BY <2>1, <2>2 DEF Injection, IsInjective
<1>4. f \in Surjection(S, T)
  BY <1>1, <1>3, FS_Injection
<1>5. \E n \in S : f[n] = k
  BY <1>4 DEF Surjection
<1> QED
  BY <1>5

LEMMA AscendingIs ==
  ASSUME NEW S \in SUBSET Nat, IsFiniteSet(S)
  PROVE  /\ Cardinality(S) \in Nat /\ Ascending(S) \in [1 .. Cardinality(S) -> S]
         /\ Ascending(S) \in Seq(S) /\ Len(Ascending(S)) = Cardinality(S)
         /\ IsInjective(Ascending(S)) /\ ToSet(Ascending(S)) = S
<1> DEFINE c == Cardinality(S)
           a == Ascending(S)
<1>1. c \in Nat
  BY FS_CardinalityType
<1>2. ASSUME NEW k \in 1 .. c
      PROVE  a[k] \in S /\ Rank(S, a[k]) = k
  <2>1. a[k] = CHOOSE n \in S : Rank(S, n) = k
    BY <1>2 DEF Ascending, Rank
  <2> QED
    BY <1>2, <2>1, RanksCover
<1>3. a \in [1 .. c -> S]
  <2>1. a = [k \in 1 .. c |-> a[k]]
    BY DEF Ascending
  <2> HIDE DEF a, c
  <2> QED
    BY <1>2, <2>1
<1>4. a \in Seq(S) /\ Len(a) = c /\ DOMAIN a = 1 .. c
  <2> HIDE DEF a, c
  <2> QED
    BY <1>1, <1>3
<1>5. IsInjective(a)
  BY <1>2, <1>4 DEF IsInjective
<1>6. \A n \in S : \E k \in 1 .. c : a[k] = n
  <2> SUFFICES ASSUME NEW n \in S
               PROVE  \E k \in 1 .. c : a[k] = n
    OBVIOUS
  <2> DEFINE k == Rank(S, n)
  <2>1. k \in 1 .. c
    BY RanksDiffer
  <2>2. a[k] \in S /\ Rank(S, a[k]) = k
    BY <1>2, <2>1
  <2>3. PICK m \in S : m = a[k] /\ Rank(S, m) = Rank(S, n)
    BY <2>2
  <2>4. ~(m < n) /\ ~(n < m)
    <3>1. Rank(S, m) \in Nat /\ Rank(S, n) \in Nat
      BY RanksDiffer
    <3>2. m < n => Rank(S, m) < Rank(S, n)
      BY RanksDiffer
    <3>3. n < m => Rank(S, n) < Rank(S, m)
      BY RanksDiffer
    <3> QED
      BY <2>3, <3>1, <3>2, <3>3
  <2>5. m = n
    <3>1. m \in Nat /\ n \in Nat
      OBVIOUS
    <3> QED
      BY <2>4, <3>1
  <2> QED
    BY <2>1, <2>3, <2>5
<1>7. ToSet(a) = S
  BY <1>3, <1>4, <1>6 DEF ToSet
<1> QED
  BY <1>1, <1>3, <1>4, <1>5, <1>7

(* What Only takes of a sequence, and that it takes nothing twice.         *)
LEMMA OnlyIs ==
  ASSUME NEW T, NEW s \in Seq(T), NEW I \in SUBSET DOMAIN s
  PROVE  /\ Only(s, I) \in Seq(T)
         /\ ToSet(Only(s, I)) = {s[i] : i \in I}
         /\ IsInjective(s) => IsInjective(Only(s, I))
         /\ \A p, q \in DOMAIN Only(s, I) : p # q => \E i, j \in I : i # j /\ Only(s, I)[p] = s[i] /\ Only(s, I)[q] = s[j]
<1> DEFINE a == Ascending(I)
           c == Cardinality(I)
           o == Only(s, I)
<1>1. I \in SUBSET Nat /\ IsFiniteSet(I)
  <2>1. I \in SUBSET (1 .. Len(s)) /\ Len(s) \in Nat
    BY LenProperties
  <2>2. IsFiniteSet(1 .. Len(s))
    BY <2>1, FS_Interval
  <2> QED
    BY <2>1, <2>2, FS_Subset
<1>2. c \in Nat /\ a \in [1 .. c -> I] /\ IsInjective(a) /\ ToSet(a) = I
  BY <1>1, AscendingIs
<1>3. o = [k \in 1 .. c |-> s[a[k]]]
  BY DEF Only
<1>4. DOMAIN a = 1 .. c /\ \A i \in DOMAIN s : s[i] \in T
  BY <1>2, LenProperties
<1> HIDE DEF a, c, o
<1>5. o \in Seq(T) /\ DOMAIN o = 1 .. c
  <2>1. \A k \in 1 .. c : s[a[k]] \in T
    BY <1>2, <1>4
  <2> QED
    BY <1>2, <1>3, <2>1
<1>6. ToSet(o) = {s[i] : i \in I}
  <2>1. \A i \in I : \E k \in 1 .. c : a[k] = i
    BY <1>2, <1>4 DEF ToSet
  <2> QED
    BY <1>2, <1>3, <1>5, <2>1 DEF ToSet
<1>7. ASSUME NEW p \in DOMAIN o, NEW q \in DOMAIN o, p # q
      PROVE  \E i, j \in I : i # j /\ o[p] = s[i] /\ o[q] = s[j]
  <2>1. a[p] \in I /\ a[q] \in I /\ a[p] # a[q]
    BY <1>2, <1>4, <1>5, <1>7 DEF IsInjective
  <2> QED
    BY <1>3, <1>5, <2>1
<1>8. IsInjective(s) => IsInjective(o)
  BY <1>7 DEF IsInjective
<1> QED
  BY <1>5, <1>6, <1>7, <1>8 DEF o

LEMMA JoinedIs ==
  ASSUME NEW T, NEW s \in Seq(T), NEW t \in Seq(T)
  PROVE  /\ s \o t \in Seq(T) /\ ToSet(s \o t) = ToSet(s) \cup ToSet(t)
         /\ IsInjective(s) /\ IsInjective(t) /\ ToSet(s) \cap ToSet(t) = {} => IsInjective(s \o t)
<1>1. /\ s \o t \in Seq(T) /\ DOMAIN s = 1 .. Len(s) /\ DOMAIN t = 1 .. Len(t)
      /\ Len(s) \in Nat /\ Len(t) \in Nat /\ DOMAIN (s \o t) = 1 .. Len(s) + Len(t)
      /\ \A i \in 1 .. Len(s) + Len(t) : (s \o t)[i] = IF i <= Len(s) THEN s[i] ELSE t[i - Len(s)]
  BY ConcatProperties, LenProperties
<1>2. \A i \in 1 .. Len(s) : (s \o t)[i] = s[i]
  BY <1>1
<1>3. \A i \in 1 .. Len(t) : i + Len(s) \in 1 .. Len(s) + Len(t) /\ (s \o t)[i + Len(s)] = t[i]
  <2> SUFFICES ASSUME NEW i \in 1 .. Len(t)
               PROVE  i + Len(s) \in 1 .. Len(s) + Len(t) /\ (s \o t)[i + Len(s)] = t[i]
    OBVIOUS
  <2>1. i + Len(s) \in 1 .. Len(s) + Len(t) /\ ~(i + Len(s) <= Len(s)) /\ (i + Len(s)) - Len(s) = i
    BY <1>1
  <2> QED
    BY <1>1, <2>1
<1>4. \A i \in 1 .. Len(s) + Len(t) :
        \/ i \in 1 .. Len(s) /\ (s \o t)[i] = s[i]
        \/ i > Len(s) /\ i - Len(s) \in 1 .. Len(t) /\ (s \o t)[i] = t[i - Len(s)]
  <2> SUFFICES ASSUME NEW i \in 1 .. Len(s) + Len(t), ~(i <= Len(s))
               PROVE  i > Len(s) /\ i - Len(s) \in 1 .. Len(t) /\ (s \o t)[i] = t[i - Len(s)]
    BY <1>1
  <2> QED
    BY <1>1
<1>5. ToSet(s \o t) = ToSet(s) \cup ToSet(t)
  <2>1. 1 .. Len(s) \subseteq 1 .. Len(s) + Len(t)
    BY <1>1
  <2>2. ASSUME NEW x \in ToSet(s \o t)
        PROVE  x \in ToSet(s) \cup ToSet(t)
    <3>1. PICK i \in 1 .. Len(s) + Len(t) : x = (s \o t)[i]
      BY <1>1, <2>2 DEF ToSet
    <3> QED
      BY <1>1, <1>4, <3>1 DEF ToSet
  <2>3. ASSUME NEW x \in ToSet(s)
        PROVE  x \in ToSet(s \o t)
    <3>1. PICK i \in 1 .. Len(s) : x = s[i]
      BY <1>1, <2>3 DEF ToSet
    <3> QED
      BY <1>1, <1>2, <2>1, <3>1 DEF ToSet
  <2>4. ASSUME NEW x \in ToSet(t)
        PROVE  x \in ToSet(s \o t)
    <3>1. PICK i \in 1 .. Len(t) : x = t[i]
      BY <1>1, <2>4 DEF ToSet
    <3> QED
      BY <1>1, <1>3, <3>1 DEF ToSet
  <2> QED
    BY <2>2, <2>3, <2>4
<1>6. ASSUME IsInjective(s), IsInjective(t), ToSet(s) \cap ToSet(t) = {},
             NEW i \in 1 .. Len(s) + Len(t), NEW j \in 1 .. Len(s) + Len(t), (s \o t)[i] = (s \o t)[j]
      PROVE  i = j
  <2>1. CASE i \in 1 .. Len(s) /\ j \in 1 .. Len(s)
    BY <1>1, <1>2, <1>6, <2>1 DEF IsInjective
  <2>2. CASE i > Len(s) /\ j > Len(s)
    <3>1. i - Len(s) \in 1 .. Len(t) /\ j - Len(s) \in 1 .. Len(t) /\ t[i - Len(s)] = t[j - Len(s)]
      BY <1>1, <1>4, <1>6, <2>2
    <3>2. i - Len(s) = j - Len(s)
      BY <1>1, <1>6, <3>1 DEF IsInjective
    <3> QED
      BY <1>1, <3>2
  <2>3. CASE i \in 1 .. Len(s) /\ j > Len(s)
    <3>1. (s \o t)[i] \in ToSet(s) /\ (s \o t)[j] \in ToSet(t)
      BY <1>1, <1>2, <1>4, <2>3, SMTT(60) DEF ToSet
    <3> QED
      BY <1>6, <3>1
  <2>4. CASE i > Len(s) /\ j \in 1 .. Len(s)
    <3>1. (s \o t)[j] \in ToSet(s) /\ (s \o t)[i] \in ToSet(t)
      BY <1>1, <1>2, <1>4, <2>4, SMTT(60) DEF ToSet
    <3> QED
      BY <1>6, <3>1
  <2> QED
    BY <1>1, <2>1, <2>2, <2>3, <2>4
<1> QED
  BY <1>1, <1>5, <1>6 DEF IsInjective

LEMMA EnsureAllIs ==
  ASSUME NEW r \in Seq(Nodes), IsInjective(r), NEW S \in SUBSET Nodes
  PROVE  EnsureAll(r, S) \in Seq(Nodes) /\ IsInjective(EnsureAll(r, S)) /\ ToSet(EnsureAll(r, S)) = ToSet(r) \cup S
<1> DEFINE I == {i \in DOMAIN r : ~row[r[i]].tried}
           J == {i \in DOMAIN r : row[r[i]].tried}
           N == S \ ToSet(r)
           a == Only(r, I)
           b == Ascending(N)
           c == Only(r, J)
<1>1. /\ a \in Seq(Nodes) /\ ToSet(a) = {r[i] : i \in I} /\ IsInjective(a)
      /\ c \in Seq(Nodes) /\ ToSet(c) = {r[i] : i \in J} /\ IsInjective(c)
  <2>1. I \in SUBSET DOMAIN r /\ J \in SUBSET DOMAIN r
    OBVIOUS
  <2> HIDE DEF I, J
  <2> QED
    BY <2>1, OnlyIs
<1>2. b \in Seq(Nodes) /\ ToSet(b) = N /\ IsInjective(b)
  <2>1. N \in SUBSET Nat /\ IsFiniteSet(N) /\ N \subseteq Nodes
    BY DiscoveryAssumption, FS_Subset
  <2> HIDE DEF N
  <2>2. Ascending(N) \in [1 .. Cardinality(N) -> N] /\ Cardinality(N) \in Nat
        /\ IsInjective(Ascending(N)) /\ ToSet(Ascending(N)) = N
    BY <2>1, AscendingIs
  <2>3. Ascending(N) \in [1 .. Cardinality(N) -> Nodes]
    BY <2>1, <2>2
  <2> QED
    BY <2>2, <2>3
<1>3. ToSet(a) \cup ToSet(c) = ToSet(r) /\ ToSet(a) \cap ToSet(c) = {}
  <2>1. I \cup J = DOMAIN r /\ I \cap J = {}
    OBVIOUS
  <2>2. \A i, j \in DOMAIN r : r[i] = r[j] => i = j
    BY DEF IsInjective
  <2> HIDE DEF I, J, a, c
  <2>3. ToSet(a) \cup ToSet(c) = {r[i] : i \in DOMAIN r}
    BY <1>1, <2>1
  <2>4. \A x \in ToSet(a), y \in ToSet(c) : x # y
    BY <1>1, <2>1, <2>2
  <2> QED
    BY <2>3, <2>4 DEF ToSet
<1>4. EnsureAll(r, S) = (a \o b) \o c
  BY DEF EnsureAll
<1> HIDE DEF a, b, c
<1>5. a \o b \in Seq(Nodes) /\ ToSet(a \o b) = ToSet(a) \cup N /\ IsInjective(a \o b)
  <2>1. ToSet(a) \cap ToSet(b) = {}
    BY <1>2, <1>3
  <2> QED
    BY <1>1, <1>2, <2>1, JoinedIs, SMTT(60)
<1>6. ToSet(a \o b) \cap ToSet(c) = {}
  BY <1>3, <1>5
<1>7. (a \o b) \o c \in Seq(Nodes) /\ ToSet((a \o b) \o c) = ToSet(a \o b) \cup ToSet(c) /\ IsInjective((a \o b) \o c)
  <2> DEFINE d == a \o b
  <2>1. d \in Seq(Nodes) /\ IsInjective(d) /\ ToSet(d) \cap ToSet(c) = {} /\ c \in Seq(Nodes) /\ IsInjective(c)
    BY <1>1, <1>5, <1>6
  <2> HIDE DEF d
  <2>2. d \o c \in Seq(Nodes) /\ ToSet(d \o c) = ToSet(d) \cup ToSet(c) /\ IsInjective(d \o c)
    BY <2>1, JoinedIs
  <2> QED
    BY <2>2 DEF d
<1> QED
  BY <1>3, <1>4, <1>5, <1>7

LEMMA AttemptedIs ==
  ASSUME NEW r \in Seq(Nodes), IsInjective(r), NEW n \in Nodes
  PROVE  Attempted(r, n) \in Seq(Nodes) /\ IsInjective(Attempted(r, n)) /\ ToSet(Attempted(r, n)) = ToSet(r) \cup {n}
<1> DEFINE I == {i \in DOMAIN r : r[i] # n}
           a == Only(r, I)
<1>1. a \in Seq(Nodes) /\ ToSet(a) = {r[i] : i \in I} /\ IsInjective(a)
  <2>1. I \in SUBSET DOMAIN r
    OBVIOUS
  <2> HIDE DEF I
  <2> QED
    BY <2>1, OnlyIs
<1>2. ToSet(a) = ToSet(r) \ {n}
  BY <1>1 DEF ToSet
<1>3. Attempted(r, n) = Append(a, n)
  BY DEF Attempted
<1> HIDE DEF a
<1>4. /\ Append(a, n) \in Seq(Nodes) /\ DOMAIN Append(a, n) = 1 .. Len(a) + 1 /\ DOMAIN a = 1 .. Len(a)
      /\ Len(a) \in Nat /\ Append(a, n)[Len(a) + 1] = n /\ \A i \in 1 .. Len(a) : Append(a, n)[i] = a[i]
  BY <1>1
<1>5. ToSet(Append(a, n)) = ToSet(a) \cup {n}
  BY <1>4 DEF ToSet
<1>6. IsInjective(Append(a, n))
  <2>1. \A i \in 1 .. Len(a) : a[i] # n
    BY <1>2, <1>4 DEF ToSet
  <2>2. \A i, j \in 1 .. Len(a) : a[i] = a[j] => i = j
    BY <1>1, <1>4 DEF IsInjective
  <2>3. \A i \in 1 .. Len(a) + 1 : i \in 1 .. Len(a) \/ i = Len(a) + 1
    BY <1>4
  <2> QED
    BY <1>4, <2>1, <2>2, <2>3 DEF IsInjective
<1> QED
  BY <1>2, <1>3, <1>4, <1>5, <1>6

(***************************************************************************)
(* The sweep.  What it has read of the friends stays true to the end of    *)
(* the round: each has its place in the rotation, and is current or still  *)
(* to be asked.                                                            *)
(***************************************************************************)
Entry == [node : Nodes, due : BOOLEAN, seen : 0 .. Window + 1]
Item  == [op : {"friend", "pull", "ping"}, node : Nodes]
Distinct(l) == \A i, j \in DOMAIN l : l[i].node = l[j].node => i = j
NodesOf(l) == {s.node : s \in ToSet(l)}

StoreTypes ==
  /\ trust \in [Nodes -> {"none", "friend", "blocked"}] /\ reached \subseteq Nodes /\ pull \subseteq Nodes
  /\ row \in [Nodes -> Row] /\ rot \in Seq(Nodes) /\ IsInjective(rot)

Rounds ==
  [pc : {"idle", "peers"}]
    \cup [pc : {"list"}, friends : SUBSET Nodes, decided : SUBSET Nodes]
    \cup [pc : {"retain"}, friends : SUBSET Nodes, decided : SUBSET Nodes, members : SUBSET Nodes, list : Seq(Entry)]
    \cup [pc : {"ask"}, friends : SUBSET Nodes, todo : Seq(Item)]

Friendly ==
  /\ round.pc \in {"list", "retain"} => round.friends \subseteq round.decided
  /\ round.pc \in {"retain", "ask"} => round.friends \subseteq InRotation

DueOrCurrent(l, n) == \E i \in DOMAIN l : l[i].node = n /\ (l[i].due \/ row[n].sync < Cycle)
Read ==
  round.pc = "retain" => /\ Distinct(round.list) /\ NodesOf(round.list) \subseteq InRotation
                         /\ \A n \in round.friends : DueOrCurrent(round.list, n)

ToBeAsked(n) == \E i \in DOMAIN round.todo : round.todo[i] = [op |-> "friend", node |-> n]
Owed ==
  round.pc = "ask" =>
    \A n \in round.friends \ (Dead \cup Refusing) : row[n].sync < Cycle \/ ToBeAsked(n)

RoundInv == StoreTypes /\ round \in Rounds /\ Friendly /\ Read /\ Owed

LEMMA Bounds ==
  /\ Cycle \in Nat /\ Cycle > 0 /\ Window \in Nat /\ Budget \in Nat /\ Cap \in Nat
  /\ Never \in Row /\ Friends0 \subseteq Nodes /\ Reached0 \subseteq Nodes
  /\ IsFiniteSet(Nodes) /\ Nodes \in SUBSET Nat
<1>1. /\ Cycle \in Nat /\ Cycle > 0 /\ Window \in Nat /\ Budget \in Nat /\ Cap \in Nat
      /\ Friends0 \subseteq Nodes /\ Reached0 \subseteq Nodes /\ IsFiniteSet(Nodes) /\ Nodes \in SUBSET Nat
  BY DiscoveryAssumption
<1>2. Cycle \in 0 .. Cycle /\ Window + 1 \in 0 .. Window + 1
  BY <1>1
<1> QED
  BY <1>1, <1>2 DEF Never, Row

LEMMA InitRoundInv == InitDiscovery => RoundInv
<1> SUFFICES ASSUME InitDiscovery PROVE RoundInv
  OBVIOUS
<1>1. StoreTypes
  BY Bounds DEF InitDiscovery, StoreTypes, IsInjective
<1>2. round \in Rounds /\ round.pc = "idle"
  BY DEF InitDiscovery, Idle, Rounds
<1> QED
  BY <1>1, <1>2 DEF RoundInv, Friendly, Read, Owed

(* A step beside the loop keeps every place of the rotation and makes no   *)
(* friend of the round older.                                              *)
LEMMA BesideKeeps ==
  ASSUME RoundInv, StoreTypes', round' = round, InRotation \subseteq InRotation',
         \A n \in InRotation : row'[n].sync = row[n].sync
  PROVE  RoundInv'
<1>1. Friendly'
  BY DEF RoundInv, Friendly
<1>2. Read'
  BY DEF RoundInv, Read, Friendly, DueOrCurrent
<1>3. Owed'
  BY DEF RoundInv, Owed, Friendly, ToBeAsked
<1> QED
  BY <1>1, <1>2, <1>3 DEF RoundInv

LEMMA AnnouncedKeeps ==
  ASSUME RoundInv, NEW n \in Nodes, Announced(n)
  PROVE  RoundInv'
<1>1. /\ rot' = EnsureIn(rot, n) /\ row' = [row EXCEPT ![n].seen = 0]
      /\ UNCHANGED <<trust, reached, pull, round>>
  BY DEF Announced
<1>2. /\ rot' \in Seq(Nodes) /\ IsInjective(rot') /\ InRotation \subseteq InRotation'
  BY <1>1, EnsureAllIs DEF EnsureIn, InRotation, RoundInv, StoreTypes
<1>3. row' \in [Nodes -> Row] /\ \A m \in Nodes : row'[m].sync = row[m].sync
  <2>1. 0 \in 0 .. Window + 1
    BY Bounds
  <2> QED
    BY <1>1, <2>1 DEF RoundInv, StoreTypes, Row
<1>4. InRotation \subseteq Nodes
  BY DEF InRotation, ToSet, RoundInv, StoreTypes
<1> QED
  BY <1>1, <1>2, <1>3, <1>4, BesideKeeps DEF RoundInv, StoreTypes

LEMMA OutsiderKeeps ==
  ASSUME RoundInv, NEW n \in Nodes,
         (\E age \in 0 .. Cycle : Hint(n, age)) \/ PullFrom(n) \/ Decide(n) \/ GraphMoves(n)
  PROVE  RoundInv'
<1>1. UNCHANGED <<rot, round>>
  BY DEF Hint, PullFrom, Decide, GraphMoves
<1>2. InRotation' = InRotation
  BY <1>1 DEF InRotation
<1>3. StoreTypes' /\ \A m \in InRotation : row'[m].sync = row[m].sync
  <2>0. StoreTypes /\ InRotation \subseteq Nodes
    BY DEF InRotation, ToSet, RoundInv, StoreTypes
  <2>1. CASE \E age \in 0 .. Cycle : Hint(n, age)
    <3>1. PICK age \in 0 .. Cycle : row' = [row EXCEPT ![n].seen = age] /\ age < row[n].seen
      BY <2>1 DEF Hint
    <3>2. age \in 0 .. Window + 1
      BY <2>0, <3>1, Bounds DEF StoreTypes, Row
    <3>3. UNCHANGED <<trust, reached, pull>>
      BY <2>1 DEF Hint
    <3> QED
      BY <1>1, <2>0, <3>1, <3>2, <3>3 DEF StoreTypes, Row
  <2>2. CASE PullFrom(n) \/ GraphMoves(n)
    BY <1>1, <2>0, <2>2 DEF PullFrom, GraphMoves, StoreTypes
  <2>3. CASE Decide(n)
    <3>1. PICK t \in {"none", "friend", "blocked"} :
            /\ trust' = [trust EXCEPT ![n] = t]
            /\ row' = IF t = "none" /\ n \notin InRotation THEN [row EXCEPT ![n] = Never] ELSE row
      BY <2>3 DEF Decide
    <3>2. UNCHANGED <<reached, pull>>
      BY <2>3 DEF Decide
    <3> QED
      BY <1>1, <2>0, <3>1, <3>2, Bounds DEF StoreTypes
  <2> QED
    BY <2>1, <2>2, <2>3
<1> QED
  BY <1>1, <1>2, <1>3, BesideKeeps

LEMMA TickKeeps ==
  ASSUME RoundInv, Tick \/ Nudged \/ ReadPeers
  PROVE  RoundInv'
<1>1. UNCHANGED <<trust, reached, rot, pull>> /\ row' \in [Nodes -> Row]
  <2>1. CASE Tick
    <3>1. \A top \in Nat : \A a \in 0 .. top : Older(a, top) \in 0 .. top
      BY DEF Older
    <3>2. row' = [n \in Nodes |-> [row[n] EXCEPT !.sync = Older(@, Cycle), !.seen = Older(@, Window + 1),
                                                 !.floor = Older(@, Cycle)]]
      BY <2>1 DEF Tick
    <3>3. ASSUME NEW n \in Nodes
          PROVE  /\ row[n] \in Row /\ Older(row[n].sync, Cycle) \in 0 .. Cycle
                 /\ Older(row[n].seen, Window + 1) \in 0 .. Window + 1 /\ Older(row[n].floor, Cycle) \in 0 .. Cycle
      <4>1. /\ row[n] \in Row /\ row[n].sync \in 0 .. Cycle /\ row[n].seen \in 0 .. Window + 1
            /\ row[n].floor \in 0 .. Cycle /\ Cycle \in Nat /\ Window + 1 \in Nat
        BY Bounds DEF RoundInv, StoreTypes, Row
      <4> QED
        BY <3>1, <4>1
    <3> QED
      BY <2>1, <3>2, <3>3, ZenonT(60) DEF Tick, Row
  <2>2. CASE Nudged \/ ReadPeers
    BY <2>2 DEF Nudged, ReadPeers, RoundInv, StoreTypes
  <2> QED
    BY <2>1, <2>2
<1>2. StoreTypes'
  BY <1>1 DEF RoundInv, StoreTypes
<1>3. CASE Tick \/ Nudged
  <2>1. round' = [pc |-> "peers"]
    BY <1>3 DEF Tick, Nudged
  <2> QED
    BY <1>2, <2>1 DEF RoundInv, Rounds, Friendly, Read, Owed
<1>4. CASE ReadPeers
  <2>1. round' = [pc |-> "list", friends |-> TrustedAs("friend"),
                  decided |-> TrustedAs("friend") \cup TrustedAs("blocked")]
    BY <1>4 DEF ReadPeers
  <2>2. TrustedAs("friend") \subseteq Nodes /\ TrustedAs("blocked") \subseteq Nodes
    BY DEF TrustedAs
  <2> QED
    BY <1>2, <2>1, <2>2 DEF RoundInv, Rounds, Friendly, Read, Owed
<1> QED
  BY <1>3, <1>4

(* A listing names the rotation's nodes, each once, and says who is due.   *)
LEMMA ListingIs ==
  ASSUME NEW r \in Seq(Nodes), IsInjective(r), NEW at \in [Nodes -> Row]
  PROVE  /\ Listing(r, at) \in Seq(Entry) /\ Distinct(Listing(r, at)) /\ NodesOf(Listing(r, at)) = ToSet(r)
         /\ \A n \in ToSet(r) : \E i \in DOMAIN Listing(r, at) :
              Listing(r, at)[i].node = n /\ (Listing(r, at)[i].due \/ at[n].sync < Cycle)
<1> DEFINE l == Listing(r, at)
<1>1. /\ DOMAIN r = 1 .. Len(r) /\ Len(r) \in Nat /\ \A i \in DOMAIN r : r[i] \in Nodes
      /\ DOMAIN l = DOMAIN r
      /\ \A i \in DOMAIN r : l[i] = [node |-> r[i], due |-> at[r[i]].sync = Cycle, seen |-> at[r[i]].seen]
  BY DEF Listing
<1>2. l \in Seq(Entry)
  <2>1. \A i \in DOMAIN r : l[i] \in Entry
    <3> SUFFICES ASSUME NEW i \in DOMAIN r PROVE l[i] \in Entry
      OBVIOUS
    <3>1. r[i] \in Nodes /\ at[r[i]] \in Row /\ (at[r[i]].sync = Cycle) \in BOOLEAN
      BY <1>1
    <3>2. at[r[i]].seen \in 0 .. Window + 1
      BY <3>1 DEF Row
    <3>3. l[i] = [node |-> r[i], due |-> at[r[i]].sync = Cycle, seen |-> at[r[i]].seen]
      BY <1>1
    <3> HIDE DEF l
    <3> QED
      BY <3>1, <3>2, <3>3 DEF Entry
  <2>2. l = [i \in 1 .. Len(r) |-> l[i]]
    BY <1>1 DEF Listing
  <2> HIDE DEF l
  <2> QED
    BY <1>1, <2>1, <2>2
<1>3. Distinct(l)
  BY <1>1 DEF Distinct, IsInjective
<1>4. NodesOf(l) = ToSet(r)
  <2>1. \A i \in DOMAIN r : l[i].node = r[i]
    BY <1>1
  <2> HIDE DEF l
  <2> QED
    BY <1>1, <2>1 DEF NodesOf, ToSet
<1>5. ASSUME NEW n \in ToSet(r)
      PROVE  \E i \in DOMAIN l : l[i].node = n /\ (l[i].due \/ at[n].sync < Cycle)
  <2>1. PICK i \in DOMAIN r : r[i] = n
    BY DEF ToSet
  <2>2. n \in Nodes /\ at[n].sync \in 0 .. Cycle
    BY <1>1, <2>1 DEF Row
  <2>3. l[i].node = n /\ (l[i].due \/ at[n].sync < Cycle)
    <3>1. l[i].node = n /\ l[i].due = (at[n].sync = Cycle)
      BY <1>1, <2>1
    <3>2. at[n].sync = Cycle \/ at[n].sync < Cycle
      BY <2>2, Bounds
    <3> QED
      BY <3>1, <3>2
  <2> QED
    BY <1>1, <2>1, <2>3
<1> QED
  BY <1>2, <1>3, <1>4, <1>5

LEMMA ListSourcesKeeps ==
  ASSUME RoundInv, ListSources
  PROVE  RoundInv'
<1>1. /\ round.pc = "list" /\ UNCHANGED <<trust, reached, pull>>
      /\ row' = [n \in Nodes |-> IF n \in round.friends \ Dead THEN [row[n] EXCEPT !.seen = 0] ELSE row[n]]
      /\ rot' = EnsureAll(rot, round.friends)
      /\ round' = [pc |-> "retain", friends |-> round.friends, decided |-> round.decided, members |-> Members,
                   list |-> Listing(rot', row')]
  BY DEF ListSources
<1>2. /\ round.friends \in SUBSET Nodes /\ round.decided \in SUBSET Nodes /\ round.friends \subseteq round.decided
      /\ Members \in SUBSET Nodes
  BY <1>1 DEF RoundInv, Rounds, Friendly, StoreTypes, Members, TrustedAs
<1>3. row' \in [Nodes -> Row]
  <2>1. 0 \in 0 .. Window + 1
    BY Bounds
  <2> QED
    BY <1>1, <2>1 DEF RoundInv, StoreTypes, Row
<1>4. rot' \in Seq(Nodes) /\ IsInjective(rot') /\ ToSet(rot') = InRotation \cup round.friends
  BY <1>1, <1>2, EnsureAllIs DEF RoundInv, StoreTypes, InRotation
<1> DEFINE l == Listing(rot', row')
<1>5. /\ l \in Seq(Entry) /\ Distinct(l) /\ NodesOf(l) = ToSet(rot')
      /\ \A n \in ToSet(rot') : \E i \in DOMAIN l : l[i].node = n /\ (l[i].due \/ row'[n].sync < Cycle)
  BY <1>3, <1>4, ListingIs
<1>6. round' = [pc |-> "retain", friends |-> round.friends, decided |-> round.decided, members |-> Members, list |-> l]
  BY <1>1
<1> HIDE DEF l
<1>7. StoreTypes'
  BY <1>1, <1>3, <1>4 DEF RoundInv, StoreTypes
<1>8. round' \in Rounds /\ Friendly'
  BY <1>2, <1>4, <1>5, <1>6 DEF Rounds, Friendly, InRotation
<1>9. Read'
  BY <1>4, <1>5, <1>6 DEF Read, InRotation, DueOrCurrent
<1>10. Owed'
  BY <1>6 DEF Owed
<1> QED
  BY <1>7, <1>8, <1>9, <1>10 DEF RoundInv

LEMMA RequestsKeep ==
  ASSUME RoundInv, Pull \/ FloorPing
  PROVE  RoundInv'
<1>1. /\ round.pc = "ask" /\ round.todo # <<>> /\ round' = [round EXCEPT !.todo = Tail(@)]
      /\ UNCHANGED <<trust, reached, pull>>
  BY DEF Pull, FloorPing
<1> DEFINE todo == round.todo
           n == Head(todo).node
<1>2. round \in [pc : {"ask"}, friends : SUBSET Nodes, todo : Seq(Item)]
  BY <1>1 DEF RoundInv, Rounds
<1>3. /\ todo \in Seq(Item) /\ Head(todo) \in Item /\ Head(todo) = todo[1] /\ n \in Nodes
      /\ Tail(todo) \in Seq(Item) /\ Len(Tail(todo)) = Len(todo) - 1
      /\ \A i \in 1 .. Len(Tail(todo)) : Tail(todo)[i] = todo[i + 1]
  <2>1. todo \in Seq(Item) /\ todo # <<>>
    BY <1>1, <1>2
  <2> HIDE DEF todo
  <2>2. Head(todo) \in Item /\ Head(todo) = todo[1]
    BY <2>1, HeadTailProperties
  <2> QED
    BY <2>1, <2>2, HeadTailProperties DEF Item
<1>4. row' \in [Nodes -> Row] /\ \A m \in Nodes : row'[m].sync <= row[m].sync
  <2>0. row \in [Nodes -> Row] /\ row[n] \in Row /\ 0 \in 0 .. Window + 1 /\ 0 \in 0 .. Cycle
    BY <1>3, Bounds, SMTT(60) DEF RoundInv, StoreTypes
  <2>1. CASE Pull
    <3>1. PICK a \in {0, row[n].sync}, b \in {0, row[n].seen} :
            row' = [row EXCEPT ![n].tried = TRUE, ![n].sync = a, ![n].seen = b]
      BY <2>1 DEF Pull
    <3> HIDE DEF n
    <3> DEFINE e == [row[n] EXCEPT !.tried = TRUE, !.sync = a, !.seen = b]
    <3>2. e \in Row /\ e.sync <= row[n].sync
      <4>1. /\ row[n] \in [tried : BOOLEAN, sync : 0 .. Cycle, seen : 0 .. Window + 1, floor : 0 .. Cycle]
            /\ row[n].sync \in Nat
        BY <2>0, Bounds DEF Row
      <4>2. e \in [tried : BOOLEAN, sync : 0 .. Cycle, seen : 0 .. Window + 1, floor : 0 .. Cycle]
        BY <2>0, <3>1, <4>1
      <4>3. e.sync \in {0, row[n].sync}
        BY <3>1, <4>1
      <4> QED
        BY <4>1, <4>2, <4>3 DEF Row
    <3>3. row' = [row EXCEPT ![n] = e]
      BY <2>0, <3>1
    <3>4. \A m \in Nodes : row[m].sync <= row[m].sync
      BY <2>0, Bounds DEF Row
    <3> HIDE DEF e
    <3> QED
      BY <1>3, <2>0, <3>2, <3>3, <3>4
  <2>2. CASE FloorPing
    <3>1. PICK b \in {0, row[n].seen} : row' = [row EXCEPT ![n].floor = 0, ![n].seen = b]
      BY <2>2 DEF FloorPing
    <3> HIDE DEF n
    <3> DEFINE e == [row[n] EXCEPT !.floor = 0, !.seen = b]
    <3>2. e \in Row /\ e.sync <= row[n].sync
      <4>1. /\ row[n] \in [tried : BOOLEAN, sync : 0 .. Cycle, seen : 0 .. Window + 1, floor : 0 .. Cycle]
            /\ row[n].sync \in Nat
        BY <2>0, Bounds DEF Row
      <4>2. e \in [tried : BOOLEAN, sync : 0 .. Cycle, seen : 0 .. Window + 1, floor : 0 .. Cycle]
        BY <2>0, <3>1, <4>1
      <4>3. e.sync \in {0, row[n].sync}
        BY <3>1, <4>1
      <4> QED
        BY <4>1, <4>2, <4>3 DEF Row
    <3>3. row' = [row EXCEPT ![n] = e]
      BY <2>0, <3>1
    <3>4. \A m \in Nodes : row[m].sync <= row[m].sync
      BY <2>0, Bounds DEF Row
    <3> HIDE DEF e
    <3> QED
      BY <1>3, <2>0, <3>2, <3>3, <3>4, SMTT(60)
  <2> QED
    BY <2>1, <2>2
<1>5. rot' \in Seq(Nodes) /\ IsInjective(rot') /\ InRotation \subseteq ToSet(rot')
  <2>1. rot \in Seq(Nodes) /\ IsInjective(rot)
    BY SMTT(60) DEF RoundInv, StoreTypes
  <2>2. rot' = Attempted(rot, n) \/ rot' = rot
    BY DEF Pull, FloorPing
  <2> HIDE DEF n
  <2> QED
    BY <1>3, <2>1, <2>2, AttemptedIs DEF InRotation
<1>6. StoreTypes'
  BY <1>1, <1>4, <1>5 DEF RoundInv, StoreTypes
<1>7. /\ round' \in [pc : {"ask"}, friends : SUBSET Nodes, todo : Seq(Item)]
      /\ round'.friends = round.friends /\ round'.todo = Tail(todo)
  BY <1>1, <1>2, <1>3
<1>8. ASSUME NEW m \in round.friends \ (Dead \cup Refusing), ~(row'[m].sync < Cycle)
      PROVE  \E i \in DOMAIN Tail(todo) : Tail(todo)[i] = [op |-> "friend", node |-> m]
  <2>1. m \in Nodes /\ ~(row[m].sync < Cycle)
    <3>1. m \in Nodes /\ row[m].sync \in Nat /\ row'[m].sync \in Nat /\ row'[m].sync <= row[m].sync
      BY <1>2, <1>4 DEF RoundInv, StoreTypes, Row
    <3> QED
      BY <1>8, <3>1, Bounds
  <2>2. PICK i \in DOMAIN todo : todo[i] = [op |-> "friend", node |-> m]
    BY <1>1, <2>1 DEF RoundInv, Owed, ToBeAsked
  <2>3. i # 1
    <3>1. SUFFICES ASSUME i = 1 PROVE FALSE
      OBVIOUS
    <3>2. Head(todo).op = "friend" /\ n = m
      BY <1>3, <2>2, <3>1, SMTT(60)
    <3>3. row' = [row EXCEPT ![m].tried = TRUE, ![m].sync = 0, ![m].seen = 0]
      BY <3>2 DEF Pull, FloorPing
    <3>4. row'[m].sync = 0
      BY <2>1, <3>3 DEF RoundInv, StoreTypes, Row
    <3> QED
      BY <1>8, <3>4, Bounds
  <2>4. i \in 1 .. Len(todo) /\ Len(todo) \in Nat /\ DOMAIN Tail(todo) = 1 .. Len(todo) - 1
    BY <1>3, LenProperties
  <2>5. i - 1 \in DOMAIN Tail(todo) /\ Tail(todo)[i - 1] = todo[i]
    <3>1. i - 1 \in 1 .. Len(todo) - 1 /\ (i - 1) + 1 = i
      BY <2>3, <2>4
    <3> QED
      BY <1>3, <2>4, <3>1
  <2> QED
    BY <2>2, <2>5
<1> HIDE DEF todo, n
<1>9. round' \in Rounds /\ round'.pc = "ask"
  BY <1>7 DEF Rounds
<1>10. Friendly' /\ Read'
  BY <1>1, <1>5, <1>7, <1>9 DEF RoundInv, Friendly, Read, InRotation
<1>11. Owed'
  BY <1>7, <1>8, <1>9 DEF Owed, ToBeAsked
<1> QED
  BY <1>6, <1>9, <1>10, <1>11, SMTT(60) DEF RoundInv

(* What a round asks for: only nodes, and every friend the list calls due. *)
Named == Entry \cup [node : Nodes]

LEMMA FirstIs ==
  ASSUME NEW T, NEW s \in Seq(T), NEW k \in Int
  PROVE  First(k, s) \in Seq(T) /\ (k >= 0 => Len(First(k, s)) <= k)
<1> DEFINE n == IF k < Len(s) THEN k ELSE Len(s)
<1>1. n \in Int /\ Len(s) \in Nat /\ n <= Len(s) /\ n <= k /\ \A i \in 1 .. Len(s) : s[i] \in T
  BY LenProperties
<1>2. \A i \in 1 .. n : s[i] \in T
  BY <1>1
<1>3. First(k, s) = SubSeq(s, 1, n)
  BY DEF First
<1> HIDE DEF n
<1>4. SubSeq(s, 1, n) \in Seq(T) /\ Len(SubSeq(s, 1, n)) = IF 1 <= n THEN n - 1 + 1 ELSE 0
  BY <1>1, <1>2, SubSeqProperties
<1> QED
  BY <1>1, <1>3, <1>4

LEMMA StepsIs ==
  ASSUME NEW s \in Seq(Named), NEW op \in {"friend", "pull", "ping"}
  PROVE  /\ Steps(op, s) \in Seq(Item) /\ DOMAIN Steps(op, s) = DOMAIN s
         /\ \A i \in DOMAIN s : Steps(op, s)[i] = [op |-> op, node |-> s[i].node]
         /\ NodesOf(Steps(op, s)) = NodesOf(s) /\ \A x \in ToSet(Steps(op, s)) : x.op = op
<1>1. DOMAIN s = 1 .. Len(s) /\ Len(s) \in Nat /\ \A i \in DOMAIN s : s[i] \in Named
  BY LenProperties
<1>2. \A i \in DOMAIN s : [op |-> op, node |-> s[i].node] \in Item
  BY <1>1 DEF Named, Entry, Item
<1>3. Steps(op, s) = [i \in 1 .. Len(s) |-> [op |-> op, node |-> s[i].node]]
  BY <1>1 DEF Steps
<1>4. Steps(op, s) \in [1 .. Len(s) -> Item]
  BY <1>1, <1>2, <1>3
<1>5. NodesOf(Steps(op, s)) = NodesOf(s) /\ \A x \in ToSet(Steps(op, s)) : x.op = op
  <2>1. /\ DOMAIN Steps(op, s) = DOMAIN s
        /\ \A i \in DOMAIN s : Steps(op, s)[i].node = s[i].node /\ Steps(op, s)[i].op = op
    BY <1>1, <1>3
  <2> QED
    BY <2>1 DEF NodesOf, ToSet
<1> QED
  BY <1>1, <1>3, <1>4, <1>5, SMTT(60)

\* The places of those a round may ping for want of anything else of them.
Quiet(list, foreign, reachedNow, floor) ==
  {i \in DOMAIN list : /\ list[i].node \in foreign \ reachedNow
                       /\ list[i].seen >= Cycle /\ floor[list[i].node] = Cycle}

LEMMA PlanIs ==
  ASSUME NEW list \in Seq(Entry), NEW friends, NEW wanted, NEW members \in SUBSET Nodes, NEW floor
  PROVE  /\ Plan(list, friends, wanted, members, floor) \in Seq(Item)
         /\ \A i \in DOMAIN list : list[i].node \in friends /\ list[i].due =>
              [op |-> "friend", node |-> list[i].node] \in ToSet(Plan(list, friends, wanted, members, floor))
         /\ \A x \in ToSet(Plan(list, friends, wanted, members, floor)) : x.op = "friend" => x.node \in friends
         /\ \A i \in DOMAIN list :
              list[i].node \in wanted => list[i].node \in NodesOf(Plan(list, friends, wanted, members, floor))
         /\ \E R \in SUBSET NodesOf(Plan(list, friends, wanted, members, floor)) :
              /\ \A i \in DOMAIN list : list[i].node \in wanted \ friends => list[i].node \in R
              /\ NodesOf(First(FloorBudget(Len(list)), Only(list, Quiet(list, members \ friends, R, floor))))
                   \subseteq NodesOf(Plan(list, friends, wanted, members, floor))
<1> DEFINE D == {i \in DOMAIN list : list[i].node \in friends /\ (list[i].due \/ list[i].node \in wanted)}
           A == {i \in DOMAIN list : list[i].node \in wanted \ friends}
           foreign == {i \in DOMAIN list : list[i].node \in members \ friends}
           T == {i \in foreign : list[i].due}
           asked == Only(list, A)
           frontier == Frontier(list, members)
           turn == First(Budget - Len(frontier), Only(list, T))
           reachedNow == {s.node : s \in ToSet(asked) \cup ToSet(turn)}
           Q == Quiet(list, members \ friends, reachedNow, floor)
           F == Steps("friend", Only(list, D))
           P == Steps("pull", asked \o frontier \o turn)
           G == Steps("ping", First(FloorBudget(Len(list)), Only(list, Q)))
<1>1. Plan(list, friends, wanted, members, floor) = (F \o P) \o G
  <2>1. Q = {i \in foreign : /\ list[i].node \notin reachedNow
                             /\ list[i].seen >= Cycle /\ floor[list[i].node] = Cycle}
    BY DEF Quiet
  <2> HIDE DEF Q
  <2> QED
    BY <2>1 DEF Plan, DueFriends
<1>2. list \in Seq(Named) /\ DOMAIN list = 1 .. Len(list) /\ Len(list) \in Nat
  BY DEF Named
<1>3. \A I \in SUBSET DOMAIN list : Only(list, I) \in Seq(Named) /\ ToSet(Only(list, I)) = {list[i] : i \in I}
  BY <1>2, OnlyIs
<1>4. D \in SUBSET DOMAIN list /\ A \in SUBSET DOMAIN list /\ T \in SUBSET DOMAIN list /\ Q \in SUBSET DOMAIN list
  BY DEF Quiet
<1>5. frontier \in Seq(Named)
  <2> DEFINE N == members \ {s.node : s \in ToSet(list)}
             fresh == Ascending(N)
             g == [i \in DOMAIN fresh |-> [node |-> fresh[i]]]
  <2>1. N \in SUBSET Nat /\ IsFiniteSet(N) /\ N \subseteq Nodes
    BY Bounds, FS_Subset
  <2>2. fresh \in [1 .. Cardinality(N) -> N] /\ Cardinality(N) \in Nat
    <3> HIDE DEF N
    <3> QED
      BY <2>1, AscendingIs
  <2>3. g \in [1 .. Cardinality(N) -> Named]
    BY <2>1, <2>2 DEF Named
  <2>4. g \in Seq(Named)
    <3> HIDE DEF g, N
    <3> QED
      BY <2>2, <2>3
  <2>5. frontier = First(Budget, g)
    BY DEF Frontier
  <2> HIDE DEF g
  <2> QED
    BY <2>4, <2>5, FirstIs, Bounds
<1> HIDE DEF D, A, T, Q, frontier
<1>6. turn \in Seq(Named)
  <2>1. Budget - Len(frontier) \in Int
    BY <1>5, Bounds
  <2> QED
    BY <1>3, <1>4, <2>1, FirstIs
<1>7. FloorBudget(Len(list)) \in Int
  <2>1. Len(list) + Cycle - 1 \in Int /\ Cycle \in Nat /\ Cycle > 0
    BY <1>2, Bounds
  <2> QED
    BY <2>1 DEF FloorBudget
<1>8. G \in Seq(Item) /\ (\A x \in ToSet(G) : x.op = "ping") /\ NodesOf(G) = NodesOf(First(FloorBudget(Len(list)), Only(list, Q)))
  <2>1. First(FloorBudget(Len(list)), Only(list, Q)) \in Seq(Named)
    BY <1>3, <1>4, <1>7, FirstIs
  <2> QED
    BY <2>1, StepsIs
<1>9. P \in Seq(Item) /\ (\A x \in ToSet(P) : x.op = "pull") /\ reachedNow \subseteq NodesOf(P)
  <2>1. asked \in Seq(Named)
    BY <1>3, <1>4
  <2> HIDE DEF asked, turn
  <2> DEFINE b == asked \o frontier
  <2>2. b \in Seq(Named) /\ ToSet(asked) \subseteq ToSet(b)
    BY <1>5, <2>1, JoinedIs
  <2> HIDE DEF b
  <2>3. b \o turn \in Seq(Named) /\ ToSet(b \o turn) = ToSet(b) \cup ToSet(turn)
    BY <1>6, <2>2, JoinedIs
  <2>4. asked \o frontier \o turn = b \o turn
    BY DEF b
  <2>5. P \in Seq(Item) /\ (\A x \in ToSet(P) : x.op = "pull") /\ NodesOf(P) = NodesOf(b \o turn)
    BY <2>3, <2>4, StepsIs
  <2> HIDE DEF P
  <2> QED
    BY <2>2, <2>3, <2>5 DEF NodesOf
<1>10. /\ F \in Seq(Item) /\ \A x \in ToSet(F) : x.node \in friends
       /\ \A x \in ToSet(Only(list, D)) : [op |-> "friend", node |-> x.node] \in ToSet(F)
  <2> DEFINE d == Only(list, D)
  <2>1. d \in Seq(Named)
    BY <1>3, <1>4
  <2> HIDE DEF d
  <2>2. F \in Seq(Item) /\ DOMAIN F = DOMAIN d /\ \A i \in DOMAIN d : F[i] = [op |-> "friend", node |-> d[i].node]
    BY <2>1, StepsIs DEF d
  <2> HIDE DEF F
  <2>3. \A x \in ToSet(d) : [op |-> "friend", node |-> x.node] \in ToSet(F)
    BY <2>2 DEF ToSet
  <2>4. \A x \in ToSet(d) : x.node \in friends
    BY <1>3, <1>4 DEF d, D
  <2>5. \A x \in ToSet(F) : x.node \in friends
    BY <2>2, <2>4 DEF ToSet
  <2> QED
    BY <2>2, <2>3, <2>5 DEF d
<1>11. ASSUME NEW i \in DOMAIN list, list[i].node \in friends, list[i].due
       PROVE  [op |-> "friend", node |-> list[i].node] \in ToSet(F)
  <2>1. i \in D
    BY <1>11 DEF D
  <2>2. list[i] \in ToSet(Only(list, D))
    BY <1>3, <1>4, <2>1
  <2> QED
    BY <1>10, <2>2
<1>12. ASSUME NEW i \in DOMAIN list, list[i].node \in wanted \ friends
      PROVE  list[i].node \in reachedNow
  <2>1. i \in A
    BY <1>12 DEF A
  <2>2. list[i] \in ToSet(asked)
    BY <1>3, <1>4, <2>1
  <2> QED
    BY <2>2
<1>13. ASSUME NEW i \in DOMAIN list, list[i].node \in wanted \cap friends
      PROVE  [op |-> "friend", node |-> list[i].node] \in ToSet(F)
  <2>1. i \in D
    BY <1>13 DEF D
  <2>2. list[i] \in ToSet(Only(list, D))
    BY <1>3, <1>4, <2>1
  <2> QED
    BY <1>10, <2>2
<1> HIDE DEF F, P, G, reachedNow
<1>14. F \o P \in Seq(Item) /\ ToSet(F \o P) = ToSet(F) \cup ToSet(P)
  BY <1>9, <1>10, JoinedIs
<1>15. (F \o P) \o G \in Seq(Item) /\ ToSet((F \o P) \o G) = ToSet(F \o P) \cup ToSet(G)
  <2> DEFINE e == F \o P
  <2> HIDE DEF e
  <2>1. e \in Seq(Item)
    BY <1>14 DEF e
  <2>2. e \o G \in Seq(Item) /\ ToSet(e \o G) = ToSet(e) \cup ToSet(G)
    BY <1>8, <2>1, JoinedIs
  <2> QED
    BY <2>2 DEF e
<1> DEFINE all == (F \o P) \o G
<1>16. /\ all \in Seq(Item) /\ ToSet(all) = ToSet(F) \cup ToSet(P) \cup ToSet(G)
      /\ all = Plan(list, friends, wanted, members, floor)
  BY <1>1, <1>14, <1>15
<1> HIDE DEF all
<1>17. NodesOf(P) \subseteq NodesOf(all) /\ NodesOf(G) \subseteq NodesOf(all)
  BY <1>16 DEF NodesOf
<1>18. ASSUME NEW i \in DOMAIN list, list[i].node \in wanted
      PROVE  list[i].node \in NodesOf(all)
  <2>1. CASE list[i].node \in friends
    <3>1. [op |-> "friend", node |-> list[i].node] \in ToSet(all)
      BY <1>13, <1>16, <1>18, <2>1
    <3> QED
      BY <3>1 DEF NodesOf
  <2>2. CASE list[i].node \notin friends
    BY <1>9, <1>12, <1>17, <1>18, <2>2
  <2> QED
    BY <2>1, <2>2
<1>19. \E R \in SUBSET NodesOf(all) :
        /\ \A i \in DOMAIN list : list[i].node \in wanted \ friends => list[i].node \in R
        /\ NodesOf(First(FloorBudget(Len(list)), Only(list, Quiet(list, members \ friends, R, floor))))
             \subseteq NodesOf(all)
  <2>1. reachedNow \in SUBSET NodesOf(all)
    BY <1>9, <1>17
  <2>2. NodesOf(First(FloorBudget(Len(list)), Only(list, Quiet(list, members \ friends, reachedNow, floor))))
          \subseteq NodesOf(all)
    BY <1>8, <1>17 DEF Q
  <2> QED
    BY <1>12, <2>1, <2>2
<1>20. \A i \in DOMAIN list : list[i].node \in friends /\ list[i].due =>
        [op |-> "friend", node |-> list[i].node] \in ToSet(all)
  BY <1>11, <1>16
<1>21. \A x \in ToSet(all) : x.op = "friend" => x.node \in friends
  BY <1>8, <1>9, <1>10, <1>16
<1> QED
  BY <1>16, <1>18, <1>19, <1>20, <1>21

(* Retention keeps every friend's place, and the friends' entries of the   *)
(* list, read anew or not, still say who is due.                           *)
LEMMA Dropping ==
  ASSUME RoundInv, NEW n \in Nodes
  PROVE  Dropped(n) \in Row
<1>1. row[n] \in [tried : BOOLEAN, sync : 0 .. Cycle, seen : 0 .. Window + 1, floor : 0 .. Cycle]
  BY DEF RoundInv, StoreTypes, Row
<1>2. Never \in [tried : BOOLEAN, sync : 0 .. Cycle, seen : 0 .. Window + 1, floor : 0 .. Cycle]
  BY Bounds DEF Row
<1> QED
  BY <1>1, <1>2 DEF Dropped, Row

Gone(evicted) == {s.node : s \in evicted \cup Unadmitted}

LEMMA Retained ==
  ASSUME RoundInv, round.pc = "retain", NEW evicted \in Evictions, pull' = {}, UNCHANGED <<trust, reached>>,
         row' = [n \in Nodes |-> IF n \in Gone(evicted) THEN Dropped(n) ELSE row[n]],
         rot' = EnsureAll(Only(rot, {i \in DOMAIN rot : rot[i] \notin Gone(evicted)}), pull)
  PROVE  /\ StoreTypes' /\ ToSet(rot') = (InRotation \ Gone(evicted)) \cup pull
         /\ evicted \in SUBSET Foreign /\ Gone(evicted) \cap round.decided = {}
<1> DEFINE I == {i \in DOMAIN rot : rot[i] \notin Gone(evicted)}
           kept == Only(rot, I)
<1>1. evicted \in SUBSET Foreign
  BY DEF Evictions
<1>2. Gone(evicted) \cap round.decided = {}
  BY <1>1 DEF Gone, Foreign, Unadmitted
<1>3. kept \in Seq(Nodes) /\ IsInjective(kept) /\ ToSet(kept) = {rot[i] : i \in I}
  <2>1. I \in SUBSET DOMAIN rot /\ rot \in Seq(Nodes) /\ IsInjective(rot)
    BY DEF RoundInv, StoreTypes
  <2> HIDE DEF I
  <2> QED
    BY <2>1, OnlyIs
<1>4. ToSet(kept) = InRotation \ Gone(evicted)
  BY <1>3 DEF InRotation, ToSet
<1>5. rot' = EnsureAll(kept, pull) /\ pull \in SUBSET Nodes
  BY DEF RoundInv, StoreTypes
<1> HIDE DEF kept
<1>6. rot' \in Seq(Nodes) /\ IsInjective(rot') /\ ToSet(rot') = ToSet(kept) \cup pull
  BY <1>3, <1>5, EnsureAllIs
<1>7. row' \in [Nodes -> Row]
  BY Dropping DEF RoundInv, StoreTypes
<1>8. StoreTypes'
  BY <1>6, <1>7 DEF RoundInv, StoreTypes
<1> QED
  BY <1>1, <1>2, <1>4, <1>6, <1>8

LEMMA RetainIs ==
  ASSUME RoundInv, Retain
  PROVE  \E evicted \in Evictions :
           /\ pull' = {} /\ UNCHANGED <<trust, reached>>
           /\ row' = [n \in Nodes |-> IF n \in Gone(evicted) THEN Dropped(n) ELSE row[n]]
           /\ rot' = EnsureAll(Only(rot, {i \in DOMAIN rot : rot[i] \notin Gone(evicted)}), pull)
           /\ held' = [n \in Nodes |-> IF n \in Gone(evicted) THEN 0 ELSE held[n]]
           /\ \E list :
                /\ \/ /\ list = Only(round.list, {i \in DOMAIN round.list : round.list[i].node \notin Gone(evicted)})
                      /\ pull = {}
                   \/ list = Listing(rot', row') /\ pull # {}
                /\ listed' = [size |-> Len(list), calm |-> IF Len(list) < listed.size THEN 0 ELSE listed.calm]
                /\ round' = [pc |-> "ask", friends |-> round.friends,
                             todo |-> Plan(list, round.friends, pull, round.members, [n \in Nodes |-> row'[n].floor])]
<1>1. PICK evicted \in Evictions :
        LET gone == {s.node : s \in evicted \cup Unadmitted}
            kept == Only(rot, {i \in DOMAIN rot : rot[i] \notin gone})
        IN /\ row' = [n \in Nodes |-> IF n \in gone THEN Dropped(n) ELSE row[n]]
           /\ rot' = EnsureAll(kept, pull)
           /\ pull' = {}
           /\ held' = [n \in Nodes |-> IF n \in gone THEN 0 ELSE held[n]]
           /\ LET list == IF pull = {} THEN Only(round.list, {i \in DOMAIN round.list : round.list[i].node \notin gone})
                          ELSE Listing(rot', row')
              IN /\ listed' = [size |-> Len(list), calm |-> IF Len(list) < listed.size THEN 0 ELSE listed.calm]
                 /\ round' =
                      [pc |-> "ask", friends |-> round.friends,
                       todo |-> Plan(list, round.friends, pull, round.members, [n \in Nodes |-> row'[n].floor])]
  BY DEF Retain
<1>2. UNCHANGED <<trust, reached>>
  BY DEF Retain
<1>3. CASE pull = {}
  BY <1>1, <1>2, <1>3 DEF Gone
<1>4. CASE pull # {}
  BY <1>1, <1>2, <1>4 DEF Gone
<1> QED
  BY <1>3, <1>4

LEMMA RetainKeeps ==
  ASSUME RoundInv, Retain
  PROVE  RoundInv'
<1>0. round.pc = "retain"
  BY DEF Retain
<1>1. PICK evicted \in Evictions :
           /\ pull' = {} /\ UNCHANGED <<trust, reached>>
           /\ row' = [n \in Nodes |-> IF n \in Gone(evicted) THEN Dropped(n) ELSE row[n]]
           /\ rot' = EnsureAll(Only(rot, {i \in DOMAIN rot : rot[i] \notin Gone(evicted)}), pull)
           /\ \E list \in {Only(round.list, {i \in DOMAIN round.list : round.list[i].node \notin Gone(evicted)}),
                           Listing(rot', row')} :
                round' = [pc |-> "ask", friends |-> round.friends,
                          todo |-> Plan(list, round.friends, pull, round.members, [n \in Nodes |-> row'[n].floor])]
  BY RetainIs, Zenon
<1>2. PICK list \in {Only(round.list, {i \in DOMAIN round.list : round.list[i].node \notin Gone(evicted)}),
                     Listing(rot', row')} :
        round' = [pc |-> "ask", friends |-> round.friends,
                  todo |-> Plan(list, round.friends, pull, round.members, [n \in Nodes |-> row'[n].floor])]
  BY <1>1
<1>3. /\ StoreTypes' /\ ToSet(rot') = (InRotation \ Gone(evicted)) \cup pull
      /\ Gone(evicted) \cap round.decided = {}
  BY <1>0, <1>1, Retained
<1>4. /\ round.friends \in SUBSET Nodes /\ round.members \in SUBSET Nodes /\ round.list \in Seq(Entry)
      /\ round.friends \subseteq round.decided /\ round.friends \subseteq InRotation
      /\ \A n \in round.friends : DueOrCurrent(round.list, n)
  BY <1>0 DEF RoundInv, Rounds, Friendly, Read
<1>5. round.friends \subseteq ToSet(rot') /\ \A n \in round.friends : n \notin Gone(evicted) /\ row'[n] = row[n]
  BY <1>1, <1>3, <1>4
<1>6. list \in Seq(Entry) /\ \A n \in round.friends : \E i \in DOMAIN list :
                               list[i].node = n /\ (list[i].due \/ row'[n].sync < Cycle)
  <2>1. CASE list = Only(round.list, {i \in DOMAIN round.list : round.list[i].node \notin Gone(evicted)})
    <3> DEFINE I == {i \in DOMAIN round.list : round.list[i].node \notin Gone(evicted)}
    <3>1. list \in Seq(Entry) /\ ToSet(list) = {round.list[i] : i \in I}
      <4>1. I \in SUBSET DOMAIN round.list
        OBVIOUS
      <4> HIDE DEF I
      <4> QED
        BY <1>4, <2>1, <4>1, OnlyIs DEF I
    <3>2. ASSUME NEW n \in round.friends
          PROVE  \E i \in DOMAIN list : list[i].node = n /\ (list[i].due \/ row'[n].sync < Cycle)
      <4>1. PICK j \in DOMAIN round.list : round.list[j].node = n /\ (round.list[j].due \/ row[n].sync < Cycle)
        BY <1>4 DEF DueOrCurrent
      <4>2. j \in I
        BY <1>5, <4>1
      <4>3. PICK i \in DOMAIN list : list[i] = round.list[j]
        BY <3>1, <4>2 DEF ToSet
      <4>4. row'[n] = row[n]
        BY <1>5
      <4>5. list[i].node = n /\ (list[i].due \/ row'[n].sync < Cycle)
        BY <4>1, <4>3, <4>4
      <4> QED
        BY <4>5
    <3> QED
      BY <3>1, <3>2
  <2>2. CASE list = Listing(rot', row')
    <3>1. rot' \in Seq(Nodes) /\ IsInjective(rot') /\ row' \in [Nodes -> Row]
      BY <1>3 DEF StoreTypes
    <3> QED
      BY <1>5, <2>2, <3>1, ListingIs
  <2> QED
    BY <2>1, <2>2
<1> DEFINE todo == Plan(list, round.friends, pull, round.members, [n \in Nodes |-> row'[n].floor])
<1>7. /\ todo \in Seq(Item)
      /\ \A i \in DOMAIN list : list[i].node \in round.friends /\ list[i].due =>
           [op |-> "friend", node |-> list[i].node] \in ToSet(todo)
  BY <1>4, <1>6, PlanIs
<1>8. round' = [pc |-> "ask", friends |-> round.friends, todo |-> todo]
  BY <1>2
<1> HIDE DEF todo
<1>9. round' \in Rounds /\ Friendly' /\ Read'
  BY <1>4, <1>5, <1>7, <1>8 DEF Rounds, Friendly, Read, InRotation
<1>10. Owed'
  <2>1. ASSUME NEW n \in round.friends, ~(row'[n].sync < Cycle)
        PROVE  [op |-> "friend", node |-> n] \in ToSet(todo)
    <3>1. PICK i \in DOMAIN list : list[i].node = n /\ list[i].due
      BY <1>6, <2>1
    <3> QED
      BY <1>7, <3>1
  <2> QED
    BY <1>8, <2>1 DEF Owed, ToBeAsked, ToSet
<1> QED
  BY <1>3, <1>9, <1>10 DEF RoundInv

LEMMA RoundStep ==
  ASSUME RoundInv, [DiscoveryNext]_discovery
  PROVE  RoundInv'
<1>1. CASE UNCHANGED discovery
  BY <1>1 DEF discovery, RoundInv, StoreTypes, Friendly, Read, Owed, InRotation, DueOrCurrent, ToBeAsked
<1>2. CASE RoundEnd
  <2>1. round' = Idle /\ UNCHANGED <<trust, reached, rot, row, pull>>
    BY <1>2 DEF RoundEnd
  <2> QED
    BY <2>1 DEF RoundInv, StoreTypes, Rounds, Idle, Friendly, Read, Owed
<1>3. CASE Sweep \/ Nudged
  BY <1>2, <1>3, TickKeeps, ListSourcesKeeps, RetainKeeps, RequestsKeep DEF Sweep
<1>4. CASE \E n \in Nodes : Announced(n) \/ PullFrom(n) \/ Decide(n) \/ GraphMoves(n)
  BY <1>4, AnnouncedKeeps, OutsiderKeeps
<1>5. CASE \E n \in Nodes, age \in 0 .. Cycle : Hint(n, age)
  BY <1>5, OutsiderKeeps
<1> QED
  BY <1>1, <1>3, <1>4, <1>5 DEF DiscoveryNext

(* No node has two entries: as many nodes as entries.                      *)
LEMMA NodesCount ==
  ASSUME NEW K, IsFiniteSet(K), \A s, t \in K : s.node = t.node => s = t
  PROVE  IsFiniteSet({s.node : s \in K}) /\ Cardinality({s.node : s \in K}) = Cardinality(K)
<1> DEFINE N == {s.node : s \in K}
           f == [s \in K |-> s.node]
<1>1. f \in Surjection(K, N)
  <2>1. f \in [K -> N] /\ \A n \in N : \E s \in K : f[s] = n
    OBVIOUS
  <2> HIDE DEF f, N
  <2> QED
    BY <2>1 DEF Surjection
<1>2. f \in Injection(K, N)
  <2>1. f \in [K -> N] /\ DOMAIN f = K /\ \A s, t \in K : f[s] = f[t] => s = t
    OBVIOUS
  <2> HIDE DEF f, N
  <2> QED
    BY <2>1 DEF Injection, IsInjective
<1> HIDE DEF f
<1> QED
  BY <1>1, <1>2, FS_Surjection

(* The friends' and the blocked nodes' catalogs stay; of the foreign ones  *)
(* those are left that the cap has room for, none seen longer ago than one *)
(* that went.                                                              *)
LEMMA RetentionStep ==
  ASSUME RoundInv, Retain
  PROVE  LET gone == {n \in InRotation : n \notin ToSet(rot') \/ (row[n].tried /\ ~row'[n].tried)}
             evicted == gone \cap round.members
             left == (ToSet(rot') \cap {s.node : s \in ToSet(round.list)}) \ round.decided
         IN /\ gone \cap round.decided = {}
            /\ left \subseteq round.members \cup pull
            /\ evicted # {} => Cardinality(left \ pull) <= Cap /\ Cardinality(left \cup evicted) >= Cap
            /\ \A e \in evicted, n \in left \ pull :
                 \E s, t \in ToSet(round.list) : s.node = e /\ t.node = n /\ s.seen >= t.seen
<1> DEFINE gone == {n \in InRotation : n \notin ToSet(rot') \/ (row[n].tried /\ ~row'[n].tried)}
           evicted == gone \cap round.members
           left == (ToSet(rot') \cap {s.node : s \in ToSet(round.list)}) \ round.decided
<1>0. round.pc = "retain"
  BY DEF Retain
<1>1. PICK E \in Evictions :
           /\ pull' = {} /\ UNCHANGED <<trust, reached>>
           /\ row' = [n \in Nodes |-> IF n \in Gone(E) THEN Dropped(n) ELSE row[n]]
           /\ rot' = EnsureAll(Only(rot, {i \in DOMAIN rot : rot[i] \notin Gone(E)}), pull)
  BY RetainIs
<1>2. /\ ToSet(rot') = (InRotation \ Gone(E)) \cup pull
      /\ E \in SUBSET Foreign /\ Gone(E) \cap round.decided = {}
  BY <1>0, <1>1, Retained
<1>3. /\ round.list \in Seq(Entry) /\ Distinct(round.list) /\ NodesOf(round.list) \subseteq InRotation
      /\ InRotation \subseteq Nodes
  BY <1>0 DEF RoundInv, Rounds, Read, InRotation, ToSet, StoreTypes
<1>4. gone \subseteq Gone(E)
  <2>1. \A n \in InRotation \ Gone(E) : n \in ToSet(rot') /\ row'[n] = row[n]
    BY <1>1, <1>2, <1>3
  <2> QED
    BY <2>1
<1>5. \A s, t \in ToSet(round.list) : s.node = t.node => s = t
  BY <1>3 DEF ToSet, Distinct
<1>6. IsFiniteSet(ToSet(round.list)) /\ IsFiniteSet(Foreign)
  <2>1. DOMAIN round.list = 1 .. Len(round.list) /\ Len(round.list) \in Nat
    BY <1>3
  <2>2. IsFiniteSet(ToSet(round.list))
    <3> DEFINE l == round.list
               T == ToSet(l)
               f == [i \in DOMAIN l |-> l[i]]
    <3>1. f \in [DOMAIN l -> T] /\ \A x \in T : \E i \in DOMAIN l : f[i] = x
      BY DEF ToSet
    <3>2. IsFiniteSet(DOMAIN l)
      BY <2>1, FS_Interval
    <3> HIDE DEF f, T
    <3>3. f \in Surjection(DOMAIN l, T)
      BY <3>1 DEF Surjection
    <3> QED
      BY <3>2, <3>3, FS_Surjection DEF T
  <2>3. Foreign \in SUBSET ToSet(round.list)
    BY DEF Foreign
  <2> QED
    BY <2>2, <2>3, FS_Subset
<1> DEFINE K == Foreign \ E
           NK == {s.node : s \in K}
<1>7. gone \cap round.decided = {}
  BY <1>2, <1>4
<1>8. ASSUME NEW n \in left
      PROVE  n \in pull \/ (n \in round.members /\ n \in NK)
  <2>1. n \in pull \/ (n \in InRotation \ Gone(E))
    BY <1>2, <1>8
  <2>2. PICK s \in ToSet(round.list) : s.node = n
    BY <1>8
  <2>3. n \notin round.decided
    BY <1>8
  <2>4. CASE n \notin Gone(E)
    <3>1. s \notin E /\ s \notin Unadmitted
      BY <2>2, <2>4 DEF Gone
    <3>2. s \in Foreign
      BY <2>2, <2>3, <3>1 DEF Foreign, Unadmitted
    <3> QED
      BY <2>2, <3>1, <3>2 DEF Foreign
  <2> QED
    BY <2>1, <2>4
<1>9. left \ pull \subseteq NK
  BY <1>8
<1>10. NK \subseteq left
  <2> SUFFICES ASSUME NEW s \in K PROVE s.node \in left
    OBVIOUS
  <2>1. s \in ToSet(round.list) /\ s.node \notin round.decided /\ s.node \in round.members
    BY DEF Foreign
  <2>2. s.node \in InRotation
    BY <1>3, <2>1 DEF NodesOf
  <2>3. s.node \notin Gone(E)
    <3>1. SUFFICES ASSUME NEW t \in E \cup Unadmitted, t.node = s.node PROVE FALSE
      BY DEF Gone
    <3>2. t \in ToSet(round.list)
      BY <1>2 DEF Foreign, Unadmitted
    <3>3. t = s
      BY <1>5, <2>1, <3>1, <3>2
    <3> QED
      BY <2>1, <3>1, <3>3 DEF Unadmitted
  <2> QED
    BY <1>2, <2>1, <2>2, <2>3
<1>11. evicted # {} => Cardinality(NK) = Cap /\ IsFiniteSet(NK)
  <2> SUFFICES ASSUME evicted # {} PROVE Cardinality(NK) = Cap /\ IsFiniteSet(NK)
    OBVIOUS
  <2>1. PICK e \in E : TRUE
    <3>1. PICK n \in evicted : TRUE
      OBVIOUS
    <3>2. n \in Gone(E) /\ n \in round.members
      BY <1>4
    <3>3. PICK s \in E \cup Unadmitted : s.node = n
      BY <3>2 DEF Gone
    <3> QED
      BY <3>2, <3>3 DEF Unadmitted
  <2>2. Cardinality(E) = Over /\ Over > 0
    <3>1. Over \in Int
      BY <1>6, FS_CardinalityType, Bounds DEF Over
    <3>2. ~(Over <= 0)
      BY <2>1 DEF Evictions
    <3> QED
      BY <3>1, <3>2 DEF Evictions
  <2>3. IsFiniteSet(E) /\ IsFiniteSet(K) /\ Cardinality(K) = Cardinality(Foreign) - Cardinality(E)
    <3>1. IsFiniteSet(E) /\ Foreign \cap E = E
      BY <1>2, <1>6, FS_Subset
    <3> QED
      BY <1>6, <3>1, FS_Difference
  <2>4. Cardinality(K) = Cap
    BY <1>6, <2>2, <2>3, FS_CardinalityType, Bounds DEF Over
  <2>5. \A s, t \in K : s.node = t.node => s = t
    BY <1>5 DEF Foreign
  <2> HIDE DEF K
  <2> QED
    BY <2>3, <2>4, <2>5, NodesCount
<1>12. evicted # {} => Cardinality(left \ pull) <= Cap /\ Cardinality(left \cup evicted) >= Cap
  <2> SUFFICES ASSUME evicted # {}
               PROVE  Cardinality(left \ pull) <= Cap /\ Cardinality(left \cup evicted) >= Cap
    OBVIOUS
  <2>1. Cardinality(NK) = Cap /\ IsFiniteSet(NK)
    BY <1>11
  <2>2. left \ pull \in SUBSET NK
    BY <1>9
  <2>3. IsFiniteSet(left \cup evicted) /\ NK \in SUBSET (left \cup evicted)
    <3>1. left \cup evicted \in SUBSET Nodes
      <4>1. ToSet(rot') \subseteq Nodes
        BY <1>2, <1>3 DEF RoundInv, StoreTypes
      <4> QED
        BY <1>3, <4>1
    <3> QED
      BY <1>10, <3>1, Bounds, FS_Subset
  <2> HIDE DEF NK, left, evicted
  <2>4. Cardinality(left \ pull) <= Cardinality(NK)
    BY <2>1, <2>2, FS_Subset
  <2>5. Cardinality(NK) <= Cardinality(left \cup evicted)
    BY <2>3, FS_Subset
  <2> QED
    BY <2>1, <2>4, <2>5
<1>13. ASSUME NEW e \in evicted, NEW n \in left \ pull
       PROVE  \E s, t \in ToSet(round.list) : s.node = e /\ t.node = n /\ s.seen >= t.seen
  <2>1. PICK s \in E : s.node = e
    <3>1. e \in Gone(E) /\ e \in round.members
      BY <1>4
    <3>2. PICK s \in E \cup Unadmitted : s.node = e
      BY <3>1 DEF Gone
    <3> QED
      BY <3>1, <3>2 DEF Unadmitted
  <2>2. PICK t \in K : t.node = n
    BY <1>9
  <2>3. s.seen >= t.seen
    BY <2>1, <2>2 DEF Evictions
  <2>4. s \in ToSet(round.list) /\ t \in ToSet(round.list)
    BY <1>2, <2>1, <2>2 DEF Foreign
  <2> QED
    BY <2>1, <2>2, <2>3, <2>4
<1>14. left \subseteq round.members \cup pull
  BY <1>8
<1> HIDE DEF gone, evicted, left
<1> QED
  BY <1>7, <1>12, <1>13, <1>14 DEF gone, evicted, left

LEMMA FriendsStep ==
  ASSUME RoundInv, [DiscoveryNext]_discovery, round.pc = "ask", round' = Idle
  PROVE  \A n \in round.friends \ (Dead \cup Refusing) : row[n].sync < Cycle
<1>1. round'.pc = "idle"
  BY DEF Idle
<1>2. round \in [pc : {"ask"}, friends : SUBSET Nodes, todo : Seq(Item)]
  BY DEF RoundInv, Rounds
<1>3. RoundEnd
  <2>1. round' # round
    BY <1>1
  <2>2. ~(Pull \/ FloorPing)
    BY <1>1, <1>2 DEF Pull, FloorPing
  <2> QED
    BY <2>1, <2>2 DEF discovery, DiscoveryNext, Sweep, Nudged, Tick, ReadPeers, ListSources, Retain,
                      Announced, Hint, PullFrom, Decide, GraphMoves
<1>4. round.todo = <<>>
  BY <1>3 DEF RoundEnd
<1> QED
  BY <1>4 DEF RoundInv, Owed, ToBeAsked

(* The invariant of the rotation and of the round holds throughout.        *)
THEOREM RoundsHold == Spec => []RoundInv
<1>1. Init => RoundInv
  BY InitRoundInv DEF Init
<1>2. RoundInv /\ [Next]_vars => RoundInv'
  BY RoundStep DEF Next, vars
<1> QED
  BY <1>1, <1>2, PTL DEF Spec

(* Retention drops what may not stay and the least recently seen above the *)
(* cap and nothing an admin decided about, a round ends with the friends   *)
(* pulled, a dismissal stays, and an outage of ours marks nobody down      *)
(* (discovery.go, upgrades.go, reach.go).                                  *)
THEOREM NothingUndoneHolds == Spec => NothingIsUndone
<1>1. RoundInv /\ [Next]_vars => [round.pc = "retain" /\ round'.pc = "ask" =>
         LET gone == {n \in InRotation : n \notin ToSet(rot') \/ (row[n].tried /\ ~row'[n].tried)}
             evicted == gone \cap round.members
             left == (ToSet(rot') \cap {s.node : s \in ToSet(round.list)}) \ round.decided
         IN /\ gone \cap round.decided = {}
            /\ left \subseteq round.members \cup pull
            /\ evicted # {} => Cardinality(left \ pull) <= Cap /\ Cardinality(left \cup evicted) >= Cap
            /\ \A e \in evicted, n \in left \ pull :
                 \E s, t \in ToSet(round.list) : s.node = e /\ t.node = n /\ s.seen >= t.seen]_round
  <2> SUFFICES ASSUME RoundInv, [Next]_vars, round.pc = "retain", round'.pc = "ask"
               PROVE  Retain
    BY RetentionStep
  <2>1. [DiscoveryNext]_discovery /\ round' # round
    BY DEF Next, vars
  <2> QED
    BY <2>1 DEF discovery, DiscoveryNext, Sweep, Nudged, Tick, ReadPeers, ListSources, Pull, FloorPing, RoundEnd,
                Announced, Hint, PullFrom, Decide, GraphMoves, Idle
<1>2. RoundInv /\ [Next]_vars => [round.pc = "ask" /\ round' = Idle =>
         \A n \in round.friends \ (Dead \cup Refusing) : row[n].sync < Cycle]_round
  <2>1. [Next]_vars => [DiscoveryNext]_discovery
    BY DEF Next, vars
  <2> QED
    BY <2>1, FriendsStep
<1>3. PullInv /\ [Next]_vars => [\A b \in Blobs :
         /\ found.upgrade[b] = "dismissed" /\ b \in Advertised \ lib.files => found'.upgrade[b] = "dismissed"
         /\ found.report[b] = "dismissed" /\ (sync.pc # "rest" \/ sync' # Rest)
              => found'.report[b] = "dismissed"]_<<found>>
  <2>1. [Next]_vars => [SyncNext]_catalog
    BY DEF Next, vars
  <2> QED
    BY <2>1, DismissalStep
<1>4. ReachInv /\ [Next]_vars =>
         [\A n \in up : clock'[n].mark = 0 /\ clock[n].mark # 0 => cut # 0 /\ cut <= Guard]_reach
  <2>1. [Next]_vars => [ReachNext]_reach
    BY DEF Next, vars, reach
  <2> QED
    BY <2>1, OutageStep
<1>5. Spec => RetentionIsExact
  BY <1>1, RoundsHold, PTL DEF Spec, RetentionIsExact
<1>6. Spec => FriendsAreCurrent
  BY <1>2, RoundsHold, PTL DEF Spec, FriendsAreCurrent
<1>7. Spec => DismissedStays
  BY <1>3, PullInvHolds, PTL DEF Spec, DismissedStays
<1>8. Spec => OutageBlamesNobody
  BY <1>4, ReachHolds, PTL DEF Spec, OutageBlamesNobody
<1> QED
  BY <1>5, <1>6, <1>7, <1>8 DEF NothingIsUndone

(***************************************************************************)
(* Whose turn it is.  The rotation's order: only a new row or an attempt   *)
(* changes who stands ahead of whom.                                       *)
(***************************************************************************)
Ahead(r, m, n) == \E i, j \in DOMAIN r : i < j /\ r[i] = m /\ r[j] = n

LEMMA AscendingClimbs ==
  ASSUME NEW S \in SUBSET Nat, IsFiniteSet(S)
  PROVE  \A p, q \in 1 .. Cardinality(S) : p < q => Ascending(S)[p] < Ascending(S)[q]
<1>1. ASSUME NEW k \in 1 .. Cardinality(S)
      PROVE  Ascending(S)[k] \in S /\ Rank(S, Ascending(S)[k]) = k
  <2>1. Ascending(S)[k] = CHOOSE n \in S : Rank(S, n) = k
    BY DEF Ascending, Rank
  <2> QED
    BY <2>1, RanksCover
<1> SUFFICES ASSUME NEW p \in 1 .. Cardinality(S), NEW q \in 1 .. Cardinality(S), p < q
             PROVE  Ascending(S)[p] < Ascending(S)[q]
  OBVIOUS
<1>2. PICK x \in S : x = Ascending(S)[p] /\ Rank(S, x) = p
  BY <1>1
<1>3. PICK y \in S : y = Ascending(S)[q] /\ Rank(S, y) = q
  BY <1>1
<1>4. y < x => Rank(S, y) < Rank(S, x)
  BY RanksDiffer
<1>5. p \in Int /\ q \in Int /\ x \in Int /\ y \in Int
  BY FS_CardinalityType
<1> QED
  BY <1>2, <1>3, <1>4, <1>5

LEMMA OnlyOrder ==
  ASSUME NEW T, NEW s \in Seq(T), NEW I \in SUBSET DOMAIN s
  PROVE  \A p, q \in DOMAIN Only(s, I) :
           p < q => \E i, j \in I : i < j /\ Only(s, I)[p] = s[i] /\ Only(s, I)[q] = s[j]
<1>1. I \in SUBSET Nat /\ IsFiniteSet(I)
  <2>1. I \in SUBSET (1 .. Len(s)) /\ Len(s) \in Nat
    BY LenProperties
  <2>2. IsFiniteSet(1 .. Len(s))
    BY <2>1, FS_Interval
  <2> QED
    BY <2>1, <2>2, FS_Subset
<1>2. /\ Ascending(I) \in [1 .. Cardinality(I) -> I]
      /\ \A p, q \in 1 .. Cardinality(I) : p < q => Ascending(I)[p] < Ascending(I)[q]
  BY <1>1, AscendingIs, AscendingClimbs
<1>3. DOMAIN Only(s, I) = 1 .. Cardinality(I) /\ \A p \in 1 .. Cardinality(I) : Only(s, I)[p] = s[Ascending(I)[p]]
  BY DEF Only
<1> QED
  BY <1>2, <1>3

LEMMA AheadOfOnly ==
  ASSUME NEW T, NEW s \in Seq(T), NEW I \in SUBSET DOMAIN s, NEW m, NEW n, Ahead(Only(s, I), m, n)
  PROVE  Ahead(s, m, n)
<1>1. PICK p, q \in DOMAIN Only(s, I) : p < q /\ Only(s, I)[p] = m /\ Only(s, I)[q] = n
  BY DEF Ahead
<1>2. PICK i, j \in I : i < j /\ Only(s, I)[p] = s[i] /\ Only(s, I)[q] = s[j]
  BY <1>1, OnlyOrder
<1> QED
  BY <1>1, <1>2 DEF Ahead

LEMMA AheadOfJoined ==
  ASSUME NEW T, NEW s \in Seq(T), NEW t \in Seq(T), NEW m, NEW n, Ahead(s \o t, m, n)
  PROVE  Ahead(s, m, n) \/ (m \in ToSet(s) /\ n \in ToSet(t)) \/ Ahead(t, m, n)
<1>1. PICK p, q \in DOMAIN (s \o t) : p < q /\ (s \o t)[p] = m /\ (s \o t)[q] = n
  BY DEF Ahead
<1>2. /\ DOMAIN s = 1 .. Len(s) /\ DOMAIN t = 1 .. Len(t) /\ Len(s) \in Nat /\ Len(t) \in Nat
      /\ DOMAIN (s \o t) = 1 .. Len(s) + Len(t)
      /\ \A i \in 1 .. Len(s) + Len(t) : (s \o t)[i] = IF i <= Len(s) THEN s[i] ELSE t[i - Len(s)]
  BY ConcatProperties, LenProperties
<1>3. CASE q <= Len(s)
  <2>1. p \in DOMAIN s /\ q \in DOMAIN s /\ s[p] = m /\ s[q] = n
    BY <1>1, <1>2, <1>3
  <2> QED
    BY <1>1, <2>1 DEF Ahead
<1>4. CASE p <= Len(s) /\ ~(q <= Len(s))
  <2>1. p \in DOMAIN s /\ s[p] = m
    BY <1>1, <1>2, <1>4
  <2>2. q - Len(s) \in DOMAIN t /\ t[q - Len(s)] = n
    BY <1>1, <1>2, <1>4
  <2> QED
    BY <2>1, <2>2 DEF ToSet
<1>5. CASE ~(p <= Len(s))
  <2>1. p - Len(s) \in DOMAIN t /\ t[p - Len(s)] = m
    BY <1>1, <1>2, <1>5
  <2>2. q - Len(s) \in DOMAIN t /\ t[q - Len(s)] = n /\ p - Len(s) < q - Len(s)
    BY <1>1, <1>2, <1>5
  <2> QED
    BY <2>1, <2>2 DEF Ahead
<1> QED
  BY <1>3, <1>4, <1>5

Sorted(r) == \A m, n : Ahead(r, m, n) /\ row[m].tried => row[n].tried

(* A row that comes in stands before the attempted ones; nobody else's     *)
(* place changes.                                                          *)
LEMMA EnsureOrder ==
  ASSUME NEW r \in Seq(Nodes), IsInjective(r), Sorted(r), NEW S \in SUBSET Nodes,
         NEW m, NEW n, Ahead(EnsureAll(r, S), m, n)
  PROVE  /\ m \in S \ ToSet(r) \/ n \in S \ ToSet(r) \/ Ahead(r, m, n)
         /\ m \in ToSet(r) /\ row[m].tried => n \in ToSet(r) /\ row[n].tried
<1> DEFINE I == {i \in DOMAIN r : ~row[r[i]].tried}
           J == {i \in DOMAIN r : row[r[i]].tried}
           N == S \ ToSet(r)
           a == Only(r, I)
           b == Ascending(N)
           c == Only(r, J)
<1>1. I \in SUBSET DOMAIN r /\ J \in SUBSET DOMAIN r
  OBVIOUS
<1>2. /\ a \in Seq(Nodes) /\ ToSet(a) = {r[i] : i \in I} /\ (Ahead(a, m, n) => Ahead(r, m, n))
      /\ c \in Seq(Nodes) /\ ToSet(c) = {r[i] : i \in J} /\ (Ahead(c, m, n) => Ahead(r, m, n))
  <2> HIDE DEF I, J
  <2> QED
    BY <1>1, OnlyIs, AheadOfOnly
<1>3. b \in Seq(Nodes) /\ ToSet(b) = N
  <2>1. N \in SUBSET Nat /\ IsFiniteSet(N) /\ N \subseteq Nodes
    BY DiscoveryAssumption, FS_Subset
  <2> HIDE DEF N
  <2>2. Ascending(N) \in [1 .. Cardinality(N) -> N] /\ Cardinality(N) \in Nat /\ ToSet(Ascending(N)) = N
    BY <2>1, AscendingIs
  <2>3. Ascending(N) \in [1 .. Cardinality(N) -> Nodes]
    BY <2>1, <2>2
  <2> QED
    BY <2>2, <2>3
<1>4. Ahead((a \o b) \o c, m, n)
  BY DEF EnsureAll
<1>5. \A x : x \in ToSet(a) => x \in ToSet(r) /\ ~row[x].tried
  BY <1>2 DEF ToSet
<1>6. \A x : x \in ToSet(c) => x \in ToSet(r) /\ row[x].tried
  BY <1>2 DEF ToSet
<1>7. \A x : x \in ToSet(b) => x \in S \ ToSet(r)
  BY <1>3
<1> HIDE DEF a, b, c, I, J, N
<1>8. a \o b \in Seq(Nodes) /\ ToSet(a \o b) = ToSet(a) \cup ToSet(b)
  BY <1>2, <1>3, JoinedIs
<1>9. Ahead(a \o b, m, n) \/ (m \in ToSet(a \o b) /\ n \in ToSet(c)) \/ Ahead(c, m, n)
  <2> DEFINE d == a \o b
  <2>1. d \in Seq(Nodes) /\ Ahead(d \o c, m, n)
    BY <1>4, <1>8
  <2> HIDE DEF d
  <2>2. Ahead(d, m, n) \/ (m \in ToSet(d) /\ n \in ToSet(c)) \/ Ahead(c, m, n)
    BY <1>2, <2>1, AheadOfJoined
  <2> QED
    BY <2>2 DEF d
<1>10. CASE Ahead(a \o b, m, n)
  <2>1. Ahead(a, m, n) \/ (m \in ToSet(a) /\ n \in ToSet(b)) \/ Ahead(b, m, n)
    BY <1>2, <1>3, <1>10, AheadOfJoined
  <2>2. \A s : Ahead(s, m, n) => m \in ToSet(s) /\ n \in ToSet(s)
    BY DEF Ahead, ToSet
  <2> QED
    BY <1>2, <1>5, <1>7, <2>1, <2>2
<1>11. CASE m \in ToSet(a \o b) /\ n \in ToSet(c)
  <2>1. CASE m \in ToSet(b)
    BY <1>7, <2>1
  <2>2. CASE m \in ToSet(a)
    <3>1. /\ m \in ToSet(r) /\ n \in ToSet(r) /\ ~row[m].tried /\ row[n].tried
      BY <1>5, <1>6, <1>11, <2>2
    <3>2. PICK i, j \in DOMAIN r : r[i] = m /\ r[j] = n
      BY <3>1 DEF ToSet
    <3>3. i # j /\ i \in Nat /\ j \in Nat
      BY <3>1, <3>2, LenProperties
    <3>4. ~(j < i)
      BY <3>1, <3>2 DEF Sorted, Ahead
    <3>5. i < j
      BY <3>3, <3>4
    <3> QED
      BY <3>1, <3>2, <3>5 DEF Ahead
  <2> QED
    BY <1>8, <1>11, <2>1, <2>2
<1>12. CASE Ahead(c, m, n)
  <2>1. m \in ToSet(c) /\ n \in ToSet(c)
    BY <1>12 DEF Ahead, ToSet
  <2> QED
    BY <1>2, <1>6, <1>12, <2>1
<1> QED
  BY <1>9, <1>10, <1>11, <1>12

LEMMA AttemptedOrder ==
  ASSUME NEW r \in Seq(Nodes), NEW x \in Nodes, NEW m, NEW n, Ahead(Attempted(r, x), m, n)
  PROVE  m # x /\ (n # x => Ahead(r, m, n))
<1> DEFINE I == {i \in DOMAIN r : r[i] # x}
           a == Only(r, I)
<1>1. I \in SUBSET DOMAIN r
  OBVIOUS
<1>2. a \in Seq(Nodes) /\ ToSet(a) = {r[i] : i \in I} /\ (Ahead(a, m, n) => Ahead(r, m, n))
  <2> HIDE DEF I
  <2> QED
    BY <1>1, OnlyIs, AheadOfOnly
<1>3. x \notin ToSet(a)
  BY <1>2
<1>4. Ahead(Append(a, x), m, n)
  BY DEF Attempted
<1> HIDE DEF a, I
<1>5. PICK p, q \in DOMAIN Append(a, x) : p < q /\ Append(a, x)[p] = m /\ Append(a, x)[q] = n
  BY <1>4 DEF Ahead
<1>6. /\ DOMAIN Append(a, x) = 1 .. Len(a) + 1 /\ DOMAIN a = 1 .. Len(a) /\ Len(a) \in Nat
      /\ Append(a, x)[Len(a) + 1] = x /\ \A i \in 1 .. Len(a) : Append(a, x)[i] = a[i]
  BY <1>2
<1>7. p \in 1 .. Len(a) /\ a[p] = m
  BY <1>5, <1>6
<1>8. m # x
  BY <1>3, <1>6, <1>7 DEF ToSet
<1>9. CASE q \in 1 .. Len(a)
  BY <1>2, <1>5, <1>6, <1>7, <1>8, <1>9 DEF Ahead
<1>10. CASE q = Len(a) + 1
  BY <1>5, <1>6, <1>8, <1>10
<1> QED
  BY <1>5, <1>6, <1>9, <1>10

(* A round's share of the source list, over a cycle, is all of it; who is  *)
(* quiet and gets no ping stands behind a whole share of those who do.     *)
LEMMA FloorBudgetIs ==
  ASSUME NEW k \in Nat
  PROVE  FloorBudget(k) \in Nat /\ k <= Cycle * FloorBudget(k)
<1> DEFINE a == k + Cycle - 1
           b == a \div Cycle
<1>1. Cycle \in Nat /\ Cycle > 0 /\ a \in Nat /\ a - Cycle + 1 = k
  BY Bounds
<1> HIDE DEF a
<1>2. b \in Nat
  <2>1. a \div Cycle \in Int /\ 0 <= a \div Cycle
    BY <1>1
  <2> QED
    BY <2>1
<1>3. k <= Cycle * b
  <2>1. a - Cycle < Cycle * (a \div Cycle)
    BY <1>1
  <2> HIDE DEF b
  <2>2. Cycle * b \in Nat /\ a - Cycle < Cycle * b
    BY <1>1, <1>2, <2>1 DEF b
  <2> QED
    BY <1>1, <2>2
<1> QED
  BY <1>2, <1>3 DEF FloorBudget, a

LEMMA UpTo ==
  ASSUME NEW k \in Nat
  PROVE  IsFiniteSet(1 .. k) /\ Cardinality(1 .. k) = k
<1>1. 1 \in Int /\ k \in Int
  OBVIOUS
<1>2. IsFiniteSet(1 .. k) /\ Cardinality(1 .. k) = IF 1 > k THEN 0 ELSE k - 1 + 1
  BY <1>1, FS_Interval, Zenon
<1> QED
  BY <1>2

LEMMA FirstAre ==
  ASSUME NEW T, NEW s \in Seq(T), NEW k \in Nat, NEW j \in DOMAIN s, j <= k
  PROVE  s[j] \in ToSet(First(k, s))
<1> DEFINE n == IF k < Len(s) THEN k ELSE Len(s)
<1>1. /\ n \in Nat /\ Len(s) \in Nat /\ n <= Len(s) /\ j \in 1 .. n /\ \A i \in 1 .. Len(s) : s[i] \in T
  BY LenProperties
<1>2. First(k, s) = SubSeq(s, 1, n)
  BY DEF First
<1> HIDE DEF n
<1>3. /\ SubSeq(s, 1, n) \in Seq(T) /\ Len(SubSeq(s, 1, n)) = n
      /\ SubSeq(s, 1, n)[j] = s[j]
  <2>1. \A i \in 1 .. n : s[i] \in T
    BY <1>1
  <2>2. /\ SubSeq(s, 1, n) \in Seq(T) /\ Len(SubSeq(s, 1, n)) = IF 1 <= n THEN n - 1 + 1 ELSE 0
        /\ \A i \in 1 .. n - 1 + 1 : SubSeq(s, 1, n)[i] = s[1 + i - 1]
    BY <1>1, <2>1, SubSeqProperties
  <2> QED
    BY <1>1, <2>2
<1>4. j \in DOMAIN SubSeq(s, 1, n)
  BY <1>1, <1>3, LenProperties
<1> QED
  BY <1>2, <1>3, <1>4 DEF ToSet

LEMMA EntriesCount ==
  ASSUME NEW l \in Seq(Entry), Distinct(l), NEW b \in Nat, b <= Len(l)
  PROVE  IsFiniteSet({l[q].node : q \in 1 .. b}) /\ Cardinality({l[q].node : q \in 1 .. b}) = b
<1> DEFINE P == {l[q].node : q \in 1 .. b}
           f == [q \in 1 .. b |-> l[q].node]
<1>1. 1 .. b \subseteq DOMAIN l
  BY LenProperties
<1>2. IsFiniteSet(1 .. b) /\ Cardinality(1 .. b) = b
  BY UpTo
<1>3. f \in [1 .. b -> P] /\ (\A m \in P : \E q \in 1 .. b : f[q] = m) /\ \A q, r \in 1 .. b : f[q] = f[r] => q = r
  BY <1>1 DEF Distinct
<1> HIDE DEF f, P
<1>4. f \in Surjection(1 .. b, P) /\ f \in Injection(1 .. b, P)
  BY <1>3 DEF Surjection, Injection, IsInjective
<1>5. IsFiniteSet(P) /\ Cardinality(P) = b
  BY <1>2, <1>4, FS_Surjection
<1> QED
  BY <1>5 DEF P

(* What entry i has before it in the list: m, as long without an answer    *)
(* and without a ping as it takes, and no friend nor wanted.               *)
WaitsBefore(list, i, friends, wanted, floor, m) ==
  /\ m \in Nodes /\ m \notin friends \cup wanted /\ floor[m] = Cycle
  /\ \E j \in DOMAIN list : j < i /\ list[j].node = m /\ list[j].seen >= Cycle

LEMMA PlanSpares ==
  ASSUME NEW list \in Seq(Entry), Distinct(list), NEW friends, NEW wanted, NEW members \in SUBSET Nodes, NEW floor,
         NEW i \in DOMAIN list, list[i].node \in members \ friends, list[i].seen >= Cycle, floor[list[i].node] = Cycle,
         list[i].node \notin NodesOf(Plan(list, friends, wanted, members, floor))
  PROVE  \E P \in SUBSET NodesOf(Plan(list, friends, wanted, members, floor)) :
           /\ IsFiniteSet(P) /\ Cardinality(P) = FloorBudget(Len(list))
           /\ \A m \in P : WaitsBefore(list, i, friends, wanted, floor, m)
<1> DEFINE all == NodesOf(Plan(list, friends, wanted, members, floor))
           B == FloorBudget(Len(list))
<1>1. PICK R \in SUBSET all :
        /\ \A j \in DOMAIN list : list[j].node \in wanted \ friends => list[j].node \in R
        /\ NodesOf(First(B, Only(list, Quiet(list, members \ friends, R, floor)))) \subseteq all
  BY PlanIs
<1> DEFINE Q == Quiet(list, members \ friends, R, floor)
           o == Only(list, Q)
<1>2. Q \in SUBSET DOMAIN list /\ i \in Q
  <2>1. list[i].node \notin R
    BY <1>1
  <2> QED
    BY <2>1 DEF Quiet
<1>3. \A j \in Q : /\ list[j].node \in Nodes /\ list[j].node \notin friends \cup wanted
                   /\ floor[list[j].node] = Cycle /\ list[j].seen >= Cycle
  <2>1. \A j \in DOMAIN list : list[j] \in Entry
    BY LenProperties
  <2>2. \A j \in DOMAIN list : list[j].node \in Nodes
    BY <2>1 DEF Entry
  <2> QED
    BY <1>1, <2>2 DEF Quiet
<1> HIDE DEF Q
<1>4. /\ o \in Seq(Entry) /\ ToSet(o) = {list[j] : j \in Q}
      /\ \A p, q \in DOMAIN o : p # q => \E j, k \in Q : j # k /\ o[p] = list[j] /\ o[q] = list[k]
      /\ \A p, q \in DOMAIN o : p < q => \E j, k \in Q : j < k /\ o[p] = list[j] /\ o[q] = list[k]
  BY <1>2, OnlyIs, OnlyOrder
<1> HIDE DEF o, all, B
<1>5. B \in Nat /\ DOMAIN o = 1 .. Len(o) /\ Len(o) \in Nat
  BY <1>4, FloorBudgetIs, LenProperties DEF B
<1>6. PICK p \in DOMAIN o : o[p] = list[i]
  BY <1>2, <1>4 DEF ToSet
<1>7. \A q \in DOMAIN o : q <= B => o[q].node \in all
  <2>1. \A q \in DOMAIN o : q <= B => o[q] \in ToSet(First(B, o))
    BY <1>4, <1>5, FirstAre
  <2> QED
    BY <1>1, <2>1 DEF NodesOf, o, Q
<1>8. B < p
  <2>1. ~(p <= B)
    BY <1>6, <1>7 DEF all
  <2> QED
    BY <1>5, <2>1
<1> DEFINE P == {o[q].node : q \in 1 .. B}
<1>9. 1 .. B \subseteq DOMAIN o /\ B <= Len(o)
  BY <1>5, <1>8
<1>10. Distinct(o)
  <2> SUFFICES ASSUME NEW q \in DOMAIN o, NEW r \in DOMAIN o, q # r
               PROVE  o[q].node # o[r].node
    BY DEF Distinct
  <2>1. PICK j, k \in Q : j # k /\ o[q] = list[j] /\ o[r] = list[k]
    BY <1>4
  <2> QED
    BY <1>2, <2>1 DEF Distinct
<1>11. IsFiniteSet(P) /\ Cardinality(P) = B
  BY <1>4, <1>5, <1>9, <1>10, EntriesCount
<1>12. ASSUME NEW m \in P
       PROVE  m \in all /\ WaitsBefore(list, i, friends, wanted, floor, m)
  <2>1. PICK q \in 1 .. B : m = o[q].node
    OBVIOUS
  <2>2. q \in DOMAIN o /\ q < p /\ q <= B
    BY <1>5, <1>8, <1>9
  <2>3. PICK j, k \in Q : j < k /\ o[q] = list[j] /\ o[p] = list[k]
    BY <1>4, <2>2
  <2>4. k = i
    BY <1>2, <1>6, <2>3 DEF Distinct
  <2> QED
    BY <1>2, <1>3, <1>7, <2>1, <2>2, <2>3, <2>4 DEF WaitsBefore
<1> HIDE DEF P
<1>13. P \in SUBSET all
  BY <1>12
<1> QED
  BY <1>11, <1>12, <1>13 DEF all, B

(***************************************************************************)
(* The margin.  What the sweep has read stays good to its end: the list    *)
(* has every kept catalog that is not fresh, in the rotation's order and   *)
(* no younger than its row; a kept member's row has its place; the friends *)
(* have answered; a floor ping that was answered has left its mark.        *)
(***************************************************************************)
Counted == held \in [Nodes -> 0 .. Cycle + 1] /\ listed \in [size : Nat, calm : 0 .. Cycle]
Placed  == Sorted(rot) /\ \A n \in Nodes : row[n].tried => n \in InRotation

Kept ==
  \A n \in Nodes : held[n] > 0 =>
    /\ n \in Members \cap InRotation
    /\ round.pc = "retain" => n \in round.members /\ n \in NodesOf(round.list)

Current ==
  round.pc = "retain" =>
    /\ \A n \in InRotation : row[n].seen = 0 \/ n \in NodesOf(round.list)
    /\ \A i \in DOMAIN round.list : row[round.list[i].node].seen <= round.list[i].seen
    /\ \A i, j \in DOMAIN round.list : Ahead(rot, round.list[i].node, round.list[j].node) => i < j

Greeted ==
  /\ round.pc \in {"retain", "ask"} => \A n \in round.friends \ Dead : row[n].seen = 0
  /\ round.pc = "ask" => \A s \in ToSet(round.todo) : s.op = "friend" => s.node \in round.friends
Answered ==
  /\ \A n \in Dead : row[n].sync = Cycle
  /\ \A n \in Nodes \ Dead : row[n].floor < Cycle => row[n].seen <= row[n].floor

SideInv == Counted /\ Placed /\ Kept /\ Current /\ Greeted /\ Answered

LEMMA Types ==
  ASSUME RoundInv
  PROVE  /\ InRotation \subseteq Nodes /\ Dead \subseteq Nodes /\ row \in [Nodes -> Row]
         /\ rot \in Seq(Nodes) /\ IsInjective(rot)
         /\ \A n \in Nodes : /\ row[n] \in Row /\ row[n].tried \in BOOLEAN /\ row[n].sync \in 0 .. Cycle
                             /\ row[n].seen \in Nat /\ row[n].seen <= Window + 1 /\ row[n].floor \in 0 .. Cycle
         /\ \A m, n : Ahead(rot, m, n) => m \in InRotation /\ n \in InRotation /\ m # n
<1>1. Dead \subseteq Nodes
  BY DiscoveryAssumption
<1>2. row \in [Nodes -> Row] /\ rot \in Seq(Nodes) /\ IsInjective(rot)
  BY DEF RoundInv, StoreTypes
<1>3. InRotation \subseteq Nodes /\ \A m, n : Ahead(rot, m, n) => m \in InRotation /\ n \in InRotation
  BY <1>2 DEF InRotation, ToSet, Ahead
<1>4. \A m, n : Ahead(rot, m, n) => m # n
  <2> SUFFICES ASSUME NEW m, NEW n, Ahead(rot, m, n), m = n PROVE FALSE
    OBVIOUS
  <2>1. PICK i, j \in DOMAIN rot : i < j /\ rot[i] = m /\ rot[j] = n
    BY DEF Ahead
  <2>2. i = j /\ i \in Nat /\ j \in Nat
    BY <1>2, <2>1, LenProperties DEF IsInjective
  <2> QED
    BY <2>1, <2>2
<1>5. ASSUME NEW n \in Nodes
      PROVE  /\ row[n] \in Row /\ row[n].tried \in BOOLEAN /\ row[n].sync \in 0 .. Cycle
             /\ row[n].seen \in Nat /\ row[n].seen <= Window + 1 /\ row[n].floor \in 0 .. Cycle
  BY <1>2, Bounds DEF Row
<1> QED
  BY <1>1, <1>2, <1>3, <1>4, <1>5

LEMMA InitSideInv == InitDiscovery => SideInv
<1> SUFFICES ASSUME InitDiscovery PROVE SideInv
  OBVIOUS
<1>1. /\ rot = <<>> /\ row = [n \in Nodes |-> Never] /\ round.pc = "idle"
      /\ held = [n \in Nodes |-> 0] /\ listed = [size |-> 0, calm |-> 0]
  BY DEF InitDiscovery, Idle
<1>2. Counted
  BY <1>1, Bounds DEF Counted
<1>3. Placed
  BY <1>1 DEF Placed, Sorted, Ahead, Never
<1>4. Kept /\ Current /\ Greeted
  BY <1>1 DEF Kept, Current, Greeted
<1>5. Answered
  BY <1>1, Bounds, DiscoveryAssumption DEF Answered, Never
<1> QED
  BY <1>2, <1>3, <1>4, <1>5 DEF SideInv

(* What the three actions that touch the order or a row say of them.       *)
LEMMA RetainList ==
  ASSUME RoundInv, Retain
  PROVE  \E evicted \in Evictions, list \in Seq(Entry) :
           /\ pull' = {} /\ UNCHANGED <<trust, reached>>
           /\ row' = [n \in Nodes |-> IF n \in Gone(evicted) THEN Dropped(n) ELSE row[n]]
           /\ rot' = EnsureAll(Only(rot, {i \in DOMAIN rot : rot[i] \notin Gone(evicted)}), pull)
           /\ ToSet(rot') = (InRotation \ Gone(evicted)) \cup pull
           /\ Gone(evicted) \cap round.decided = {}
           /\ held' = [n \in Nodes |-> IF n \in Gone(evicted) THEN 0 ELSE held[n]]
           /\ \/ /\ list = Only(round.list, {i \in DOMAIN round.list : round.list[i].node \notin Gone(evicted)})
                 /\ pull = {}
              \/ list = Listing(rot', row') /\ pull # {}
           /\ Distinct(list)
           /\ listed' = [size |-> Len(list), calm |-> IF Len(list) < listed.size THEN 0 ELSE listed.calm]
           /\ round' = [pc |-> "ask", friends |-> round.friends,
                        todo |-> Plan(list, round.friends, pull, round.members, [n \in Nodes |-> row'[n].floor])]
<1>0. round.pc = "retain"
  BY DEF Retain
<1>1. PICK evicted \in Evictions :
           /\ pull' = {} /\ UNCHANGED <<trust, reached>>
           /\ row' = [n \in Nodes |-> IF n \in Gone(evicted) THEN Dropped(n) ELSE row[n]]
           /\ rot' = EnsureAll(Only(rot, {i \in DOMAIN rot : rot[i] \notin Gone(evicted)}), pull)
           /\ held' = [n \in Nodes |-> IF n \in Gone(evicted) THEN 0 ELSE held[n]]
           /\ \E list :
                /\ \/ /\ list = Only(round.list, {i \in DOMAIN round.list : round.list[i].node \notin Gone(evicted)})
                      /\ pull = {}
                   \/ list = Listing(rot', row') /\ pull # {}
                /\ listed' = [size |-> Len(list), calm |-> IF Len(list) < listed.size THEN 0 ELSE listed.calm]
                /\ round' = [pc |-> "ask", friends |-> round.friends,
                             todo |-> Plan(list, round.friends, pull, round.members, [n \in Nodes |-> row'[n].floor])]
  BY RetainIs, Zenon
<1>2. PICK list :
        /\ \/ /\ list = Only(round.list, {i \in DOMAIN round.list : round.list[i].node \notin Gone(evicted)})
              /\ pull = {}
           \/ list = Listing(rot', row') /\ pull # {}
        /\ listed' = [size |-> Len(list), calm |-> IF Len(list) < listed.size THEN 0 ELSE listed.calm]
        /\ round' = [pc |-> "ask", friends |-> round.friends,
                     todo |-> Plan(list, round.friends, pull, round.members, [n \in Nodes |-> row'[n].floor])]
  BY <1>1
<1>3. StoreTypes' /\ ToSet(rot') = (InRotation \ Gone(evicted)) \cup pull /\ Gone(evicted) \cap round.decided = {}
  BY <1>0, <1>1, Retained
<1>4. list \in Seq(Entry) /\ Distinct(list)
  <2>1. CASE list = Only(round.list, {i \in DOMAIN round.list : round.list[i].node \notin Gone(evicted)})
    <3> DEFINE I == {i \in DOMAIN round.list : round.list[i].node \notin Gone(evicted)}
    <3>1. I \in SUBSET DOMAIN round.list /\ round.list \in Seq(Entry) /\ Distinct(round.list) /\ list = Only(round.list, I)
      BY <1>0, <2>1 DEF RoundInv, Rounds, Read
    <3> HIDE DEF I
    <3>2. list \in Seq(Entry) /\ \A p, q \in DOMAIN list :
                                   p # q => \E i, j \in I : i # j /\ list[p] = round.list[i] /\ list[q] = round.list[j]
      BY <3>1, OnlyIs
    <3> QED
      BY <3>1, <3>2 DEF Distinct
  <2>2. CASE list = Listing(rot', row')
    <3>1. rot' \in Seq(Nodes) /\ IsInjective(rot') /\ row' \in [Nodes -> Row]
      BY <1>3 DEF StoreTypes
    <3> QED
      BY <2>2, <3>1, ListingIs
  <2> QED
    BY <1>2, <2>1, <2>2
<1> QED
  BY <1>1, <1>2, <1>3, <1>4

LEMMA PullIs ==
  ASSUME RoundInv, Pull
  PROVE  \E n \in Nodes, op \in {"friend", "pull"} :
           /\ round \in [pc : {"ask"}, friends : SUBSET Nodes, todo : Seq(Item)] /\ round.todo # <<>>
           /\ round' = [round EXCEPT !.todo = Tail(@)]
           /\ Head(round.todo) = [op |-> op, node |-> n]
           /\ rot' = Attempted(rot, n)
           /\ \A m \in Nodes : m # n => row'[m] = row[m]
           /\ row'[n].tried = TRUE /\ row'[n].floor = row[n].floor /\ row'[n].seen \in {0, row[n].seen}
           /\ n \notin Dead /\ op = "pull" => row'[n].seen = 0
           /\ n \in Dead => row'[n].sync = row[n].sync
           /\ UNCHANGED <<trust, reached, pull, held, listed, moves>>
<1> DEFINE n == Head(round.todo).node
           op == Head(round.todo).op
           serves == n \notin Dead \cup Refusing
           heard == serves \/ (op = "pull" /\ n \notin Dead)
<1>1. /\ round.pc = "ask" /\ round.todo # <<>> /\ op # "ping" /\ rot' = Attempted(rot, n)
      /\ row' = [row EXCEPT ![n].tried = TRUE, ![n].sync = IF serves THEN 0 ELSE @, ![n].seen = IF heard THEN 0 ELSE @]
      /\ round' = [round EXCEPT !.todo = Tail(@)] /\ UNCHANGED <<trust, reached, pull, held, listed, moves>>
  BY DEF Pull
<1>2. round \in [pc : {"ask"}, friends : SUBSET Nodes, todo : Seq(Item)]
  BY <1>1 DEF RoundInv, Rounds
<1>3. Head(round.todo) \in Item
  BY <1>1, <1>2, HeadTailProperties
<1>4. n \in Nodes /\ op \in {"friend", "pull"} /\ Head(round.todo) = [op |-> op, node |-> n]
  BY <1>1, <1>3 DEF Item
<1> HIDE DEF n, op
<1>5. /\ \A m \in Nodes : m # n => row'[m] = row[m]
      /\ row'[n] = [row[n] EXCEPT !.tried = TRUE, !.sync = IF serves THEN 0 ELSE @, !.seen = IF heard THEN 0 ELSE @]
  BY <1>1, <1>4, Types
<1>6. row[n] \in Row
  BY <1>4, Types
<1>7. /\ row'[n].tried = TRUE /\ row'[n].floor = row[n].floor
      /\ row'[n].seen = (IF heard THEN 0 ELSE row[n].seen) /\ row'[n].sync = (IF serves THEN 0 ELSE row[n].sync)
  BY <1>5, <1>6 DEF Row
<1> QED
  BY <1>1, <1>2, <1>4, <1>5, <1>7, ZenonT(60)

LEMMA FloorPingIs ==
  ASSUME RoundInv, FloorPing
  PROVE  \E n \in Nodes :
           /\ round \in [pc : {"ask"}, friends : SUBSET Nodes, todo : Seq(Item)] /\ round.todo # <<>>
           /\ round' = [round EXCEPT !.todo = Tail(@)]
           /\ Head(round.todo) = [op |-> "ping", node |-> n]
           /\ \A m \in Nodes : m # n => row'[m] = row[m]
           /\ row'[n].tried = row[n].tried /\ row'[n].sync = row[n].sync /\ row'[n].floor = 0
           /\ row'[n].seen = IF n \in Dead THEN row[n].seen ELSE 0
           /\ UNCHANGED <<trust, reached, rot, pull, held, listed, moves>>
<1> DEFINE n == Head(round.todo).node
<1>1. /\ round.pc = "ask" /\ round.todo # <<>> /\ Head(round.todo).op = "ping"
      /\ row' = [row EXCEPT ![n].floor = 0, ![n].seen = IF n \in Dead THEN @ ELSE 0]
      /\ round' = [round EXCEPT !.todo = Tail(@)] /\ UNCHANGED <<trust, reached, rot, pull, held, listed, moves>>
  BY DEF FloorPing
<1>2. round \in [pc : {"ask"}, friends : SUBSET Nodes, todo : Seq(Item)]
  BY <1>1 DEF RoundInv, Rounds
<1>3. Head(round.todo) \in Item
  BY <1>1, <1>2, HeadTailProperties
<1>4. n \in Nodes /\ Head(round.todo) = [op |-> "ping", node |-> n]
  BY <1>1, <1>3 DEF Item
<1> HIDE DEF n
<1>5. /\ \A m \in Nodes : m # n => row'[m] = row[m]
      /\ row'[n] = [row[n] EXCEPT !.floor = 0, !.seen = IF n \in Dead THEN @ ELSE 0]
  BY <1>1, <1>4, Types
<1>6. row[n] \in Row
  BY <1>4, Types
<1>7. /\ row'[n].tried = row[n].tried /\ row'[n].sync = row[n].sync /\ row'[n].floor = 0
      /\ row'[n].seen = IF n \in Dead THEN row[n].seen ELSE 0
  BY <1>5, <1>6 DEF Row
<1> QED
  BY <1>1, <1>2, <1>4, <1>5, <1>7

LEMMA TickIs ==
  ASSUME RoundInv, Tick
  PROVE  /\ round.pc = "idle" /\ round' = [pc |-> "peers"] /\ UNCHANGED <<trust, reached, rot, pull>>
         /\ held' = [n \in Nodes |-> IF n \in Members \cap InRotation THEN Older(held[n], Cycle + 1) ELSE 0]
         /\ listed' = [listed EXCEPT !.calm = Older(@, Cycle)]
         /\ \A n \in Nodes : /\ row'[n].tried = row[n].tried
                             /\ row'[n].sync = Older(row[n].sync, Cycle)
                             /\ row'[n].seen = Older(row[n].seen, Window + 1)
                             /\ row'[n].floor = Older(row[n].floor, Cycle)
<1>1. row' = [n \in Nodes |-> [row[n] EXCEPT !.sync = Older(@, Cycle), !.seen = Older(@, Window + 1),
                                             !.floor = Older(@, Cycle)]]
  BY DEF Tick
<1>2. ASSUME NEW n \in Nodes
      PROVE  /\ row'[n].tried = row[n].tried /\ row'[n].sync = Older(row[n].sync, Cycle)
             /\ row'[n].seen = Older(row[n].seen, Window + 1) /\ row'[n].floor = Older(row[n].floor, Cycle)
  <2>1. row[n] \in [tried : BOOLEAN, sync : 0 .. Cycle, seen : 0 .. Window + 1, floor : 0 .. Cycle]
    BY Types DEF Row
  <2>2. row'[n] = [row[n] EXCEPT !.sync = Older(@, Cycle), !.seen = Older(@, Window + 1), !.floor = Older(@, Cycle)]
    BY <1>1
  <2> QED
    BY <2>1, <2>2
<1> QED
  BY <1>2 DEF Tick

(* Who comes in passes nobody that was there, and stands ahead of those    *)
(* that were asked.                                                        *)
LEMMA EnteredOrder ==
  ASSUME RoundInv, Placed, NEW S \in SUBSET Nodes, NEW r, r = EnsureAll(rot, S) \/ r = rot,
         NEW m, NEW n, Ahead(r, m, n)
  PROVE  /\ m \in S \ InRotation \/ n \in S \ InRotation \/ Ahead(rot, m, n)
         /\ row[m].tried => row[n].tried
<1>1. Sorted(rot) /\ \A x \in Nodes : row[x].tried => x \in InRotation
  BY DEF Placed
<1>2. CASE r = rot
  BY <1>1, <1>2 DEF Sorted
<1>3. CASE r = EnsureAll(rot, S)
  <2>1. rot \in Seq(Nodes) /\ IsInjective(rot) /\ InRotation = ToSet(rot) /\ InRotation \subseteq Nodes
    BY Types DEF InRotation
  <2>2. Ahead(EnsureAll(rot, S), m, n)
    BY <1>3
  <2>3. /\ m \in S \ ToSet(rot) \/ n \in S \ ToSet(rot) \/ Ahead(rot, m, n)
        /\ m \in ToSet(rot) /\ row[m].tried => n \in ToSet(rot) /\ row[n].tried
    BY <1>1, <2>1, <2>2, EnsureOrder
  <2>4. m \in InRotation \cup S
    <3>1. ToSet(EnsureAll(rot, S)) = ToSet(rot) \cup S
      BY <2>1, EnsureAllIs
    <3> QED
      BY <2>1, <2>2, <3>1 DEF Ahead, ToSet
  <2> QED
    BY <1>1, <2>1, <2>3, <2>4
<1> QED
  BY <1>2, <1>3

LEMMA AnnouncedIs ==
  ASSUME RoundInv, NEW n \in Nodes, Announced(n)
  PROVE  /\ n \in Members \ Dead /\ (rot' = EnsureAll(rot, {n}) \/ rot' = rot) /\ InRotation' = InRotation \cup {n}
         /\ \A m \in Nodes : m # n => row'[m] = row[m]
         /\ row'[n].tried = row[n].tried /\ row'[n].sync = row[n].sync /\ row'[n].floor = row[n].floor
         /\ row'[n].seen = 0
         /\ UNCHANGED <<trust, reached, pull, round, held, listed, moves>>
<1>1. /\ rot' = EnsureIn(rot, n) /\ row' = [row EXCEPT ![n].seen = 0] /\ n \in Members \ Dead
      /\ UNCHANGED <<trust, reached, pull, round, held, listed, moves>>
  BY DEF Announced
<1>3. /\ \A m \in Nodes : m # n => row'[m] = row[m]
      /\ row'[n] = [row[n] EXCEPT !.seen = 0]
  BY <1>1, Types
<1>4. row[n] \in Row
  BY Types
<1>5. /\ row'[n].tried = row[n].tried /\ row'[n].sync = row[n].sync /\ row'[n].floor = row[n].floor
      /\ row'[n].seen = 0
  BY <1>3, <1>4 DEF Row
<1>6. (rot' = EnsureAll(rot, {n}) \/ rot' = rot) /\ InRotation' = InRotation \cup {n}
  <2>1. rot \in Seq(Nodes) /\ IsInjective(rot)
    BY Types
  <2>2. CASE n \in ToSet(rot)
    BY <1>1, <2>2 DEF EnsureIn, InRotation
  <2>3. CASE n \notin ToSet(rot)
    <3>1. rot' = EnsureAll(rot, {n}) /\ ToSet(rot') = ToSet(rot) \cup {n}
      BY <1>1, <2>1, <2>3, EnsureAllIs DEF EnsureIn
    <3> QED
      BY <3>1 DEF InRotation
  <2> QED
    BY <2>2, <2>3
<1> QED
  BY <1>1, <1>3, <1>5, <1>6

LEMMA HintIs ==
  ASSUME RoundInv, NEW n \in Nodes, NEW age \in 0 .. Cycle, Hint(n, age)
  PROVE  /\ n \in InRotation
         /\ \A m \in Nodes : m # n => row'[m] = row[m]
         /\ row'[n].tried = row[n].tried /\ row'[n].sync = row[n].sync /\ row'[n].floor = row[n].floor
         /\ row'[n].seen = age /\ age < row[n].seen /\ age \in Nat
         /\ UNCHANGED <<trust, reached, rot, pull, round, held, listed, moves>>
<1>1. /\ row' = [row EXCEPT ![n].seen = age] /\ age < row[n].seen /\ n \in InRotation
      /\ UNCHANGED <<trust, reached, rot, pull, round, held, listed, moves>>
  BY DEF Hint
<1>2. \A m \in Nodes : m # n => row'[m] = row[m]
  BY <1>1, Types
<1>3. row[n] \in Row /\ row'[n] = [row[n] EXCEPT !.seen = age]
  BY <1>1, Types
<1>4. /\ row'[n].tried = row[n].tried /\ row'[n].sync = row[n].sync /\ row'[n].floor = row[n].floor
      /\ row'[n].seen = age
  BY <1>3 DEF Row
<1> QED
  BY <1>1, <1>2, <1>4, Bounds

LEMMA DecideIs ==
  ASSUME RoundInv, NEW n \in Nodes, Decide(n)
  PROVE  /\ \A m \in Nodes : row'[m] = row[m] \/ (m = n /\ n \notin InRotation /\ row'[m] = Never)
         /\ \E t \in {"none", "friend", "blocked"} :
              /\ trust' = [trust EXCEPT ![n] = t]
              /\ held' = [held EXCEPT ![n] = IF t = "blocked" \/ (t = "none" /\ n \notin reached) THEN 0 ELSE @]
         /\ UNCHANGED <<reached, rot, pull, round, listed>>
<1>1. PICK t \in {"none", "friend", "blocked"} :
        /\ trust' = [trust EXCEPT ![n] = t]
        /\ row' = IF t = "none" /\ n \notin InRotation THEN [row EXCEPT ![n] = Never] ELSE row
        /\ held' = [held EXCEPT ![n] = IF t = "blocked" \/ (t = "none" /\ n \notin reached) THEN 0 ELSE @]
  BY DEF Decide
<1>2. \A m \in Nodes : row'[m] = row[m] \/ (m = n /\ n \notin InRotation /\ row'[m] = Never)
  BY <1>1, Types
<1>3. UNCHANGED <<reached, rot, pull, round, listed>>
  BY DEF Decide
<1> QED
  BY <1>1, <1>2, <1>3

LEMMA ListSourcesIs ==
  ASSUME RoundInv, ListSources
  PROVE  /\ round.pc = "list" /\ round.friends \in SUBSET Nodes /\ rot' = EnsureAll(rot, round.friends)
         /\ rot' \in Seq(Nodes) /\ IsInjective(rot') /\ InRotation' = InRotation \cup round.friends
         /\ \A n \in Nodes : /\ row'[n].tried = row[n].tried /\ row'[n].sync = row[n].sync
                             /\ row'[n].floor = row[n].floor
                             /\ row'[n].seen = IF n \in round.friends \ Dead THEN 0 ELSE row[n].seen
         /\ round' = [pc |-> "retain", friends |-> round.friends, decided |-> round.decided, members |-> Members,
                      list |-> Listing(rot', row')]
         /\ row' \in [Nodes -> Row] /\ UNCHANGED <<trust, reached, pull, held, listed, moves>>
<1>1. /\ round.pc = "list" /\ UNCHANGED <<trust, reached, pull, held, listed, moves>>
      /\ row' = [n \in Nodes |-> IF n \in round.friends \ Dead THEN [row[n] EXCEPT !.seen = 0] ELSE row[n]]
      /\ rot' = EnsureAll(rot, round.friends)
      /\ round' = [pc |-> "retain", friends |-> round.friends, decided |-> round.decided, members |-> Members,
                   list |-> Listing(rot', row')]
  BY DEF ListSources
<1>2. round.friends \in SUBSET Nodes
  BY <1>1 DEF RoundInv, Rounds
<1>3. rot' \in Seq(Nodes) /\ IsInjective(rot') /\ InRotation' = InRotation \cup round.friends
  BY <1>1, <1>2, EnsureAllIs, Types DEF InRotation
<1>4. ASSUME NEW n \in Nodes
      PROVE  /\ row'[n].tried = row[n].tried /\ row'[n].sync = row[n].sync /\ row'[n].floor = row[n].floor
             /\ row'[n].seen = IF n \in round.friends \ Dead THEN 0 ELSE row[n].seen
  <2>1. row[n] \in Row
    BY Types
  <2>2. row'[n] = IF n \in round.friends \ Dead THEN [row[n] EXCEPT !.seen = 0] ELSE row[n]
    BY <1>1
  <2> QED
    BY <2>1, <2>2 DEF Row
<1>5. row' \in [Nodes -> Row]
  <2>1. 0 \in 0 .. Window + 1
    BY Bounds
  <2> QED
    BY <1>1, <2>1, Types DEF Row
<1> QED
  BY <1>1, <1>2, <1>3, <1>4, <1>5

(* Nor does retention change the order of those it keeps.                  *)
LEMMA KeptOrder ==
  ASSUME RoundInv, Placed, NEW G, NEW m, NEW n,
         Ahead(EnsureAll(Only(rot, {i \in DOMAIN rot : rot[i] \notin G}), pull), m, n)
  PROVE  /\ \/ m \in pull \ (InRotation \ G) \/ n \in pull \ (InRotation \ G)
            \/ Ahead(rot, m, n)
         /\ m \in InRotation \ G /\ row[m].tried => n \in InRotation \ G /\ row[n].tried
<1> DEFINE I == {i \in DOMAIN rot : rot[i] \notin G}
           kept == Only(rot, I)
<1>1. /\ I \in SUBSET DOMAIN rot /\ rot \in Seq(Nodes) /\ IsInjective(rot) /\ pull \in SUBSET Nodes
      /\ {rot[i] : i \in I} = InRotation \ G
  BY Types DEF RoundInv, StoreTypes, InRotation, ToSet
<1>2. Ahead(EnsureAll(kept, pull), m, n)
  OBVIOUS
<1> HIDE DEF I
<1>3. /\ kept \in Seq(Nodes) /\ IsInjective(kept) /\ ToSet(kept) = InRotation \ G
      /\ \A x, y : Ahead(kept, x, y) => Ahead(rot, x, y)
  BY <1>1, OnlyIs, AheadOfOnly
<1>4. Sorted(kept)
  BY <1>3 DEF Placed, Sorted
<1> HIDE DEF kept
<1>5. /\ m \in pull \ ToSet(kept) \/ n \in pull \ ToSet(kept) \/ Ahead(kept, m, n)
      /\ m \in ToSet(kept) /\ row[m].tried => n \in ToSet(kept) /\ row[n].tried
  BY <1>1, <1>2, <1>3, <1>4, EnsureOrder, SMTT(60)
<1> QED
  BY <1>3, <1>5

LEMMA CountedStep ==
  ASSUME RoundInv, Counted, DiscoveryNext
  PROVE  Counted'
<1>1. CASE Tick
  <2>1. /\ held' = [n \in Nodes |-> IF n \in Members \cap InRotation THEN Older(held[n], Cycle + 1) ELSE 0]
        /\ listed' = [listed EXCEPT !.calm = Older(@, Cycle)]
    BY <1>1, TickIs
  <2>2. \A top \in Nat : 0 \in 0 .. top /\ \A a \in 0 .. top : Older(a, top) \in 0 .. top
    BY DEF Older
  <2>3. Cycle \in Nat /\ Cycle + 1 \in Nat
    BY Bounds
  <2>4. held' \in [Nodes -> 0 .. Cycle + 1]
    BY <2>1, <2>2, <2>3 DEF Counted
  <2>5. listed' \in [size : Nat, calm : 0 .. Cycle]
    BY <2>1, <2>2, <2>3 DEF Counted
  <2> QED
    BY <2>4, <2>5 DEF Counted
<1>2. CASE Retain
  <2>1. PICK evicted \in Evictions, list \in Seq(Entry) :
          /\ held' = [n \in Nodes |-> IF n \in Gone(evicted) THEN 0 ELSE held[n]]
          /\ listed' = [size |-> Len(list), calm |-> IF Len(list) < listed.size THEN 0 ELSE listed.calm]
    BY <1>2, RetainList
  <2>2. Len(list) \in Nat /\ 0 \in 0 .. Cycle /\ 0 \in 0 .. Cycle + 1
    BY LenProperties, Bounds
  <2> QED
    BY <2>1, <2>2 DEF Counted
<1>3. CASE \E n \in Nodes : Decide(n) \/ GraphMoves(n)
  <2>1. PICK n \in Nodes : Decide(n) \/ GraphMoves(n)
    BY <1>3
  <2>2. PICK h \in {0, held[n]} : held' = [held EXCEPT ![n] = h] /\ listed' = listed
    BY <2>1 DEF Decide, GraphMoves
  <2>3. 0 \in 0 .. Cycle + 1
    BY Bounds
  <2> QED
    BY <2>2, <2>3 DEF Counted
<1>4. CASE UNCHANGED <<held, listed>>
  BY <1>4 DEF Counted
<1> QED
  BY <1>1, <1>2, <1>3, <1>4
  DEF DiscoveryNext, Sweep, Nudged, ReadPeers, ListSources, Pull, FloorPing, RoundEnd, Announced, Hint, PullFrom

LEMMA PlacedStep ==
  ASSUME RoundInv, Placed, DiscoveryNext
  PROVE  Placed'
<1>0. Sorted(rot) /\ \A n \in Nodes : row[n].tried => n \in InRotation
  BY DEF Placed
<1>1. ASSUME rot' = rot, \A n \in Nodes : row'[n].tried = row[n].tried \/ (n \notin InRotation /\ row'[n].tried = FALSE)
      PROVE  Placed'
  <2>1. InRotation' = InRotation
    BY <1>1 DEF InRotation
  <2>2. \A n \in Nodes : row'[n].tried => n \in InRotation'
    BY <1>0, <1>1, <2>1
  <2>3. ASSUME NEW m, NEW n, Ahead(rot', m, n), row'[m].tried
        PROVE  row'[n].tried
    <3>1. Ahead(rot, m, n)
      BY <1>1, <2>3
    <3>2. m \in InRotation /\ n \in InRotation /\ m \in Nodes /\ n \in Nodes
      BY <3>1, Types
    <3> QED
      BY <1>0, <1>1, <2>3, <3>1, <3>2 DEF Sorted
  <2> QED
    BY <2>2, <2>3 DEF Placed, Sorted
<1>2. ASSUME NEW S \in SUBSET Nodes, rot' = EnsureAll(rot, S) \/ rot' = rot, InRotation \subseteq InRotation',
             InRotation' \subseteq Nodes, \A n \in Nodes : row'[n].tried = row[n].tried
      PROVE  Placed'
  <2>1. \A n \in Nodes : row'[n].tried => n \in InRotation'
    BY <1>0, <1>2
  <2>2. ASSUME NEW m, NEW n, Ahead(rot', m, n), row'[m].tried
        PROVE  row'[n].tried
    <3>1. m \in Nodes /\ n \in Nodes
      BY <1>2, <2>2 DEF Ahead, InRotation, ToSet
    <3>2. row[m].tried => row[n].tried
      BY <1>2, <2>2, EnteredOrder
    <3> QED
      BY <1>2, <2>2, <3>1, <3>2
  <2> QED
    BY <2>1, <2>2 DEF Placed, Sorted
<1>3. CASE Tick
  BY <1>1, <1>3, TickIs
<1>4. CASE ListSources
  <2>1. /\ round.friends \in SUBSET Nodes /\ rot' = EnsureAll(rot, round.friends)
        /\ InRotation' = InRotation \cup round.friends /\ \A n \in Nodes : row'[n].tried = row[n].tried
    BY <1>4, ListSourcesIs
  <2> QED
    BY <1>2, <2>1, Types
<1>5. CASE Retain
  <2>1. PICK evicted \in Evictions :
          /\ row' = [n \in Nodes |-> IF n \in Gone(evicted) THEN Dropped(n) ELSE row[n]]
          /\ rot' = EnsureAll(Only(rot, {i \in DOMAIN rot : rot[i] \notin Gone(evicted)}), pull)
          /\ ToSet(rot') = (InRotation \ Gone(evicted)) \cup pull
    BY <1>5, RetainList
  <2>2. \A n \in Nodes : row'[n].tried => n \notin Gone(evicted) /\ row[n].tried
    <3>1. \A n \in Nodes : ~Dropped(n).tried
      BY DEF Dropped, Never
    <3> QED
      BY <2>1, <3>1
  <2>3. \A n \in Nodes : row'[n].tried => n \in InRotation'
    BY <1>0, <2>1, <2>2 DEF InRotation
  <2>4. ASSUME NEW m, NEW n, Ahead(rot', m, n), row'[m].tried
        PROVE  row'[n].tried
    <3>1. m \in InRotation \ Gone(evicted) /\ row[m].tried => n \in InRotation \ Gone(evicted) /\ row[n].tried
      BY <2>1, <2>4, KeptOrder
    <3>2. m \in Nodes /\ n \in Nodes
      <4>1. ToSet(rot') \subseteq Nodes
        BY <2>1, Types DEF RoundInv, StoreTypes
      <4> QED
        BY <2>4, <4>1 DEF Ahead, ToSet
    <3>3. m \in InRotation \ Gone(evicted) /\ row[m].tried
      BY <1>0, <2>2, <2>4, <3>2
    <3> QED
      BY <2>1, <3>1, <3>2, <3>3
  <2> QED
    BY <2>3, <2>4 DEF Placed, Sorted
<1>6. CASE Pull
  <2>1. PICK x \in Nodes : /\ rot' = Attempted(rot, x) /\ row'[x].tried = TRUE
                           /\ \A m \in Nodes : m # x => row'[m] = row[m]
    BY <1>6, PullIs
  <2>2. InRotation' = InRotation \cup {x} /\ InRotation' \subseteq Nodes
    BY <2>1, AttemptedIs, Types DEF InRotation
  <2>3. \A n \in Nodes : row'[n].tried => n \in InRotation'
    BY <1>0, <2>1, <2>2
  <2>4. ASSUME NEW m, NEW n, Ahead(rot', m, n), row'[m].tried
        PROVE  row'[n].tried
    <3>1. m \in Nodes /\ n \in Nodes
      BY <2>2, <2>4 DEF Ahead, InRotation, ToSet
    <3>2. m # x /\ (n # x => Ahead(rot, m, n))
      BY <2>1, <2>4, AttemptedOrder, Types
    <3> QED
      BY <1>0, <2>1, <2>4, <3>1, <3>2 DEF Sorted
  <2> QED
    BY <2>3, <2>4 DEF Placed, Sorted
<1>7. CASE FloorPing
  <2>1. PICK x \in Nodes : rot' = rot /\ row'[x].tried = row[x].tried /\ \A m \in Nodes : m # x => row'[m] = row[m]
    BY <1>7, FloorPingIs
  <2> QED
    BY <1>1, <2>1
<1>8. CASE \E n \in Nodes : Announced(n)
  <2>1. PICK n \in Nodes : Announced(n)
    BY <1>8
  <2>2. /\ rot' = EnsureAll(rot, {n}) \/ rot' = rot
        /\ InRotation' = InRotation \cup {n} /\ \A m \in Nodes : row'[m].tried = row[m].tried
    BY <2>1, AnnouncedIs
  <2>3. {n} \in SUBSET Nodes /\ InRotation \subseteq InRotation' /\ InRotation' \subseteq Nodes
    BY <2>2, Types
  <2> QED
    BY <1>2, <2>2, <2>3
<1>9. CASE \E n \in Nodes, age \in 0 .. Cycle : Hint(n, age)
  <2>1. PICK n \in Nodes : rot' = rot /\ \A m \in Nodes : row'[m].tried = row[m].tried
    BY <1>9, HintIs
  <2> QED
    BY <1>1, <2>1
<1>10. CASE \E n \in Nodes : Decide(n)
  <2>1. PICK n \in Nodes : rot' = rot /\ \A m \in Nodes : row'[m] = row[m] \/ (m \notin InRotation /\ row'[m] = Never)
    BY <1>10, DecideIs
  <2>2. Never.tried = FALSE
    BY DEF Never
  <2>3. \A m \in Nodes : row'[m].tried = row[m].tried \/ (m \notin InRotation /\ row'[m].tried = FALSE)
    BY <2>1, <2>2
  <2> QED
    BY <1>1, <2>1, <2>3
<1>11. CASE UNCHANGED <<rot, row>>
  BY <1>1, <1>11
<1> QED
  BY <1>3, <1>4, <1>5, <1>6, <1>7, <1>8, <1>9, <1>10, <1>11
  DEF DiscoveryNext, Sweep, Nudged, ReadPeers, RoundEnd, PullFrom, GraphMoves

LEMMA KeptStep ==
  ASSUME RoundInv, Counted, Kept, DiscoveryNext
  PROVE  Kept'
<1>0. \A n \in Nodes : held[n] \in Nat
  BY Bounds DEF Counted
<1>1. ASSUME UNCHANGED <<trust, reached, held>>, InRotation \subseteq InRotation', round'.pc # "retain" \/ round' = round
      PROVE  Kept'
  <2>1. Members' = Members
    BY <1>1 DEF Members, TrustedAs
  <2> QED
    BY <1>1, <2>1 DEF Kept
<1>2. ASSUME UNCHANGED <<trust, reached, rot, row, pull, held>>, round'.pc # "retain"
      PROVE  Kept'
  BY <1>1, <1>2 DEF InRotation
<1>3. CASE Tick
  <2>1. /\ held' = [n \in Nodes |-> IF n \in Members \cap InRotation THEN Older(held[n], Cycle + 1) ELSE 0]
        /\ UNCHANGED <<trust, reached, rot>> /\ round'.pc = "peers"
    BY <1>3, TickIs
  <2>2. Members' = Members /\ InRotation' = InRotation
    BY <2>1 DEF Members, TrustedAs, InRotation
  <2> QED
    BY <2>1, <2>2 DEF Kept
<1>4. CASE Nudged \/ ReadPeers \/ RoundEnd
  <2>1. UNCHANGED <<trust, reached, rot, row, pull, held>> /\ round'.pc \in {"peers", "list", "idle"}
    BY <1>4 DEF Nudged, ReadPeers, RoundEnd, Idle
  <2> QED
    BY <1>2, <2>1
<1>5. CASE ListSources
  <2>1. /\ rot' \in Seq(Nodes) /\ IsInjective(rot') /\ InRotation' = InRotation \cup round.friends
        /\ round' = [pc |-> "retain", friends |-> round.friends, decided |-> round.decided, members |-> Members,
                     list |-> Listing(rot', row')]
        /\ row' \in [Nodes -> Row] /\ UNCHANGED <<trust, reached, held>>
    BY <1>5, ListSourcesIs
  <2>2. Members' = Members
    BY <2>1 DEF Members, TrustedAs
  <2>3. NodesOf(Listing(rot', row')) = InRotation'
    BY <2>1, ListingIs DEF InRotation
  <2>4. round'.members = Members /\ round'.list = Listing(rot', row')
    BY <2>1
  <2> QED
    BY <2>1, <2>2, <2>3, <2>4 DEF Kept
<1>6. CASE Retain
  <2>1. PICK evicted \in Evictions, list \in Seq(Entry) :
          /\ UNCHANGED <<trust, reached>> /\ ToSet(rot') = (InRotation \ Gone(evicted)) \cup pull
          /\ held' = [n \in Nodes |-> IF n \in Gone(evicted) THEN 0 ELSE held[n]]
          /\ round' = [pc |-> "ask", friends |-> round.friends,
                       todo |-> Plan(list, round.friends, pull, round.members, [n \in Nodes |-> row'[n].floor])]
    BY <1>6, RetainList
  <2>2. Members' = Members /\ InRotation' = (InRotation \ Gone(evicted)) \cup pull
    BY <2>1 DEF Members, TrustedAs, InRotation
  <2>3. round'.pc = "ask"
    BY <2>1
  <2> QED
    BY <2>1, <2>2, <2>3 DEF Kept
<1>7. CASE Pull
  <2>1. PICK n \in Nodes : /\ rot' = Attempted(rot, n) /\ UNCHANGED <<trust, reached, held>>
                           /\ round \in [pc : {"ask"}, friends : SUBSET Nodes, todo : Seq(Item)]
                           /\ round' = [round EXCEPT !.todo = Tail(@)]
    BY <1>7, PullIs
  <2>2. InRotation \subseteq InRotation' /\ round'.pc = "ask"
    BY <2>1, AttemptedIs, Types DEF InRotation
  <2> QED
    BY <1>1, <2>1, <2>2
<1>8. CASE FloorPing
  <2>1. PICK n \in Nodes : /\ UNCHANGED <<trust, reached, rot, held>>
                           /\ round \in [pc : {"ask"}, friends : SUBSET Nodes, todo : Seq(Item)]
                           /\ round' = [round EXCEPT !.todo = Tail(@)]
    BY <1>8, FloorPingIs
  <2>2. InRotation \subseteq InRotation' /\ round'.pc = "ask"
    BY <2>1 DEF InRotation
  <2> QED
    BY <1>1, <2>1, <2>2
<1>9. CASE \E n \in Nodes : Announced(n)
  <2>1. InRotation \subseteq InRotation' /\ UNCHANGED <<trust, reached, held, round>>
    BY <1>9, AnnouncedIs
  <2> QED
    BY <1>1, <2>1
<1>10. CASE \E n \in Nodes : PullFrom(n) \/ \E age \in 0 .. Cycle : Hint(n, age)
  <2>1. UNCHANGED <<trust, reached, rot, held, round>>
    BY <1>10 DEF PullFrom, Hint
  <2> QED
    BY <1>1, <2>1 DEF InRotation
<1>11. CASE \E n \in Nodes : Decide(n)
  <2>1. PICK n \in Nodes, t \in {"none", "friend", "blocked"} :
          /\ trust' = [trust EXCEPT ![n] = t]
          /\ held' = [held EXCEPT ![n] = IF t = "blocked" \/ (t = "none" /\ n \notin reached) THEN 0 ELSE @]
          /\ UNCHANGED <<reached, rot, round>>
    BY <1>11, DecideIs
  <2>2. InRotation' = InRotation /\ trust \in [Nodes -> {"none", "friend", "blocked"}] /\ held \in [Nodes -> 0 .. Cycle + 1]
    BY <2>1 DEF InRotation, RoundInv, StoreTypes, Counted
  <2>3. \A m \in Nodes : held'[m] > 0 => held[m] > 0
    BY <2>1, <2>2
  <2>4. ASSUME NEW m \in Nodes, held'[m] > 0, m \in Members
        PROVE  m \in Members'
    <3>1. CASE m = n
      <4>1. t = "friend" \/ (t = "none" /\ n \in reached)
        BY <2>1, <2>2, <2>4, <3>1
      <4> QED
        BY <2>1, <2>2, <3>1, <4>1 DEF Members, TrustedAs
    <3>2. CASE m # n
      <4>1. trust'[m] = trust[m]
        BY <2>1, <2>2, <3>2
      <4> QED
        BY <2>1, <2>4, <4>1 DEF Members, TrustedAs
    <3> QED
      BY <3>1, <3>2
  <2> QED
    BY <2>1, <2>2, <2>3, <2>4 DEF Kept
<1>12. CASE \E n \in Nodes : GraphMoves(n)
  <2>1. PICK n \in Nodes :
          /\ reached' = IF n \in reached THEN reached \ {n} ELSE reached \cup {n}
          /\ held' = [held EXCEPT ![n] = IF n \in reached /\ trust[n] # "friend" THEN 0 ELSE @]
          /\ UNCHANGED <<trust, rot, row, pull, round, listed>>
    BY <1>12 DEF GraphMoves
  <2>2. InRotation' = InRotation /\ held \in [Nodes -> 0 .. Cycle + 1]
    BY <2>1 DEF InRotation, Counted
  <2>3. \A m \in Nodes : held'[m] > 0 => held[m] > 0
    BY <2>1, <2>2
  <2>4. ASSUME NEW m \in Nodes, held'[m] > 0, m \in Members
        PROVE  m \in Members'
    <3>1. CASE m = n /\ n \in reached
      <4>1. trust[n] = "friend"
        BY <2>1, <2>2, <2>4, <3>1
      <4> QED
        BY <2>1, <3>1, <4>1 DEF Members, TrustedAs
    <3>2. CASE ~(m = n /\ n \in reached)
      BY <2>1, <2>4, <3>2 DEF Members, TrustedAs
    <3> QED
      BY <3>1, <3>2
  <2> QED
    BY <2>1, <2>2, <2>3, <2>4 DEF Kept
<1> QED
  BY <1>3, <1>4, <1>5, <1>6, <1>7, <1>8, <1>9, <1>10, <1>11, <1>12 DEF DiscoveryNext, Sweep

LEMMA CurrentStep ==
  ASSUME RoundInv, Placed, Current, DiscoveryNext
  PROVE  Current'
<1>1. ASSUME round'.pc # "retain"
      PROVE  Current'
  BY <1>1 DEF Current
<1>2. ASSUME round' = round, round.pc = "retain", InRotation' \subseteq InRotation \cup {n \in Nodes : row'[n].seen = 0},
             \A m, n \in InRotation : Ahead(rot', m, n) => Ahead(rot, m, n),
             \A n \in InRotation : row'[n].seen <= row[n].seen /\ row'[n].seen \in Nat
      PROVE  Current'
  <2>1. /\ \A n \in InRotation : row[n].seen = 0 \/ n \in NodesOf(round.list)
        /\ \A i \in DOMAIN round.list : row[round.list[i].node].seen <= round.list[i].seen
        /\ \A i, j \in DOMAIN round.list : Ahead(rot, round.list[i].node, round.list[j].node) => i < j
    BY <1>2 DEF Current
  <2>2. /\ round.list \in Seq(Entry) /\ \A i \in DOMAIN round.list : round.list[i].node \in InRotation
    BY <1>2 DEF RoundInv, Rounds, Read, NodesOf, ToSet
  <2>3. \A n \in InRotation' : row'[n].seen = 0 \/ n \in NodesOf(round.list)
    <3> SUFFICES ASSUME NEW n \in InRotation', n \in InRotation, row[n].seen = 0
                 PROVE  row'[n].seen = 0
      BY <1>2, <2>1
    <3>1. row'[n].seen <= 0 /\ row'[n].seen \in Nat
      BY <1>2
    <3> QED
      BY <3>1
  <2>4. ASSUME NEW i \in DOMAIN round.list
        PROVE  row'[round.list[i].node].seen <= round.list[i].seen
    <3> DEFINE n == round.list[i].node
    <3>1. n \in InRotation /\ n \in Nodes
      BY <2>2, Types
    <3>2. round.list[i].seen \in Nat
      <4>1. round.list[i] \in Entry
        BY <2>2, LenProperties
      <4> QED
        BY <4>1, Bounds DEF Entry
    <3>3. row[n].seen <= round.list[i].seen
      BY <2>1
    <3> HIDE DEF n
    <3>4. row[n].seen \in Nat /\ row'[n].seen \in Nat /\ row'[n].seen <= row[n].seen
      BY <1>2, <3>1, Types
    <3>5. row'[n].seen <= round.list[i].seen
      BY <3>2, <3>3, <3>4
    <3> QED
      BY <3>5 DEF n
  <2>5. \A i, j \in DOMAIN round.list : Ahead(rot', round.list[i].node, round.list[j].node) => i < j
    BY <1>2, <2>1, <2>2
  <2> QED
    BY <1>2, <2>3, <2>4, <2>5 DEF Current
<1>3. CASE ListSources
  <2> DEFINE l == Listing(rot', row')
  <2>1. /\ rot' \in Seq(Nodes) /\ IsInjective(rot') /\ row' \in [Nodes -> Row]
        /\ round' = [pc |-> "retain", friends |-> round.friends, decided |-> round.decided, members |-> Members, list |-> l]
    BY <1>3, ListSourcesIs
  <2>2. /\ DOMAIN l = DOMAIN rot' /\ NodesOf(l) = ToSet(rot')
        /\ \A i \in DOMAIN l : l[i].node = rot'[i] /\ l[i].seen = row'[rot'[i]].seen
    BY <2>1, ListingIs DEF Listing
  <2> HIDE DEF l
  <2>3. \A i \in DOMAIN l : row'[l[i].node].seen <= l[i].seen
    <3> SUFFICES ASSUME NEW i \in DOMAIN l
                 PROVE  row'[l[i].node].seen <= l[i].seen
      OBVIOUS
    <3>1. rot'[i] \in Nodes
      BY <2>1, <2>2, LenProperties
    <3>2. row'[rot'[i]] \in Row
      BY <2>1, <3>1
    <3>3. row'[rot'[i]].seen \in Nat
      BY <3>2, Bounds DEF Row
    <3> QED
      BY <2>2, <3>3
  <2>4. ASSUME NEW i \in DOMAIN l, NEW j \in DOMAIN l, Ahead(rot', l[i].node, l[j].node)
        PROVE  i < j
    <3>1. PICK p, q \in DOMAIN rot' : p < q /\ rot'[p] = rot'[i] /\ rot'[q] = rot'[j]
      BY <2>2, <2>4 DEF Ahead
    <3> QED
      BY <2>1, <2>2, <3>1 DEF IsInjective
  <2>5. round'.pc = "retain" /\ round'.list = l
    BY <2>1
  <2>6. InRotation' = ToSet(rot')
    BY DEF InRotation
  <2> QED
    BY <2>2, <2>3, <2>4, <2>5, <2>6 DEF Current
<1>4. CASE \E n \in Nodes : Announced(n)
  <2>1. PICK n \in Nodes : Announced(n)
    BY <1>4
  <2>2. /\ rot' = EnsureAll(rot, {n}) \/ rot' = rot
        /\ InRotation' = InRotation \cup {n} /\ \A m \in Nodes : m # n => row'[m] = row[m]
        /\ row'[n].seen = 0 /\ round' = round
    BY <2>1, AnnouncedIs
  <2>3. \A x, y \in InRotation : Ahead(rot', x, y) => Ahead(rot, x, y)
    <3>1. {n} \in SUBSET Nodes
      OBVIOUS
    <3> QED
      BY <2>2, <3>1, EnteredOrder
  <2>4. \A m \in InRotation : row'[m].seen <= row[m].seen /\ row'[m].seen \in Nat
    <3> SUFFICES ASSUME NEW m \in InRotation
                 PROVE  row'[m].seen <= row[m].seen /\ row'[m].seen \in Nat
      OBVIOUS
    <3>1. m \in Nodes /\ row[m].seen \in Nat
      BY Types
    <3> QED
      BY <2>2, <3>1
  <2> QED
    BY <1>1, <1>2, <2>2, <2>3, <2>4
<1>5. CASE \E n \in Nodes, age \in 0 .. Cycle : Hint(n, age)
  <2>1. PICK n \in Nodes, age \in 0 .. Cycle : Hint(n, age)
    BY <1>5
  <2>2. /\ \A m \in Nodes : m # n => row'[m] = row[m]
        /\ row'[n].seen = age /\ age < row[n].seen /\ age \in Nat /\ rot' = rot /\ round' = round
    BY <2>1, HintIs
  <2>3. \A m \in InRotation : row'[m].seen <= row[m].seen /\ row'[m].seen \in Nat
    <3> SUFFICES ASSUME NEW m \in InRotation
                 PROVE  row'[m].seen <= row[m].seen /\ row'[m].seen \in Nat
      OBVIOUS
    <3>1. m \in Nodes /\ row[m].seen \in Nat
      BY Types
    <3> QED
      BY <2>2, <3>1
  <2> QED
    BY <1>1, <1>2, <2>2, <2>3 DEF InRotation
<1>6. CASE \E n \in Nodes : PullFrom(n) \/ Decide(n) \/ GraphMoves(n)
  <2>1. /\ rot' = rot /\ round' = round /\ \A m \in InRotation : row'[m] = row[m]
    <3>1. CASE \E n \in Nodes : Decide(n)
      <4>1. PICK n \in Nodes : /\ \A m \in Nodes : row'[m] = row[m] \/ (m \notin InRotation /\ row'[m] = Never)
                               /\ rot' = rot /\ round' = round
        BY <3>1, DecideIs
      <4> QED
        BY <4>1, Types
    <3>2. CASE \E n \in Nodes : PullFrom(n) \/ GraphMoves(n)
      BY <3>2 DEF PullFrom, GraphMoves
    <3> QED
      BY <1>6, <3>1, <3>2
  <2>2. \A m \in InRotation : row'[m].seen <= row[m].seen /\ row'[m].seen \in Nat
    <3> SUFFICES ASSUME NEW m \in InRotation
                 PROVE  row'[m].seen <= row[m].seen /\ row'[m].seen \in Nat
      OBVIOUS
    <3>1. m \in Nodes /\ row[m].seen \in Nat
      BY Types
    <3> QED
      BY <2>1, <3>1
  <2> QED
    BY <1>1, <1>2, <2>1, <2>2 DEF InRotation
<1>7. CASE Tick \/ Nudged \/ ReadPeers \/ RoundEnd
  <2>1. Tick \/ Nudged => round' = [pc |-> "peers"]
    BY DEF Tick, Nudged
  <2>2. ReadPeers \/ RoundEnd => round'.pc \in {"list", "idle"}
    BY DEF ReadPeers, RoundEnd, Idle
  <2> QED
    BY <1>1, <1>7, <2>1, <2>2
<1>8. CASE Retain
  <2>1. PICK evicted \in Evictions, list \in Seq(Entry) :
          round' = [pc |-> "ask", friends |-> round.friends,
                    todo |-> Plan(list, round.friends, pull, round.members, [n \in Nodes |-> row'[n].floor])]
    BY <1>8, RetainList
  <2>2. round'.pc = "ask"
    BY <2>1
  <2> QED
    BY <1>1, <2>2
<1>9. CASE Pull \/ FloorPing
  <2>1. /\ round \in [pc : {"ask"}, friends : SUBSET Nodes, todo : Seq(Item)]
        /\ round' = [round EXCEPT !.todo = Tail(@)]
    BY <1>9, PullIs, FloorPingIs
  <2>2. round'.pc = "ask"
    BY <2>1
  <2> QED
    BY <1>1, <2>2
<1> QED
  BY <1>3, <1>4, <1>5, <1>6, <1>7, <1>8, <1>9 DEF DiscoveryNext, Sweep

LEMMA GreetedStep ==
  ASSUME RoundInv, Greeted, DiscoveryNext
  PROVE  Greeted'
<1>1. ASSUME round'.pc \notin {"retain", "ask"}
      PROVE  Greeted'
  BY <1>1 DEF Greeted
<1>2. ASSUME round' = round, \A n \in InRotation : row[n].seen = 0 => row'[n].seen = 0
      PROVE  Greeted'
  <2>1. round.pc \in {"retain", "ask"} => round.friends \subseteq InRotation
    BY DEF RoundInv, Friendly
  <2> QED
    BY <1>2, <2>1 DEF Greeted
<1>3. CASE Tick \/ Nudged \/ ReadPeers \/ RoundEnd
  <2>1. Tick \/ Nudged => round' = [pc |-> "peers"]
    BY DEF Tick, Nudged
  <2>2. ReadPeers \/ RoundEnd => round'.pc \in {"list", "idle"}
    BY DEF ReadPeers, RoundEnd, Idle
  <2> QED
    BY <1>1, <1>3, <2>1, <2>2
<1>4. CASE ListSources
  <2>1. /\ round.friends \in SUBSET Nodes
        /\ \A n \in Nodes : row'[n].seen = IF n \in round.friends \ Dead THEN 0 ELSE row[n].seen
        /\ round' = [pc |-> "retain", friends |-> round.friends, decided |-> round.decided, members |-> Members,
                     list |-> Listing(rot', row')]
    BY <1>4, ListSourcesIs
  <2>2. round'.pc = "retain" /\ round'.friends = round.friends
    BY <2>1
  <2> QED
    BY <2>1, <2>2 DEF Greeted
<1>5. CASE Retain
  <2>1. PICK evicted \in Evictions, list \in Seq(Entry) :
          /\ row' = [n \in Nodes |-> IF n \in Gone(evicted) THEN Dropped(n) ELSE row[n]]
          /\ Gone(evicted) \cap round.decided = {}
          /\ round' = [pc |-> "ask", friends |-> round.friends,
                       todo |-> Plan(list, round.friends, pull, round.members, [n \in Nodes |-> row'[n].floor])]
    BY <1>5, RetainList
  <2>2. /\ round.pc = "retain" /\ round.friends \subseteq round.decided /\ round.friends \subseteq Nodes
        /\ round.members \in SUBSET Nodes
    BY <1>5 DEF Retain, RoundInv, Rounds, Friendly
  <2> DEFINE todo == Plan(list, round.friends, pull, round.members, [n \in Nodes |-> row'[n].floor])
  <2>3. \A s \in ToSet(todo) : s.op = "friend" => s.node \in round.friends
    BY <2>2, PlanIs
  <2>4. round'.pc = "ask" /\ round'.friends = round.friends /\ round'.todo = todo
    BY <2>1
  <2> HIDE DEF todo
  <2>5. \A n \in round.friends : row'[n] = row[n]
    BY <2>1, <2>2
  <2> QED
    BY <2>2, <2>3, <2>4, <2>5 DEF Greeted
<1>6. CASE Pull \/ FloorPing
  <2>1. PICK n \in Nodes :
          /\ round \in [pc : {"ask"}, friends : SUBSET Nodes, todo : Seq(Item)] /\ round.todo # <<>>
          /\ round' = [round EXCEPT !.todo = Tail(@)]
          /\ \A m \in Nodes : m # n => row'[m] = row[m]
          /\ row'[n].seen \in {0, row[n].seen}
    <3>1. CASE Pull
      BY <3>1, PullIs
    <3>2. CASE FloorPing
      BY <3>2, FloorPingIs
    <3> QED
      BY <1>6, <3>1, <3>2
  <2>2. /\ round.pc = "ask" /\ round'.pc = "ask" /\ round'.friends = round.friends /\ round'.todo = Tail(round.todo)
        /\ round.friends \subseteq Nodes /\ round.todo \in Seq(Item)
    BY <2>1
  <2>3. ToSet(Tail(round.todo)) \subseteq ToSet(round.todo)
    <3> DEFINE t == round.todo
    <3>1. t \in Seq(Item) /\ t # <<>>
      BY <2>1, <2>2
    <3> HIDE DEF t
    <3>2. /\ Tail(t) \in Seq(Item) /\ Len(Tail(t)) = Len(t) - 1 /\ Len(t) \in Nat
          /\ \A i \in 1 .. Len(Tail(t)) : Tail(t)[i] = t[i + 1]
      BY <3>1, HeadTailProperties, LenProperties
    <3>3. DOMAIN Tail(t) = 1 .. Len(t) - 1 /\ DOMAIN t = 1 .. Len(t)
      BY <3>1, <3>2, LenProperties
    <3>4. \A i \in 1 .. Len(t) - 1 : i + 1 \in 1 .. Len(t) /\ Tail(t)[i] = t[i + 1]
      BY <3>2
    <3> QED
      BY <3>3, <3>4 DEF ToSet, t
  <2> QED
    BY <2>1, <2>2, <2>3 DEF Greeted
<1>7. CASE \E n \in Nodes : Announced(n)
  <2>1. PICK n \in Nodes : (\A m \in Nodes : m # n => row'[m] = row[m]) /\ row'[n].seen = 0 /\ round' = round
    BY <1>7, AnnouncedIs
  <2> QED
    BY <1>2, <2>1, Types
<1>8. CASE \E n \in Nodes, age \in 0 .. Cycle : Hint(n, age)
  <2>1. PICK n \in Nodes, age \in 0 .. Cycle :
          (\A m \in Nodes : m # n => row'[m] = row[m]) /\ age < row[n].seen /\ age \in Nat /\ round' = round
    BY <1>8, HintIs
  <2>2. row[n].seen # 0
    BY <2>1
  <2> QED
    BY <1>2, <2>1, <2>2, Types
<1>9. CASE \E n \in Nodes : Decide(n)
  <2>1. PICK n \in Nodes : /\ \A m \in Nodes : row'[m] = row[m] \/ (m \notin InRotation /\ row'[m] = Never)
                           /\ round' = round
    BY <1>9, DecideIs
  <2> QED
    BY <1>2, <2>1, Types
<1>10. CASE \E n \in Nodes : PullFrom(n) \/ GraphMoves(n)
  BY <1>2, <1>10 DEF PullFrom, GraphMoves
<1> QED
  BY <1>3, <1>4, <1>5, <1>6, <1>7, <1>8, <1>9, <1>10 DEF DiscoveryNext, Sweep

LEMMA AnsweredStep ==
  ASSUME RoundInv, RoundInv', Answered, DiscoveryNext
  PROVE  Answered'
<1> DEFINE Fine(n) ==
             /\ n \in Dead => row'[n].sync \in {Cycle, row[n].sync}
             /\ \/ row'[n].floor = row[n].floor /\ row'[n].seen <= row[n].seen
                \/ row'[n].floor = Cycle
                \/ n \in Dead \/ row'[n].seen = 0
<1>1. Dead \subseteq Nodes /\ \A n \in Nodes : row[n].seen \in Nat /\ row[n].floor \in 0 .. Cycle /\ row[n].seen <= row[n].seen
  BY Types
<1>2. \A n \in Nodes : row'[n].seen \in Nat /\ row'[n].floor \in 0 .. Cycle
  <2>1. \A n \in Nodes : row'[n] \in Row
    BY DEF RoundInv, StoreTypes
  <2> QED
    BY <2>1, Bounds DEF Row
<1>3. Cycle \in Nat
  BY Bounds
<1>4. ASSUME \A n \in Nodes : Fine(n)
      PROVE  Answered'
  <2>1. \A n \in Dead : row'[n].sync = Cycle
    BY <1>1, <1>4 DEF Answered
  <2>2. ASSUME NEW n \in Nodes \ Dead, row'[n].floor < Cycle
        PROVE  row'[n].seen <= row'[n].floor
    <3>1. CASE row'[n].floor = row[n].floor /\ row'[n].seen <= row[n].seen
      <4>1. row[n].seen <= row[n].floor
        BY <2>2, <3>1 DEF Answered
      <4>2. row'[n].seen \in Int /\ row[n].seen \in Int /\ row[n].floor \in Int
        BY <1>1, <1>2
      <4> QED
        BY <3>1, <4>1, <4>2
    <3>2. CASE row'[n].seen = 0
      BY <1>2, <3>2
    <3>3. row'[n].floor # Cycle
      BY <1>3, <2>2
    <3> QED
      BY <1>4, <3>1, <3>2, <3>3
  <2> QED
    BY <2>1, <2>2 DEF Answered
<1>5. \A n \in Nodes : row'[n] = row[n] => Fine(n)
  BY <1>1
<1>6. \A n \in Nodes : row'[n] = Never => Fine(n)
  BY DEF Never
<1>7. CASE Tick
  <2>1. \A n \in Nodes : /\ row'[n].sync = Older(row[n].sync, Cycle)
                         /\ row'[n].seen = Older(row[n].seen, Window + 1) /\ row'[n].floor = Older(row[n].floor, Cycle)
    BY <1>7, TickIs
  <2>2. \A n \in Dead : row'[n].sync = Cycle
    BY <1>1, <1>3, <2>1 DEF Answered, Older
  <2>3. ASSUME NEW n \in Nodes \ Dead, row'[n].floor < Cycle
        PROVE  row'[n].seen <= row'[n].floor
    <3>1. row[n].seen \in Nat /\ row[n].floor \in Nat /\ Window \in Nat
      BY <1>1, <1>3, Bounds
    <3>2. row[n].floor < Cycle /\ row'[n].floor = row[n].floor + 1
      BY <1>3, <2>1, <2>3, <3>1 DEF Older
    <3>3. row[n].seen <= row[n].floor
      BY <3>2 DEF Answered
    <3>4. row'[n].seen <= row[n].seen + 1
      BY <2>1, <3>1 DEF Older
    <3>5. row'[n].seen \in Nat
      BY <1>2
    <3> QED
      BY <3>1, <3>2, <3>3, <3>4, <3>5
  <2> QED
    BY <2>2, <2>3 DEF Answered
<1>8. CASE ListSources
  <2>1. \A n \in Nodes : /\ row'[n].sync = row[n].sync /\ row'[n].floor = row[n].floor
                         /\ row'[n].seen = IF n \in round.friends \ Dead THEN 0 ELSE row[n].seen
    BY <1>8, ListSourcesIs
  <2> QED
    BY <1>1, <1>4, <2>1
<1>9. CASE Retain
  <2>1. PICK evicted \in Evictions :
          row' = [n \in Nodes |-> IF n \in Gone(evicted) THEN Dropped(n) ELSE row[n]]
    BY <1>9, RetainList
  <2>2. ASSUME NEW n \in Nodes
        PROVE  Fine(n)
    <3>1. row'[n] \in {row[n], Never, [Never EXCEPT !.seen = row[n].seen]}
      BY <2>1 DEF Dropped
    <3>2. CASE row'[n] = [Never EXCEPT !.seen = row[n].seen]
      <4>1. row'[n].floor = Cycle /\ row'[n].sync = Cycle
        BY <3>2 DEF Never
      <4> QED
        BY <1>1, <4>1
    <3> QED
      BY <1>5, <1>6, <3>1, <3>2
  <2> QED
    BY <1>4, <2>2
<1>10. CASE Pull
  <2>1. PICK n \in Nodes : /\ \A m \in Nodes : m # n => row'[m] = row[m]
                           /\ row'[n].floor = row[n].floor /\ row'[n].seen \in {0, row[n].seen}
                           /\ n \in Dead => row'[n].sync = row[n].sync
    BY <1>10, PullIs
  <2>2. Fine(n)
    BY <1>1, <2>1
  <2> QED
    BY <1>4, <1>5, <2>1, <2>2
<1>11. CASE FloorPing
  <2>1. PICK n \in Nodes : /\ \A m \in Nodes : m # n => row'[m] = row[m]
                           /\ row'[n].sync = row[n].sync
                           /\ row'[n].seen = IF n \in Dead THEN row[n].seen ELSE 0
    BY <1>11, FloorPingIs
  <2>2. Fine(n)
    BY <1>1, <2>1
  <2> QED
    BY <1>4, <1>5, <2>1, <2>2
<1>12. CASE \E n \in Nodes : Announced(n)
  <2>1. PICK n \in Nodes : /\ \A m \in Nodes : m # n => row'[m] = row[m]
                           /\ row'[n].sync = row[n].sync /\ row'[n].seen = 0
    BY <1>12, AnnouncedIs
  <2>2. Fine(n)
    BY <1>1, <2>1
  <2> QED
    BY <1>4, <1>5, <2>1, <2>2
<1>13. CASE \E n \in Nodes, age \in 0 .. Cycle : Hint(n, age)
  <2>1. PICK n \in Nodes, age \in 0 .. Cycle :
          /\ \A m \in Nodes : m # n => row'[m] = row[m]
          /\ row'[n].sync = row[n].sync /\ row'[n].floor = row[n].floor
          /\ row'[n].seen = age /\ age < row[n].seen /\ age \in Nat
    BY <1>13, HintIs
  <2>2. row'[n].seen <= row[n].seen
    BY <1>1, <2>1
  <2>3. Fine(n)
    BY <2>1, <2>2
  <2> QED
    BY <1>4, <1>5, <2>1, <2>3
<1>14. CASE \E n \in Nodes : Decide(n)
  <2>1. \A m \in Nodes : row'[m] = row[m] \/ row'[m] = Never
    BY <1>14, DecideIs
  <2> QED
    BY <1>4, <1>5, <1>6, <2>1
<1>15. CASE row' = row
  BY <1>4, <1>5, <1>15
<1> QED
  BY <1>7, <1>8, <1>9, <1>10, <1>11, <1>12, <1>13, <1>14, <1>15
  DEF DiscoveryNext, Sweep, Nudged, ReadPeers, RoundEnd, PullFrom, GraphMoves

LEMMA SideStep ==
  ASSUME RoundInv, SideInv, DiscoveryNext
  PROVE  SideInv'
<1>1. RoundInv'
  BY RoundStep
<1> QED
  BY <1>1, CountedStep, PlacedStep, KeptStep, CurrentStep, GreetedStep, AnsweredStep DEF SideInv

(***************************************************************************)
(* A node quiet for a cycle and k rounds has had k rounds pass over its    *)
(* head in the source list, and each of them gave a full share of pings to *)
(* rows ahead of it: what is left ahead of it gets less by a share a       *)
(* round, of a list that has not got shorter, and a cycle's shares are all *)
(* of the list.                                                            *)
(***************************************************************************)
ToAsk == IF round.pc = "ask" THEN NodesOf(round.todo) ELSE {}

(* Who might get a ping before n does: neither seen nor pinged for k       *)
(* rounds, and not already among those asked in this one.                  *)
Rivals(n, k) ==
  IF round.pc = "retain"
  THEN {m \in Nodes \ round.friends :
          /\ row[m].floor > k
          /\ \E i, j \in DOMAIN round.list : /\ i < j /\ round.list[i].node = m /\ round.list[j].node = n
                                             /\ round.list[i].seen > k}
  ELSE {m \in Nodes \ ToAsk : Ahead(rot, m, n) /\ row[m].seen > k /\ row[m].floor > k}

Turns(k)      == IF round.pc \in {"idle", "ask"} THEN k + 1 ELSE k
Waiting(n, k) == Cycle + k <= row[n].seen /\ held[n] > k /\ listed.calm >= k
Room(n, k)    == Cycle * Cardinality(Rivals(n, k)) + Cycle <= (Cycle - Turns(k)) * listed.size

ShareInv ==
  \A n \in Nodes \ (Dead \cup ToAsk), k \in 0 .. Cycle - 1 : Waiting(n, k) /\ Turns(k) > 0 => Room(n, k)

LEMMA Products ==
  ASSUME NEW a \in Int, NEW b \in Int, NEW c \in Nat, a <= b
  PROVE  a * c \in Int /\ b * c \in Int /\ a * c <= b * c /\ c * a = a * c
OBVIOUS

(* Fewer rivals and no more turns taken: the room stays.                   *)
LEMMA RoomStays ==
  ASSUME NEW c \in Nat, NEW r \in Nat, NEW q \in Nat, NEW t \in Nat, NEW u \in Nat, NEW s \in Nat,
         q <= r, u <= t, c * r + c <= (c - t) * s
  PROVE  c * q + c <= (c - u) * s
<1>1. q * c <= r * c /\ c * q = q * c /\ c * r = r * c
  BY Products
<1>2. (c - t) * s <= (c - u) * s
  <2>1. c - t \in Int /\ c - u \in Int /\ c - t <= c - u
    OBVIOUS
  <2> QED
    BY <2>1, Products
<1> DEFINE x == c * q
           y == c * r
           z == (c - t) * s
           w == (c - u) * s
<1>3. x \in Int /\ y \in Int /\ z \in Int /\ w \in Int
  OBVIOUS
<1>4. x <= y /\ y + c <= z /\ z <= w
  BY <1>1, <1>2
<1> HIDE DEF x, y, z, w
<1>5. x + c <= w
  BY <1>3, <1>4
<1> QED
  BY <1>5 DEF x, w

(* A share more of them asked: one turn more taken.                        *)
LEMMA TurnTaken ==
  ASSUME NEW c \in Nat, NEW r \in Nat, NEW b \in Nat, NEW u \in Nat, NEW k \in Nat, NEW s \in Nat, NEW s2 \in Nat,
         k <= c, r + b <= u, c * u + c <= (c - k) * s, s <= s2, s2 <= c * b
  PROVE  c * r + c <= (c - (k + 1)) * s2
<1>1. (r + b) * c <= u * c /\ c * u = u * c
  BY Products
<1>2. (r + b) * c = c * r + c * b
  OBVIOUS
<1>3. (c - k) * s <= (c - k) * s2
  <2>1. c - k \in Nat
    OBVIOUS
  <2>2. s * (c - k) <= s2 * (c - k) /\ (c - k) * s = s * (c - k)
    BY <2>1, Products
  <2>3. (c - k) * s2 = s2 * (c - k)
    BY <2>1
  <2> QED
    BY <2>2, <2>3
<1>4. (c - (k + 1)) * s2 = (c - k) * s2 - s2
  OBVIOUS
<1> DEFINE x == c * r
           y == c * b
           z == c * u
           v == (c - k) * s
           w == (c - k) * s2
<1>5. x \in Int /\ y \in Int /\ z \in Int /\ v \in Int /\ w \in Int
  OBVIOUS
<1>6. x + y <= z /\ z + c <= v /\ v <= w /\ s2 <= y
  BY <1>1, <1>2, <1>3
<1>7. (c - (k + 1)) * s2 = w - s2
  BY <1>4
<1> HIDE DEF x, y, z, v, w
<1>8. x + c <= w - s2
  BY <1>5, <1>6
<1> QED
  BY <1>7, <1>8 DEF x

LEMMA RivalsAre ==
  ASSUME RoundInv, NEW n, NEW k
  PROVE  Rivals(n, k) \subseteq Nodes /\ IsFiniteSet(Rivals(n, k)) /\ Cardinality(Rivals(n, k)) \in Nat
<1>1. Rivals(n, k) \subseteq Nodes
  BY DEF Rivals
<1> QED
  BY <1>1, Bounds, FS_Subset, FS_CardinalityType

LEMMA RoomKept ==
  ASSUME RoundInv, RoundInv', Counted, ShareInv, NEW n \in Nodes \ (Dead \cup ToAsk),
         NEW k \in 0 .. Cycle - 1, NEW j \in 0 .. Cycle - 1,
         Waiting(n, j), Turns(k)' > 0, Turns(k)' <= Turns(j), Rivals(n, k)' \subseteq Rivals(n, j),
         listed'.size = listed.size
  PROVE  Room(n, k)'
<1>1. Turns(j) \in Nat /\ Turns(k)' \in Nat /\ listed.size \in Nat /\ Cycle \in Nat
  BY Bounds DEF Turns, Counted
<1>2. Room(n, j)
  <2>1. Turns(j) > 0
    BY <1>1
  <2> QED
    BY <2>1 DEF ShareInv
<1>3. IsFiniteSet(Rivals(n, j)) /\ Cardinality(Rivals(n, j)) \in Nat
  BY RivalsAre
<1>4. Cardinality(Rivals(n, k)') \in Nat /\ Cardinality(Rivals(n, k)') <= Cardinality(Rivals(n, j))
  BY <1>3, FS_Subset, FS_CardinalityType
<1> DEFINE q == Cardinality(Rivals(n, k)')
           r == Cardinality(Rivals(n, j))
           u == Turns(k)'
           t == Turns(j)
<1>5. Cycle * r + Cycle <= (Cycle - t) * listed.size
  BY <1>2 DEF Room
<1>6. q \in Nat /\ r \in Nat /\ u \in Nat /\ t \in Nat /\ q <= r /\ u <= t
  BY <1>1, <1>3, <1>4
<1> HIDE DEF q, r, u, t
<1>7. Cycle * q + Cycle <= (Cycle - u) * listed.size
  BY <1>1, <1>5, <1>6, RoomStays
<1> QED
  BY <1>7 DEF Room, q, u

LEMMA AheadIs ==
  ASSUME RoundInv, NEW m, NEW n, Ahead(rot, m, n)
  PROVE  m \in Nodes /\ n \in Nodes /\ m \in InRotation /\ n \in InRotation /\ m # n
BY Types

(* What falls beside the loop makes no one wait longer and brings nobody   *)
(* ahead of one that waits.                                                *)
LEMMA BesideShares ==
  ASSUME RoundInv, RoundInv', SideInv, SideInv', ShareInv, round' = round, listed' = listed,
         \A n \in Nodes : held'[n] > 0 => held'[n] = held[n],
         \A n \in InRotation : row'[n].floor = row[n].floor /\ row'[n].seen <= row[n].seen,
         \A m, n \in Nodes : Ahead(rot', m, n) => Ahead(rot, m, n) \/ row'[m].seen = 0 \/ row'[n].seen = 0
  PROVE  ShareInv'
<1>1. /\ InRotation \subseteq Nodes /\ Cycle \in Nat /\ Cycle > 0
      /\ \A n \in Nodes : held[n] \in Nat /\ row[n].seen \in Nat
      /\ listed.calm \in Nat
  BY Types, Bounds DEF SideInv, Counted
<1>2. \A n \in Nodes : row'[n].seen \in Nat
  <2>1. \A n \in Nodes : row'[n] \in Row
    BY DEF RoundInv, StoreTypes
  <2> QED
    BY <2>1, Bounds DEF Row
<1>3. ToAsk' = ToAsk
  BY DEF ToAsk
<1>4. SUFFICES ASSUME NEW n \in Nodes \ (Dead \cup ToAsk), NEW k \in 0 .. Cycle - 1, Waiting(n, k)', Turns(k)' > 0
               PROVE  Room(n, k)'
  BY <1>3 DEF ShareInv
<1>5. Turns(k)' = Turns(k) /\ Turns(k) \in Nat /\ Turns(k)' <= Turns(k)
  BY DEF Turns
<1>6. held'[n] > k /\ held'[n] = held[n] /\ n \in InRotation
  <2>1. held'[n] > k /\ k >= 0
    BY <1>4 DEF Waiting
  <2>2. held'[n] > 0
    <3>1. held'[n] \in Int
      BY Bounds DEF SideInv, Counted
    <3> QED
      BY <2>1, <3>1
  <2>3. held[n] > 0
    BY <2>2
  <2> QED
    BY <2>1, <2>2, <2>3 DEF SideInv, Kept
<1>7. row'[n].seen <= row[n].seen /\ row'[n].seen > 0 /\ Cycle + k <= row[n].seen
  <2>1. Cycle + k <= row'[n].seen
    BY <1>4 DEF Waiting
  <2>2. row'[n].seen <= row[n].seen
    BY <1>6
  <2> QED
    BY <1>1, <1>2, <2>1, <2>2
<1>8. Waiting(n, k)
  BY <1>4, <1>6, <1>7 DEF Waiting
<1>9. ASSUME NEW m \in Rivals(n, k)'
      PROVE  m \in Rivals(n, k)
  <2>1. CASE round.pc = "retain"
    <3>1. m \in Nodes \ round.friends /\ row'[m].floor > k
      BY <1>9, <2>1 DEF Rivals
    <3>2. PICK i, j \in DOMAIN round.list : /\ i < j /\ round.list[i].node = m /\ round.list[j].node = n
                                            /\ round.list[i].seen > k
      BY <1>9, <2>1 DEF Rivals
    <3>3. m \in InRotation
      BY <2>1, <3>2 DEF RoundInv, Read, NodesOf, ToSet
    <3>4. row[m].floor > k
      BY <3>1, <3>3
    <3> QED
      BY <2>1, <3>1, <3>2, <3>4 DEF Rivals
  <2>2. CASE round.pc # "retain"
    <3>1. m \in Nodes \ ToAsk /\ Ahead(rot', m, n) /\ row'[m].seen > k /\ row'[m].floor > k
      BY <1>3, <1>9, <2>2 DEF Rivals
    <3>2. row'[m].seen # 0 /\ row'[n].seen # 0
      BY <1>2, <1>7, <3>1
    <3>3. Ahead(rot, m, n)
      BY <3>1, <3>2
    <3>4. m \in InRotation
      BY <3>3, AheadIs
    <3>5. row[m].seen > k /\ row[m].floor > k
      <4>1. row'[m].seen <= row[m].seen /\ row'[m].floor = row[m].floor
        BY <3>4
      <4> QED
        BY <1>1, <1>2, <3>1, <4>1
    <3> QED
      BY <2>2, <3>1, <3>3, <3>5 DEF Rivals
  <2> QED
    BY <2>1, <2>2
<1> QED
  BY <1>4, <1>5, <1>8, <1>9, RoomKept DEF SideInv

LEMMA OutsidersShare ==
  ASSUME RoundInv, RoundInv', SideInv, SideInv', ShareInv, NEW n \in Nodes,
         Announced(n) \/ PullFrom(n) \/ Decide(n) \/ GraphMoves(n) \/ \E age \in 0 .. Cycle : Hint(n, age)
  PROVE  ShareInv'
<1>1. held \in [Nodes -> 0 .. Cycle + 1] /\ InRotation \subseteq Nodes /\ \A m \in Nodes : row[m].seen \in Nat
  BY Types DEF SideInv, Counted
<1>2. CASE Announced(n)
  <2>1. /\ rot' = EnsureAll(rot, {n}) \/ rot' = rot
        /\ \A m \in Nodes : m # n => row'[m] = row[m]
        /\ row'[n].floor = row[n].floor /\ row'[n].seen = 0 /\ UNCHANGED <<round, held, listed>>
    BY <1>2, AnnouncedIs
  <2>2. \A x, y \in Nodes : Ahead(rot', x, y) => Ahead(rot, x, y) \/ row'[x].seen = 0 \/ row'[y].seen = 0
    <3>1. {n} \in SUBSET Nodes
      OBVIOUS
    <3>2. \A x, y \in Nodes : Ahead(rot', x, y) => x = n \/ y = n \/ Ahead(rot, x, y)
      BY <2>1, <3>1, EnteredOrder DEF SideInv
    <3> QED
      BY <2>1, <3>2
  <2>3. \A m \in InRotation : row'[m].floor = row[m].floor /\ row'[m].seen <= row[m].seen
    <3> SUFFICES ASSUME NEW m \in InRotation
                 PROVE  row'[m].floor = row[m].floor /\ row'[m].seen <= row[m].seen
      OBVIOUS
    <3>1. m \in Nodes /\ row[m].seen \in Nat /\ row[n].seen \in Nat
      BY <1>1
    <3> QED
      BY <2>1, <3>1
  <2> QED
    BY <2>1, <2>2, <2>3, BesideShares
<1>3. CASE \E age \in 0 .. Cycle : Hint(n, age)
  <2>1. PICK age \in 0 .. Cycle :
          /\ \A m \in Nodes : m # n => row'[m] = row[m]
          /\ row'[n].floor = row[n].floor /\ row'[n].seen = age /\ age < row[n].seen /\ age \in Nat
          /\ UNCHANGED <<rot, round, held, listed>>
    BY <1>3, HintIs
  <2>2. \A m \in InRotation : row'[m].floor = row[m].floor /\ row'[m].seen <= row[m].seen
    <3> SUFFICES ASSUME NEW m \in InRotation
                 PROVE  row'[m].floor = row[m].floor /\ row'[m].seen <= row[m].seen
      OBVIOUS
    <3>1. m \in Nodes /\ row[m].seen \in Nat /\ row[n].seen \in Nat
      BY <1>1
    <3> QED
      BY <2>1, <3>1
  <2> QED
    BY <2>1, <2>2, BesideShares
<1>4. CASE PullFrom(n) \/ Decide(n) \/ GraphMoves(n)
  <2>1. rot' = rot /\ round' = round /\ listed' = listed /\ \A m \in InRotation : row'[m] = row[m]
    <3>1. CASE Decide(n)
      BY <1>1, <3>1, DecideIs
    <3>2. CASE PullFrom(n) \/ GraphMoves(n)
      BY <3>2 DEF PullFrom, GraphMoves
    <3> QED
      BY <1>4, <3>1, <3>2
  <2>2. \A m \in Nodes : held'[m] > 0 => held'[m] = held[m]
    <3>1. held' = held \/ \E h \in {0, held[n]} : held' = [held EXCEPT ![n] = h]
      BY <1>4 DEF PullFrom, Decide, GraphMoves
    <3> QED
      BY <1>1, <3>1
  <2>3. \A m \in InRotation : row'[m].floor = row[m].floor /\ row'[m].seen <= row[m].seen
    BY <1>1, <2>1
  <2> QED
    BY <2>1, <2>2, <2>3, BesideShares
<1> QED
  BY <1>2, <1>3, <1>4

(* A step of the sweep that reads or asks: only the clock's tick brings    *)
(* anybody a round further, and it counts the round.                       *)
LEMMA SweepShares ==
  ASSUME RoundInv, RoundInv', SideInv, SideInv', ShareInv,
         Tick \/ Nudged \/ ReadPeers \/ ListSources \/ Pull \/ FloorPing \/ RoundEnd
  PROVE  ShareInv'
<1> SUFFICES ASSUME NEW n \in Nodes \ (Dead \cup ToAsk'), NEW k \in 0 .. Cycle - 1, Waiting(n, k)', Turns(k)' > 0
             PROVE  Room(n, k)'
  BY DEF ShareInv
<1>1. /\ Cycle \in Nat /\ Cycle > 0 /\ Window \in Nat /\ k \in Nat /\ n \in Nodes /\ n \notin Dead
      /\ \A m \in Nodes : held[m] \in Nat /\ row[m].seen \in Nat /\ row[m].floor \in Nat
      /\ listed \in [size : Nat, calm : 0 .. Cycle]
  BY Types, Bounds, SMTT(60) DEF SideInv, Counted
<1>2. Cycle + k <= row'[n].seen /\ held'[n] > k /\ listed'.calm >= k
  BY DEF Waiting
<1>3. row'[n].seen \in Nat /\ row'[n].seen > 0 /\ held'[n] \in Nat
  <2>1. row'[n] \in Row
    BY DEF RoundInv, StoreTypes
  <2>2. row'[n].seen \in Nat
    BY <2>1, Bounds DEF Row
  <2>3. held'[n] \in Nat
    BY Bounds DEF SideInv, Counted
  <2> QED
    BY <1>1, <1>2, <2>2, <2>3
<1>4. ASSUME UNCHANGED <<rot, row, held, listed>>, ToAsk' = ToAsk, round.pc # "retain", round'.pc # "retain",
             Turns(k)' <= Turns(k)
      PROVE  Room(n, k)'
  <2>1. Rivals(n, k)' \subseteq Rivals(n, k)
    BY <1>4 DEF Rivals
  <2>2. Waiting(n, k)
    BY <1>2, <1>4 DEF Waiting
  <2> QED
    BY <1>4, <2>1, <2>2, RoomKept DEF SideInv
<1>5. CASE Tick
  <2>1. /\ round.pc = "idle" /\ round' = [pc |-> "peers"] /\ rot' = rot
        /\ held' = [m \in Nodes |-> IF m \in Members \cap InRotation THEN Older(held[m], Cycle + 1) ELSE 0]
        /\ listed' = [listed EXCEPT !.calm = Older(@, Cycle)]
        /\ \A m \in Nodes : /\ row'[m].seen = Older(row[m].seen, Window + 1)
                            /\ row'[m].floor = Older(row[m].floor, Cycle)
    BY <1>5, TickIs
  <2> DEFINE j == k - 1
  <2>2. Turns(k)' = k /\ k > 0 /\ j \in 0 .. Cycle - 1 /\ Turns(j) = k /\ j + 1 = k
    <3>1. round'.pc = "peers"
      BY <2>1
    <3>2. Turns(k)' = k
      BY <3>1 DEF Turns
    <3>3. k > 0
      BY <3>2
    <3>4. j \in 0 .. Cycle - 1 /\ j + 1 = k
      BY <1>1, <3>3
    <3> QED
      BY <2>1, <3>2, <3>3, <3>4 DEF Turns
  <2> HIDE DEF j
  <2>3. j \in Nat /\ k = j + 1
    BY <2>2
  <2>4. \A a \in Nat, top \in Nat : Older(a, top) <= a + 1 /\ Older(a, top) \in Nat
    BY DEF Older
  <2>5. Cycle + j <= row[n].seen
    <3>1. row'[n].seen <= row[n].seen + 1
      BY <1>1, <2>1, <2>4
    <3> QED
      BY <1>1, <1>2, <1>3, <2>3, <3>1
  <2>6. held[n] > j
    <3>1. held'[n] <= held[n] + 1
      BY <1>1, <2>1, <2>4
    <3> QED
      BY <1>1, <1>2, <1>3, <2>3, <3>1
  <2>7. listed.calm >= j /\ listed'.size = listed.size
    <3>1. listed'.calm = Older(listed.calm, Cycle) /\ listed'.size = listed.size /\ listed.calm \in Nat
      BY <1>1, <2>1
    <3>2. listed'.calm <= listed.calm + 1 /\ listed'.calm \in Nat
      BY <1>1, <2>4, <3>1
    <3> QED
      BY <1>2, <2>3, <3>1, <3>2
  <2>8. Waiting(n, j)
    BY <2>5, <2>6, <2>7 DEF Waiting
  <2>9. ToAsk = {} /\ ToAsk' = {} /\ round'.pc = "peers"
    BY <2>1 DEF ToAsk
  <2>10. ASSUME NEW m \in Rivals(n, k)'
         PROVE  m \in Rivals(n, j)
    <3>1. m \in Nodes /\ Ahead(rot, m, n) /\ row'[m].seen > k /\ row'[m].floor > k
      BY <2>1, <2>9, <2>10 DEF Rivals
    <3>2. row'[m].seen <= row[m].seen + 1 /\ row'[m].seen \in Nat
      BY <1>1, <2>1, <2>4, <3>1
    <3>3. row'[m].floor <= row[m].floor + 1 /\ row'[m].floor \in Nat
      BY <1>1, <2>1, <2>4, <3>1
    <3>4. row[m].seen > j /\ row[m].floor > j
      <4>1. row[m].seen \in Nat /\ row[m].floor \in Nat
        BY <1>1, <3>1
      <4> QED
        BY <2>3, <3>1, <3>2, <3>3, <4>1
    <3> QED
      BY <2>1, <2>9, <3>1, <3>4 DEF Rivals
  <2>11. Turns(k)' <= Turns(j)
    BY <1>1, <2>2
  <2> QED
    BY <2>2, <2>7, <2>8, <2>9, <2>10, <2>11, RoomKept DEF SideInv
<1>6. CASE Nudged \/ ReadPeers
  <2>1. /\ UNCHANGED <<rot, row, held, listed>> /\ round.pc \in {"idle", "peers"} /\ round'.pc \in {"peers", "list"}
    BY <1>6 DEF Nudged, ReadPeers
  <2>2. ToAsk = {} /\ ToAsk' = {} /\ Turns(k)' <= Turns(k)
    BY <1>1, <2>1 DEF ToAsk, Turns
  <2> QED
    BY <1>4, <2>1, <2>2
<1>7. CASE RoundEnd
  <2>1. /\ UNCHANGED <<rot, row, held, listed>> /\ round.pc = "ask" /\ round'.pc = "idle" /\ round.todo = <<>>
    BY <1>7 DEF RoundEnd, Idle
  <2>2. ToAsk = {} /\ ToAsk' = {} /\ Turns(k)' <= Turns(k)
    BY <1>1, <2>1 DEF ToAsk, Turns, NodesOf, ToSet
  <2> QED
    BY <1>4, <2>1, <2>2
<1>8. CASE ListSources
  <2> DEFINE l == Listing(rot', row')
  <2>1. /\ round.pc = "list" /\ round.friends \in SUBSET Nodes /\ rot' = EnsureAll(rot, round.friends)
        /\ rot' \in Seq(Nodes)
        /\ \A m \in Nodes : /\ row'[m].floor = row[m].floor
                            /\ row'[m].seen = IF m \in round.friends \ Dead THEN 0 ELSE row[m].seen
        /\ round' = [pc |-> "retain", friends |-> round.friends, decided |-> round.decided, members |-> Members,
                     list |-> l]
        /\ UNCHANGED <<held, listed>>
    BY <1>8, ListSourcesIs
  <2>2. DOMAIN l = DOMAIN rot' /\ \A i \in DOMAIN l : l[i].node = rot'[i] /\ l[i].seen = row'[rot'[i]].seen
    BY DEF Listing
  <2> HIDE DEF l
  <2>3. round'.pc = "retain" /\ round'.friends = round.friends /\ round'.list = l /\ ToAsk = {} /\ ToAsk' = {}
    BY <2>1 DEF ToAsk
  <2>4. n \notin round.friends /\ row'[n].seen = row[n].seen
    BY <1>1, <1>3, <2>1
  <2>5. Waiting(n, k) /\ Turns(k)' <= Turns(k)
    BY <1>1, <1>2, <2>1, <2>3, <2>4 DEF Waiting, Turns
  <2>6. ASSUME NEW m \in Rivals(n, k)'
        PROVE  m \in Rivals(n, k)
    <3>1. m \in Nodes \ round.friends /\ row'[m].floor > k
      BY <2>3, <2>6 DEF Rivals
    <3>2. PICK i, j \in DOMAIN l : i < j /\ l[i].node = m /\ l[j].node = n /\ l[i].seen > k
      BY <2>3, <2>6 DEF Rivals
    <3>3. Ahead(rot', m, n) /\ row'[m].seen > k
      BY <2>2, <3>2 DEF Ahead
    <3>4. Ahead(rot, m, n)
      BY <2>1, <2>4, <3>1, <3>3, EnteredOrder DEF SideInv
    <3>5. row[m].seen > k /\ row[m].floor > k
      BY <2>1, <3>1, <3>3
    <3> QED
      BY <2>1, <2>3, <3>1, <3>4, <3>5 DEF Rivals
  <2> QED
    BY <2>1, <2>3, <2>5, <2>6, RoomKept DEF SideInv
<1>9. CASE Pull \/ FloorPing
  <2>1. PICK x \in Nodes :
          /\ round \in [pc : {"ask"}, friends : SUBSET Nodes, todo : Seq(Item)] /\ round.todo # <<>>
          /\ round' = [round EXCEPT !.todo = Tail(@)] /\ Head(round.todo).node = x
          /\ rot' = Attempted(rot, x) \/ (rot' = rot /\ row'[x].floor = 0)
          /\ \A m \in Nodes : m # x => row'[m] = row[m]
          /\ x \in Dead \/ row'[x].seen = 0
          /\ UNCHANGED <<held, listed>>
    <3>1. CASE Pull
      <4>1. PICK x \in Nodes, op \in {"friend", "pull"} :
              /\ round \in [pc : {"ask"}, friends : SUBSET Nodes, todo : Seq(Item)] /\ round.todo # <<>>
              /\ round' = [round EXCEPT !.todo = Tail(@)] /\ Head(round.todo) = [op |-> op, node |-> x]
              /\ rot' = Attempted(rot, x)
              /\ \A m \in Nodes : m # x => row'[m] = row[m]
              /\ row'[x].seen \in {0, row[x].seen}
              /\ x \notin Dead /\ op = "pull" => row'[x].seen = 0
              /\ UNCHANGED <<held, listed>>
        BY <3>1, PullIs
      <4>2. op = "friend" => x \in Dead \/ row[x].seen = 0
        <5>1. Head(round.todo) \in ToSet(round.todo) /\ round.pc = "ask"
          <6>1. round.todo \in Seq(Item) /\ round.todo # <<>> /\ round.pc = "ask"
            BY <4>1
          <6>2. Head(round.todo) = round.todo[1] /\ 1 \in DOMAIN round.todo
            BY <6>1, HeadTailProperties, LenProperties, EmptySeq
          <6> QED
            BY <6>1, <6>2 DEF ToSet
        <5>2. op = "friend" => x \in round.friends
          BY <4>1, <5>1 DEF SideInv, Greeted
        <5> QED
          BY <5>1, <5>2 DEF SideInv, Greeted
      <4>3. x \in Dead \/ row'[x].seen = 0
        BY <4>1, <4>2
      <4> QED
        BY <4>1, <4>3
    <3>2. CASE FloorPing
      <4>1. PICK x \in Nodes :
              /\ round \in [pc : {"ask"}, friends : SUBSET Nodes, todo : Seq(Item)] /\ round.todo # <<>>
              /\ round' = [round EXCEPT !.todo = Tail(@)] /\ Head(round.todo) = [op |-> "ping", node |-> x]
              /\ \A m \in Nodes : m # x => row'[m] = row[m]
              /\ row'[x].floor = 0 /\ row'[x].seen = IF x \in Dead THEN row[x].seen ELSE 0
              /\ UNCHANGED <<rot, held, listed>>
        BY <3>2, FloorPingIs
      <4>2. x \in Dead \/ row'[x].seen = 0
        BY <4>1
      <4> QED
        BY <4>1, <4>2
    <3> QED
      BY <1>9, <3>1, <3>2
  <2>2. round.pc = "ask" /\ round'.pc = "ask" /\ round.todo \in Seq(Item) /\ round'.todo = Tail(round.todo)
    BY <2>1
  <2>3. NodesOf(round.todo) \subseteq NodesOf(Tail(round.todo)) \cup {x}
    <3> DEFINE t == round.todo
    <3>1. t \in Seq(Item) /\ t # <<>> /\ Head(t).node = x
      BY <2>1, <2>2
    <3> HIDE DEF t
    <3>2. /\ Tail(t) \in Seq(Item) /\ Len(Tail(t)) = Len(t) - 1 /\ Len(t) \in Nat /\ Head(t) = t[1]
          /\ \A i \in 1 .. Len(Tail(t)) : Tail(t)[i] = t[i + 1]
      BY <3>1, HeadTailProperties, LenProperties
    <3>3. ASSUME NEW i \in DOMAIN t, i # 1
          PROVE  t[i] \in ToSet(Tail(t))
      <4>1. i \in 1 .. Len(t)
        BY <3>1, LenProperties
      <4>2. i - 1 \in 1 .. Len(Tail(t)) /\ (i - 1) + 1 = i
        BY <3>2, <3>3, <4>1
      <4>3. i - 1 \in DOMAIN Tail(t) /\ Tail(t)[i - 1] = t[i]
        BY <3>2, <4>2, LenProperties
      <4> QED
        BY <4>3 DEF ToSet
    <3>4. \A s \in ToSet(t) : s \in ToSet(Tail(t)) \/ s.node = x
      BY <3>1, <3>2, <3>3 DEF ToSet
    <3> QED
      BY <3>4 DEF NodesOf, t
  <2>4. ToAsk = NodesOf(round.todo) /\ ToAsk' = NodesOf(Tail(round.todo))
    BY <2>2 DEF ToAsk
  <2>5. n # x /\ n \notin ToAsk /\ row'[n] = row[n]
    BY <1>1, <1>3, <2>1, <2>3, <2>4
  <2>6. Waiting(n, k) /\ Turns(k)' <= Turns(k)
    BY <1>1, <1>2, <2>1, <2>2, <2>5 DEF Waiting, Turns
  <2>7. ASSUME NEW m \in Rivals(n, k)'
        PROVE  m \in Rivals(n, k)
    <3>1. m \in Nodes \ ToAsk' /\ Ahead(rot', m, n) /\ row'[m].seen > k /\ row'[m].floor > k
      BY <2>2, <2>7 DEF Rivals
    <3>2. m # x /\ Ahead(rot, m, n)
      <4>1. CASE rot' = Attempted(rot, x)
        BY <2>5, <3>1, <4>1, AttemptedOrder, Types
      <4>2. CASE rot' = rot /\ row'[x].floor = 0
        BY <1>1, <3>1, <4>2
      <4> QED
        BY <2>1, <4>1, <4>2
    <3>3. m \notin ToAsk /\ row'[m] = row[m]
      BY <2>1, <2>3, <2>4, <3>1, <3>2
    <3> QED
      BY <2>2, <3>1, <3>2, <3>3 DEF Rivals
  <2> QED
    BY <2>1, <2>5, <2>6, <2>7, RoomKept DEF SideInv
<1> QED
  BY <1>5, <1>6, <1>7, <1>8, <1>9

(* Retention and the round's plan: whoever waits and is not asked has a    *)
(* full share asked ahead of it.                                           *)
LEMMA RetainShares ==
  ASSUME RoundInv, RoundInv', SideInv, SideInv', ShareInv, Retain
  PROVE  ShareInv'
<1> SUFFICES ASSUME NEW n \in Nodes \ (Dead \cup ToAsk'), NEW k \in 0 .. Cycle - 1, Waiting(n, k)', Turns(k)' > 0
             PROVE  Room(n, k)'
  BY DEF ShareInv
<1>1. PICK evicted \in Evictions, list \in Seq(Entry) :
        /\ row' = [m \in Nodes |-> IF m \in Gone(evicted) THEN Dropped(m) ELSE row[m]]
        /\ rot' = EnsureAll(Only(rot, {i \in DOMAIN rot : rot[i] \notin Gone(evicted)}), pull)
        /\ ToSet(rot') = (InRotation \ Gone(evicted)) \cup pull
        /\ Gone(evicted) \cap round.decided = {}
        /\ held' = [m \in Nodes |-> IF m \in Gone(evicted) THEN 0 ELSE held[m]]
        /\ \/ /\ list = Only(round.list, {i \in DOMAIN round.list : round.list[i].node \notin Gone(evicted)})
              /\ pull = {}
           \/ list = Listing(rot', row') /\ pull # {}
        /\ Distinct(list)
        /\ listed' = [size |-> Len(list), calm |-> IF Len(list) < listed.size THEN 0 ELSE listed.calm]
        /\ round' = [pc |-> "ask", friends |-> round.friends,
                     todo |-> Plan(list, round.friends, pull, round.members, [m \in Nodes |-> row'[m].floor])]
  BY RetainList
<1> DEFINE gone == Gone(evicted)
           friends == round.friends
           floor == [m \in Nodes |-> row'[m].floor]
           todo == Plan(list, friends, pull, round.members, floor)
           asked == NodesOf(todo)
<1>2. /\ round.pc = "retain" /\ friends \in SUBSET Nodes /\ friends \subseteq round.decided
      /\ friends \subseteq InRotation /\ round.members \in SUBSET Nodes /\ round.list \in Seq(Entry)
      /\ Distinct(round.list) /\ NodesOf(round.list) \subseteq InRotation
      /\ \A m \in friends : DueOrCurrent(round.list, m)
  BY DEF Retain, RoundInv, Rounds, Friendly, Read
<1>3. /\ Cycle \in Nat /\ Cycle > 0 /\ Window \in Nat /\ k \in Nat /\ k < Cycle /\ n \in Nodes /\ n \notin Dead
      /\ InRotation \subseteq Nodes /\ pull \subseteq Nodes /\ Dead \subseteq Nodes
      /\ \A m \in Nodes : held[m] \in Nat /\ row[m].seen \in Nat /\ row[m].floor \in 0 .. Cycle
      /\ listed.size \in Nat /\ listed.calm \in Nat /\ Len(list) \in Nat
  BY Types, Bounds, LenProperties, SMTT(60) DEF SideInv, Counted, RoundInv, StoreTypes
<1>4. round'.pc = "ask" /\ ToAsk' = asked /\ n \notin asked /\ Turns(k)' = k + 1 /\ ToAsk = {} /\ Turns(k) = k
  <2>1. round'.pc = "ask" /\ round'.todo = todo
    BY <1>1
  <2> HIDE DEF todo
  <2> QED
    BY <1>2, <2>1 DEF ToAsk, Turns
<1>5. Cycle + k <= row'[n].seen /\ held'[n] > k /\ listed'.calm >= k
  BY DEF Waiting
<1>6. n \notin gone /\ row'[n] = row[n] /\ held[n] > k /\ Cycle + k <= row[n].seen
  <2>1. n \notin gone
    BY <1>1, <1>3, <1>5
  <2> QED
    BY <1>1, <1>3, <1>5, <2>1
<1>7. n \in InRotation \ gone /\ n \in round.members /\ n \in NodesOf(round.list)
  <2>1. held[n] > 0
    BY <1>3, <1>6
  <2> QED
    BY <1>2, <1>3, <1>6, <2>1 DEF SideInv, Kept
<1>8. n \notin friends /\ row[n].floor = Cycle
  <2>1. row[n].seen \in Nat /\ row[n].seen > 0 /\ row[n].seen >= Cycle /\ row[n].floor \in 0 .. Cycle
    BY <1>3, <1>6
  <2>2. n \notin friends
    BY <1>2, <1>3, <2>1 DEF SideInv, Greeted
  <2>3. row[n].floor < Cycle => row[n].seen <= row[n].floor
    BY <1>3 DEF SideInv, Answered
  <2> QED
    BY <1>3, <2>1, <2>2, <2>3
<1>9. /\ \A m \in InRotation : row[m].seen = 0 \/ m \in NodesOf(round.list)
      /\ \A i \in DOMAIN round.list : row[round.list[i].node].seen <= round.list[i].seen
      /\ \A i, j \in DOMAIN round.list : Ahead(rot, round.list[i].node, round.list[j].node) => i < j
  BY <1>2 DEF SideInv, Current
\* The new list, made of the old one or read anew.
<1>10. ASSUME pull = {}
       PROVE  /\ \A j \in DOMAIN round.list : round.list[j].node \notin gone =>
                   \E i \in DOMAIN list : list[i] = round.list[j]
              /\ \A p, q \in DOMAIN list : p < q => \E i, j \in DOMAIN round.list :
                   /\ i < j /\ list[p] = round.list[i] /\ list[q] = round.list[j]
                   /\ round.list[i].node \notin gone
  <2> DEFINE I == {i \in DOMAIN round.list : round.list[i].node \notin gone}
  <2>1. I \in SUBSET DOMAIN round.list /\ list = Only(round.list, I)
    BY <1>1, <1>10
  <2>2. \A j \in DOMAIN round.list : round.list[j].node \notin gone => j \in I
    OBVIOUS
  <2>3. \A j \in I : round.list[j].node \notin gone
    OBVIOUS
  <2> HIDE DEF I
  <2>4. /\ ToSet(list) = {round.list[i] : i \in I}
        /\ \A p, q \in DOMAIN list : p < q => \E i, j \in I : i < j /\ list[p] = round.list[i] /\ list[q] = round.list[j]
    <3> DEFINE old == round.list
    <3>1. old \in Seq(Entry) /\ I \in SUBSET DOMAIN old /\ list = Only(old, I)
      BY <1>2, <2>1
    <3> HIDE DEF old
    <3>2. ToSet(list) = {old[i] : i \in I}
      BY <3>1, OnlyIs
    <3>3. \A p, q \in DOMAIN list : p < q => \E i, j \in I : i < j /\ list[p] = old[i] /\ list[q] = old[j]
      BY <3>1, OnlyOrder
    <3> QED
      BY <3>2, <3>3 DEF old
  <2>5. ASSUME NEW j \in I
        PROVE  \E i \in DOMAIN list : list[i] = round.list[j]
    <3>1. round.list[j] \in ToSet(list)
      BY <2>4
    <3> QED
      BY <3>1 DEF ToSet
  <2> QED
    BY <2>1, <2>2, <2>3, <2>4, <2>5
<1>11. ASSUME pull # {}
       PROVE  /\ DOMAIN list = DOMAIN rot' /\ NodesOf(list) = ToSet(rot')
              /\ \A i \in DOMAIN list : list[i].node = rot'[i] /\ list[i].seen = row'[rot'[i]].seen
              /\ \A m \in ToSet(rot') : \E i \in DOMAIN list : list[i].node = m /\ (list[i].due \/ row'[m].sync < Cycle)
  <2>1. rot' \in Seq(Nodes) /\ IsInjective(rot') /\ row' \in [Nodes -> Row] /\ list = Listing(rot', row')
    BY <1>1, <1>11 DEF RoundInv, StoreTypes
  <2>2. /\ NodesOf(list) = ToSet(rot')
        /\ \A m \in ToSet(rot') : \E i \in DOMAIN list : list[i].node = m /\ (list[i].due \/ row'[m].sync < Cycle)
    BY <2>1, ListingIs
  <2>3. DOMAIN list = DOMAIN rot' /\ \A i \in DOMAIN list : list[i].node = rot'[i] /\ list[i].seen = row'[rot'[i]].seen
    BY <2>1 DEF Listing
  <2> QED
    BY <2>2, <2>3
\* What the plan asks and what it spares.
<1>12. \A m \in pull : m \in asked
  <2> SUFFICES ASSUME NEW m \in pull PROVE m \in asked
    OBVIOUS
  <2>1. m \in NodesOf(list)
    BY <1>1, <1>11
  <2>2. PICK i \in DOMAIN list : list[i].node = m
    BY <2>1 DEF NodesOf, ToSet
  <2> HIDE DEF floor
  <2>3. list[i].node \in NodesOf(Plan(list, friends, pull, round.members, floor))
    BY <1>2, <2>2, PlanIs
  <2> QED
    BY <2>2, <2>3
<1>13. \A m \in friends : m \notin gone /\ row'[m] = row[m]
  BY <1>1, <1>2
<1>14. \A m \in friends \cap Dead : m \in asked
  <2> SUFFICES ASSUME NEW m \in friends \cap Dead PROVE m \in asked
    OBVIOUS
  <2>1. row[m].sync = Cycle /\ ~(row[m].sync < Cycle) /\ row'[m] = row[m] /\ m \notin gone
    BY <1>3, <1>13 DEF SideInv, Answered
  <2>2. \E i \in DOMAIN list : list[i].node = m /\ list[i].due
    <3>1. CASE pull = {}
      <4>1. PICK j \in DOMAIN round.list : round.list[j].node = m /\ round.list[j].due
        BY <1>2, <2>1 DEF DueOrCurrent
      <4> QED
        BY <1>10, <2>1, <3>1, <4>1
    <3>2. CASE pull # {}
      <4>1. m \in ToSet(rot')
        BY <1>1, <1>2, <2>1
      <4> QED
        BY <1>11, <2>1, <3>2, <4>1
    <3> QED
      BY <3>1, <3>2
  <2>3. PICK i \in DOMAIN list : list[i].node = m /\ list[i].due
    BY <2>2
  <2> HIDE DEF floor
  <2>4. [op |-> "friend", node |-> list[i].node] \in ToSet(todo)
    BY <1>2, <2>3, PlanIs
  <2> HIDE DEF todo
  <2> QED
    BY <2>3, <2>4 DEF NodesOf
<1>15. \A m \in Nodes \ asked : row'[m].seen > 0 => m \notin friends \cup pull
  <2> SUFFICES ASSUME NEW m \in friends \ asked, row'[m].seen > 0 PROVE FALSE
    BY <1>12
  <2>1. m \notin Dead /\ row'[m] = row[m]
    BY <1>13, <1>14
  <2>2. row[m].seen = 0
    BY <1>2, <2>1 DEF SideInv, Greeted
  <2> QED
    BY <2>1, <2>2
<1> HIDE DEF asked, todo, gone
<1>16. PICK P \in SUBSET asked :
         /\ IsFiniteSet(P) /\ Cardinality(P) = FloorBudget(Len(list)) /\ P \subseteq Nodes
         /\ \E i \in DOMAIN list : /\ list[i].node = n
                                   /\ \A m \in P : /\ m \notin friends \cup pull /\ row'[m].floor = Cycle
                                                   /\ \E j \in DOMAIN list : j < i /\ list[j].node = m /\ list[j].seen >= Cycle
  <2>1. PICK i \in DOMAIN list : list[i].node = n /\ list[i].seen >= Cycle
    <3>1. CASE pull = {}
      <4>1. PICK j \in DOMAIN round.list : round.list[j].node = n
        BY <1>7 DEF NodesOf, ToSet
      <4>2. PICK i \in DOMAIN list : list[i] = round.list[j]
        BY <1>7, <1>10, <3>1, <4>1
      <4>3. row[n].seen <= round.list[j].seen
        BY <1>9, <4>1
      <4>4. round.list[j].seen \in Nat
        <5>1. round.list[j] \in Entry
          BY <1>2, LenProperties
        <5> QED
          BY <5>1, Bounds, SMTT(60) DEF Entry
      <4>5. round.list[j].seen >= Cycle
        BY <1>3, <1>6, <4>3, <4>4
      <4>6. list[i].node = n /\ list[i].seen >= Cycle
        BY <4>1, <4>2, <4>5
      <4> QED
        BY <4>6
    <3>2. CASE pull # {}
      <4>1. PICK i \in DOMAIN list : list[i].node = n
        BY <1>1, <1>7, <1>11, <3>2 DEF gone, NodesOf, ToSet
      <4>2. list[i].seen = row[n].seen
        BY <1>6, <1>11, <3>2, <4>1
      <4>3. row[n].seen >= Cycle
        BY <1>3, <1>6
      <4>4. list[i].node = n /\ list[i].seen >= Cycle
        BY <4>1, <4>2, <4>3
      <4> QED
        BY <4>4
    <3> QED
      BY <3>1, <3>2
  <2>2. list[i].node \in round.members \ friends /\ floor[list[i].node] = Cycle
    BY <1>3, <1>6, <1>7, <1>8, <2>1
  <2>3. list[i].node \notin NodesOf(Plan(list, friends, pull, round.members, floor))
    BY <1>4, <2>1 DEF asked, todo
  <2>4. \A m \in Nodes : floor[m] = row'[m].floor
    OBVIOUS
  <2> HIDE DEF floor, friends
  <2>5. PICK P \in SUBSET NodesOf(Plan(list, friends, pull, round.members, floor)) :
           /\ IsFiniteSet(P) /\ Cardinality(P) = FloorBudget(Len(list))
           /\ \A m \in P : WaitsBefore(list, i, friends, pull, floor, m)
    <3> DEFINE members == round.members
               wanted == pull
    <3>1. /\ list \in Seq(Entry) /\ Distinct(list) /\ members \in SUBSET Nodes /\ i \in DOMAIN list
          /\ list[i].node \in members \ friends /\ list[i].seen >= Cycle /\ floor[list[i].node] = Cycle
          /\ list[i].node \notin NodesOf(Plan(list, friends, wanted, members, floor))
      BY <1>1, <1>2, <2>1, <2>2, <2>3
    <3> HIDE DEF members, wanted
    <3>2. \E P \in SUBSET NodesOf(Plan(list, friends, wanted, members, floor)) :
             /\ IsFiniteSet(P) /\ Cardinality(P) = FloorBudget(Len(list))
             /\ \A m \in P : WaitsBefore(list, i, friends, wanted, floor, m)
      BY <3>1, PlanSpares
    <3> QED
      BY <3>2 DEF members, wanted
  <2>6. P \in SUBSET asked /\ P \subseteq Nodes
    BY <2>5 DEF asked, todo, WaitsBefore
  <2>7. \A m \in P : /\ m \notin friends \cup pull /\ row'[m].floor = Cycle
                     /\ \E j \in DOMAIN list : j < i /\ list[j].node = m /\ list[j].seen >= Cycle
    BY <2>4, <2>5 DEF WaitsBefore
  <2> QED
    BY <2>1, <2>5, <2>6, <2>7
<1> HIDE DEF friends, floor
\* Who stands ahead of n now stood ahead of it before.
<1>17. ASSUME NEW m \in Nodes, m \notin friends \cup pull, Ahead(rot', m, n), row'[m].seen > 0
       PROVE  /\ m \in InRotation \ gone /\ row'[m] = row[m]
              /\ \E i, j \in DOMAIN round.list : /\ i < j /\ round.list[i].node = m /\ round.list[j].node = n
                                                 /\ row[m].seen <= round.list[i].seen
  <2>1. m \in InRotation \ gone
    BY <1>1, <1>17 DEF Ahead, ToSet, gone
  <2>2. row'[m] = row[m]
    BY <1>1, <2>1 DEF gone
  <2>3. Ahead(rot, m, n)
    <3>1. \/ m \in pull \ (InRotation \ gone) \/ n \in pull \ (InRotation \ gone) \/ Ahead(rot, m, n)
      BY <1>1, <1>17, KeptOrder DEF SideInv, gone
    <3> QED
      BY <1>7, <1>17, <3>1
  <2>4. m \in NodesOf(round.list)
    <3>1. row[m].seen # 0
      BY <1>3, <1>17, <2>2
    <3> QED
      BY <1>9, <2>1, <3>1
  <2>5. PICK i, j \in DOMAIN round.list : round.list[i].node = m /\ round.list[j].node = n
    BY <1>7, <2>4 DEF NodesOf, ToSet
  <2>6. i < j /\ row[m].seen <= round.list[i].seen
    BY <1>9, <2>3, <2>5
  <2> QED
    BY <2>1, <2>2, <2>5, <2>6
<1>18. ASSUME NEW m \in Rivals(n, k)'
       PROVE  m \notin P /\ m \in Rivals(n, k) /\ m \in NodesOf(list) \ {n}
  <2>1. m \in Nodes \ asked /\ Ahead(rot', m, n) /\ row'[m].seen > k /\ row'[m].floor > k
    BY <1>4, <1>18 DEF Rivals
  <2>2. /\ m \in InRotation \ gone /\ row'[m] = row[m] /\ m \notin friends
    <3>1. row'[m].seen > 0
      <4>1. row'[m].seen \in Int
        <5>1. row'[m] \in Row
          BY <2>1 DEF RoundInv, StoreTypes
        <5> QED
          BY <5>1, Bounds DEF Row
      <4> QED
        BY <1>3, <2>1, <4>1
    <3> QED
      BY <1>15, <1>17, <2>1, <3>1
  <2>3. PICK i, j \in DOMAIN round.list : /\ i < j /\ round.list[i].node = m /\ round.list[j].node = n
                                          /\ row[m].seen <= round.list[i].seen
    <3>1. row'[m].seen > 0 /\ m \notin friends \cup pull
      BY <1>3, <1>15, <2>1, <2>2
    <3> QED
      BY <1>17, <2>1, <3>1
  <2>4. round.list[i].seen \in Nat
    <3>1. round.list[i] \in Entry
      BY <1>2, LenProperties
    <3> QED
      BY <3>1, Bounds DEF Entry
  <2>5. round.list[i].seen > k /\ row[m].floor > k
    BY <1>3, <2>1, <2>2, <2>3, <2>4
  <2>6. m \in Rivals(n, k)
    BY <1>2, <2>2, <2>3, <2>5, <2>1 DEF Rivals, friends
  <2>7. m \in NodesOf(list)
    <3>1. CASE pull = {}
      <4>1. PICK p \in DOMAIN list : list[p] = round.list[i]
        BY <1>10, <2>2, <2>3, <3>1
      <4> QED
        BY <2>3, <4>1 DEF NodesOf, ToSet
    <3>2. CASE pull # {}
      BY <1>1, <1>11, <2>2, <3>2 DEF gone
    <3> QED
      BY <3>1, <3>2
  <2>8. m # n
    BY <1>2, <2>3, LenProperties DEF Distinct
  <2> QED
    BY <1>16, <2>1, <2>6, <2>7, <2>8
<1>19. PICK i0 \in DOMAIN list :
         /\ list[i0].node = n
         /\ \A m \in P : /\ m \notin friends \cup pull /\ row'[m].floor = Cycle
                         /\ \E j \in DOMAIN list : j < i0 /\ list[j].node = m /\ list[j].seen >= Cycle
  BY <1>16
<1>20. ASSUME NEW m \in P
       PROVE  m \in Rivals(n, k) /\ m \in NodesOf(list) \ {n}
  <2>1. m \notin friends \cup pull /\ row'[m].floor = Cycle /\ m \in Nodes
    BY <1>16, <1>19
  <2>2. PICK p \in DOMAIN list : p < i0 /\ list[p].node = m /\ list[p].seen >= Cycle
    BY <1>19
  <2>3. list[p].seen \in Nat /\ list[p].seen > k
    <3>1. list[p] \in Entry
      BY LenProperties
    <3>2. list[p].seen \in Nat
      BY <3>1, Bounds DEF Entry
    <3> QED
      BY <1>3, <2>2, <3>2
  <2>4. m \in NodesOf(list) /\ m # n
    <3>1. m # n
      BY <1>1, <1>19, <2>2, LenProperties DEF Distinct
    <3> QED
      BY <2>2, <3>1 DEF NodesOf, ToSet
  <2>5. row[m].floor = Cycle /\ \E i, j \in DOMAIN round.list : /\ i < j /\ round.list[i].node = m /\ round.list[j].node = n
                                                               /\ round.list[i].seen > k
    <3>1. CASE pull = {}
      <4>1. PICK i, j \in DOMAIN round.list : /\ i < j /\ list[p] = round.list[i] /\ list[i0] = round.list[j]
                                              /\ round.list[i].node \notin gone
        BY <1>10, <2>2, <3>1
      <4>2. row'[m] = row[m]
        BY <1>1, <2>1, <2>2, <4>1 DEF gone
      <4> QED
        BY <1>19, <2>1, <2>2, <2>3, <4>1, <4>2
    <3>2. CASE pull # {}
      <4>1. Ahead(rot', m, n) /\ row'[m].seen = list[p].seen
        BY <1>11, <1>19, <2>2, <3>2 DEF Ahead
      <4>2. row'[m].seen > 0
        BY <1>3, <2>3, <4>1
      <4>3. row'[m] = row[m]
        BY <1>17, <2>1, <4>1, <4>2
      <4>4. PICK i, j \in DOMAIN round.list : /\ i < j /\ round.list[i].node = m /\ round.list[j].node = n
                                              /\ row[m].seen <= round.list[i].seen
        BY <1>17, <2>1, <4>1, <4>2
      <4>5. round.list[i].seen \in Nat
        <5>1. round.list[i] \in Entry
          BY <1>2, LenProperties
        <5> QED
          BY <5>1, Bounds, SMTT(60) DEF Entry
      <4>6. round.list[i].seen > k
        BY <1>3, <2>3, <4>1, <4>3, <4>4, <4>5
      <4> QED
        BY <2>1, <4>3, <4>4, <4>6
    <3> QED
      BY <3>1, <3>2
  <2>6. row[m].floor > k
    BY <1>3, <2>5
  <2>7. m \in Rivals(n, k)
    BY <1>2, <2>1, <2>5, <2>6 DEF Rivals, friends
  <2> QED
    BY <2>4, <2>7
\* Counting them.
<1> DEFINE R == Rivals(n, k)'
           U == Rivals(n, k)
           N == NodesOf(list)
           r == Cardinality(R)
           b == Cardinality(P)
           u == Cardinality(U)
<1>21. IsFiniteSet(U) /\ u \in Nat /\ IsFiniteSet(R) /\ r \in Nat /\ IsFiniteSet(P) /\ b \in Nat
  <2>1. IsFiniteSet(U) /\ u \in Nat
    BY RivalsAre
  <2>2. R \subseteq U
    BY <1>18
  <2>3. IsFiniteSet(R)
    BY <2>1, <2>2, FS_Subset
  <2> HIDE DEF R
  <2> QED
    BY <1>16, <2>1, <2>3, FS_CardinalityType
<1>22. Len(list) <= Cycle * b
  BY <1>3, <1>16, FloorBudgetIs
<1> HIDE DEF R, U, N
<1>23. R \cap P = {} /\ R \cup P \subseteq U /\ R \cup P \subseteq N \ {n} /\ n \in N
  <2>1. n \in N
    BY <1>19 DEF N, NodesOf, ToSet
  <2> QED
    BY <1>18, <1>20, <2>1 DEF R, U, N
<1>24. IsFiniteSet(R \cup P) /\ Cardinality(R \cup P) = r + b
  <2>1. IsFiniteSet(R \cup P) /\ Cardinality(R \cup P) = r + b - Cardinality({})
    BY <1>21, <1>23, FS_Union
  <2>2. Cardinality({}) = 0
    BY FS_EmptySet
  <2> QED
    BY <1>21, <2>1, <2>2
<1>25. r + b <= u
  BY <1>21, <1>23, <1>24, FS_Subset
<1>26. r + b + 1 <= Len(list)
  <2>1. N = {list[q].node : q \in 1 .. Len(list)}
    BY LenProperties DEF N, NodesOf, ToSet
  <2>2. IsFiniteSet(N) /\ Cardinality(N) = Len(list)
    <3>1. Distinct(list) /\ Len(list) \in Nat /\ Len(list) <= Len(list)
      BY <1>1, <1>3
    <3> QED
      BY <2>1, <3>1, EntriesCount
  <2>3. IsFiniteSet(N \ {n}) /\ Cardinality(N \ {n}) = Len(list) - 1
    BY <1>23, <2>2, FS_RemoveElement
  <2>4. r + b <= Len(list) - 1
    BY <1>23, <1>24, <2>3, FS_Subset
  <2> QED
    BY <1>3, <1>21, <2>4
<1> HIDE DEF r, b, u
<1>27. Cycle * r + Cycle <= (Cycle - (k + 1)) * Len(list)
  <2>1. CASE k = 0
    <3> DEFINE v == Len(list) - 1
    <3>1. v \in Nat /\ r + b <= v
      BY <1>3, <1>21, <1>26
    <3>2. Cycle * v + Cycle <= (Cycle - 0) * Len(list)
      BY <1>3
    <3> HIDE DEF v
    <3>3. Cycle * r + Cycle <= (Cycle - (0 + 1)) * Len(list)
      <4>1. /\ Cycle \in Nat /\ r \in Nat /\ b \in Nat /\ 0 \in Nat /\ Len(list) \in Nat /\ 0 <= Cycle
            /\ Len(list) <= Len(list)
        BY <1>3, <1>21
      <4> QED
        BY <1>22, <3>1, <3>2, <4>1, TurnTaken, Zenon
    <3> QED
      BY <2>1, <3>3
  <2>2. CASE k > 0
    <3>1. Len(list) >= listed.size /\ listed.calm >= k
      <4>1. listed'.calm = IF Len(list) < listed.size THEN 0 ELSE listed.calm
        BY <1>1
      <4> QED
        BY <1>3, <1>5, <2>2, <4>1
    <3>2. Waiting(n, k) /\ Turns(k) > 0
      BY <1>4, <1>6, <2>2, <3>1 DEF Waiting
    <3>3. Room(n, k)
      BY <1>3, <1>4, <3>2 DEF ShareInv
    <3>4. Cycle * u + Cycle <= (Cycle - k) * listed.size
      BY <1>4, <3>3 DEF Room, u, U
    <3> QED
      <4>1. /\ Cycle \in Nat /\ r \in Nat /\ b \in Nat /\ u \in Nat /\ k \in Nat /\ k <= Cycle
            /\ Len(list) \in Nat /\ listed.size \in Nat /\ listed.size <= Len(list)
        BY <1>3, <1>21, <3>1
      <4> QED
        BY <1>22, <1>25, <3>4, <4>1, TurnTaken, Zenon
  <2> QED
    BY <1>3, <2>1, <2>2
<1>28. listed'.size = Len(list)
  BY <1>1
<1> QED
  BY <1>4, <1>27, <1>28 DEF Room, r, R

(* At the end of a cycle's rounds there is no room left for a rival: who   *)
(* is kept and answers does not get that far.                              *)
LEMMA MarginStep ==
  ASSUME RoundInv, RoundInv', SideInv, SideInv', ShareInv, MarginHolds, DiscoveryNext
  PROVE  MarginHolds'
<1> SUFFICES ASSUME NEW n \in Nodes \ Dead, held'[n] > Cycle, listed'.calm = Cycle
             PROVE  row'[n].seen < 2 * Cycle
  BY DEF MarginHolds
<1>1. /\ Cycle \in Nat /\ Cycle > 0 /\ Window \in Nat /\ n \in Nodes /\ n \notin Dead
      /\ held \in [Nodes -> 0 .. Cycle + 1] /\ listed \in [size : Nat, calm : 0 .. Cycle]
      /\ \A m \in Nodes : row[m].seen \in Nat
  BY Types, Bounds DEF SideInv, Counted
<1>2. ASSUME held[n] > Cycle, listed.calm = Cycle, row'[n].seen \in {0} \cup 0 .. row[n].seen
      PROVE  row'[n].seen < 2 * Cycle
  <2>1. row[n].seen < 2 * Cycle
    BY <1>1, <1>2 DEF MarginHolds
  <2> QED
    BY <1>1, <1>2, <2>1
<1>3. CASE Tick
  <2>1. /\ round.pc = "idle" /\ row'[n].seen = Older(row[n].seen, Window + 1)
        /\ held'[n] = IF n \in Members \cap InRotation THEN Older(held[n], Cycle + 1) ELSE 0
        /\ listed'.calm = Older(listed.calm, Cycle)
    <3>1. listed' = [listed EXCEPT !.calm = Older(@, Cycle)]
      BY <1>3, TickIs
    <3>2. listed'.calm = Older(listed.calm, Cycle)
      BY <1>1, <3>1
    <3> QED
      BY <1>1, <1>3, <3>2, TickIs
  <2>2. held[n] \in Nat /\ listed.calm \in Nat /\ row[n].seen \in Nat /\ Window + 1 \in Nat
    BY <1>1
  <2>3. held[n] >= Cycle /\ listed.calm >= Cycle - 1
    BY <1>1, <2>1, <2>2 DEF Older
  <2>4. row'[n].seen <= row[n].seen + 1 /\ row'[n].seen \in Nat
    BY <2>1, <2>2 DEF Older
  <2> DEFINE k == Cycle - 1
  <2>5. k \in 0 .. Cycle - 1 /\ k + 1 = Cycle /\ k \in Nat
    BY <1>1
  <2>6. n \notin ToAsk /\ Turns(k) = Cycle
    BY <2>1, <2>5 DEF ToAsk, Turns
  <2> SUFFICES ASSUME ~(row'[n].seen < 2 * Cycle) PROVE FALSE
    OBVIOUS
  <2>7. Waiting(n, k)
    <3>1. Cycle + k <= row[n].seen
      BY <1>1, <2>2, <2>4, <2>5
    <3>2. held[n] > k /\ listed.calm >= k
      BY <1>1, <2>2, <2>3
    <3> QED
      BY <3>1, <3>2 DEF Waiting
  <2> HIDE DEF k
  <2>8. Room(n, k)
    BY <1>1, <2>5, <2>6, <2>7 DEF ShareInv
  <2> DEFINE r == Cardinality(Rivals(n, k))
  <2>9. r \in Nat
    BY RivalsAre
  <2>10. Cycle * r + Cycle <= (Cycle - Cycle) * listed.size
    BY <2>6, <2>8 DEF Room
  <2> HIDE DEF r
  <2>11. Cycle * r \in Nat /\ (Cycle - Cycle) * listed.size = 0
    BY <1>1, <2>9
  <2> QED
    BY <1>1, <2>10, <2>11
<1>4. CASE ListSources
  <2>1. UNCHANGED <<held, listed>> /\ row'[n].seen \in {0, row[n].seen}
    BY <1>1, <1>4, ListSourcesIs
  <2> QED
    BY <1>1, <1>2, <2>1
<1>5. CASE Retain
  <2>1. PICK evicted \in Evictions, list \in Seq(Entry) :
          /\ row' = [m \in Nodes |-> IF m \in Gone(evicted) THEN Dropped(m) ELSE row[m]]
          /\ held' = [m \in Nodes |-> IF m \in Gone(evicted) THEN 0 ELSE held[m]]
          /\ listed' = [size |-> Len(list), calm |-> IF Len(list) < listed.size THEN 0 ELSE listed.calm]
    BY <1>5, RetainList
  <2>2. n \notin Gone(evicted) /\ held'[n] = held[n] /\ row'[n] = row[n]
    BY <1>1, <2>1
  <2>3. listed.calm = Cycle
    BY <1>1, <2>1
  <2> QED
    BY <1>1, <1>2, <2>2, <2>3
<1>6. CASE Pull \/ FloorPing
  <2>1. UNCHANGED <<held, listed>> /\ row'[n].seen \in {0, row[n].seen}
    <3>1. CASE Pull
      BY <1>1, <3>1, PullIs
    <3>2. CASE FloorPing
      BY <1>1, <3>2, FloorPingIs
    <3> QED
      BY <1>6, <3>1, <3>2
  <2> QED
    BY <1>1, <1>2, <2>1
<1>7. CASE \E m \in Nodes : Announced(m)
  <2>1. UNCHANGED <<held, listed>> /\ row'[n].seen \in {0, row[n].seen}
    BY <1>1, <1>7, AnnouncedIs
  <2> QED
    BY <1>1, <1>2, <2>1
<1>8. CASE \E m \in Nodes, age \in 0 .. Cycle : Hint(m, age)
  <2>1. PICK m \in Nodes, age \in 0 .. Cycle :
          /\ \A x \in Nodes : x # m => row'[x] = row[x]
          /\ row'[m].seen = age /\ age < row[m].seen /\ age \in Nat
          /\ UNCHANGED <<held, listed>>
    BY <1>8, HintIs
  <2>2. row'[n].seen \in 0 .. row[n].seen
    BY <1>1, <2>1
  <2> QED
    BY <1>2, <2>1, <2>2
<1>9. CASE \E m \in Nodes : Decide(m)
  <2>1. /\ \A x \in Nodes : row'[x] = row[x] \/ x \notin InRotation
        /\ UNCHANGED <<rot, listed>> /\ held'[n] \in {0, held[n]}
    BY <1>1, <1>9, DecideIs
  <2>2. n \in InRotation'
    <3>1. held'[n] > 0
      BY <1>1, <2>1
    <3> QED
      BY <1>1, <3>1 DEF SideInv, Kept
  <2>3. row'[n] = row[n] /\ held'[n] = held[n]
    BY <1>1, <2>1, <2>2 DEF InRotation
  <2> QED
    BY <1>1, <1>2, <2>1, <2>3
<1>10. CASE \E m \in Nodes : GraphMoves(m)
  <2>1. UNCHANGED <<row, listed>> /\ held'[n] \in {0, held[n]}
    BY <1>1, <1>10 DEF GraphMoves
  <2> QED
    BY <1>1, <1>2, <2>1
<1>11. CASE UNCHANGED <<row, held, listed>>
  BY <1>1, <1>2, <1>11
<1> QED
  BY <1>3, <1>4, <1>5, <1>6, <1>7, <1>8, <1>9, <1>10, <1>11
  DEF DiscoveryNext, Sweep, Nudged, ReadPeers, RoundEnd, PullFrom

(* The invariant of the margin.                                            *)
FairInv == RoundInv /\ SideInv /\ ShareInv /\ MarginHolds

LEMMA InitFairInv == InitDiscovery => FairInv
<1> SUFFICES ASSUME InitDiscovery PROVE FairInv
  OBVIOUS
<1>1. \A n \in Nodes : held[n] = 0
  BY DEF InitDiscovery
<1>2. ShareInv
  <2> SUFFICES ASSUME NEW n \in Nodes, NEW k \in 0 .. Cycle - 1, Waiting(n, k) PROVE FALSE
    BY DEF ShareInv
  <2>1. held[n] > k
    BY DEF Waiting
  <2> QED
    BY <1>1, <2>1, Bounds
<1>3. MarginHolds
  BY <1>1, Bounds DEF MarginHolds
<1> QED
  BY <1>2, <1>3, InitRoundInv, InitSideInv DEF FairInv

LEMMA FairStep ==
  ASSUME FairInv, [DiscoveryNext]_discovery
  PROVE  FairInv'
<1>1. RoundInv'
  BY RoundStep DEF FairInv
<1>2. CASE UNCHANGED discovery
  <2>1. SideInv'
    BY <1>2 DEF discovery, FairInv, SideInv, Counted, Placed, Sorted, Kept, Current, Greeted, Answered, InRotation,
                Members, TrustedAs
  <2>2. ShareInv'
    <3>1. ToAsk' = ToAsk /\ UNCHANGED <<rot, row, round, held, listed>>
      BY <1>2 DEF discovery, ToAsk
    <3>2. \A n, k : Rivals(n, k)' = Rivals(n, k) /\ Turns(k)' = Turns(k) /\ Waiting(n, k)' = Waiting(n, k)
      BY <3>1 DEF Rivals, Turns, Waiting
    <3> QED
      BY <3>1, <3>2 DEF FairInv, ShareInv, Room
  <2>3. MarginHolds'
    BY <1>2 DEF discovery, FairInv, MarginHolds
  <2> QED
    BY <1>1, <2>1, <2>2, <2>3 DEF FairInv
<1>3. CASE DiscoveryNext
  <2>1. SideInv'
    BY <1>3, SideStep DEF FairInv
  <2>2. ShareInv'
    BY <1>1, <1>3, <2>1, SweepShares, RetainShares, OutsidersShare DEF FairInv, DiscoveryNext, Sweep
  <2>3. MarginHolds'
    BY <1>1, <1>3, <2>1, MarginStep DEF FairInv
  <2> QED
    BY <1>1, <2>1, <2>2, <2>3 DEF FairInv
<1> QED
  BY <1>2, <1>3

(* What the parts keep of themselves: what is new here is here, what a     *)
(* publisher announces or lists it has traded in.                          *)
Proper ==
  /\ src.new \subseteq Cached /\ lib.new \subseteq lib.prints
  /\ pub.cached \cup pub.fresh \cup src.holds \subseteq Traded
  /\ sync.pc = "store" => sync.list \subseteq Traded

LEMMA ProperStep ==
  ASSUME PullInv, PullInv', Proper, [SyncNext]_catalog
  PROVE  Proper'
<1>1. /\ pub \in [has : Copies, wide : SUBSET Keys, sees : Audiences \cup {"none"},
                  memo : [Audiences -> Copies \cup {Absent}], cached : SUBSET Blobs, fresh : SUBSET Blobs]
      /\ src \in [copy : Copies, serial : Copies \cup {Absent}, new : SUBSET Keys, marked : BOOLEAN,
                  holds : SUBSET Blobs]
      /\ lib \in [files : SUBSET Blobs, prints : SUBSET Blobs, new : SUBSET Blobs]
  BY DEF PullInv, SyncTypes
<1>2. ASSUME UNCHANGED src \/ (src'.copy = src.copy /\ src'.new \subseteq src.new)
      PROVE  src'.new \subseteq Cached'
  BY <1>2 DEF Proper, Cached
<1>3. ASSUME UNCHANGED src \/ src'.holds \subseteq src.holds \cup pub.fresh, UNCHANGED <<pub>>
      PROVE  (pub.cached \cup pub.fresh \cup src.holds)' \subseteq Traded
  BY <1>3 DEF Proper
<1>4. CASE UNCHANGED catalog
  BY <1>4 DEF catalog, Proper, Cached
<1>5. CASE Asks
  <2>1. UNCHANGED <<src, lib>> /\ sync'.pc \in {"checked", "replace", "holdings"}
    BY <1>5 DEF Asks
  <2>2. pub'.cached = pub.cached /\ pub'.fresh = pub.fresh
    BY <1>1, <1>5 DEF Asks
  <2> QED
    BY <2>1, <2>2 DEF Proper, Cached
<1>6. CASE ReplaceSourceCatalog
  <2> DEFINE snap == sync.snap
             kept == {k \in Cached : snap[k] # {}}
             new == {k \in Keys \ Cached : snap[k] # {}}
  <2>1. /\ src' = [src EXCEPT !.copy = snap, !.serial = snap, !.new = (@ \cap kept) \cup new]
        /\ UNCHANGED <<pub, lib>> /\ sync' = [pc |-> "claims"]
    BY <1>6 DEF ReplaceSourceCatalog
  <2>2. src'.copy = snap /\ src'.new = (src.new \cap kept) \cup new /\ src'.holds = src.holds
    BY <1>1, <2>1
  <2>3. src'.new \subseteq Cached'
    BY <2>2 DEF Cached
  <2> QED
    BY <2>1, <2>2, <2>3 DEF Proper
<1>7. CASE RecordUpgrades
  <2>1. /\ src' = [src EXCEPT !.marked = TRUE, !.new = Unscanned(@, sync.before.rows)]
        /\ lib' = [lib EXCEPT !.new = Unscanned(@, sync.before.files)]
        /\ UNCHANGED pub /\ sync' = [pc |-> "sweep"]
    BY <1>7 DEF RecordUpgrades
  <2>2. /\ src'.copy = src.copy /\ src'.new \subseteq src.new /\ src'.holds = src.holds
        /\ lib'.prints = lib.prints /\ lib'.new \subseteq lib.new
    BY <1>1, <2>1 DEF Unscanned
  <2> QED
    BY <2>1, <2>2 DEF Proper, Cached
<1>8. CASE ReplaceSourceHoldings
  <2>1. sync.list \subseteq Traded /\ src' = [src EXCEPT !.holds = sync.list] /\ UNCHANGED <<pub, lib>> /\ sync' = Rest
    BY <1>8 DEF ReplaceSourceHoldings, Proper
  <2>2. src'.copy = src.copy /\ src'.new = src.new /\ src'.holds = sync.list
    BY <1>1, <2>1
  <2> QED
    BY <2>1, <2>2 DEF Proper, Cached, Rest
<1>9. CASE AskHoldings
  <2>1. UNCHANGED <<pub, src, lib>> /\ (sync' = Rest \/ sync' = [pc |-> "store", list |-> pub.cached])
    BY <1>9 DEF AskHoldings
  <2> QED
    BY <2>1 DEF Proper, Cached, Rest
<1>10. CASE MarkSourceCatalogChecked \/ CheckSourceClaims \/ ScanUpgradesByHash \/ ScanUpgradesByFingerprint
            \/ SweepUpgrades
  <2>1. UNCHANGED <<pub, src, lib>> /\ sync'.pc # "store"
    BY <1>10 DEF MarkSourceCatalogChecked, CheckSourceClaims, ScanUpgradesByHash, ScanUpgradesByFingerprint,
                 SweepUpgrades
  <2> QED
    BY <2>1 DEF Proper, Cached
<1>11. CASE \E a \in DOMAIN pub.memo : SnapshotExpires(a) \/ AnotherAsks(a)
  <2>1. pub'.cached = pub.cached /\ pub'.fresh = pub.fresh /\ UNCHANGED <<src, lib, sync>>
    BY <1>1, <1>11 DEF SnapshotExpires, AnotherAsks
  <2> QED
    BY <2>1 DEF Proper, Cached
<1>12. CASE Announce
  <2>1. /\ pub'.cached = pub.cached /\ pub'.fresh = {} /\ UNCHANGED <<lib, sync>>
        /\ src'.copy = src.copy /\ src'.new = src.new /\ src'.holds \subseteq src.holds \cup pub.fresh
    BY <1>1, <1>12 DEF Announce
  <2> QED
    BY <2>1 DEF Proper, Cached
<1>13. CASE DropCatalogSource
  <2>1. /\ src'.new = {} /\ src'.holds = {} /\ UNCHANGED <<pub, lib, sync>>
    BY <1>13 DEF DropCatalogSource
  <2> QED
    BY <2>1 DEF Proper, Cached
<1>14. CASE Edit
  <2>1. CASE Library
    <3>1. UNCHANGED <<pub, src>>
      BY <2>1 DEF Library
    <3>2. lib'.new \subseteq lib'.prints
      <4>1. PICK b \in Blobs :
              \/ lib' = [lib EXCEPT !.files = @ \cup {b}]
              \/ lib' = [lib EXCEPT !.prints = @ \cup {b}, !.new = @ \cup {b}]
              \/ lib' = [files |-> lib.files \ {b}, prints |-> lib.prints \ {b}, new |-> lib.new \ {b}]
        BY <2>1 DEF Library
      <4>2. lib.new \subseteq lib.prints
        BY DEF Proper
      <4>3. CASE lib' = [lib EXCEPT !.files = @ \cup {b}]
        BY <1>1, <4>2, <4>3
      <4>4. CASE lib' = [lib EXCEPT !.prints = @ \cup {b}, !.new = @ \cup {b}]
        BY <1>1, <4>2, <4>4
      <4>5. CASE lib' = [files |-> lib.files \ {b}, prints |-> lib.prints \ {b}, new |-> lib.new \ {b}]
        BY <4>2, <4>5
      <4> QED
        BY <4>1, <4>3, <4>4, <4>5
    <3>3. sync'.pc = "store" => sync' = sync
      BY <2>1 DEF Library, Undated, PullInv, Pulling, InScan, Scans
    <3> QED
      BY <3>1, <3>2, <3>3 DEF Proper, Cached
  <2>2. CASE (Publish \/ SeeUs \/ Acquire \/ Dispose) /\ UNCHANGED sync
    <3>1. UNCHANGED <<src, lib, sync>>
      BY <2>2 DEF Publish, SeeUs, Acquire, Dispose
    <3>2. pub'.cached \subseteq pub.cached \cup Traded /\ pub'.fresh \subseteq pub.fresh \cup Traded
      <4>1. CASE Publish
        <5>1. PICK k \in Keys :
                 \/ \E b \in Blobs : pub' = [pub EXCEPT !.has[k] = IF b \in @ THEN @ \ {b} ELSE @ \cup {b}]
                 \/ pub' = [pub EXCEPT !.wide = IF k \in @ THEN @ \ {k} ELSE @ \cup {k}]
          BY <4>1 DEF Publish
        <5>2. pub'.cached = pub.cached /\ pub'.fresh = pub.fresh
          BY <1>1, <5>1
        <5> QED
          BY <5>2
      <4>2. CASE SeeUs \/ Dispose
        <5>1. UNCHANGED pub \/ \E a : pub' = [pub EXCEPT !.sees = a]
          BY <4>2 DEF SeeUs, Dispose
        <5>2. pub'.cached = pub.cached /\ pub'.fresh = pub.fresh
          BY <1>1, <5>1
        <5> QED
          BY <5>2
      <4>3. CASE Acquire
        <5>1. PICK b \in Traded : \/ pub' = [pub EXCEPT !.cached = @ \ {b}]
                                  \/ pub' = [pub EXCEPT !.cached = @ \cup {b}, !.fresh = @ \cup {b}]
          BY <4>3 DEF Acquire
        <5>2. CASE pub' = [pub EXCEPT !.cached = @ \ {b}]
          BY <1>1, <5>2
        <5>3. CASE pub' = [pub EXCEPT !.cached = @ \cup {b}, !.fresh = @ \cup {b}]
          BY <1>1, <5>3
        <5> QED
          BY <5>1, <5>2, <5>3
      <4> QED
        BY <2>2, <4>1, <4>2, <4>3
    <3> QED
      BY <3>1, <3>2 DEF Proper, Cached
  <2> QED
    BY <1>14, <2>1, <2>2 DEF Edit
<1> QED
  BY <1>4, <1>5, <1>6, <1>7, <1>8, <1>9, <1>10, <1>11, <1>12, <1>13, <1>14 DEF SyncNext, Sync

(* The rotation's order, as its type has it.                               *)
LEMMA DiscoveryTyped ==
  ASSUME RoundInv, SideInv
  PROVE  DiscoveryTypeOK
<1>1. /\ row \in [Nodes -> Row] /\ pull \subseteq Nodes /\ IsInjective(rot) /\ InRotation \subseteq Nodes
      /\ held \in [Nodes -> 0 .. Cycle + 1] /\ listed \in [size : Nat, calm : 0 .. Cycle]
  BY Types DEF RoundInv, StoreTypes, SideInv, Counted
<1>2. \A i, j \in DOMAIN rot : i < j /\ row[rot[i]].tried => row[rot[j]].tried
  BY DEF SideInv, Placed, Sorted, Ahead
<1> QED
  BY <1>1, <1>2 DEF DiscoveryTypeOK

(* The invariant of the margin holds throughout.                           *)
THEOREM FairHolds == Spec => []FairInv
<1>1. Init => FairInv
  BY InitFairInv DEF Init
<1>2. FairInv /\ [Next]_vars => FairInv'
  BY FairStep DEF Next, vars
<1> QED
  BY <1>1, <1>2, PTL DEF Spec

(* The rotation neglects no member that answers, for every number of nodes,*)
(* budget, cap and cycle and whatever is decided, announced or asked for   *)
(* between two steps of a round (discovery.go, pingFloor).                 *)
THEOREM RotationHolds == Spec => []RotationIsFair
<1>1. Init => Proper
  <2> SUFFICES ASSUME InitSync PROVE Proper
    BY DEF Init
  <2>1. /\ src = [copy |-> [k \in Keys |-> {}], serial |-> Absent, new |-> {}, marked |-> FALSE, holds |-> {}]
        /\ lib.new = {} /\ pub.cached = {} /\ pub.fresh = {} /\ sync.pc = "rest"
    BY DEF InitSync, Rest
  <2> QED
    BY <2>1 DEF Proper
<1>2. PullInv /\ PullInv' /\ Proper /\ [Next]_vars => Proper'
  BY ProperStep DEF Next, vars
<1>3. Spec => []Proper
  BY <1>1, <1>2, PullInvHolds, PTL DEF Spec
<1>4. FairInv /\ PullInv /\ Proper /\ ReachInv => RotationIsFair
  <2> SUFFICES ASSUME FairInv, PullInv, Proper, ReachInv PROVE RotationIsFair
    OBVIOUS
  <2>1. DiscoveryTypeOK /\ MarginHolds
    BY DiscoveryTyped DEF FairInv
  <2>2. /\ src.new \subseteq Cached /\ lib.prints \subseteq lib.files /\ lib.new \subseteq lib.prints
        /\ pub.fresh \subseteq Blobs /\ src.holds \subseteq Traded
    BY DEF PullInv, SyncTypes, Proper
  <2>3. \A n \in Peers : \A a \in Range(clock[n]) : a \in 0 .. Old
    <3> SUFFICES ASSUME NEW n \in Peers, NEW a \in Range(clock[n]) PROVE a \in 0 .. Old
      OBVIOUS
    <3>1. clock[n] \in Ages
      BY DEF ReachInv, ReachTypes
    <3>2. a \in {clock[n].seen, clock[n].mark, clock[n].hint, clock[n].touch}
      BY <3>1 DEF Ages, Range
    <3>3. \A b \in {clock[n].seen, clock[n].mark, clock[n].hint, clock[n].touch} : b \in 0 .. Old
      BY <3>1, Windows DEF Ages
    <3> QED
      BY <3>2, <3>3
  <2> QED
    BY <2>1, <2>2, <2>3 DEF RotationIsFair, TypeOK
<1> QED
  BY <1>3, <1>4, FairHolds, PullInvHolds, ReachHolds, PTL

=============================================================================
