------------------------- MODULE ServeLimitsProofs -------------------------
(***************************************************************************)
(* Theorems about ServeLimits, for any number of serves, requesters and     *)
(* admins, any settings, any order of reading them and any size of table.   *)
(***************************************************************************)
EXTENDS ServeLimits, FiniteSetTheorems, TLAPS

\* What the constants give.
LEMMA Constants ==
  /\ IsFiniteSet(Serves) /\ Cardinality(Serves) \in Nat
  /\ Up \in Owners /\ Class \in Owners /\ Requesters \subseteq Owners
  /\ Up # Class /\ Up \notin Requesters /\ Class \notin Requesters
  /\ None \notin Buckets /\ None \notin Requesters
  /\ Len(Order) \in Nat /\ Len(Order) > 0 /\ DOMAIN Order = 1 .. Len(Order)
  /\ \A i \in DOMAIN Order : Order[i] \in Knobs
  /\ Serves \subseteq Procs /\ Admins \subseteq Procs
  /\ MaxEdits \in Nat /\ MaxFaults \in Nat
BY LimitsAssumption, FS_CardinalityType DEF Owners, Procs

\* Settings are numbers, and two that agree on what is edited are the same.
LEMMA SettingsFacts ==
  /\ \A f \in Settings : f \in [Knobs -> Nat]
  /\ \A f, g \in Settings : (\A i \in DOMAIN Order : f[Order[i]] = g[Order[i]]) => f = g
  /\ Config \in Settings /\ Stored \in Settings
<1>1. \A f \in Settings : f \in [Knobs -> Nat]
  BY LimitsAssumption DEF Settings
<1>2. ASSUME NEW f \in Settings, NEW g \in Settings,
             \A i \in DOMAIN Order : f[Order[i]] = g[Order[i]]
      PROVE  f = g
  <2>1. ASSUME NEW k \in Knobs PROVE f[k] = g[k]
    <3>1. CASE \E i \in DOMAIN Order : Order[i] = k
      BY <1>2, <3>1
    <3>2. CASE \A i \in DOMAIN Order : Order[i] # k
      <4>1. Values[k] = {Config[k]}
        BY <3>2, LimitsAssumption
      <4> QED
        BY <4>1 DEF Settings
    <3> QED
      BY <3>1, <3>2
  <2> QED
    BY <1>1, <2>1
<1>3. Config \in Settings /\ Stored \in Settings
  BY LimitsAssumption
<1> QED
  BY <1>1, <1>2, <1>3

\* There are more identities than serves, so a new bucket can have one that no
\* serve holds.
LEMMA FreshFacts ==
  ASSUME TypeOK, NEW o \in Owners
  PROVE  Fresh(o) \in Buckets
<1> DEFINE taken == [s \in Serves |-> held[s][o]]
           used == {taken[s] : s \in Serves}
<1>1. IsFiniteSet(used) /\ Cardinality(used) <= Cardinality(Serves)
  <2>1. taken \in Surjection(Serves, used)
    BY DEF Surjection
  <2> QED
    BY <2>1, Constants, FS_Surjection
<1>2. IsFiniteSet(Buckets) /\ Cardinality(Buckets) = Cardinality(Serves) + 1
  BY Constants, FS_Interval DEF Buckets
<1>3. PICK b \in Buckets : b \notin used
  <2>1. SUFFICES ASSUME Buckets \subseteq used PROVE FALSE
    OBVIOUS
  <2>2. Cardinality(Buckets) <= Cardinality(used)
    BY <1>1, <2>1, FS_Subset
  <2>3. Cardinality(used) \in Nat
    BY <1>1, FS_CardinalityType
  <2> QED
    BY <1>1, <1>2, <2>2, <2>3, Constants
<1>4. \A s \in Serves : held[s][o] # b
  BY <1>3
<1> QED
  BY <1>4 DEF Fresh

Rate == [value : Nat, bucket : Buckets \cup {None}]
Sound(r) == r.value = 0 <=> r.bucket = None

\* adjustableRate.set puts the value in force, and keeps the bucket between
\* two caps.
LEMMA RateSetFacts ==
  ASSUME TypeOK, NEW o \in Owners, NEW v \in Nat
  PROVE  /\ RateSet(o, v) \in Rate
         /\ RateSet(o, v).value = v
         /\ Sound(rate[o]) => Sound(RateSet(o, v))
         /\ Sound(rate[o]) /\ v > 0 /\ rate[o].bucket # None => RateSet(o, v).bucket = rate[o].bucket
<1>1. rate[o] \in Rate /\ Fresh(o) \in Buckets /\ None \notin Buckets
  BY FreshFacts, Constants DEF TypeOK, Rate
<1>2. CASE rate[o].value = v
  BY <1>1, <1>2 DEF RateSet, Rate
<1>3. CASE rate[o].value # v /\ v = 0
  BY <1>1, <1>3 DEF RateSet, Rate, NoRate, Sound
<1>4. CASE rate[o].value # v /\ v # 0 /\ rate[o].bucket # None
  BY <1>1, <1>4 DEF RateSet, Rate, Sound
<1>5. CASE rate[o].value # v /\ v # 0 /\ rate[o].bucket = None
  BY <1>1, <1>5 DEF RateSet, Rate, Sound
<1> QED
  BY <1>2, <1>3, <1>4, <1>5

----------------------------------------------------------------------------
(* Types *)

Pcs == {"idle", "ask", "read", "setUp", "setLimits", "admit", "start", "serve",
        "load", "decide", "write", "refresh"}
Job == [pc : Pcs, then : {"idle", "admit", "start"}, at : DOMAIN Order, got : Settings]

\* TypeOK in parts.
SettingsTyped == store \in Settings /\ memo \in {"fresh", "stale"} /\ spoiled \in BOOLEAN
RatesTyped    == /\ limits \in [Member -> Nat] /\ rate \in [Owners -> Rate]
                 /\ crossed \in [Serves -> SUBSET Owners]
CountsTyped   == /\ table \subseteq Requesters /\ cold \subseteq table /\ rested \subseteq Requesters
                 /\ active \in Nat /\ count \in [Requesters -> Nat]
JobsTyped     == job \in [Procs -> Job]
ServesTyped   == /\ key \in [Serves -> Requesters \cup {None}] /\ open \subseteq Serves
                 /\ held \in [Serves -> [Owners -> Buckets \cup {None}]]
BoundsTyped   == edits \in 0 .. MaxEdits /\ faults \in 0 .. MaxFaults

LEMMA TypeParts ==
  TypeOK <=> /\ SettingsTyped /\ RatesTyped /\ CountsTyped
             /\ JobsTyped /\ ServesTyped /\ BoundsTyped
BY DEF TypeOK, SettingsTyped, RatesTyped, CountsTyped, JobsTyped, ServesTyped, BoundsTyped, Rate, Job, Pcs

LEMMA TypePartsNext ==
  ASSUME SettingsTyped', RatesTyped', CountsTyped', JobsTyped', ServesTyped', BoundsTyped'
  PROVE  TypeOK'
BY DEF TypeOK, SettingsTyped, RatesTyped, CountsTyped, JobsTyped, ServesTyped, BoundsTyped, Rate, Job, Pcs

\* What a step leaves keeps its types.
LEMMA TypesKept ==
  ASSUME TypeOK
  PROVE  /\ UNCHANGED <<store, memo, spoiled>> => SettingsTyped'
         /\ UNCHANGED rateVars => RatesTyped'
         /\ UNCHANGED countVars => CountsTyped'
         /\ UNCHANGED job => JobsTyped'
         /\ UNCHANGED serveVars => ServesTyped'
         /\ UNCHANGED boundVars => BoundsTyped'
BY TypeParts DEF SettingsTyped, RatesTyped, CountsTyped, JobsTyped, ServesTyped, BoundsTyped,
   rateVars, countVars, serveVars, boundVars

\* An entry of job, and one that changes.
LEMMA JobFacts ==
  ASSUME TypeOK, NEW p \in Procs
  PROVE  /\ job \in [Procs -> Job] /\ job[p] \in Job /\ Idle \in Job
         /\ job[p].at \in 1 .. Len(Order) /\ Order[job[p].at] \in Knobs
         /\ job[p].got \in Settings /\ job[p].got \in [Knobs -> Nat]
         /\ \A j \in Job : job' = [job EXCEPT ![p] = j] => JobsTyped'
<1>1. job \in [Procs -> Job]
  BY TypeParts DEF JobsTyped
<1>2. job[p].at \in DOMAIN Order /\ job[p].got \in Settings
  BY <1>1 DEF Job
<1>3. Idle \in Job
  BY Constants, SettingsFacts DEF Job, Idle, Pcs
<1>4. \A j \in Job : job' = [job EXCEPT ![p] = j] => JobsTyped'
  BY <1>1, SMTT(60) DEF JobsTyped
<1> QED
  BY <1>1, <1>2, <1>3, <1>4, Constants, SettingsFacts

\* The places a goroutine is sent to.
LEMMA GoesType ==
  ASSUME TypeOK, NEW p \in Procs
  PROVE  /\ \A place \in Pcs : Goes(p, place) => JobsTyped'
         /\ Returns(p) => JobsTyped'
         /\ \A place \in Pcs, then \in {"idle", "admit", "start"} :
              [Idle EXCEPT !.pc = place, !.then = then] \in Job /\ [Idle EXCEPT !.pc = place] \in Job
<1>1. job \in [Procs -> Job] /\ Idle \in Job /\ 1 \in DOMAIN Order
  BY TypeParts, JobFacts, Constants DEF JobsTyped
<1>2. \A place \in Pcs, then \in {"idle", "admit", "start"} :
        [Idle EXCEPT !.pc = place, !.then = then] \in Job /\ [Idle EXCEPT !.pc = place] \in Job
  BY <1>1 DEF Job, Idle
<1>3. ASSUME Returns(p) PROVE JobsTyped'
  <2>1. [Idle EXCEPT !.pc = job[p].then] \in Job
    BY <1>1, <1>2 DEF Job, Pcs
  <2> QED
    BY <1>3, <2>1, JobFacts DEF Returns
<1>4. ASSUME NEW place \in Pcs, Goes(p, place) PROVE JobsTyped'
  <2>1. job' = [job EXCEPT ![p] = [job[p] EXCEPT !.pc = place, !.at = 1]]
    BY <1>1, <1>4 DEF Goes, Job
  <2>2. [job[p] EXCEPT !.pc = place, !.at = 1] \in Job
    BY <1>1 DEF Job
  <2> QED
    BY <2>1, <2>2, JobFacts
<1> QED
  BY <1>2, <1>3, <1>4

\* The initial state has the types.
LEMMA TypeInit == Init => TypeOK
<1> SUFFICES ASSUME Init PROVE TypeOK
  OBVIOUS
<1>1. SettingsTyped /\ BoundsTyped
  <2>1. spoiled \in BOOLEAN
    BY Zenon DEF Init
  <2>2. edits \in 0 .. MaxEdits /\ faults \in 0 .. MaxFaults
    BY Constants DEF Init
  <2> QED
    BY <2>1, <2>2, SettingsFacts DEF Init, SettingsTyped, BoundsTyped
<1>2. RatesTyped
  <2>1. 0 \in Buckets /\ \A k \in Knobs : Config[k] \in Nat
    BY Constants, SettingsFacts DEF Buckets
  <2>2. {"up", "class"} \subseteq Knobs /\ Member \subseteq Knobs
    BY DEF Knobs, Member
  <2> QED
    BY <2>1, <2>2 DEF Init, RatesTyped, Rate
<1>3. CountsTyped
  BY DEF Init, CountsTyped
<1>4. JobsTyped
  BY Constants, SettingsFacts DEF Init, JobsTyped, Job, Idle, Pcs
<1>5. ServesTyped
  BY DEF Init, ServesTyped, Nothing
<1> QED
  BY <1>1, <1>2, <1>3, <1>4, <1>5, TypeParts

\* One more edit, one more fault.
LEMMA BoundFacts ==
  ASSUME TypeOK
  PROVE  /\ edits < MaxEdits /\ edits' = edits + 1 /\ faults' = faults => BoundsTyped'
         /\ faults < MaxFaults /\ faults' = faults + 1 /\ edits' = edits => BoundsTyped'
<1>1. edits \in 0 .. MaxEdits /\ faults \in 0 .. MaxFaults /\ MaxEdits \in Nat /\ MaxFaults \in Nat
  BY TypeParts, Constants DEF BoundsTyped
<1> QED
  BY <1>1 DEF BoundsTyped

\* A resolution, and time.
LEMMA TypeResolve ==
  ASSUME TypeOK, NEW p \in Procs, Resolve(p) \/ ReadFails(p) \/ Expire
  PROVE  TypeOK'
<1>1. CASE Ask(p)
  <2>1. SettingsTyped' /\ JobsTyped'
    BY <1>1, TypeParts, GoesType DEF Ask, SettingsTyped, Pcs, memoVars
  <2> QED
    BY TypesKept, TypePartsNext, <1>1, <2>1 DEF Ask
<1>2. CASE Read(p)
  <2>1. Got(p) \in Settings
    <3>1. job[p].got \in Settings /\ store \in Settings /\ Order[job[p].at] \in Knobs
      BY JobFacts, TypeParts DEF Job, SettingsTyped
    <3> QED
      BY <3>1 DEF Got, Settings
  <2> DEFINE j == [pc |-> job'[p].pc, then |-> job[p].then, at |-> job'[p].at, got |-> Got(p)]
  <2>2. job' = [job EXCEPT ![p] = j] /\ j \in Job
    <3>1. job[p] \in Job /\ job \in [Procs -> Job] /\ job[p].at \in 1 .. Len(Order)
      BY JobFacts
    <3>2. job'[p].at = IF job[p].at = Len(Order) THEN 1 ELSE job[p].at + 1
      BY <1>2, <3>1 DEF Read, Job
    <3>3. job'[p].at \in DOMAIN Order
      <4>1. Len(Order) \in Nat /\ Len(Order) > 0
        BY Constants
      <4>2. job'[p].at \in 1 .. Len(Order)
        BY <3>1, <3>2, <4>1
      <4> QED
        BY <4>2, Constants
    <3>4. job'[p].pc = IF job[p].at = Len(Order) THEN IF job[p].pc = "read" THEN "setUp" ELSE "decide" ELSE job[p].pc
      BY <1>2, <3>1 DEF Read, Job
    <3>5. job'[p].pc \in Pcs
      BY <3>1, <3>4 DEF Job, Pcs
    <3>6. j \in Job
      BY <2>1, <3>1, <3>3, <3>5 DEF Job
    <3>7. job' = [job EXCEPT ![p] = j]
      <4>1. /\ job'[p] = [job[p] EXCEPT !.got = job'[p].got, !.at = job'[p].at, !.pc = job'[p].pc]
            /\ job'[p].got = Got(p)
        BY <1>2, <3>1 DEF Read, Job
      <4>2. job'[p] = j
        BY <3>1, <4>1 DEF Job
      <4>3. \A q \in Procs : q # p => job'[q] = job[q]
        BY <1>2, <3>1 DEF Read
      <4>4. job' \in [Procs -> {job'[q] : q \in Procs}] /\ DOMAIN job' = Procs
        BY <1>2, <3>1 DEF Read
      <4> QED
        BY <3>1, <4>2, <4>3, <4>4
    <3> QED
      BY <3>6, <3>7
  <2>3. JobsTyped'
    BY <2>2, JobFacts
  <2> QED
    BY TypesKept, TypePartsNext, <1>2, <2>3 DEF Read, memoVars
<1>3. CASE ReadFails(p)
  <2>1. SettingsTyped'
    BY <1>3, TypeParts DEF ReadFails, SettingsTyped
  <2>2. BoundsTyped'
    BY <1>3, BoundFacts, SMTT(60) DEF ReadFails
  <2>3. JobsTyped'
    BY <1>3, GoesType DEF ReadFails
  <2> QED
    BY TypesKept, TypePartsNext, <1>3, <2>1, <2>2, <2>3 DEF ReadFails
<1>4. CASE SetUp(p)
  <2>1. job[p].got["up"] \in Nat
    BY JobFacts DEF Knobs
  <2>2. RatesTyped'
    BY <1>4, <2>1, RateSetFacts, TypeParts, Constants DEF SetUp, Changes, RatesTyped, Crossing
  <2>3. JobsTyped'
    BY <1>4, GoesType, SMTT(60) DEF SetUp, Pcs
  <2> QED
    BY TypesKept, TypePartsNext, <1>4, <2>2, <2>3 DEF SetUp, memoVars
<1>5. CASE SetLimits(p)
  <2>1. \A k \in Knobs : job[p].got[k] \in Nat
    BY JobFacts
  <2>2. Reached(job[p].got) \in [Owners -> Rate]
    <3>1. \A o \in Owners : Reached(job[p].got)[o] \in Rate
      BY <2>1, RateSetFacts, TypeParts, Constants DEF Reached, RatesTyped, Knobs
    <3> QED
      BY <3>1 DEF Reached
  <2>3. RatesTyped'
    BY <1>5, <2>1, <2>2, TypeParts DEF SetLimits, Changes, RatesTyped, Crossing, Member
  <2> QED
    BY TypesKept, TypePartsNext, GoesType, <1>5, <2>3 DEF SetLimits, memoVars
<1>6. CASE Expire
  <2>1. SettingsTyped'
    BY <1>6, TypeParts DEF Expire, SettingsTyped
  <2> QED
    BY TypesKept, TypePartsNext, <1>6, <2>1 DEF Expire
<1> QED
  BY <1>1, <1>2, <1>3, <1>4, <1>5, <1>6 DEF Resolve

\* A member's request. A release finds itself counted.
LEMMA TypeServe ==
  ASSUME TypeOK, NEW s \in Serves, NEW r \in Requesters,
         key[s] # None \/ job[s].pc \in {"idle", "start"},
         Release(s) => active > 0 /\ count[key[s]] > 0,
         Arrive(s, r) \/ Refuse(s) \/ Admit(s) \/ Start(s) \/ Release(s) \/ Cools(r)
  PROVE  TypeOK'
<1>0. s \in Procs /\ Nothing \in [Owners -> Buckets \cup {None}] /\ Idle \in Job
  BY Constants, JobFacts DEF Nothing
<1>1. CASE Arrive(s, r)
  <2>1. JobsTyped'
    <3> DEFINE j == [job[s] EXCEPT !.pc = "ask", !.then = "admit"]
    <3>1. j \in Job /\ job' = [job EXCEPT ![s] = j]
      BY <1>0, <1>1, JobFacts DEF Arrive, Job, Pcs
    <3> QED
      BY <1>0, <3>1, JobFacts
  <2>2. ServesTyped'
    BY <1>1, TypeParts DEF Arrive, ServesTyped
  <2> QED
    BY <1>1, <2>1, <2>2, TypesKept, TypePartsNext DEF Arrive, memoVars
<1>2. CASE Refuse(s)
  <2>1. JobsTyped'
    BY <1>0, <1>2, JobFacts DEF Refuse
  <2>2. ServesTyped'
    BY <1>2, TypeParts DEF Refuse, ServesTyped
  <2> QED
    BY <1>2, <2>1, <2>2, TypesKept, TypePartsNext DEF Refuse, memoVars
<1>3. CASE Admit(s)
  <2>1. key[s] \in Requesters /\ Prunable(key[s]) \subseteq table
    BY <1>3, TypeParts DEF Admit, ServesTyped, Prunable
  <2>2. JobsTyped'
    BY <1>0, <1>3, JobFacts, GoesType DEF Admit, Pcs
  <2>3. Entered(key[s]) \in [Owners -> Rate]
    <3>1. limits["share"] \in Nat /\ rate \in [Owners -> Rate] /\ NoRate \in Rate
      BY TypeParts DEF RatesTyped, Member, Knobs, NoRate, Rate
    <3>2. RateSet(key[s], limits["share"]) \in Rate
      BY <2>1, <3>1, RateSetFacts, Constants
    <3>3. \A o \in Owners : Entered(key[s])[o] \in Rate
      BY <3>1, <3>2 DEF Entered
    <3> QED
      BY <3>3 DEF Entered
  <2>4. RatesTyped'
    BY <1>3, <2>3, TypeParts DEF Admit, RatesTyped
  <2>5. CountsTyped'
    BY <1>3, <2>1, TypeParts DEF Admit, CountsTyped
  <2>6. ServesTyped'
    <3>1. Taken(key[s], Entered(key[s])) \in [Owners -> Buckets \cup {None}]
      BY <2>3 DEF Taken, Rate
    <3> QED
      BY <1>3, <3>1, TypeParts DEF Admit, ServesTyped
  <2> QED
    BY <1>3, <2>2, <2>4, <2>5, <2>6, TypesKept, TypePartsNext DEF Admit, memoVars
<1>4. CASE Start(s)
  <2>1. JobsTyped'
    BY <1>0, <1>4, GoesType DEF Start, Pcs
  <2>2. RatesTyped'
    BY <1>4, TypeParts DEF Start, RatesTyped
  <2>3. ServesTyped'
    <3>1. held \in [Serves -> [Owners -> Buckets \cup {None}]] /\ rate[Up].bucket \in Buckets \cup {None}
      BY TypeParts, Constants DEF ServesTyped, RatesTyped, Rate
    <3>2. held' \in [Serves -> [Owners -> Buckets \cup {None}]]
      BY <1>4, <3>1 DEF Start
    <3> QED
      BY <1>4, <3>2, TypeParts DEF Start, ServesTyped
  <2> QED
    BY <1>4, <2>1, <2>2, <2>3, TypesKept, TypePartsNext DEF Start, memoVars
<1>5. CASE Release(s)
  <2>1. JobsTyped'
    BY <1>0, <1>5, JobFacts DEF Release
  <2>2. RatesTyped'
    BY <1>5, TypeParts DEF Release, RatesTyped
  <2>3. CountsTyped'
    <3>1. key[s] \in Requesters
      BY <1>5, TypeParts DEF Release, ServesTyped
    <3>2. active - 1 \in Nat /\ count[key[s]] - 1 \in Nat
      BY <1>5, <3>1, TypeParts DEF CountsTyped
    <3>3. active' \in Nat /\ count' \in [Requesters -> Nat]
      BY <1>5, <3>1, <3>2, TypeParts DEF Release, CountsTyped
    <3>4. table' = table /\ cold' \subseteq cold /\ rested' = rested
      BY <1>5 DEF Release
    <3> QED
      BY <3>3, <3>4, TypeParts DEF CountsTyped
  <2>4. ServesTyped'
    BY <1>0, <1>5, TypeParts DEF Release, ServesTyped
  <2> QED
    BY <1>5, <2>1, <2>2, <2>3, <2>4, TypesKept, TypePartsNext DEF Release, memoVars
<1>6. CASE Cools(r)
  <2>1. CountsTyped'
    BY <1>6, TypeParts DEF Cools, CountsTyped
  <2> QED
    BY <1>6, <2>1, TypesKept, TypePartsNext DEF Cools, memoVars
<1> QED
  BY <1>1, <1>2, <1>3, <1>4, <1>5, <1>6

\* An admin.
LEMMA TypeAdmin ==
  ASSUME TypeOK, NEW a \in Admins,
         Look(a) \/ Edit(a) \/ Decide(a) \/ Write(a) \/ WriteFails(a) \/ Refresh(a)
  PROVE  TypeOK'
<1>0. a \in Procs /\ Idle \in Job
  BY Constants, JobFacts
<1>1. CASE Look(a)
  <2>1. JobsTyped'
    BY <1>0, <1>1, GoesType DEF Look, Pcs
  <2> QED
    BY <1>1, <2>1, TypesKept, TypePartsNext DEF Look, memoVars
<1>2. CASE Edit(a)
  <2>1. JobsTyped' /\ BoundsTyped'
    BY <1>0, <1>2, GoesType, BoundFacts DEF Edit, Pcs
  <2> QED
    BY <1>2, <2>1, TypesKept, TypePartsNext DEF Edit, memoVars
<1>3. CASE Decide(a)
  <2>1. PICK new \in Settings : job' = [job EXCEPT ![a].pc = "write", ![a].at = 1, ![a].got = new]
    BY <1>3 DEF Decide
  <2>2. JobsTyped'
    <3> DEFINE j == [job[a] EXCEPT !.pc = "write", !.at = 1, !.got = new]
    <3>1. job[a] \in Job /\ job \in [Procs -> Job] /\ 1 \in DOMAIN Order
      BY <1>0, JobFacts, Constants
    <3>2. j \in Job
      BY <3>1 DEF Job, Pcs
    <3>3. job' = [job EXCEPT ![a] = j]
      BY <1>0, <2>1, <3>1 DEF Job
    <3> QED
      BY <1>0, <3>2, <3>3, JobFacts
  <2> QED
    BY <1>3, <2>2, TypesKept, TypePartsNext DEF Decide, memoVars
<1>4. CASE Write(a)
  <2> DEFINE knob == Order[job[a].at]
  <2>1. knob \in Knobs /\ job[a].got \in Settings /\ store \in Settings
    BY <1>0, JobFacts, TypeParts DEF SettingsTyped
  <2>2. store' \in Settings
    BY <1>4, <2>1 DEF Write, Settings
  <2>3. SettingsTyped'
    <3>1. spoiled' \in BOOLEAN
      BY <1>4, Zenon DEF Write
    <3> QED
      BY <1>4, <2>2, <3>1, TypeParts DEF Write, SettingsTyped
  <2>4. JobsTyped'
    <3> DEFINE at == IF job[a].at = Len(Order) THEN 1 ELSE job[a].at + 1
               pc == IF job[a].at = Len(Order) THEN "refresh" ELSE "write"
               j  == [job[a] EXCEPT !.at = at, !.pc = pc]
    <3>1. job' = [job EXCEPT ![a] = j]
      BY <1>0, <1>4, JobFacts DEF Write, Job
    <3>2. at \in DOMAIN Order
      <4>1. job[a].at \in 1 .. Len(Order) /\ Len(Order) \in Nat
        BY <1>0, JobFacts, Constants
      <4> QED
        BY <4>1, Constants
    <3>3. j \in Job
      <4> HIDE DEF at
      <4> QED
        BY <1>0, <3>2, JobFacts DEF Job, Pcs
    <3> QED
      BY <1>0, <3>1, <3>3, JobFacts
  <2> QED
    BY <1>4, <2>3, <2>4, TypesKept, TypePartsNext DEF Write
<1>5. CASE WriteFails(a)
  <2>1. JobsTyped' /\ BoundsTyped'
    BY <1>0, <1>5, JobFacts, BoundFacts DEF WriteFails
  <2>2. SettingsTyped'
    BY <1>5, TypeParts DEF WriteFails, SettingsTyped
  <2> QED
    BY <1>5, <2>1, <2>2, TypesKept, TypePartsNext DEF WriteFails
<1>6. CASE Refresh(a)
  <2>1. JobsTyped'
    BY <1>0, <1>6, JobFacts, GoesType DEF Refresh, Pcs
  <2>2. SettingsTyped'
    BY <1>6, TypeParts DEF Refresh, SettingsTyped
  <2> QED
    BY <1>6, <2>1, <2>2, TypesKept, TypePartsNext DEF Refresh
<1> QED
  BY <1>1, <1>2, <1>3, <1>4, <1>5, <1>6

----------------------------------------------------------------------------
(* Places *)

\* The places of one goroutine, and of all.
ServePlace(s) ==
  /\ s \in open <=> InService(s)
  /\ job[s].pc \in {"idle", "ask", "read", "setUp", "setLimits", "admit", "start", "serve"}
  /\ job[s].pc # "idle" => key[s] # None
  /\ job[s].then = "start" => job[s].pc \in {"ask", "read", "setUp", "setLimits"}
  /\ job[s].pc = "idle" => job[s] = Idle
  /\ job[s].pc = "ask" => job[s].at = 1

AdminPlace(a) ==
  /\ job[a].then = "idle"
  /\ job[a].pc \in {"idle", "ask", "load", "decide", "write", "refresh", "read", "setUp", "setLimits"}
  /\ job[a].pc = "ask" => job[a].at = 1

LEMMA PlaceParts == Places <=> (\A s \in Serves : ServePlace(s)) /\ (\A a \in Admins : AdminPlace(a))
BY DEF Places, ServePlace, AdminPlace, Procs

LEMMA PlacePartsNext ==
  ASSUME \A s \in Serves : ServePlace(s)', \A a \in Admins : AdminPlace(a)'
  PROVE  Places'
BY DEF Places, ServePlace, AdminPlace, Procs, InService

\* Everybody else stays where he is.
LEMMA PlacesElsewhere ==
  ASSUME Places, NEW p \in Procs, \A q \in Procs : q # p => job'[q] = job[q],
         \A s \in Serves : s # p => key'[s] = key[s] /\ (s \in open' <=> s \in open),
         p \in Serves => ServePlace(p)',
         p \in Admins => AdminPlace(p)'
  PROVE  Places'
<1>1. \A s \in Serves : s # p => ServePlace(s)'
  BY PlaceParts, Constants DEF ServePlace, InService
<1>2. \A a \in Admins : a # p => AdminPlace(a)'
  BY PlaceParts, Constants DEF AdminPlace
<1> QED
  BY <1>1, <1>2, PlacePartsNext

\* A goroutine returns from refreshLimits: a serve that was in service still is.
LEMMA PlacesReturn ==
  ASSUME TypeOK, Places, NEW p \in Procs, Returns(p), UNCHANGED <<key, open>>,
         job[p].pc \in {"ask", "load", "read", "setLimits"}
  PROVE  Places'
<1>1. job \in [Procs -> Job] /\ job[p] \in Job
  BY JobFacts
<1>2. job'[p] = [Idle EXCEPT !.pc = job[p].then] /\ \A q \in Procs : q # p => job'[q] = job[q]
  BY <1>1 DEF Returns
<1>3. job'[p].pc = job[p].then /\ job'[p].then = "idle" /\ job'[p].at = 1
      /\ (job[p].then = "idle" => job'[p] = Idle) /\ job[p].then \in {"idle", "admit", "start"}
  BY <1>1, <1>2 DEF Idle, Job
<1>4. ASSUME p \in Serves PROVE ServePlace(p)'
  BY <1>3, <1>4, PlaceParts DEF ServePlace, InService
<1>5. ASSUME p \in Admins PROVE AdminPlace(p)'
  BY <1>3, <1>5, PlaceParts DEF AdminPlace
<1> QED
  BY <1>2, <1>4, <1>5, PlacesElsewhere

\* A goroutine goes on within refreshLimits.
LEMMA PlacesOn ==
  ASSUME TypeOK, Places, NEW p \in Procs, UNCHANGED <<key, open>>,
         \A q \in Procs : q # p => job'[q] = job[q],
         job'[p].then = job[p].then,
         \/ job[p].pc \in {"ask", "read", "setUp"} /\ job'[p].pc \in {"read", "setUp", "setLimits"}
         \/ job[p].pc = "load" /\ job'[p].pc \in {"load", "decide"}
  PROVE  Places'
<1>4. ASSUME p \in Serves PROVE ServePlace(p)'
  BY <1>4, PlaceParts DEF ServePlace, InService
<1>5. ASSUME p \in Admins PROVE AdminPlace(p)'
  BY <1>5, PlaceParts DEF AdminPlace
<1> QED
  BY <1>4, <1>5, PlacesElsewhere

\* What Goes does to job.
LEMMA GoesFacts ==
  ASSUME TypeOK, NEW p \in Procs, NEW place, Goes(p, place)
  PROVE  /\ job'[p].pc = place /\ job'[p].at = 1 /\ job'[p].then = job[p].then /\ job'[p].got = job[p].got
         /\ \A q \in Procs : q # p => job'[q] = job[q]
BY JobFacts DEF Goes, Job

\* What Read does to it.
LEMMA ReadFacts ==
  ASSUME TypeOK, NEW p \in Procs, Read(p)
  PROVE  /\ job'[p].then = job[p].then /\ job'[p].got = Got(p)
         /\ job[p].at < Len(Order) => job'[p].at = job[p].at + 1 /\ job'[p].pc = job[p].pc
         /\ job[p].at >= Len(Order) =>
              job'[p].at = 1 /\ job'[p].pc = IF job[p].pc = "read" THEN "setUp" ELSE "decide"
         /\ \A q \in Procs : q # p => job'[q] = job[q]
<1>1. job \in [Procs -> Job] /\ job[p] \in Job /\ job[p].at \in 1 .. Len(Order) /\ Len(Order) \in Nat
  BY JobFacts, Constants
<1>2. /\ job'[p] = [job[p] EXCEPT !.got = Got(p),
                    !.at = IF job[p].at = Len(Order) THEN 1 ELSE job[p].at + 1,
                    !.pc = IF job[p].at = Len(Order)
                           THEN IF job[p].pc = "read" THEN "setUp" ELSE "decide"
                           ELSE job[p].pc]
      /\ \A q \in Procs : q # p => job'[q] = job[q]
  BY <1>1 DEF Read, Job
<1> QED
  BY <1>1, <1>2 DEF Job

LEMMA PlacesResolve ==
  ASSUME TypeOK, Places, NEW p \in Procs, Resolve(p) \/ ReadFails(p) \/ Expire
  PROVE  Places'
<1>1. CASE Ask(p)
  <2>1. CASE Returns(p)
    BY <1>1, <2>1, PlacesReturn DEF Ask, serveVars
  <2>2. CASE Goes(p, "read")
    BY <1>1, <2>2, GoesFacts, PlacesOn DEF Ask, serveVars
  <2> QED
    BY <1>1, <2>1, <2>2 DEF Ask
<1>2. CASE Read(p)
  <2>1. job[p].at < Len(Order) \/ job[p].at >= Len(Order)
    BY JobFacts, Constants
  <2> QED
    BY <1>2, <2>1, ReadFacts, PlacesOn DEF Read, Reading, serveVars
<1>3. CASE ReadFails(p)
  BY <1>3, PlacesReturn DEF ReadFails, Reading, serveVars
<1>4. CASE SetUp(p)
  BY <1>4, GoesFacts, PlacesOn DEF SetUp, serveVars
<1>5. CASE SetLimits(p)
  BY <1>5, PlacesReturn DEF SetLimits, serveVars
<1>6. CASE Expire
  BY <1>6 DEF Expire, serveVars, Places, InService
<1> QED
  BY <1>1, <1>2, <1>3, <1>4, <1>5, <1>6 DEF Resolve

LEMMA PlacesServe ==
  ASSUME TypeOK, Places, NEW s \in Serves, NEW r \in Requesters,
         Arrive(s, r) \/ Refuse(s) \/ Admit(s) \/ Start(s) \/ Release(s) \/ Cools(r)
  PROVE  Places'
<1>0. s \in Procs /\ s \notin Admins /\ job \in [Procs -> Job] /\ job[s] \in Job /\ key \in [Serves -> Requesters \cup {None}]
  BY Constants, JobFacts, LimitsAssumption, TypeParts DEF ServesTyped
<1>1. CASE Arrive(s, r)
  <2>1. ServePlace(s)'
    BY <1>0, <1>1, Constants, PlaceParts DEF Arrive, ServePlace, InService, Idle, Job
  <2> QED
    BY <1>0, <1>1, <2>1, PlacesElsewhere DEF Arrive
<1>2. CASE Refuse(s)
  <2>1. ServePlace(s)'
    BY <1>0, <1>2, PlaceParts DEF Refuse, ServePlace, InService, Idle
  <2> QED
    BY <1>0, <1>2, <2>1, PlacesElsewhere DEF Refuse
<1>3. CASE Admit(s)
  <2>1. ServePlace(s)'
    BY <1>0, <1>3, PlaceParts DEF Admit, ServePlace, InService, Idle
  <2> QED
    BY <1>0, <1>3, <2>1, PlacesElsewhere DEF Admit
<1>4. CASE Start(s)
  <2>1. ServePlace(s)'
    BY <1>0, <1>4, PlaceParts, GoesFacts DEF Start, ServePlace, InService
  <2> QED
    BY <1>0, <1>4, <2>1, GoesFacts, PlacesElsewhere DEF Start
<1>5. CASE Release(s)
  <2>1. ServePlace(s)'
    BY <1>0, <1>5, PlaceParts DEF Release, ServePlace, InService, Idle
  <2> QED
    BY <1>0, <1>5, <2>1, PlacesElsewhere DEF Release
<1>6. CASE Cools(r)
  BY <1>6 DEF Cools, serveVars, Places, InService
<1> QED
  BY <1>1, <1>2, <1>3, <1>4, <1>5, <1>6

LEMMA PlacesAdmin ==
  ASSUME TypeOK, Places, NEW a \in Admins,
         Look(a) \/ Edit(a) \/ Decide(a) \/ Write(a) \/ WriteFails(a) \/ Refresh(a)
  PROVE  Places'
<1>0. a \in Procs /\ a \notin Serves /\ job \in [Procs -> Job] /\ job[a] \in Job
  BY Constants, JobFacts, LimitsAssumption
<1>1. UNCHANGED <<key, open>> /\ \A q \in Procs : q # a => job'[q] = job[q]
  BY <1>0, GoesFacts DEF Look, Edit, Decide, Write, WriteFails, Refresh, serveVars
<1>2. AdminPlace(a)'
  <2>1. CASE Look(a) \/ Edit(a)
    BY <1>0, <2>1, GoesFacts, PlaceParts DEF Look, Edit, AdminPlace
  <2>2. CASE Decide(a)
    <3>1. PICK new \in Settings : job' = [job EXCEPT ![a].pc = "write", ![a].at = 1, ![a].got = new]
      BY <2>2 DEF Decide
    <3>2. job'[a].then = job[a].then /\ job'[a].pc = "write"
      BY <1>0, <3>1 DEF Job
    <3> QED
      BY <3>2, PlaceParts DEF AdminPlace
  <2>3. CASE Write(a)
    <3>1. job'[a].then = job[a].then /\ job'[a].pc \in {"write", "refresh"}
      BY <1>0, <2>3 DEF Write, Job
    <3> QED
      BY <3>1, PlaceParts DEF AdminPlace
  <2>4. CASE WriteFails(a) \/ Refresh(a)
    BY <1>0, <2>4 DEF WriteFails, Refresh, AdminPlace, Idle
  <2> QED
    BY <2>1, <2>2, <2>3, <2>4
<1> QED
  BY <1>0, <1>1, <1>2, PlacesElsewhere

----------------------------------------------------------------------------
(* Counts *)

\* Who is counted is a finite set, and counted.
LEMMA CountedFacts ==
  ASSUME TypeOK, Places, CountsExact
  PROVE  /\ IsFiniteSet(open) /\ \A r \in Requesters : IsFiniteSet(Of(r))
         /\ \A s \in open : key[s] \in Requesters /\ key[s] \in table
                            /\ active > 0 /\ count[key[s]] > 0
         /\ \A s \in Serves : job[s].pc # "idle" => key[s] \in Requesters
<1>1. open \subseteq Serves /\ key \in [Serves -> Requesters \cup {None}]
  BY TypeParts DEF ServesTyped
<1>2. IsFiniteSet(open) /\ \A r \in Requesters : Of(r) \subseteq open
  BY <1>1, Constants, FS_Subset DEF Of
<1>3. \A r \in Requesters : IsFiniteSet(Of(r))
  BY <1>2, FS_Subset
<1>4. \A s \in Serves : job[s].pc # "idle" => key[s] \in Requesters
  BY <1>1 DEF Places
<1>5. ASSUME NEW s \in open PROVE key[s] \in Requesters /\ key[s] \in table /\ active > 0 /\ count[key[s]] > 0
  <2>1. key[s] \in table /\ key[s] \in Requesters
    BY TypeParts DEF CountsExact, CountsTyped
  <2>2. s \in Of(key[s])
    BY DEF Of
  <2>3. Cardinality(open) \in Nat \ {0} /\ Cardinality(Of(key[s])) \in Nat \ {0}
    BY <1>2, <1>3, <2>1, <2>2, FS_EmptySet, FS_CardinalityType
  <2> QED
    BY <2>1, <2>3 DEF CountsExact
<1> QED
  BY <1>2, <1>3, <1>4, <1>5

\* A step that admits and releases nobody.
LEMMA CountsKeep ==
  ASSUME TypeOK, CountsExact, UNCHANGED <<table, active, count, open>>,
         \A s \in open : key'[s] = key[s]
  PROVE  CountsExact'
<1>1. \A r \in Requesters : Of(r)' = Of(r)
  BY DEF Of
<1> QED
  BY <1>1 DEF CountsExact

LEMMA CountsAdmit ==
  ASSUME TypeOK, Places, CountsExact, NEW s \in Serves, Admit(s)
  PROVE  CountsExact'
<1> DEFINE r == key[s]
<1>1. r \in Requesters /\ s \notin open
  BY CountedFacts DEF Admit, Places, InService
<1>2. open' = open \cup {s} /\ key' = key
  BY DEF Admit
<1>3. active' = Cardinality(open')
  BY <1>1, <1>2, CountedFacts, FS_AddElement DEF Admit, CountsExact
<1>4. ASSUME NEW k \in Requesters PROVE count'[k] = Cardinality(Of(k)')
  <2>1. CASE k = r
    <3>1. Of(k)' = Of(k) \cup {s} /\ s \notin Of(k)
      BY <1>1, <1>2, <2>1 DEF Of
    <3>2. Cardinality(Of(k)') = Cardinality(Of(k)) + 1
      BY <3>1, CountedFacts, FS_AddElement
    <3> QED
      BY <2>1, <3>2 DEF Admit, CountsExact
  <2>2. CASE k # r
    <3>1. Of(k)' = Of(k)
      BY <1>2, <2>2 DEF Of
    <3>2. count'[k] = count[k]
      BY <2>2 DEF Admit, Prunable
    <3> QED
      BY <3>1, <3>2 DEF CountsExact
  <2> QED
    BY <2>1, <2>2
<1>5. \A t \in open' : key'[t] \in table'
  <2>1. \A t \in open : key[t] \notin Prunable(r)
    BY CountedFacts DEF Prunable
  <2> QED
    BY <1>2, <2>1, CountedFacts DEF Admit
<1> QED
  BY <1>3, <1>4, <1>5 DEF CountsExact

LEMMA CountsRelease ==
  ASSUME TypeOK, Places, CountsExact, NEW s \in Serves, Release(s)
  PROVE  CountsExact'
<1> DEFINE r == key[s]
<1>1. s \in open /\ r \in Requesters
  BY CountedFacts DEF Release, Places, InService
<1>2. open' = open \ {s} /\ \A t \in Serves : t # s => key'[t] = key[t]
  BY TypeParts DEF Release, ServesTyped
<1>3. active' = Cardinality(open')
  BY <1>1, <1>2, CountedFacts, FS_RemoveElement DEF Release, CountsExact
<1>4. ASSUME NEW k \in Requesters PROVE count'[k] = Cardinality(Of(k)')
  <2>0. open \subseteq Serves /\ count \in [Requesters -> Nat]
    BY TypeParts DEF ServesTyped, CountsTyped
  <2>1. CASE k = r
    <3>1. Of(k)' = Of(k) \ {s} /\ s \in Of(k)
      BY <1>1, <1>2, <2>0, <2>1 DEF Of
    <3>2. Cardinality(Of(k)') = Cardinality(Of(k)) - 1
      BY <3>1, CountedFacts, FS_RemoveElement
    <3> QED
      BY <2>0, <2>1, <3>2 DEF Release, CountsExact
  <2>2. CASE k # r
    <3>1. Of(k)' = Of(k)
      BY <1>2, <2>0, <2>2 DEF Of
    <3> QED
      BY <2>0, <2>2, <3>1 DEF Release, CountsExact
  <2> QED
    BY <2>1, <2>2
<1>5. \A t \in open' : key'[t] \in table'
  BY <1>2, CountedFacts, TypeParts DEF Release, ServesTyped
<1> QED
  BY <1>3, <1>4, <1>5 DEF CountsExact

\* The steps that leave who is served alone.
LEMMA ServingKept ==
  ASSUME TypeOK, Places, [Next]_vars
  PROVE  \/ \E s \in Serves : Admit(s) \/ Release(s)
         \/ UNCHANGED <<table, active, count, open>> /\ \A s \in open : key'[s] = key[s]
<1>1. ASSUME NEW p \in Procs, Resolve(p) \/ ReadFails(p)
      PROVE  UNCHANGED <<table, active, count, open, key>>
  BY <1>1 DEF Resolve, Ask, Read, SetUp, SetLimits, ReadFails, countVars, serveVars
<1>2. ASSUME NEW a \in Admins, Look(a) \/ Edit(a) \/ Decide(a) \/ Write(a) \/ WriteFails(a) \/ Refresh(a)
      PROVE  UNCHANGED <<table, active, count, open, key>>
  BY <1>2 DEF Look, Edit, Decide, Write, WriteFails, Refresh, countVars, serveVars
<1>3. ASSUME NEW s \in Serves, NEW r \in Requesters, Arrive(s, r)
      PROVE  UNCHANGED <<table, active, count, open>> /\ \A t \in open : key'[t] = key[t]
  <2>1. s \notin open
    BY <1>3 DEF Arrive, Places, InService, Idle
  <2>2. key \in [Serves -> Requesters \cup {None}] /\ open \subseteq Serves
    BY TypeParts DEF ServesTyped
  <2> QED
    BY <1>3, <2>1, <2>2 DEF Arrive, countVars
<1>4. ASSUME NEW s \in Serves, Refuse(s)
      PROVE  UNCHANGED <<table, active, count, open>> /\ \A t \in open : key'[t] = key[t]
  <2>1. s \notin open
    BY <1>4 DEF Refuse, Places, InService
  <2>2. key \in [Serves -> Requesters \cup {None}] /\ open \subseteq Serves
    BY TypeParts DEF ServesTyped
  <2> QED
    BY <1>4, <2>1, <2>2 DEF Refuse, countVars
<1>5. ASSUME NEW s \in Serves, Start(s) PROVE UNCHANGED <<table, active, count, open, key>>
  BY <1>5 DEF Start, countVars
<1>6. ASSUME Expire \/ \E r \in Requesters : Cools(r) PROVE UNCHANGED <<table, active, count, open, key>>
  BY <1>6 DEF Expire, Cools, countVars, serveVars
<1>7. ASSUME UNCHANGED vars PROVE UNCHANGED <<table, active, count, open, key>>
  BY <1>7 DEF vars
<1> QED
  BY <1>1, <1>2, <1>3, <1>4, <1>5, <1>6, <1>7 DEF Next

LEMMA CountsNext ==
  ASSUME TypeOK, Places, CountsExact, [Next]_vars
  PROVE  CountsExact'
BY ServingKept, CountsKeep, CountsAdmit, CountsRelease

----------------------------------------------------------------------------
(* Rates and buckets *)

\* The steps that leave what is in force alone.
LEMMA RatesKept ==
  ASSUME [Next]_vars
  PROVE  \/ \E p \in Procs : SetUp(p) \/ SetLimits(p)
         \/ \E s \in Serves : Admit(s)
         \/ UNCHANGED <<limits, rate, table>>
<1>1. ASSUME NEW p \in Procs, Ask(p) \/ Read(p) \/ ReadFails(p)
      PROVE  UNCHANGED <<limits, rate, table>>
  BY <1>1 DEF Ask, Read, ReadFails, rateVars, countVars
<1>2. ASSUME NEW a \in Admins, Look(a) \/ Edit(a) \/ Decide(a) \/ Write(a) \/ WriteFails(a) \/ Refresh(a)
      PROVE  UNCHANGED <<limits, rate, table>>
  BY <1>2 DEF Look, Edit, Decide, Write, WriteFails, Refresh, rateVars, countVars
<1>3. ASSUME NEW s \in Serves, NEW r \in Requesters,
             Arrive(s, r)
      PROVE  UNCHANGED <<limits, rate, table>>
  BY <1>3 DEF Arrive, rateVars, countVars
<1>4. ASSUME NEW s \in Serves, Refuse(s) \/ Start(s) \/ Release(s)
      PROVE  UNCHANGED <<limits, rate, table>>
  BY <1>4 DEF Refuse, Start, Release, rateVars, countVars
<1>5. ASSUME NEW r \in Requesters, Cools(r) PROVE UNCHANGED <<limits, rate, table>>
  BY <1>5 DEF Cools, rateVars
<1>6. ASSUME Expire \/ UNCHANGED vars PROVE UNCHANGED <<limits, rate, table>>
  BY <1>6 DEF Expire, vars, rateVars, countVars
<1> QED
  BY <1>1, <1>2, <1>3, <1>4, <1>5, <1>6 DEF Next, Resolve

\* What is put in force, rate by rate.
LEMMA SetUpRates ==
  ASSUME TypeOK, NEW p \in Procs, SetUp(p)
  PROVE  /\ rate'[Up] = RateSet(Up, job[p].got["up"]) /\ job[p].got["up"] \in Nat
         /\ \A o \in Owners : o # Up => rate'[o] = rate[o]
<1>1. rate \in [Owners -> Rate] /\ Up \in Owners /\ job[p].got["up"] \in Nat
  BY TypeParts, Constants, JobFacts DEF RatesTyped, Knobs
<1> QED
  BY <1>1 DEF SetUp, Changes

LEMMA SetLimitsRates ==
  ASSUME TypeOK, NEW p \in Procs, SetLimits(p)
  PROVE  /\ \A k \in Knobs : job[p].got[k] \in Nat
         /\ \A k \in Member : limits'[k] = job[p].got[k]
         /\ rate'[Up] = rate[Up]
         /\ rate'[Class] = RateSet(Class, job[p].got["class"])
         /\ \A r \in Requesters : rate'[r] = IF r \in table THEN RateSet(r, job[p].got["share"]) ELSE rate[r]
<1>1. \A k \in Knobs : job[p].got[k] \in Nat
  BY JobFacts
<1>2. rate' = Reached(job[p].got) /\ table \subseteq Requesters
  BY TypeParts DEF SetLimits, Changes, CountsTyped
<1> QED
  BY <1>1, <1>2, Constants DEF SetLimits, Reached

\* An admission sets the rate of a requester that was not in the table.
LEMMA AdmitRates ==
  ASSUME TypeOK, Places, CountsExact, NEW s \in Serves, Admit(s)
  PROVE  /\ key[s] \in Requesters /\ limits["share"] \in Nat
         /\ \A o \in Owners : rate'[o] = CASE o = key[s] /\ key[s] \notin table -> RateSet(key[s], limits["share"])
                                           [] o \in Prunable(key[s]) -> NoRate
                                           [] OTHER -> rate[o]
         /\ \A t \in open : key[t] \in table /\ key[t] \notin Prunable(key[s])
         /\ {Up, Class, key[s]} \cap Prunable(key[s]) = {}
<1>1. key[s] \in Requesters /\ limits["share"] \in Nat
  BY CountedFacts, TypeParts DEF Admit, RatesTyped, Member, Knobs
<1>2. rate' = Entered(key[s])
  BY DEF Admit
<1>3. \A t \in open : key[t] \in table /\ key[t] \notin Prunable(key[s])
  BY CountedFacts DEF Prunable
<1>4. {Up, Class, key[s]} \cap Prunable(key[s]) = {}
  BY <1>1, Constants, TypeParts DEF Prunable, CountsTyped
<1> QED
  BY <1>1, <1>2, <1>3, <1>4 DEF Entered

LEMMA BudgetNext ==
  ASSUME TypeOK, Places, CountsExact, BudgetReachesEveryone, [Next]_vars
  PROVE  BudgetReachesEveryone'
<1>0. /\ \A o \in Owners : Sound(rate[o])
      /\ Up \in Owners /\ Class \in Owners /\ Up # Class /\ {Up, Class} \cap Requesters = {}
      /\ Owners = Requesters \cup {Up, Class} /\ table \subseteq Requesters
  BY Constants, TypeParts DEF BudgetReachesEveryone, Sound, Owners, CountsTyped
<1>1. ASSUME NEW p \in Procs, SetUp(p) PROVE BudgetReachesEveryone'
  <2>1. limits' = limits /\ table' = table
    BY <1>1 DEF SetUp, countVars
  <2>2. Sound(rate'[Up])
    BY <1>0, <1>1, SetUpRates, RateSetFacts
  <2> QED
    BY <1>0, <1>1, <2>1, <2>2, SetUpRates DEF BudgetReachesEveryone, Sound
<1>2. ASSUME NEW p \in Procs, SetLimits(p) PROVE BudgetReachesEveryone'
  <2>1. {"class", "share"} \subseteq Knobs \cap Member
    BY DEF Knobs, Member
  <2>2. table' = table
    BY <1>2 DEF SetLimits, countVars
  <2>3. rate'[Class].value = limits'["class"] /\ Sound(rate'[Class])
    BY <1>0, <1>2, <2>1, SetLimitsRates, RateSetFacts
  <2>4. \A r \in table : rate'[r].value = limits'["share"] /\ Sound(rate'[r])
    BY <1>0, <1>2, <2>1, SetLimitsRates, RateSetFacts
  <2>5. \A o \in Owners : Sound(rate'[o])
    BY <1>0, <1>2, <2>3, <2>4, SetLimitsRates
  <2> QED
    BY <2>2, <2>3, <2>4, <2>5 DEF BudgetReachesEveryone, Sound
<1>3. ASSUME NEW s \in Serves, Admit(s) PROVE BudgetReachesEveryone'
  <2> DEFINE r == key[s]
  <2>1. limits' = limits /\ table' = (table \ Prunable(r)) \cup {r} /\ r \in Requesters
    BY <1>3, AdmitRates DEF Admit
  <2>2. r \notin table => rate'[r].value = limits["share"] /\ Sound(rate'[r])
    BY <1>0, <1>3, <2>1, AdmitRates, RateSetFacts
  <2>3. \A o \in Owners : Sound(rate'[o])
    <3>1. Sound(NoRate)
      BY DEF Sound, NoRate
    <3> QED
      BY <1>0, <1>3, <2>2, <3>1, AdmitRates
  <2>4. rate'[Class] = rate[Class]
    BY <1>0, <1>3, <2>1, AdmitRates
  <2>5. \A k \in table' : rate'[k].value = limits["share"]
    BY <1>0, <1>3, <2>1, <2>2, AdmitRates DEF BudgetReachesEveryone
  <2> QED
    BY <2>1, <2>3, <2>4, <2>5 DEF BudgetReachesEveryone, Sound
<1>4. CASE UNCHANGED <<limits, rate, table>>
  BY <1>4 DEF BudgetReachesEveryone
<1> QED
  BY <1>1, <1>2, <1>3, <1>4, RatesKept

----------------------------------------------------------------------------
(* What a response is charged to *)

\* A response starts only after upLimiters.
LEMMA StartsOnce ==
  ASSUME TypeOK, Places, [Next]_vars, NEW s \in Serves, job'[s].pc = "serve"
  PROVE  job[s].pc = "serve" \/ Start(s)
<1>0. s \in Procs /\ s \notin Admins /\ job \in [Procs -> Job] /\ job[s] \in Job
  BY Constants, JobFacts, LimitsAssumption
<1>1. ASSUME NEW p \in Procs, Resolve(p) \/ ReadFails(p) PROVE job[s].pc = "serve"
  <2>0. job[p] \in Job
    BY <1>0
  <2>1. CASE Returns(p)
    BY <1>0, <2>0, <2>1 DEF Returns, Idle, Job
  <2>2. CASE Goes(p, "read") \/ Goes(p, "setLimits")
    BY <1>0, <2>2 DEF Goes, Job
  <2>3. CASE Read(p)
    <3>1. job'[p].pc # "serve"
      <4>1. job[p].at < Len(Order) \/ job[p].at >= Len(Order)
        BY JobFacts, Constants
      <4>2. job[p].pc \in {"load", "read"}
        BY <2>3 DEF Read, Reading
      <4>3. job'[p].pc = job[p].pc \/ job'[p].pc = IF job[p].pc = "read" THEN "setUp" ELSE "decide"
        BY <2>3, <4>1, ReadFacts
      <4> QED
        BY <4>2, <4>3
    <3> QED
      BY <1>0, <2>3, <3>1, ReadFacts
  <2> QED
    BY <1>1, <2>1, <2>2, <2>3 DEF Resolve, Ask, SetUp, SetLimits, ReadFails
<1>2. ASSUME NEW a \in Admins, Look(a) \/ Edit(a) \/ Decide(a) \/ Write(a) \/ WriteFails(a) \/ Refresh(a)
      PROVE  job[s].pc = "serve"
  <2>1. job'[s] = job[s]
    BY <1>0, <1>2 DEF Look, Edit, Decide, Write, WriteFails, Refresh, Goes
  <2> QED
    BY <2>1
<1>3. ASSUME NEW t \in Serves, NEW r \in Requesters, Arrive(t, r) PROVE job[s].pc = "serve"
  BY <1>0, <1>3 DEF Arrive, Job
<1>4. ASSUME NEW t \in Serves, Refuse(t) \/ Admit(t) \/ Release(t) PROVE job[s].pc = "serve"
  <2>1. job'[t].pc # "serve" /\ (t # s => job'[s] = job[s])
    <3>1. t \in Procs
      BY Constants
    <3>2. \/ job' = [job EXCEPT ![t] = Idle]
          \/ job' = [job EXCEPT ![t] = [Idle EXCEPT !.pc = "ask", !.then = "start"]]
      BY <1>4 DEF Refuse, Admit, Release
    <3>3. job'[t] = Idle \/ job'[t] = [Idle EXCEPT !.pc = "ask", !.then = "start"]
      BY <1>0, <3>1, <3>2
    <3>4. job'[t].pc \in {"idle", "ask"}
      <4>1. Idle.pc = "idle" /\ [Idle EXCEPT !.pc = "ask", !.then = "start"].pc = "ask"
        BY DEF Idle
      <4> QED
        BY <3>3, <4>1
    <3>5. t # s => job'[s] = job[s]
      BY <1>0, <3>1, <3>2
    <3> QED
      BY <3>4, <3>5
  <2> QED
    BY <2>1
<1>5. ASSUME NEW t \in Serves, Start(t) PROVE job[s].pc = "serve" \/ Start(s)
  BY <1>0, <1>5 DEF Start, Goes
<1>6. ASSUME Expire \/ (\E r \in Requesters : Cools(r)) \/ UNCHANGED vars PROVE job[s].pc = "serve"
  BY <1>6 DEF Expire, Cools, vars
<1> QED
  BY <1>1, <1>2, <1>3, <1>4, <1>5, <1>6 DEF Next

\* The steps that leave what the serves hold alone.
LEMMA HeldKept ==
  ASSUME [Next]_vars
  PROVE  \/ \E p \in Procs : SetUp(p) \/ SetLimits(p)
         \/ \E s \in Serves : Admit(s) \/ Start(s) \/ Release(s)
         \/ UNCHANGED <<rate, held, crossed>>
<1>1. ASSUME NEW p \in Procs, Ask(p) \/ Read(p) \/ ReadFails(p)
      PROVE  UNCHANGED <<rate, held, crossed>>
  BY <1>1 DEF Ask, Read, ReadFails, rateVars, serveVars
<1>2. ASSUME NEW a \in Admins, Look(a) \/ Edit(a) \/ Decide(a) \/ Write(a) \/ WriteFails(a) \/ Refresh(a)
      PROVE  UNCHANGED <<rate, held, crossed>>
  BY <1>2 DEF Look, Edit, Decide, Write, WriteFails, Refresh, rateVars, serveVars
<1>3. ASSUME NEW s \in Serves, NEW r \in Requesters, Arrive(s, r) PROVE UNCHANGED <<rate, held, crossed>>
  BY <1>3 DEF Arrive, rateVars
<1>4. ASSUME NEW s \in Serves, Refuse(s) PROVE UNCHANGED <<rate, held, crossed>>
  BY <1>4 DEF Refuse, rateVars
<1>5. ASSUME NEW r \in Requesters, Cools(r) PROVE UNCHANGED <<rate, held, crossed>>
  BY <1>5 DEF Cools, rateVars, serveVars
<1>6. ASSUME Expire \/ UNCHANGED vars PROVE UNCHANGED <<rate, held, crossed>>
  BY <1>6 DEF Expire, vars, rateVars, serveVars
<1> QED
  BY <1>1, <1>2, <1>3, <1>4, <1>5, <1>6 DEF Next, Resolve

Capped(s, o) == rate[o].value > 0 => held[s][o] = rate[o].bucket \/ o \in crossed[s]

\* What a serve owed, it goes on owing to the same buckets or after a crossing.
LEMMA CappedChanges ==
  ASSUME TypeOK, BudgetReachesEveryone, NEW changed, Changes(changed), UNCHANGED held,
         NEW s \in open, NEW o \in Owners, Capped(s, o),
         rate'[o] = rate[o] \/ \E v \in Nat : rate'[o] = RateSet(o, v)
  PROVE  Capped(s, o)'
<1>0. rate[o] \in Rate /\ Sound(rate[o]) /\ s \in Serves /\ crossed'[s] = crossed[s] \cup Crossing(rate')
  BY TypeParts DEF RatesTyped, BudgetReachesEveryone, Sound, ServesTyped, Changes
<1>1. CASE rate'[o] = rate[o]
  BY <1>0, <1>1 DEF Capped
<1>2. ASSUME NEW v \in Nat, rate'[o] = RateSet(o, v) PROVE Capped(s, o)'
  <2>1. rate'[o].value = v
    BY <1>2, RateSetFacts
  <2>2. CASE rate[o].value = 0
    BY <1>0, <2>1, <2>2 DEF Capped, Crossing
  <2>3. CASE rate[o].value # 0
    <3>1. rate[o].value > 0 /\ rate[o].bucket # None
      BY <1>0, <2>3 DEF Rate, Sound
    <3>2. v > 0 => rate'[o].bucket = rate[o].bucket
      BY <1>0, <1>2, <3>1, RateSetFacts
    <3> QED
      BY <1>0, <2>1, <3>1, <3>2 DEF Capped
  <2> QED
    BY <2>2, <2>3
<1> QED
  BY <1>1, <1>2

LEMMA CappedNext ==
  ASSUME TypeOK, Places, CountsExact, BudgetReachesEveryone, OpenServesStayCapped, [Next]_vars
  PROVE  OpenServesStayCapped'
<1>0. /\ \A s \in open : s \in Serves /\ key[s] \in Requesters
      /\ \A s \in open : Owed(s) \subseteq Owners /\ \A o \in Owed(s) : Capped(s, o)
      /\ Up \in Owners /\ Class \in Owners /\ Requesters \subseteq Owners /\ Up # Class
      /\ Up \notin Requesters /\ Class \notin Requesters
  BY CountedFacts, Constants, TypeParts DEF OpenServesStayCapped, Capped, Owed, ServesTyped
<1> SUFFICES ASSUME NEW s \in open', NEW o \in Owed(s)' PROVE Capped(s, o)'
  BY DEF OpenServesStayCapped, Capped
<1>1. ASSUME s \in open, key'[s] = key[s], ~Start(s) PROVE o \in Owed(s) /\ o \in Owners
  BY <1>0, <1>1, StartsOnce DEF Owed
<1>2. ASSUME NEW p \in Procs, SetUp(p) PROVE Capped(s, o)'
  <2>1. s \in open /\ key'[s] = key[s] /\ UNCHANGED held
    BY <1>2 DEF SetUp, serveVars
  <2>2. ~Start(s)
    <3>2. Start(s) => job'[s].pc = "serve" /\ (p # s => job'[s] = job[s]) /\ job[s].pc = "start"
      BY <1>0, <1>2, <2>1, JobFacts, Constants, GoesFacts DEF SetUp, Start
    <3>3. job[p].pc = "setUp"
      BY <1>2 DEF SetUp
    <3> QED
      BY <3>2, <3>3
  <2>3. o \in Owners /\ Capped(s, o)
    BY <1>0, <1>1, <2>1, <2>2
  <2>4. rate'[o] = rate[o] \/ \E v \in Nat : rate'[o] = RateSet(o, v)
    BY <1>2, <2>3, SetUpRates
  <2> QED
    BY <1>2, <2>1, <2>3, <2>4, CappedChanges DEF SetUp
<1>3. ASSUME NEW p \in Procs, SetLimits(p) PROVE Capped(s, o)'
  <2>1. s \in open /\ key'[s] = key[s] /\ UNCHANGED held
    BY <1>3 DEF SetLimits, serveVars
  <2>2. ~Start(s)
    <3>1. Start(s) => job'[s] # job[s] /\ job[s].pc = "start"
      BY <1>0, <2>1, Constants, GoesFacts DEF Start
    <3>2. p # s => job'[s] = job[s]
      BY <1>3 DEF SetLimits, Returns
    <3>3. job[p].pc = "setLimits"
      BY <1>3 DEF SetLimits
    <3> QED
      BY <3>1, <3>2, <3>3
  <2>3. o \in Owners /\ Capped(s, o)
    BY <1>0, <1>1, <2>1, <2>2
  <2>4. rate'[o] = rate[o] \/ \E v \in Nat : rate'[o] = RateSet(o, v)
    BY <1>3, <2>3, SetLimitsRates DEF Owners, Knobs
  <2> QED
    BY <1>3, <2>1, <2>3, <2>4, CappedChanges DEF SetLimits
<1>4. ASSUME NEW t \in Serves, Admit(t) PROVE Capped(s, o)'
  <2>1. key' = key /\ open' = open \cup {t} /\ key[t] \in Requesters /\ t \notin open
    BY <1>4, AdmitRates DEF Admit, Places, InService
  <2>2. CASE s = t
    <3>1. o \in {Class, key[t]}
      BY <1>4, <2>1, <2>2, JobFacts, Constants DEF Owed, Admit, Idle
    <3>2. held'[t][o] = rate'[o].bucket
      BY <1>0, <1>4, <2>1, <3>1, TypeParts DEF Admit, Taken, ServesTyped
    <3> QED
      BY <2>2, <3>2 DEF Capped
  <2>3. CASE s # t
    <3>1. s \in open /\ ~Start(s)
      BY <1>4, <2>1, <2>3, Constants, GoesFacts, JobFacts DEF Start, Admit, Idle
    <3>2. o \in Owed(s)
      BY <1>1, <2>1, <3>1
    <3>3. rate'[o] = rate[o]
      BY <1>0, <1>4, <3>1, <3>2, AdmitRates DEF Owed
    <3>4. held'[s] = held[s] /\ crossed'[s] = crossed[s]
      BY <1>4, <2>3 DEF Admit
    <3> QED
      BY <1>0, <3>1, <3>2, <3>3, <3>4 DEF Capped
  <2> QED
    BY <2>2, <2>3
<1>5. ASSUME NEW t \in Serves, Start(t) PROVE Capped(s, o)'
  <2>1. key' = key /\ open' = open /\ rate' = rate
    BY <1>5 DEF Start
  <2>2. CASE s = t /\ o = Up
    BY <1>0, <1>5, <2>1, <2>2, TypeParts DEF Start, Capped, ServesTyped
  <2>3. CASE s = t /\ o # Up
    <3>1. o \in Owed(s) /\ o \in Owners
      BY <1>0, <2>1, <2>3 DEF Owed
    <3>2. held'[s][o] = held[s][o] /\ crossed'[s] = crossed[s] \ {Up}
      BY <1>5, <2>3, TypeParts DEF Start, ServesTyped, RatesTyped
    <3> QED
      BY <1>0, <2>1, <2>3, <3>1, <3>2 DEF Capped
  <2>4. CASE s # t
    <3>1. job'[s] = job[s]
      BY <1>0, <1>5, <2>1, <2>4, GoesFacts, Constants DEF Start
    <3>2. o \in Owed(s)
      BY <2>1, <3>1 DEF Owed
    <3>3. held'[s] = held[s] /\ crossed'[s] = crossed[s]
      BY <1>5, <2>4 DEF Start
    <3> QED
      BY <1>0, <2>1, <3>2, <3>3 DEF Capped
  <2> QED
    BY <2>2, <2>3, <2>4
<1>6. ASSUME NEW t \in Serves, Release(t) PROVE Capped(s, o)'
  <2>1. s \in open /\ s # t /\ rate' = rate
    BY <1>6 DEF Release
  <2>2. job'[s] = job[s] /\ key'[s] = key[s] /\ held'[s] = held[s] /\ crossed'[s] = crossed[s]
    BY <1>6, <2>1 DEF Release
  <2>3. o \in Owed(s)
    BY <2>2 DEF Owed
  <2> QED
    BY <1>0, <2>1, <2>2, <2>3 DEF Capped
<1>7. ASSUME UNCHANGED <<rate, held, crossed>>, \A t \in Serves : ~Admit(t) /\ ~Start(t) /\ ~Release(t)
      PROVE  Capped(s, o)'
  <2>1. s \in open /\ key'[s] = key[s]
    BY <1>7, ServingKept
  <2>2. o \in Owed(s)
    BY <1>0, <1>1, <1>7, <2>1
  <2> QED
    BY <1>0, <1>7, <2>1, <2>2 DEF Capped
<1> QED
  BY <1>2, <1>3, <1>4, <1>5, <1>6, <1>7, HeldKept

----------------------------------------------------------------------------
(* What is read, and what is in force *)

\* The steps that touch neither the settings nor a reading of them.
LEMMA ReadingKept ==
  ASSUME TypeOK, Places, [Next]_vars
  PROVE  \/ \E p \in Procs : Resolve(p) \/ ReadFails(p)
         \/ \E a \in Admins : Write(a) \/ WriteFails(a)
         \/ /\ UNCHANGED <<store, spoiled>> /\ Resolving' = Resolving
            /\ \A p \in Resolving : job'[p] = job[p]
<1>0. job \in [Procs -> Job] /\ Serves \subseteq Procs /\ Admins \subseteq Procs
  BY JobFacts, Constants, TypeParts DEF JobsTyped
<1> DEFINE Kept == /\ UNCHANGED <<store, spoiled>> /\ Resolving' = Resolving
                   /\ \A p \in Resolving : job'[p] = job[p]
<1>1. ASSUME NEW q \in Procs, job[q].pc \notin {"read", "setUp", "setLimits"},
             job'[q].pc \notin {"read", "setUp", "setLimits"},
             \A p \in Procs : p # q => job'[p] = job[p], UNCHANGED <<store, spoiled>>
      PROVE  Kept
  BY <1>1 DEF Resolving
<1>2. ASSUME NEW a \in Admins, Look(a) \/ Edit(a) PROVE Kept
  BY <1>0, <1>1, <1>2, GoesFacts DEF Look, Edit, memoVars
<1>3. ASSUME NEW a \in Admins, Decide(a) PROVE Kept
  <2>1. PICK new \in Settings : job' = [job EXCEPT ![a].pc = "write", ![a].at = 1, ![a].got = new]
    BY <1>3 DEF Decide
  <2>2. job'[a].pc = "write" /\ \A p \in Procs : p # a => job'[p] = job[p]
    BY <1>0, <2>1 DEF Job
  <2> QED
    BY <1>0, <1>1, <1>3, <2>2 DEF Decide, memoVars
<1>4. ASSUME NEW a \in Admins, Refresh(a) PROVE Kept
  BY <1>0, <1>1, <1>4 DEF Refresh, Idle
<1>5. ASSUME NEW s \in Serves, NEW r \in Requesters, Arrive(s, r) PROVE Kept
  <2>1. job'[s].pc = "ask" /\ \A p \in Procs : p # s => job'[p] = job[p]
    BY <1>0, <1>5 DEF Arrive, Job
  <2> QED
    BY <1>0, <1>1, <1>5, <2>1 DEF Arrive, memoVars
<1>6. ASSUME NEW s \in Serves, Refuse(s) \/ Release(s) PROVE Kept
  <2>1. job' = [job EXCEPT ![s] = Idle] /\ UNCHANGED <<store, spoiled>>
        /\ job[s].pc \notin {"read", "setUp", "setLimits"}
    BY <1>6 DEF Refuse, Release, memoVars
  <2> QED
    BY <1>0, <1>1, <2>1 DEF Idle
<1>7. ASSUME NEW s \in Serves, Admit(s) PROVE Kept
  <2>1. job'[s].pc = "ask" /\ \A p \in Procs : p # s => job'[p] = job[p]
    BY <1>0, <1>7 DEF Admit, Idle
  <2> QED
    BY <1>0, <1>1, <1>7, <2>1 DEF Admit, memoVars
<1>8. ASSUME NEW s \in Serves, Start(s) PROVE Kept
  BY <1>0, <1>1, <1>8, GoesFacts DEF Start, memoVars
<1>9. ASSUME Expire \/ (\E r \in Requesters : Cools(r)) \/ UNCHANGED vars PROVE Kept
  BY <1>9 DEF Expire, Cools, vars, memoVars, Resolving
<1> QED
  BY <1>2, <1>3, <1>4, <1>5, <1>6, <1>7, <1>8, <1>9 DEF Next

\* LoneReading in parts.
Alone     == \A p, q \in Resolving : p = q
IsSet(p)  == \A i \in DOMAIN Order : HasRead(p, i) => job[p].got[Order[i]] = store[Order[i]]
UpIsSet(p) == job[p].pc = "setLimits" => rate[Up].value = store["up"]

LEMMA LoneParts == LoneReading <=> (~spoiled => Alone /\ \A p \in Resolving : IsSet(p) /\ UpIsSet(p))
BY DEF LoneReading, Alone, IsSet, UpIsSet

LEMMA LonePartsNext ==
  ASSUME ~spoiled' => Alone' /\ \A p \in Resolving' : IsSet(p)' /\ UpIsSet(p)'
  PROVE  LoneReading'
BY DEF LoneReading, Alone, IsSet, UpIsSet, HasRead

\* A lone reading that is complete is the settings.
LEMMA ReadAll ==
  ASSUME TypeOK, NEW p \in Procs, IsSet(p), job[p].pc \in {"setUp", "setLimits"}
  PROVE  job[p].got = store
<1>1. \A i \in DOMAIN Order : job[p].got[Order[i]] = store[Order[i]]
  BY DEF IsSet, HasRead
<1> QED
  BY <1>1, JobFacts, SettingsFacts, TypeParts DEF SettingsTyped

LEMMA LoneNext ==
  ASSUME TypeOK, Places, LoneReading, [Next]_vars, CountsExact
  PROVE  LoneReading'
<1>0. job \in [Procs -> Job] /\ Serves \subseteq Procs /\ Admins \subseteq Procs /\ Resolving \subseteq Procs
  BY JobFacts, Constants, TypeParts DEF JobsTyped, Resolving
<1>1. ASSUME NEW p \in Procs, Ask(p) PROVE LoneReading'
  <2>1. CASE Returns(p) /\ UNCHANGED memoVars
    <3>1. p \notin Resolving /\ job'[p].pc \in {"idle", "admit", "start"} /\ \A q \in Procs : q # p => job'[q] = job[q]
      BY <1>0, <1>1, <2>1 DEF Ask, Resolving, Returns, Idle, Job
    <3>2. Resolving' = Resolving /\ (\A q \in Resolving : job'[q] = job[q]) /\ UNCHANGED <<store, spoiled, rate>>
      BY <1>1, <2>1, <3>1 DEF Ask, Resolving, memoVars, rateVars
    <3> QED
      BY <3>2, LoneParts, LonePartsNext DEF Alone, IsSet, UpIsSet, HasRead
  <2>2. CASE Goes(p, "read") /\ spoiled' = (Resolving # {})
    <3> SUFFICES ASSUME ~spoiled' PROVE Alone' /\ \A q \in Resolving' : IsSet(q)' /\ UpIsSet(q)'
      BY LonePartsNext
    <3>1. Resolving = {}
      BY <2>2
    <3>2. Resolving' = {p} /\ job'[p].pc = "read" /\ job'[p].at = 1
      BY <2>2, <3>1, GoesFacts DEF Resolving
    <3> QED
      BY <3>2, Constants DEF Alone, IsSet, UpIsSet, HasRead
  <2> QED
    BY <1>1, <2>1, <2>2 DEF Ask
<1>2. ASSUME NEW p \in Procs, Read(p) PROVE LoneReading'
  <2>0. UNCHANGED <<store, spoiled, rate>> /\ job[p].at \in 1 .. Len(Order) /\ Len(Order) \in Nat
    BY <1>2, JobFacts, Constants DEF Read, memoVars, rateVars
  <2> SUFFICES ASSUME ~spoiled' PROVE Alone' /\ \A q \in Resolving' : IsSet(q)' /\ UpIsSet(q)'
    BY LonePartsNext
  <2>1. Alone /\ \A q \in Resolving : IsSet(q) /\ UpIsSet(q)
    BY <2>0, LoneParts
  <2>2. job'[p].pc \in {"load", "decide", "read", "setUp"} /\ (job'[p].pc \in {"read", "setUp"} <=> job[p].pc = "read")
    <3>1. job[p].pc \in {"load", "read"} /\ (job[p].at < Len(Order) \/ job[p].at >= Len(Order))
      BY <1>2, <2>0 DEF Read, Reading
    <3>2. job'[p].pc = job[p].pc \/ job'[p].pc = IF job[p].pc = "read" THEN "setUp" ELSE "decide"
      BY <1>2, <3>1, ReadFacts
    <3> QED
      BY <3>1, <3>2
  <2>3. Resolving' = Resolving /\ \A q \in Procs : q # p => job'[q] = job[q]
    BY <1>2, <2>2, ReadFacts, ZenonT(60) DEF Resolving, Read, Reading
  <2>4. p \in Resolving => IsSet(p)'
    <3> SUFFICES ASSUME p \in Resolving, NEW i \in DOMAIN Order, HasRead(p, i)'
                 PROVE  job'[p].got[Order[i]] = store'[Order[i]]
      BY DEF IsSet
    <3>1. job'[p].got = Got(p) /\ job[p].got \in [Knobs -> Nat] /\ Order[i] \in Knobs /\ Order[job[p].at] \in Knobs
      BY <1>2, ReadFacts, JobFacts, Constants
    <3>2. i = job[p].at \/ HasRead(p, i)
      <4>1. i \in 1 .. Len(Order)
        BY Constants
      <4>2. CASE job[p].at < Len(Order)
        BY <1>2, <2>0, <4>1, <4>2, ReadFacts DEF HasRead
      <4>3. CASE job[p].at >= Len(Order)
        BY <2>0, <4>1, <4>3 DEF HasRead
      <4> QED
        BY <2>0, <4>2, <4>3
    <3>3. CASE i = job[p].at
      BY <2>0, <3>1, <3>3 DEF Got
    <3>4. CASE HasRead(p, i)
      BY <2>0, <2>1, <3>1, <3>4 DEF Got, IsSet
    <3> QED
      BY <3>2, <3>3, <3>4
  <2>5. \A q \in Resolving : q # p => IsSet(q)' /\ UpIsSet(q)'
    BY <1>0, <2>0, <2>1, <2>3 DEF IsSet, UpIsSet, HasRead
  <2>6. UpIsSet(p)'
    BY <2>2 DEF UpIsSet
  <2> QED
    BY <2>1, <2>3, <2>4, <2>5, <2>6 DEF Alone
<1>3. ASSUME NEW p \in Procs, ReadFails(p) PROVE LoneReading'
  <2> SUFFICES ASSUME ~spoiled' PROVE Alone' /\ \A q \in Resolving' : IsSet(q)' /\ UpIsSet(q)'
    BY LonePartsNext
  <2>1. ~spoiled /\ job[p].pc = "load" /\ UNCHANGED <<store, rate>>
    BY <1>3 DEF ReadFails, Reading, rateVars
  <2>2. job'[p].pc \in {"idle", "admit", "start"} /\ \A q \in Procs : q # p => job'[q] = job[q]
    BY <1>0, <1>3 DEF ReadFails, Returns, Idle, Job
  <2>3. Resolving' = Resolving /\ \A q \in Resolving : job'[q] = job[q]
    BY <2>1, <2>2 DEF Resolving
  <2> QED
    BY <2>1, <2>3, LoneParts DEF Alone, IsSet, UpIsSet, HasRead
<1>4. ASSUME NEW p \in Procs, SetUp(p) PROVE LoneReading'
  <2> SUFFICES ASSUME ~spoiled' PROVE Alone' /\ \A q \in Resolving' : IsSet(q)' /\ UpIsSet(q)'
    BY LonePartsNext
  <2>1. ~spoiled /\ store' = store /\ p \in Resolving /\ job[p].pc = "setUp"
    BY <1>4 DEF SetUp, memoVars, Resolving
  <2>2. Resolving' = Resolving /\ job'[p].pc = "setLimits" /\ job'[p].got = job[p].got
    BY <1>4, <2>1, GoesFacts DEF SetUp, Resolving
  <2>3. Alone /\ IsSet(p)
    BY <2>1, LoneParts
  <2>4. IsSet(p)'
    BY <2>1, <2>2, <2>3 DEF IsSet, HasRead
  <2>5. rate'[Up].value = store["up"]
    BY <1>4, <2>1, <2>3, ReadAll, SetUpRates, RateSetFacts, Constants
  <2> QED
    BY <2>1, <2>2, <2>3, <2>4, <2>5 DEF Alone, UpIsSet
<1>5. ASSUME NEW p \in Procs, SetLimits(p) PROVE LoneReading'
  <2> SUFFICES ASSUME ~spoiled' PROVE Alone' /\ \A q \in Resolving' : IsSet(q)' /\ UpIsSet(q)'
    BY LonePartsNext
  <2>1. ~spoiled /\ p \in Resolving
    BY <1>5 DEF SetLimits, memoVars, Resolving
  <2>2. Resolving = {p}
    BY <2>1, LoneParts DEF Alone
  <2>3. job'[p].pc \in {"idle", "admit", "start"} /\ \A q \in Procs : q # p => job'[q] = job[q]
    BY <1>0, <1>5 DEF SetLimits, Returns, Idle, Job
  <2>4. Resolving' = {}
    BY <2>2, <2>3 DEF Resolving
  <2> QED
    BY <2>4 DEF Alone
<1>6. ASSUME NEW a \in Admins, Write(a) PROVE LoneReading'
  <2> SUFFICES ASSUME ~spoiled' PROVE Alone' /\ \A q \in Resolving' : IsSet(q)' /\ UpIsSet(q)'
    BY LonePartsNext
  <2>1. Resolving = {} /\ job[a].pc = "write"
    BY <1>6 DEF Write
  <2>2. job'[a].pc \in {"write", "refresh"} /\ \A q \in Procs : q # a => job'[q] = job[q]
    BY <1>0, <1>6 DEF Write, Job
  <2>3. Resolving' = {}
    BY <2>1, <2>2 DEF Resolving
  <2> QED
    BY <2>3 DEF Alone
<1>7. ASSUME NEW a \in Admins, WriteFails(a) PROVE LoneReading'
  BY <1>7, LonePartsNext DEF WriteFails
<1>8. ASSUME UNCHANGED <<store, spoiled>>, Resolving' = Resolving, \A p \in Resolving : job'[p] = job[p],
             rate'[Up].value = rate[Up].value
      PROVE  LoneReading'
  BY <1>8, LoneParts, LonePartsNext DEF Alone, IsSet, UpIsSet, HasRead
<1>9. \/ \E p \in Procs : Resolve(p) \/ ReadFails(p)
      \/ rate'[Up] = rate[Up]
  <2>1. ASSUME NEW s \in Serves, Admit(s) PROVE rate'[Up] = rate[Up]
    BY <2>1, AdmitRates, Constants
  <2> QED
    BY <2>1, RatesKept DEF Resolve
<1> QED
  BY <1>1, <1>2, <1>3, <1>4, <1>5, <1>6, <1>7, <1>8, <1>9, ReadingKept DEF Resolve

----------------------------------------------------------------------------
(* Rest *)

\* The steps that leave who is idle alone.
LEMMA RestKept ==
  ASSUME [Next]_vars
  PROVE  \/ \E s \in Serves : Admit(s) \/ Release(s)
         \/ \E r \in Requesters : Cools(r)
         \/ UNCHANGED <<cold, count, rested>>
<1>1. ASSUME NEW p \in Procs, Resolve(p) \/ ReadFails(p) PROVE UNCHANGED <<cold, count, rested>>
  BY <1>1 DEF Resolve, Ask, Read, SetUp, SetLimits, ReadFails, countVars
<1>2. ASSUME NEW a \in Admins, Look(a) \/ Edit(a) \/ Decide(a) \/ Write(a) \/ WriteFails(a) \/ Refresh(a)
      PROVE  UNCHANGED <<cold, count, rested>>
  BY <1>2 DEF Look, Edit, Decide, Write, WriteFails, Refresh, countVars
<1>3. ASSUME NEW s \in Serves, NEW r \in Requesters, Arrive(s, r) PROVE UNCHANGED <<cold, count, rested>>
  BY <1>3 DEF Arrive, countVars
<1>4. ASSUME NEW s \in Serves, Refuse(s) \/ Start(s) PROVE UNCHANGED <<cold, count, rested>>
  BY <1>4 DEF Refuse, Start, countVars
<1>5. ASSUME Expire \/ UNCHANGED vars PROVE UNCHANGED <<cold, count, rested>>
  BY <1>5 DEF Expire, vars, countVars
<1> QED
  BY <1>1, <1>2, <1>3, <1>4, <1>5 DEF Next

LEMMA ColdNext ==
  ASSUME TypeOK, Places, CountsExact, ColdHaveRested, [Next]_vars
  PROVE  ColdHaveRested'
<1>0. cold \subseteq Requesters /\ count \in [Requesters -> Nat]
  BY TypeParts DEF CountsTyped
<1>1. ASSUME NEW s \in Serves, Admit(s) PROVE ColdHaveRested'
  <2> SUFFICES ASSUME NEW k \in cold', count'[k] = 0 PROVE k \in rested'
    BY DEF ColdHaveRested
  <2>1. k \in cold /\ k # key[s] /\ k \notin Prunable(key[s])
    BY <1>1 DEF Admit
  <2>2. count'[k] = count[k]
    BY <1>0, <1>1, <2>1 DEF Admit
  <2> QED
    BY <1>1, <2>1, <2>2 DEF Admit, ColdHaveRested
<1>2. ASSUME NEW s \in Serves, Release(s) PROVE ColdHaveRested'
  <2> SUFFICES ASSUME NEW k \in cold', count'[k] = 0 PROVE k \in rested'
    BY DEF ColdHaveRested
  <2>1. k \in cold /\ k \in Requesters /\ (count[key[s]] <= 1 => k # key[s])
    BY <1>0, <1>2 DEF Release
  <2>2. k # key[s]
    BY <1>0, <1>2, <2>1 DEF Release
  <2>3. count[k] = 0
    BY <1>0, <1>2, <2>1, <2>2 DEF Release
  <2> QED
    BY <1>2, <2>1, <2>3 DEF Release, ColdHaveRested
<1>3. ASSUME NEW r \in Requesters, Cools(r) PROVE ColdHaveRested'
  <2>1. Of(r) = {} => r \in rested'
    BY <1>3 DEF Cools
  <2>2. count[r] = 0 => Of(r) = {}
    BY CountedFacts, FS_EmptySet DEF CountsExact
  <2>3. cold' = cold \cup {r} /\ count' = count /\ rested \subseteq rested'
    BY <1>3 DEF Cools
  <2> QED
    BY <2>1, <2>2, <2>3 DEF ColdHaveRested
<1>4. CASE UNCHANGED <<cold, count, rested>>
  BY <1>4 DEF ColdHaveRested
<1> QED
  BY <1>1, <1>2, <1>3, <1>4, RestKept

----------------------------------------------------------------------------
(* What was edited is asked for *)

\* A step of somebody who neither resolves nor writes forgets nothing.
LEMMA NothingForgotten ==
  ASSUME NoEditForgotten, NEW p \in Procs, UNCHANGED <<store, memo, spoiled, limits>>, rate'[Up] = rate[Up],
         \A q \in Procs : q # p => job'[q] = job[q],
         job[p].pc \notin {"read", "setUp", "setLimits", "write", "refresh"}
  PROVE  NoEditForgotten'
<1>1. InForce' = InForce
  BY DEF InForce
<1>2. Resolving \subseteq Resolving'
  BY DEF Resolving
<1>3. Editing \subseteq Editing'
  BY Constants DEF Editing
<1> QED
  BY <1>1, <1>2, <1>3 DEF NoEditForgotten

LEMMA EditNext ==
  ASSUME TypeOK, Places, CountsExact, LoneReading, NoEditForgotten, [Next]_vars
  PROVE  NoEditForgotten'
<1>0. job \in [Procs -> Job] /\ Serves \subseteq Procs /\ Admins \subseteq Procs
  BY JobFacts, Constants, TypeParts DEF JobsTyped
<1>1. ASSUME NEW p \in Procs, Ask(p) PROVE NoEditForgotten'
  <2>1. CASE Returns(p) /\ UNCHANGED memoVars
    <3>1. \A q \in Procs : q # p => job'[q] = job[q]
      BY <1>0, <2>1 DEF Returns
    <3> QED
      BY <1>1, <2>1, <3>1, NothingForgotten DEF Ask, memoVars, rateVars
  <2>2. CASE Goes(p, "read")
    BY <2>2, GoesFacts DEF NoEditForgotten, Resolving
  <2> QED
    BY <1>1, <2>1, <2>2 DEF Ask
<1>2. ASSUME NEW p \in Procs, Read(p) PROVE NoEditForgotten'
  <2>1. CASE job[p].pc = "load"
    BY <1>2, <2>1, ReadFacts, NothingForgotten DEF Read, memoVars, rateVars
  <2>2. CASE job[p].pc = "read"
    <3>1. job[p].at < Len(Order) \/ job[p].at >= Len(Order)
      BY JobFacts, Constants
    <3>2. job'[p].pc \in {"read", "setUp"}
      BY <1>2, <2>2, <3>1, ReadFacts
    <3> QED
      BY <3>2 DEF NoEditForgotten, Resolving
  <2> QED
    BY <1>2, <2>1, <2>2 DEF Read, Reading
<1>3. ASSUME NEW p \in Procs, ReadFails(p) PROVE NoEditForgotten'
  <2>1. CASE job[p].pc = "read"
    BY <1>3, <2>1 DEF ReadFails, NoEditForgotten
  <2>2. CASE job[p].pc = "load"
    <3>1. \A q \in Procs : q # p => job'[q] = job[q]
      BY <1>0, <1>3 DEF ReadFails, Returns
    <3>2. UNCHANGED <<store, memo, limits, rate>> /\ spoiled' = spoiled
      <4>1. spoiled \in BOOLEAN
        BY TypeParts DEF SettingsTyped
      <4> QED
        BY <1>3, <2>2, <4>1 DEF ReadFails, rateVars
    <3> QED
      BY <2>2, <3>1, <3>2, NothingForgotten
  <2> QED
    BY <1>3, <2>1, <2>2 DEF ReadFails, Reading
<1>4. ASSUME NEW p \in Procs, SetUp(p) PROVE NoEditForgotten'
  BY <1>4, GoesFacts DEF SetUp, NoEditForgotten, Resolving
<1>5. ASSUME NEW p \in Procs, SetLimits(p) PROVE NoEditForgotten'
  <2>1. UNCHANGED <<store, spoiled>> /\ p \in Resolving /\ job[p].pc = "setLimits"
    BY <1>5 DEF SetLimits, memoVars, Resolving
  <2>2. CASE spoiled
    BY <2>1, <2>2 DEF NoEditForgotten
  <2>3. CASE ~spoiled
    <3>1. IsSet(p) /\ rate[Up].value = store["up"]
      BY <2>1, <2>3, LoneParts DEF UpIsSet
    <3>2. job[p].got = store /\ store \in [Knobs -> Nat]
      BY <2>1, <3>1, ReadAll, SettingsFacts, TypeParts DEF SettingsTyped
    <3>3. \A k \in Knobs : InForce'[k] = store[k]
      <4>1. rate'[Up].value = store["up"] /\ \A k \in Member : limits'[k] = store[k]
        BY <1>5, <3>1, <3>2, SetLimitsRates
      <4> QED
        BY <4>1 DEF InForce, Member
    <3>4. InForce' = store
      BY <3>2, <3>3 DEF InForce
    <3> QED
      BY <2>1, <3>4 DEF NoEditForgotten
  <2> QED
    BY <2>2, <2>3
<1>6. ASSUME NEW s \in Serves, NEW r \in Requesters, Arrive(s, r) PROVE NoEditForgotten'
  <2>1. \A q \in Procs : q # s => job'[q] = job[q]
    BY <1>0, <1>6 DEF Arrive
  <2> QED
    BY <1>0, <1>6, <2>1, NothingForgotten DEF Arrive, memoVars, rateVars
<1>7. ASSUME NEW s \in Serves, Refuse(s) \/ Release(s) PROVE NoEditForgotten'
  <2>1. \A q \in Procs : q # s => job'[q] = job[q]
    BY <1>0, <1>7 DEF Refuse, Release
  <2>2. UNCHANGED <<store, memo, spoiled, limits, rate>>
    BY <1>7 DEF Refuse, Release, memoVars, rateVars
  <2>3. job[s].pc \in {"admit", "serve", "ask"}
    BY <1>7 DEF Refuse, Release
  <2> QED
    BY <1>0, <2>1, <2>2, <2>3, NothingForgotten
<1>8. ASSUME NEW s \in Serves, Admit(s) PROVE NoEditForgotten'
  <2>1. \A q \in Procs : q # s => job'[q] = job[q]
    BY <1>0, <1>8 DEF Admit
  <2>2. rate'[Up] = rate[Up]
    BY <1>8, AdmitRates, Constants
  <2> QED
    BY <1>0, <1>8, <2>1, <2>2, NothingForgotten DEF Admit, memoVars
<1>9. ASSUME NEW s \in Serves, Start(s) PROVE NoEditForgotten'
  BY <1>0, <1>9, GoesFacts, NothingForgotten DEF Start, memoVars
<1>10. ASSUME NEW a \in Admins, Look(a) \/ Edit(a) PROVE NoEditForgotten'
  BY <1>0, <1>10, GoesFacts, NothingForgotten DEF Look, Edit, memoVars, rateVars
<1>11. ASSUME NEW a \in Admins, Decide(a) PROVE NoEditForgotten'
  <2>1. \A q \in Procs : q # a => job'[q] = job[q]
    BY <1>0, <1>11 DEF Decide
  <2> QED
    BY <1>0, <1>11, <2>1, NothingForgotten DEF Decide, memoVars, rateVars
<1>12. ASSUME NEW a \in Admins, Write(a) PROVE NoEditForgotten'
  <2>1. job'[a].pc \in {"write", "refresh"}
    BY <1>0, <1>12 DEF Write, Job
  <2> QED
    BY <2>1 DEF NoEditForgotten, Editing
<1>13. ASSUME NEW a \in Admins, WriteFails(a) \/ Refresh(a) PROVE NoEditForgotten'
  BY <1>13 DEF WriteFails, Refresh, NoEditForgotten
<1>14. CASE Expire
  BY <1>14 DEF Expire, NoEditForgotten
<1>15. ASSUME (\E r \in Requesters : Cools(r)) \/ UNCHANGED vars PROVE NoEditForgotten'
  BY <1>15 DEF Cools, vars, memoVars, rateVars, NoEditForgotten, InForce, Resolving, Editing
<1> QED
  BY <1>1, <1>2, <1>3, <1>4, <1>5, <1>6, <1>7, <1>8, <1>9, <1>10, <1>11, <1>12, <1>13, <1>14, <1>15
     DEF Next, Resolve

----------------------------------------------------------------------------
(* The invariant *)

LEMMA TypeNext ==
  ASSUME TypeOK, Places, CountsExact, [Next]_vars
  PROVE  TypeOK'
<1>1. ASSUME NEW s \in Serves, NEW r \in Requesters, Arrive(s, r) PROVE TypeOK'
  <2>1. job[s].pc = "idle" /\ (Release(s) => active > 0 /\ count[key[s]] > 0)
    BY <1>1, CountedFacts DEF Arrive, Release
  <2> QED
    BY <1>1, <2>1, TypeServe
<1>2. ASSUME NEW s \in Serves, Refuse(s) \/ Admit(s) \/ Start(s) \/ Release(s) PROVE TypeOK'
  <2>1. key[s] \in Requesters /\ job[s].pc # "idle"
    BY <1>2, CountedFacts DEF Refuse, Admit, Start, Release
  <2>2. Release(s) => s \in open
    BY DEF Release, Places, InService
  <2>3. Release(s) => active > 0 /\ count[key[s]] > 0
    BY <2>2, CountedFacts
  <2>4. PICK r \in Requesters : r = key[s]
    BY <2>1
  <2>5. key[s] # None
    BY <2>1, Constants
  <2>6. Refuse(s) \/ Admit(s) \/ Start(s) \/ Release(s) \/ Cools(r)
    BY <1>2
  <2> QED
    BY <2>3, <2>5, <2>6, TypeServe
<1>3. ASSUME NEW r \in Requesters, Cools(r) PROVE TypeOK'
  <2>1. CountsTyped'
    BY <1>3, TypeParts DEF Cools, CountsTyped
  <2> QED
    BY <1>3, <2>1, TypesKept, TypePartsNext DEF Cools, memoVars
<1>4. CASE Expire
  <2>1. SettingsTyped'
    BY <1>4, TypeParts DEF Expire, SettingsTyped
  <2> QED
    BY <1>4, <2>1, TypesKept, TypePartsNext DEF Expire
<1>5. CASE UNCHANGED vars
  <2>1. /\ UNCHANGED <<store, memo, spoiled>> /\ UNCHANGED rateVars /\ UNCHANGED countVars
        /\ UNCHANGED job /\ UNCHANGED serveVars /\ UNCHANGED boundVars
    BY <1>5 DEF vars, rateVars, countVars, serveVars, boundVars
  <2> QED
    BY <2>1, TypesKept, TypePartsNext
<1>6. ASSUME NEW p \in Procs, Resolve(p) \/ ReadFails(p) PROVE TypeOK'
  BY <1>6, TypeResolve
<1>7. ASSUME NEW a \in Admins, Look(a) \/ Edit(a) \/ Decide(a) \/ Write(a) \/ WriteFails(a) \/ Refresh(a)
      PROVE  TypeOK'
  BY <1>7, TypeAdmin
<1> QED
  BY <1>1, <1>2, <1>3, <1>4, <1>5, <1>6, <1>7 DEF Next

LEMMA PlacesNext ==
  ASSUME TypeOK, Places, [Next]_vars
  PROVE  Places'
<1>1. ASSUME NEW s \in Serves, Refuse(s) \/ Admit(s) \/ Start(s) \/ Release(s) PROVE Places'
  <2>1. Requesters # {}
    <3>1. key[s] # None
      BY <1>1 DEF Refuse, Admit, Start, Release, Places
    <3> QED
      BY <3>1, TypeParts DEF ServesTyped
  <2>2. PICK r \in Requesters : TRUE
    BY <2>1
  <2> QED
    BY <1>1, <2>2, PlacesServe
<1>2. ASSUME (\E r \in Requesters : Cools(r)) \/ Expire \/ UNCHANGED vars PROVE Places'
  BY <1>2 DEF Cools, Expire, vars, serveVars, Places, InService
<1>3. ASSUME NEW p \in Procs, Resolve(p) \/ ReadFails(p) PROVE Places'
  BY <1>3, PlacesResolve
<1>4. ASSUME NEW a \in Admins, Look(a) \/ Edit(a) \/ Decide(a) \/ Write(a) \/ WriteFails(a) \/ Refresh(a)
      PROVE  Places'
  BY <1>4, PlacesAdmin
<1>5. ASSUME NEW s \in Serves, NEW r \in Requesters, Arrive(s, r) PROVE Places'
  BY <1>5, PlacesServe
<1> QED
  BY <1>1, <1>2, <1>3, <1>4, <1>5 DEF Next

LEMMA LimitsInit == Init => LimitsInv
<1> SUFFICES ASSUME Init PROVE LimitsInv
  OBVIOUS
<1>1. TypeOK
  BY TypeInit
<1>2. \A p \in Procs : job[p] = Idle
  BY DEF Init
<1>3. Places
  BY <1>2 DEF Init, Places, InService, Procs, Idle
<1>4. CountsExact
  <2>1. open = {} /\ \A r \in Requesters : Of(r) = {}
    BY DEF Init, Of
  <2> QED
    BY <2>1, FS_EmptySet DEF Init, CountsExact
<1>5. BudgetReachesEveryone
  <2>1. 0 # None
    BY Constants DEF Buckets
  <2>2. "class" \in Member
    BY DEF Member, Knobs
  <2> QED
    BY <2>1, <2>2, Constants DEF Init, BudgetReachesEveryone
<1>6. OpenServesStayCapped /\ ColdHaveRested
  BY DEF Init, OpenServesStayCapped, ColdHaveRested
<1>7. LoneReading
  BY <1>2 DEF LoneReading, Resolving, Idle
<1>8. NoEditForgotten
  BY DEF Init, NoEditForgotten
<1> QED
  BY <1>1, <1>3, <1>4, <1>5, <1>6, <1>7, <1>8 DEF LimitsInv

\* LimitsInv is inductive: each part needs those before it, and nothing else.
THEOREM Invariance == Spec => []LimitsInv
<1>1. LimitsInv /\ [Next]_vars => LimitsInv'
  BY TypeNext, PlacesNext, CountsNext, BudgetNext, CappedNext, LoneNext, ColdNext, EditNext DEF LimitsInv
<1> QED
  BY <1>1, LimitsInit, PTL DEF Spec

----------------------------------------------------------------------------
(* The properties *)

\* Every variable keeps its type: no counter of quotas goes below zero, and
\* there is always an identity left for a new bucket.
THEOREM TypeCorrect == Spec => []TypeOK
BY Invariance, PTL DEF LimitsInv

\* quotas counts what is being served, for all members and for each, and never
\* prunes the entry of somebody it serves (quota.go, admit and release).
THEOREM CountsAreExact == Spec => []CountsExact
BY Invariance, PTL DEF LimitsInv

\* An edit of a cap binds the responses under way: each is charged to the bucket
\* the cap is now set on (adjustableRate.set, setLimits).
THEOREM OpenServesCapped == Spec => []OpenServesStayCapped
BY Invariance, PTL DEF LimitsInv

\* The rates of the class and of every requester in the table are those of the
\* budget in force (setLimits, admit).
THEOREM BudgetInForce == Spec => []BudgetReachesEveryone
BY Invariance, PTL DEF LimitsInv

\* Whatever order edits and resolutions come in, an edit not yet in force is
\* asked for again (refreshLimits, RefreshLimits).
THEOREM NoEditLost == Spec => []NoEditForgotten
BY Invariance, PTL DEF LimitsInv

\* A ceiling that was lowered under what is being served lets nobody in.
THEOREM CeilingsBound == Spec => CeilingsHold
<1> DEFINE Held == \A s \in open' \ open :
             /\ limits["total"] = 0 \/ Cardinality(open') <= limits["total"]
             /\ limits["each"] = 0 \/ Cardinality(Of(key[s])') <= limits["each"]
<1>1. ASSUME LimitsInv, [Next]_vars PROVE Held
  <2> SUFFICES ASSUME NEW s \in open' \ open
               PROVE  /\ limits["total"] = 0 \/ Cardinality(open') <= limits["total"]
                      /\ limits["each"] = 0 \/ Cardinality(Of(key[s])') <= limits["each"]
    OBVIOUS
  <2>1. TypeOK /\ Places /\ CountsExact /\ CountsExact'
    BY <1>1, CountsNext DEF LimitsInv
  <2>2. PICK t \in Serves : Admit(t)
    BY <1>1, <2>1, ServingKept DEF Release
  <2>3. s = t
    BY <2>2 DEF Admit
  <2>4. key[s] \in Requesters /\ limits["total"] \in Nat /\ limits["each"] \in Nat
        /\ active \in Nat /\ count \in [Requesters -> Nat]
    BY <2>1, <2>2, <2>3, AdmitRates, TypeParts DEF RatesTyped, CountsTyped, Member, Knobs
  <2>5. active' = active + 1 /\ count'[key[s]] = count[key[s]] + 1
    BY <2>2, <2>3, <2>4 DEF Admit
  <2>6. limits["total"] = 0 \/ active' <= limits["total"]
    BY <2>2, <2>4, <2>5 DEF Admit, Full
  <2>7. limits["each"] = 0 \/ count'[key[s]] <= limits["each"]
    BY <2>2, <2>3, <2>4, <2>5 DEF Admit, Busy
  <2>8. active' = Cardinality(open') /\ count'[key[s]] = Cardinality(Of(key[s])')
    <3>1. \A r \in Requesters : count'[r] = Cardinality({u \in open' : key'[u] = r})
      BY <2>1 DEF CountsExact, Of
    <3>2. key'[s] = key[s]
      BY <2>2 DEF Admit
    <3>3. active' = Cardinality(open')
      BY <2>1 DEF CountsExact
    <3> QED
      BY <2>4, <3>1, <3>2, <3>3 DEF Of
  <2> QED
    BY <2>6, <2>7, <2>8
<1> QED
  BY <1>1, Invariance, PTL DEF CeilingsHold, Spec

\* A requester's tokens survive edits, disconnections and a full table, unless
\* its rate becomes unlimited or it rested for quotaIdleTTL.
THEOREM NoBurst == Spec => NoFreshBurst
<1> DEFINE Kept == \A r \in Requesters :
             rate[r].bucket # None /\ rate'[r].bucket # rate[r].bucket
               => limits'["share"] = 0 \/ r \in rested
<1>1. ASSUME LimitsInv, [Next]_vars PROVE Kept
  <2> SUFFICES ASSUME NEW r \in Requesters, rate[r].bucket # None, rate'[r].bucket # rate[r].bucket
               PROVE  limits'["share"] = 0 \/ r \in rested
    OBVIOUS
  <2>0. /\ TypeOK /\ Places /\ CountsExact /\ ColdHaveRested /\ r \in Owners /\ r # Up
        /\ Sound(rate[r])
    BY <1>1, Constants DEF LimitsInv, BudgetReachesEveryone, Sound
  <2>1. ASSUME NEW p \in Procs, SetUp(p) PROVE FALSE
    BY <2>0, <2>1, SetUpRates
  <2>2. ASSUME NEW p \in Procs, SetLimits(p) PROVE limits'["share"] = 0
    <3>1. "share" \in Knobs \cap Member
      BY DEF Knobs, Member
    <3>2. limits'["share"] = job[p].got["share"] /\ job[p].got["share"] \in Nat
          /\ rate'[r] = RateSet(r, job[p].got["share"])
      BY <2>0, <2>2, <3>1, SetLimitsRates
    <3> QED
      BY <2>0, <3>2, RateSetFacts
  <2>3. ASSUME NEW s \in Serves, Admit(s) PROVE limits'["share"] = 0 \/ r \in rested
    <3>1. r \in Prunable(key[s]) => r \in rested
      BY <2>0 DEF Prunable, ColdHaveRested
    <3>2. CASE r = key[s] /\ key[s] \notin table
      <4>1. rate'[r] = RateSet(r, limits["share"]) /\ limits["share"] \in Nat /\ limits' = limits
        BY <2>0, <2>3, <3>2, AdmitRates DEF Admit
      <4> QED
        BY <2>0, <4>1, RateSetFacts
    <3>3. CASE r # key[s] \/ key[s] \in table
      <4>1. r \in Prunable(key[s]) \/ rate'[r] = rate[r]
        BY <2>0, <2>3, <3>3, AdmitRates
      <4> QED
        BY <3>1, <4>1
    <3> QED
      BY <3>2, <3>3
  <2> QED
    BY <1>1, <2>1, <2>2, <2>3, RatesKept
<1> QED
  BY <1>1, Invariance, PTL DEF NoFreshBurst, Spec

\* Every response under way is counted once and charged to the caps in force.
THEOREM ServesCharged == Spec => []ServesAreCharged
<1>1. LimitsInv => ServesAreCharged
  BY DEF LimitsInv, ServesAreCharged
<1> QED
  BY <1>1, Invariance, PTL

\* An edit opens no gap: no serve over a ceiling and no fresh burst.
THEOREM EditsLeaveNoGap == Spec => EditsOpenNoGap
BY CeilingsBound, NoBurst DEF EditsOpenNoGap

\* Whatever order edits, readings and admissions come in, everyone ends up held
\* to what was set.
THEOREM EditsReachAll == Spec => []EditsBind
<1>1. LimitsInv => EditsBind
  BY DEF LimitsInv, EditsBind
<1> QED
  BY <1>1, Invariance, PTL
============================================================================
