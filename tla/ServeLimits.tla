---------------------------- MODULE ServeLimits ----------------------------
(***************************************************************************)
(* What serving blobs may cost this node: federation/quota.go,              *)
(* federation/rates.go, adjustableRate's buckets in federation/swarm.go,    *)
(* and api/swarm_handlers.go where an admin edits the limits.               *)
(*                                                                         *)
(* A value of a knob is what the override, or the config under it, comes    *)
(* to. A bucket is an identity: its tokens are left out, so what is told    *)
(* apart is whether a bucket is kept (with its tokens) or a new, full one.  *)
(***************************************************************************)
EXTENDS Integers, Sequences, FiniteSets

CONSTANTS
  Serves,         \* goroutines that answer a member's blob request
  Admins,         \* admin requests
  Requesters,     \* mesh addresses of members
  Up, Class,      \* the node's outbound rate, the rate of all members together
  SweepThreshold, \* quotaSweepThreshold
  Order,          \* the knobs that are edited, in the order they are read and written
  Values,         \* for each knob, what it can be set to; 0 is unlimited
  Config,         \* what the config file sets it to
  Stored,         \* what it comes to with the overrides stored when the node starts
  MaxEdits,       \* bound: edits of the limits
  MaxFaults,      \* bound: failing reads and writes of the settings
  None

Knobs  == {"up", "class", "share", "total", "each"}
Member == Knobs \ {"up"}
Procs  == Serves \cup Admins
Owners == Requesters \cup {Up, Class}

Settings == {f \in [Knobs -> UNION {Values[k] : k \in Knobs}] : \A k \in Knobs : f[k] \in Values[k]}

\* Enough identities for one that no open serve holds.
Buckets == 0 .. Cardinality(Serves)

ASSUME LimitsAssumption ==
  /\ IsFiniteSet(Serves) /\ Serves \cap Admins = {}
  /\ Up # Class /\ {Up, Class} \cap Requesters = {}
  /\ SweepThreshold \in Nat /\ MaxEdits \in Nat /\ MaxFaults \in Nat
  /\ Order \in Seq(Knobs) /\ Len(Order) > 0
  /\ Values \in [Knobs -> SUBSET Nat] /\ Config \in Settings /\ Stored \in Settings
  /\ \A k \in Knobs : (\A i \in DOMAIN Order : Order[i] # k) => Values[k] = {Config[k]}
  /\ None \notin Buckets /\ None \notin Requesters

VARIABLES
  store,   \* what each knob is set to
  memo,    \* the stamp of the last resolution: "fresh" or "stale"
  limits,  \* the member budget in force
  rate,    \* each adjustableRate: its value and its bucket
  table,   \* the requesters quotas.nodes has
  active, count,  \* serves in flight: of all members, of each
  cold,    \* requesters seen longest ago than quotaIdleTTL
  job,     \* each goroutine: where it is, where it goes next, what it has read
  key,     \* the requester each serve answers
  open,    \* the serves that are admitted and not released
  held,    \* the buckets each serve took at its admission
  crossed, \* rates that went to or from unlimited since (history)
  rested,  \* requesters with nothing in flight for quotaIdleTTL (history)
  spoiled, \* what the last lone resolution was to read may not stay in force (history)
  edits, faults

vars == <<store, memo, limits, rate, table, active, count, cold, job, key, open, held, crossed, rested, spoiled, edits, faults>>
rateVars == <<limits, rate, crossed>>
countVars == <<table, active, count, cold, rested>>
serveVars == <<key, open, held>>
boundVars == <<edits, faults>>
memoVars == <<memo, spoiled>>

NoRate  == [value |-> 0, bucket |-> None]
Nothing == [o \in Owners |-> None]
Idle    == [pc |-> "idle", then |-> "idle", at |-> 1, got |-> Config]

\* The serves of one requester that are admitted and not released.
Of(r) == {s \in open : key[s] = r}

\* An identity no open serve holds for rate o.
Fresh(o) == CHOOSE b \in Buckets : \A s \in Serves : held[s][o] # b

\* A mutant: every change of the value builds a new bucket.
RateSetRebuilding(o, v) ==
  IF rate[o].value = v THEN rate[o] ELSE [value |-> v, bucket |-> IF v = 0 THEN None ELSE Fresh(o)]

\* adjustableRate.set: two positive rates share the bucket, unlimited has none.
RateSet(o, v) ==
  IF rate[o].value = v THEN rate[o]
  ELSE IF v = 0 THEN NoRate
  ELSE [value |-> v, bucket |-> IF rate[o].bucket # None THEN rate[o].bucket ELSE Fresh(o)]

Crossing(changed) == {o \in Owners : (changed[o].value = 0) # (rate[o].value = 0)}

Changes(changed) ==
  /\ rate' = changed
  /\ crossed' = [s \in Serves |-> IF s \in open THEN crossed[s] \cup Crossing(changed) ELSE crossed[s]]

\* The node starts with the config in force, and has not asked what is stored.
Init ==
  /\ store = Stored
  /\ limits = [k \in Member |-> Config[k]]
  /\ rate = [o \in Owners |->
       LET v == IF o = Up THEN Config["up"] ELSE IF o = Class THEN Config["class"] ELSE 0
       IN  [value |-> v, bucket |-> IF v = 0 THEN None ELSE 0]]
  /\ memo = "stale" /\ table = {} /\ active = 0 /\ count = [r \in Requesters |-> 0]
  /\ cold = {} /\ rested = {}
  /\ job = [p \in Procs |-> Idle] /\ key = [s \in Serves |-> None] /\ open = {}
  /\ held = [s \in Serves |-> Nothing] /\ crossed = [s \in Serves |-> {}]
  /\ spoiled = FALSE /\ edits = 0 /\ faults = 0

Goes(p, place) == job' = [job EXCEPT ![p].pc = place, ![p].at = 1]

----------------------------------------------------------------------------
(* refreshLimits, the caller's next place being job[p].then *)

Returns(p) == job' = [job EXCEPT ![p] = [Idle EXCEPT !.pc = job[p].then]]

Resolving == {p \in Procs : job[p].pc \in {"read", "setUp", "setLimits"}}
Editing   == {a \in Admins : job[a].pc \in {"write", "refresh"}}

\* The stamp is taken before the settings are read.
Ask(p) ==
  /\ job[p].pc = "ask"
  /\ \/ memo = "fresh" /\ Returns(p) /\ UNCHANGED memoVars
     \/ memo = "stale" /\ memo' = "fresh" /\ Goes(p, "read") /\ spoiled' = (Resolving # {})
  /\ UNCHANGED <<store, rateVars, countVars, serveVars, boundVars>>

Got(p) == [job[p].got EXCEPT ![Order[job[p].at]] = store[Order[job[p].at]]]

Reading == {"load", "read"}

Read(p) ==
  /\ job[p].pc \in Reading
  /\ job' = [job EXCEPT ![p].got = Got(p),
                        ![p].at = IF @ = Len(Order) THEN 1 ELSE @ + 1,
                        ![p].pc = IF job[p].at = Len(Order) 
                                 THEN IF @ = "read" THEN "setUp" ELSE "decide"
                                 ELSE @]
  /\ UNCHANGED <<store, memoVars, rateVars, countVars, serveVars, boundVars>>

\* The settings cannot be read, or the request is cancelled: what is in force stays.
ReadFails(p) ==
  /\ job[p].pc \in Reading /\ faults < MaxFaults
  /\ Returns(p)
  /\ faults' = faults + 1 /\ spoiled' = (spoiled \/ job[p].pc = "read")
  /\ UNCHANGED <<store, memo, rateVars, countVars, serveVars, edits>>

\* upRate.set (downRate.set, which follows, binds what this node fetches).
SetUp(p) ==
  /\ job[p].pc = "setUp"
  /\ Changes([rate EXCEPT ![Up] = RateSet(Up, job[p].got["up"])])
  /\ Goes(p, "setLimits")
  /\ UNCHANGED <<store, memoVars, limits, countVars, serveVars, boundVars>>

\* setLimits: the class, and every requester in the table.
Reached(got) == [o \in Owners |->
  CASE o = Up     -> rate[Up]
    [] o = Class  -> RateSet(Class, got["class"])
    [] o \in table -> RateSet(o, got["share"])
    [] OTHER      -> rate[o]]

SetLimits(p) ==
  /\ job[p].pc = "setLimits"
  /\ limits' = [k \in Member |-> job[p].got[k]]
  /\ Changes(Reached(job[p].got))
  /\ Returns(p)
  /\ UNCHANGED <<store, memoVars, countVars, serveVars, boundVars>>

\* rateMemoTTL passes.
Expire == memo = "fresh" /\ memo' = "stale"
          /\ UNCHANGED <<store, spoiled, rateVars, countVars, job, serveVars, boundVars>>

----------------------------------------------------------------------------
(* A member's request: admitServe, the response, release *)

Arrive(s, r) ==
  /\ job[s].pc = "idle"
  /\ job' = [job EXCEPT ![s].pc = "ask", ![s].then = "admit"]
  /\ key' = [key EXCEPT ![s] = r]
  /\ UNCHANGED <<store, memoVars, rateVars, countVars, open, held, boundVars>>

Full == limits["total"] > 0 /\ active >= limits["total"]
Busy(r) == limits["each"] > 0 /\ count[r] >= limits["each"]

\* pruneLocked, before a requester is added to a full table.
Prunable(r) == IF r \notin table /\ Cardinality(table) >= SweepThreshold
               THEN {k \in table : count[k] = 0 /\ k \in cold}
               ELSE {}

Refuse(s) ==
  /\ job[s].pc = "admit" /\ (Full \/ Busy(key[s]))
  /\ job' = [job EXCEPT ![s] = Idle] /\ key' = [key EXCEPT ![s] = None]
  /\ UNCHANGED <<store, memoVars, rateVars, countVars, open, held, boundVars>>

\* The table's rates once r is in it.
Entered(r) == [o \in Owners |->
  CASE o = r /\ r \notin table -> RateSet(r, limits["share"])
    [] o \in Prunable(r)       -> NoRate
    [] OTHER                   -> rate[o]]

\* The buckets of the class and of r.
Taken(r, changed) == [o \in Owners |-> IF o \in {Class, r} THEN changed[o].bucket ELSE None]

Admit(s) ==
  LET r == key[s] IN
  /\ job[s].pc = "admit" /\ ~Full /\ ~Busy(r)
  /\ table' = (table \ Prunable(r)) \cup {r}
  /\ rate' = Entered(r)
  /\ count' = [k \in Requesters |-> IF k = r THEN count[k] + 1
                                    ELSE IF k \in Prunable(r) THEN 0 ELSE count[k]]
  /\ active' = active + 1
  /\ cold' = cold \ ({r} \cup Prunable(r)) /\ rested' = rested \ {r}
  /\ open' = open \cup {s}
  /\ held' = [held EXCEPT ![s] = Taken(r, Entered(r))]
  /\ crossed' = [crossed EXCEPT ![s] = {}]
  /\ job' = [job EXCEPT ![s] = [Idle EXCEPT !.pc = "ask", !.then = "start"]]
  /\ UNCHANGED <<store, memoVars, limits, key, boundVars>>

\* upLimiters, after it has asked: the response is held to the buckets of now.
Start(s) ==
  /\ job[s].pc = "start"
  /\ held' = [held EXCEPT ![s][Up] = rate[Up].bucket]
  /\ crossed' = [crossed EXCEPT ![s] = @ \ {Up}]
  /\ Goes(s, "serve")
  /\ UNCHANGED <<store, memoVars, limits, rate, countVars, key, open, boundVars>>

\* A mutant: a release that does not start the idle clock.
ReleaseKeepingSeen(s) ==
  /\ job[s].pc = "serve"
  /\ active' = active - 1 /\ count' = [count EXCEPT ![key[s]] = @ - 1]
  /\ open' = open \ {s} /\ key' = [key EXCEPT ![s] = None]
  /\ held' = [held EXCEPT ![s] = Nothing] /\ crossed' = [crossed EXCEPT ![s] = {}]
  /\ job' = [job EXCEPT ![s] = Idle]
  /\ UNCHANGED <<store, memoVars, limits, rate, table, cold, rested, boundVars>>

\* The response is over, or its file could not be opened.
Release(s) ==
  LET r == key[s] IN
  /\ job[s].pc = "serve" \/ (job[s].pc = "ask" /\ job[s].then = "start")
  /\ active' = active - 1
  /\ count' = [count EXCEPT ![r] = @ - 1]
  /\ cold' = IF count[r] <= 1 THEN cold \ {r} ELSE cold
  /\ open' = open \ {s} /\ key' = [key EXCEPT ![s] = None]
  /\ held' = [held EXCEPT ![s] = Nothing] /\ crossed' = [crossed EXCEPT ![s] = {}]
  /\ job' = [job EXCEPT ![s] = Idle]
  /\ UNCHANGED <<store, memoVars, limits, rate, table, rested, boundVars>>

\* quotaIdleTTL passes since r was last seen.
Cools(r) ==
  /\ r \in table
  /\ cold' = cold \cup {r}
  /\ rested' = IF Of(r) = {} THEN rested \cup {r} ELSE rested
  /\ <<cold, rested>>' # <<cold, rested>>
  /\ UNCHANGED <<store, memoVars, rateVars, table, active, count, job, serveVars, boundVars>>

----------------------------------------------------------------------------
(* An admin: the readout, and adminSwarmLimitsSet *)

\* SwarmRates and MemberQuotas: the page, and what an edit answers with.
Look(a) ==
  /\ job[a].pc = "idle"
  /\ Goes(a, "ask")
  /\ UNCHANGED <<store, memoVars, rateVars, countVars, serveVars, boundVars>>

Edit(a) ==
  /\ job[a].pc = "idle" /\ edits < MaxEdits
  /\ Goes(a, "load")
  /\ edits' = edits + 1
  /\ UNCHANGED <<store, memoVars, rateVars, countVars, serveVars, faults>>

\* The fields the request names; the others keep what was read.
Decide(a) ==
  /\ job[a].pc = "decide"
  /\ \E new \in Settings : job' = [job EXCEPT ![a].pc = "write", ![a].at = 1, ![a].got = new]
  /\ UNCHANGED <<store, memoVars, rateVars, countVars, serveVars, boundVars>>

\* SetSwarmRates and SetMemberQuotas: one statement per knob.
Write(a) ==
  LET knob == Order[job[a].at] IN
  /\ job[a].pc = "write"
  /\ store' = [store EXCEPT ![knob] = job[a].got[knob]]
  /\ job' = [job EXCEPT ![a].at = IF @ = Len(Order) THEN 1 ELSE @ + 1,
                        ![a].pc = IF job[a].at = Len(Order) THEN "refresh" ELSE @]
  /\ spoiled' = (spoiled \/ Resolving # {})
  /\ UNCHANGED <<memo, rateVars, countVars, serveVars, boundVars>>

\* A statement fails: what was written stays, and nothing is refreshed.
WriteFails(a) ==
  /\ job[a].pc = "write" /\ faults < MaxFaults
  /\ job' = [job EXCEPT ![a] = Idle]
  /\ faults' = faults + 1 /\ spoiled' = TRUE
  /\ UNCHANGED <<store, memo, rateVars, countVars, serveVars, edits>>

\* A mutant: the memo is not dropped.
RefreshHonouringMemo(a) ==
  /\ job[a].pc = "refresh"
  /\ job' = [job EXCEPT ![a] = [Idle EXCEPT !.pc = "ask"]]
  /\ UNCHANGED <<store, memoVars, rateVars, countVars, serveVars, boundVars>>

\* RefreshLimits
Refresh(a) ==
  /\ job[a].pc = "refresh"
  /\ memo' = "stale"
  /\ job' = [job EXCEPT ![a] = [Idle EXCEPT !.pc = "ask"]]
  /\ UNCHANGED <<store, spoiled, rateVars, countVars, serveVars, boundVars>>

----------------------------------------------------------------------------
Resolve(p) == Ask(p) \/ Read(p) \/ SetUp(p) \/ SetLimits(p)

Next ==
  \/ \E p \in Procs : Resolve(p) \/ ReadFails(p)
  \/ Expire
  \/ \E s \in Serves, r \in Requesters : Arrive(s, r)
  \/ \E s \in Serves : Refuse(s) \/ Admit(s) \/ Start(s) \/ Release(s)
  \/ \E r \in Requesters : Cools(r)
  \/ \E a \in Admins : Look(a) \/ Edit(a) \/ Decide(a) \/ Write(a) \/ WriteFails(a) \/ Refresh(a)

Spec == Init /\ [][Next]_vars

----------------------------------------------------------------------------
TypeOK ==
  /\ store \in Settings /\ limits \in [Member -> Nat]
  /\ memo \in {"fresh", "stale"} /\ spoiled \in BOOLEAN
  /\ rate \in [Owners -> [value : Nat, bucket : Buckets \cup {None}]]
  /\ table \subseteq Requesters /\ cold \subseteq table /\ rested \subseteq Requesters
  /\ active \in Nat /\ count \in [Requesters -> Nat]
  /\ job \in [Procs -> [pc : {"idle", "ask", "read", "setUp", "setLimits", "admit", "start", "serve",
                              "load", "decide", "write", "refresh"},
                        then : {"idle", "admit", "start"},
                        at : DOMAIN Order, got : Settings]]
  /\ key \in [Serves -> Requesters \cup {None}] /\ open \subseteq Serves
  /\ held \in [Serves -> [Owners -> Buckets \cup {None}]]
  /\ crossed \in [Serves -> SUBSET Owners]
  /\ edits \in 0 .. MaxEdits /\ faults \in 0 .. MaxFaults

\* The counters of quotas say what is being served, whatever was pruned,
\* refused, raised or lowered meanwhile (admit, release, pruneLocked).
CountsExact ==
  /\ active = Cardinality(open)
  /\ \A r \in Requesters : count[r] = Cardinality(Of(r))
  /\ \A s \in open : key[s] \in table

\* A lowered ceiling is reached by attrition: what is served grows under the
\* ceilings in force only, the class's and the requester's (setLimits, admit).
CeilingsHold == [][
  \A s \in open' \ open :
    /\ limits["total"] = 0 \/ Cardinality(open') <= limits["total"]
    /\ limits["each"] = 0 \/ Cardinality(Of(key[s])') <= limits["each"]]_vars

\* What a serve is held to.
Owed(s) == {Class, key[s]} \cup (IF job[s].pc = "serve" THEN {Up} ELSE {})

\* A cap in force binds the responses under way: each is charged to the bucket
\* the cap is set on, unless that rate was unlimited in between (setLimits:
\* "must bind the transfer that made them tighten it").
OpenServesStayCapped ==
  \A s \in open : \A o \in Owed(s) :
    rate[o].value > 0 => held[s][o] = rate[o].bucket \/ o \in crossed[s]

\* The budget in force is the one every requester in the table is held to.
BudgetReachesEveryone ==
  /\ rate[Class].value = limits["class"]
  /\ \A r \in table : rate[r].value = limits["share"]
  /\ \A o \in Owners : rate[o].value = 0 <=> rate[o].bucket = None

\* Nobody gets a full bucket by reconnecting, by provoking an edit or by
\* filling the table: a requester loses its bucket when its rate becomes
\* unlimited, or after resting for quotaIdleTTL (quota.go:53, rates.go:53).
NoFreshBurst == [][
  \A r \in Requesters :
    rate[r].bucket # None /\ rate'[r].bucket # rate[r].bucket
      => limits'["share"] = 0 \/ r \in rested]_vars

InForce == [k \in Knobs |-> IF k = "up" THEN rate[Up].value ELSE limits[k]]

\* No edit is forgotten: where what is in force is not what is set, the next
\* request asks, or somebody is reading, or the edit is not over yet. Otherwise
\* a setting could not be read or written, or two overlapped, a slow reading
\* landing last (refreshLimits, RefreshLimits).
NoEditForgotten ==
  InForce = store \/ memo = "stale" \/ Resolving # {} \/ Editing # {} \/ spoiled

\* Every response under way is counted once and charged to the caps in force.
ServesAreCharged == CountsExact /\ OpenServesStayCapped

\* Nothing slips through an edit: not a serve over a ceiling, nor a fresh burst.
EditsOpenNoGap == CeilingsHold /\ NoFreshBurst

\* Whatever order edits, readings and admissions come in, the caps end up what
\* was set, for everyone.
EditsBind == TypeOK /\ BudgetReachesEveryone /\ NoEditForgotten

----------------------------------------------------------------------------
(* What makes these inductive *)

\* A serve is counted from its admission to its release.
InService(s) == job[s].pc \in {"start", "serve"} \/ job[s].then = "start"

Places ==
  /\ \A s \in Serves :
       /\ s \in open <=> InService(s)
       /\ job[s].pc \in {"idle", "ask", "read", "setUp", "setLimits", "admit", "start", "serve"}
       /\ job[s].pc # "idle" => key[s] # None
       /\ job[s].then = "start" => job[s].pc \in {"ask", "read", "setUp", "setLimits"}
       /\ job[s].pc = "idle" => job[s] = Idle
  /\ \A a \in Admins :
       /\ job[a].then = "idle"
       /\ job[a].pc \in {"idle", "ask", "load", "decide", "write", "refresh", "read", "setUp", "setLimits"}
  /\ \A p \in Procs : job[p].pc = "ask" => job[p].at = 1

\* Unless it is spoiled, one resolution is under way and what it has read is set.
HasRead(p, i) == job[p].pc # "read" \/ i < job[p].at
LoneReading ==
  ~spoiled =>
    /\ \A p, q \in Resolving : p = q
    /\ \A p \in Resolving : \A i \in DOMAIN Order :
         HasRead(p, i) => job[p].got[Order[i]] = store[Order[i]]
    /\ \A p \in Resolving : job[p].pc = "setLimits" => rate[Up].value = store["up"]

\* An idle entry that was not seen for quotaIdleTTL has rested.
ColdHaveRested == \A r \in cold : count[r] = 0 => r \in rested

LimitsInv ==
  /\ TypeOK /\ Places /\ CountsExact /\ BudgetReachesEveryone
  /\ OpenServesStayCapped /\ LoneReading /\ ColdHaveRested /\ NoEditForgotten

============================================================================
