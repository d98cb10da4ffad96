----------------------------- MODULE Membership -----------------------------
(***************************************************************************)
(* The memo of the community a node serves: federation/membership.go, with  *)
(* the sweep's reads of federation/gossip_node.go and the local mutations   *)
(* of federation/friendship.go and app/network.go that invalidate it.       *)
(*                                                                         *)
(* What the community is computed from is abstracted to the versions of its *)
(* three inputs; who belongs to it is MemberKeys, a pure function of them.  *)
(* A clock reading that stamps something differs from every other one.      *)
(***************************************************************************)
EXTENDS Integers, FiniteSets

CONSTANTS
  Requests,    \* goroutines that ask for the community
  Sweep,       \* the refresh loop
  Mutators,    \* goroutines that change a local input
  TTL,         \* Intervals.MembershipTTL
  MaxTime,     \* bound: clock readings
  MaxVersion,  \* bound: changes of each input
  None

Local     == {"peers", "homes"}
Inputs    == Local \cup {"edges"}
Producers == Requests \cup {Sweep}

ASSUME MembershipAssumption ==
  /\ IsFiniteSet(Requests) /\ Sweep \notin Requests
  /\ TTL \in Nat /\ MaxTime \in Nat /\ MaxVersion \in Nat
  /\ None \notin [input : Local, version : Nat, at : Nat]
  /\ None \notin [built : Nat, read : [Inputs -> Nat]]

VARIABLES
  now,
  version,   \* what the store holds of each input
  storedAt,  \* when each version of the gossiped edges was stored (history)
  settled,   \* the local versions whose mutation has returned (history)
  mutation,  \* each mutator's write that is not invalidated yet
  memo, floor,
  job,       \* each producer: where it is, its stamp, what it has read
  since,     \* what held when a request began (history)
  served     \* the newest stamp answered with since the memo was dropped (history)

vars == <<now, version, storedAt, settled, mutation, memo, floor, job, since, served>>
memoVars == <<memo, floor>>
storeVars == <<version, storedAt, settled, mutation>>

NothingRead == [i \in Inputs |-> 0]
Idle == [pc |-> "idle", built |-> 0, read |-> NothingRead]

AtFirst == [local |-> [i \in Local |-> 0], at |-> 0, served |-> 0]

Init ==
  /\ now = 0 /\ version = NothingRead
  /\ storedAt = [v \in 1 .. MaxVersion |-> MaxTime + 1]
  /\ settled = [i \in Local |-> 0] /\ mutation = [m \in Mutators |-> None]
  /\ memo = None /\ floor = 0
  /\ job = [p \in Producers |-> Idle]
  /\ since = [r \in Requests |-> AtFirst]
  /\ served = 0

Stamp == now < MaxTime /\ now' = now + 1
Later(a, b) == IF a > b THEN a ELSE b

-----------------------------------------------------------------------------
(* The inputs.                                                             *)

(* Gossip rides the sweep and the TTL: it invalidates nothing. *)
GossipArrives ==
  /\ version["edges"] < MaxVersion /\ Stamp
  /\ version' = [version EXCEPT !["edges"] = @ + 1]
  /\ storedAt' = [storedAt EXCEPT ![version["edges"] + 1] = now + 1]
  /\ UNCHANGED <<settled, mutation, memoVars, job, since, served>>

(* A friendship accepted, blocked or removed, a home signed in to or out of. *)
Mutates(m) == \E i \in Local :
  /\ mutation[m] = None /\ version[i] < MaxVersion
  /\ version' = [version EXCEPT ![i] = @ + 1]
  /\ mutation' = [mutation EXCEPT ![m] = [input |-> i, version |-> version[i] + 1, at |-> 0]]
  /\ UNCHANGED <<now, storedAt, settled, memoVars, job, since, served>>

(* InvalidateMembers reads the clock before it takes memberMu. *)
StampsFloor(m) ==
  /\ mutation[m] # None /\ mutation[m].at = 0 /\ Stamp
  /\ mutation' = [mutation EXCEPT ![m].at = now + 1]
  /\ UNCHANGED <<version, storedAt, settled, memoVars, job, since, served>>

(* Mutant: the memo is dropped and its past forgotten. *)
DropForgettingThePast(at) == memo' = None /\ UNCHANGED floor

Drop(at) == memo' = None /\ floor' = Later(floor, at)

Invalidates(m) ==
  /\ mutation[m] # None /\ mutation[m].at # 0
  /\ Drop(mutation[m].at)
  /\ settled' = [settled EXCEPT ![mutation[m].input] = Later(@, mutation[m].version)]
  /\ mutation' = [mutation EXCEPT ![m] = None]
  /\ served' = 0
  /\ UNCHANGED <<now, version, storedAt, job, since>>

-----------------------------------------------------------------------------
(* The two producers: a request that finds the memo stale, and the sweep.   *)

FreshEnough(set) == set # None /\ now - set.built < TTL

(* What an answer to r is held against: what held when it looked. *)
Begins(r) ==
  since' = [since EXCEPT ![r] = [local |-> settled, at |-> now, served |-> served]]

AnswerFromMemo(r) ==
  /\ job[r].pc = "idle" /\ FreshEnough(memo) /\ Begins(r)
  /\ job' = [job EXCEPT ![r] = [pc |-> "answered", built |-> memo.built, read |-> memo.read]]
  /\ served' = Later(served, memo.built)
  /\ UNCHANGED <<now, storeVars, memoVars>>

(* readAt, taken before the reads. *)
BeginReads(p) ==
  /\ job[p].pc = "idle"
  /\ \/ p = Sweep /\ UNCHANGED since
     \/ p \in Requests /\ ~FreshEnough(memo) /\ Begins(p)
  /\ Stamp /\ job' = [job EXCEPT ![p] = [Idle EXCEPT !.pc = "peers", !.built = now + 1]]
  /\ UNCHANGED <<storeVars, memoVars, served>>

After(input) == CASE input = "peers" -> "edges" [] input = "edges" -> "homes"
                  [] input = "homes" -> "install"

Read(p) ==
  LET i == job[p].pc IN
  /\ i \in Inputs
  /\ job' = [job EXCEPT ![p].read[i] = version[i], ![p].pc = After(i)]
  /\ UNCHANGED <<now, storeVars, memoVars, since, served>>

ReadFails(p) ==
  /\ job[p].pc \in Inputs /\ job' = [job EXCEPT ![p] = Idle]
  /\ since' = [r \in Requests |-> IF r = p THEN AtFirst ELSE since[r]]
  /\ UNCHANGED <<now, storeVars, memoVars, served>>

(* newMemberSet: stamped with when its inputs were read.               *)

Computed(p) == [built |-> job[p].built, read |-> job[p].read]

(* Mutant: the last to arrive wins. *)
AcceptsAnyOrder(set)      == set.built >= floor

Accepts(set) == (memo = None \/ memo.built <= set.built) /\ set.built >= floor

(* installMembers.  A request is answered with what it computed, whatever   *)
(* won the memo.                                                            *)
Install(p) ==
  LET set == Computed(p) IN
  /\ job[p].pc = "install"
  /\ memo' = IF Accepts(set) THEN set ELSE memo
  /\ job' = [job EXCEPT ![p] = IF p = Sweep THEN Idle
               ELSE [pc |-> "answered", built |-> set.built, read |-> set.read]]
  /\ served' = IF p = Sweep THEN served ELSE Later(served, set.built)
  /\ UNCHANGED <<now, storeVars, floor, since>>

End(r) ==
  /\ job[r].pc = "answered" /\ job' = [job EXCEPT ![r] = Idle]
  /\ since' = [since EXCEPT ![r] = AtFirst]
  /\ UNCHANGED <<now, storeVars, memoVars, served>>

TimePasses == Stamp /\ UNCHANGED <<storeVars, memoVars, job, since, served>>

Next ==
  \/ GossipArrives \/ TimePasses
  \/ \E m \in Mutators : Mutates(m) \/ StampsFloor(m) \/ Invalidates(m)
  \/ \E r \in Requests : AnswerFromMemo(r) \/ End(r)
  \/ \E p \in Producers : BeginReads(p) \/ Read(p) \/ ReadFails(p) \/ Install(p)

Spec == Init /\ [][Next]_vars

-----------------------------------------------------------------------------
Stamps == 0 .. MaxTime
Versions == [Inputs -> 0 .. MaxVersion]
Places == Inputs \cup {"idle", "install", "answered"}

(* The variables keep their types, no stamp is ahead of the clock, and the  *)
(* memo is never older than the last local action that dropped it.          *)
TypeOK ==
  /\ now \in Stamps /\ floor \in 0 .. now /\ version \in Versions
  /\ storedAt \in [1 .. MaxVersion -> 1 .. MaxTime + 1]
  /\ settled \in [Local -> 0 .. MaxVersion] /\ served \in 0 .. now
  /\ mutation \in [Mutators -> [input : Local, version : 1 .. MaxVersion, at : Stamps] \cup {None}]
  /\ \A m \in Mutators : mutation[m] # None => mutation[m].at <= now
  /\ memo # None => memo \in [built : floor .. now, read : Versions]
  /\ job \in [Producers -> [pc : Places, built : Stamps, read : Versions]]
  /\ \A p \in Producers : job[p].built <= now
  /\ since \in [Requests -> [local : [Local -> 0 .. MaxVersion], at : Stamps, served : Stamps]]

Answered(r) == job[r].pc = "answered"

(* A request begun after a local action returned is answered from the peer  *)
(* table and the household that action left, or from later ones: no sweep   *)
(* or slower request that read the store earlier brings the old perimeter   *)
(* back.                                                                    *)
LocalActionsHoldAtOnce == \A r \in Requests : Answered(r) =>
  \A i \in Local : job[r].read[i] >= since[r].local[i]

(* Hearsay may lag by one TTL and no more: an answer knows every edge that   *)
(* was stored a TTL before the request began.                               *)
GossipLagsOneTTL == \A r \in Requests : Answered(r) =>
  \A v \in 1 .. MaxVersion : storedAt[v] + TTL <= since[r].at => job[r].read["edges"] >= v

(* An answer is as fresh as its request may ask of it: no older than the    *)
(* last local action, nor than hearsay a TTL old.                           *)
AnswersAreFresh == TypeOK /\ LocalActionsHoldAtOnce /\ GossipLagsOneTTL

(* Two producers race, and between two local actions the older answer never *)
(* wins on arrival order: a request is not answered from an earlier reading *)
(* of the store than one answered before it began.                          *)
AnswersNeverGoBack == \A r \in Requests : Answered(r) => job[r].built >= since[r].served

-----------------------------------------------------------------------------
(* The inductive invariant behind the theorems of CommunityProofs.          *)

Behind(input) == CASE input = "peers" -> {"edges", "homes", "install", "answered"}
                   [] input = "edges" -> {"homes", "install", "answered"}
                   [] input = "homes" -> {"install", "answered"}
HasRead(p, input) == job[p].pc \in Behind(input)

(* What was settled, what is about to be and what a request began from is   *)
(* in the store.                                                            *)
StoreKnows ==
  /\ \A i \in Local : settled[i] <= version[i]
  /\ \A m \in Mutators : mutation[m] # None => mutation[m].version <= version[mutation[m].input]
  /\ \A r \in Requests : \A i \in Local : since[r].local[i] <= version[i]

(* A reading that could still be installed has what was settled; one that   *)
(* could be once m has invalidated has what m wrote.                        *)
FloorGuards ==
  /\ memo # None => \A i \in Local : memo.read[i] >= settled[i]
  /\ \A p \in Producers : \A i \in Local : ~Answered(p) /\ HasRead(p, i) =>
       /\ job[p].built >= floor => job[p].read[i] >= settled[i]
       /\ \A m \in Mutators :
            mutation[m] # None /\ mutation[m].input = i /\ mutation[m].at # 0
              /\ job[p].built >= mutation[m].at
            => job[p].read[i] >= mutation[m].version

RequestsKeepUp ==
  \A r \in Requests : \A i \in Local : HasRead(r, i) => job[r].read[i] >= since[r].local[i]

(* A reading has every edge stored before it began, and is less than a TTL  *)
(* older than the request it answers.                                       *)
EdgesAreDated ==
  /\ \A v \in 1 .. MaxVersion : v > version["edges"] => storedAt[v] = MaxTime + 1
  /\ memo # None => \A v \in 1 .. MaxVersion : storedAt[v] <= memo.built => memo.read["edges"] >= v
  /\ \A p \in Producers : HasRead(p, "edges") =>
       \A v \in 1 .. MaxVersion : storedAt[v] <= job[p].built => job[p].read["edges"] >= v
  /\ \A r \in Requests : job[r].pc # "idle" => since[r].at < job[r].built + TTL

(* What was answered with is no newer than the memo, or than the floor if   *)
(* there is none.                                                           *)
ServedInOrder ==
  /\ IF memo = None THEN served <= floor ELSE served <= memo.built
  /\ \A r \in Requests : job[r].pc # "idle" => since[r].served <= job[r].built

MemoInv ==
  TypeOK /\ StoreKnows /\ FloorGuards /\ RequestsKeepUp /\ EdgesAreDated /\ ServedInOrder
=============================================================================
