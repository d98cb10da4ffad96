-------------------------- MODULE FriendshipProofs --------------------------
(***************************************************************************)
(* The trust states mean what both admins said, for every bound on their    *)
(* acts and on the calls lost, and the mesh never takes a friendship back.  *)
(*                                                                         *)
(* A row says "friend" only after both admins asked, but the statement that *)
(* writes it acts on what was read before: by a handler, by a sweep, by an  *)
(* admin's operation, or on a reply still under way.  The inductive         *)
(* invariant therefore says of every state anyone has read, and of every    *)
(* call in flight, what it says of the row.  That suffices because a wish,  *)
(* once expressed, stays expressed: a stale reading remains justified.      *)
(***************************************************************************)
EXTENDS Friendship, FiniteSetTheorems, TLAPS

-----------------------------------------------------------------------------
(* The inductive invariant.                                                *)

(* What the state s of n's row, or a copy of it, says the admins wanted. *)
Means(n, s) ==
  /\ s = "friend" => asked[n] /\ asked[Other(n)]
  /\ s = "outgoing" => asked[n]
  /\ s = "incoming" => asked[Other(n)]

RowsMeanIt  == \A n \in Nodes : Means(n, row[n].state) /\ Means(n, row[n].prev)
ReadsMeanIt == \A n \in Nodes :
  /\ Means(n, admin[n].read.state) /\ Means(n, admin[n].read.prev)
  /\ Means(n, hand[n])

(* A call is made for an invitation; a reply "friend" for two of them. *)
CallsMeanIt == \A n \in Nodes :
  /\ call[n] # "idle" => asked[n]
  /\ call[n] = "friend" => asked[Other(n)]
  /\ hand[n] # "free" => asked[Other(n)]

(* An operation was begun in a state that allowed it. *)
OpsAreAllowed == \A n \in Nodes :
  /\ admin[n].op \in {"import", "accept"} => admin[n].read.state \in {"none", "incoming"}
  /\ admin[n].op = "block" => admin[n].read.state # "blocked"
  /\ admin[n].op = "mark" => admin[n].read.state = "none"
  /\ admin[n].read.prev # "blocked"

Justified == RowsMeanIt /\ ReadsMeanIt /\ CallsMeanIt
IInv == TypeOK /\ OpsAreAllowed /\ Justified

-----------------------------------------------------------------------------
(* The two nodes.                                                          *)

(* There are exactly two nodes, each the other of the other. *)
LEMMA OtherFacts ==
  ASSUME NEW n \in Nodes
  PROVE  /\ Other(n) \in Nodes /\ Other(n) # n
         /\ Other(Other(n)) = n
         /\ \A m \in Nodes : m = n \/ m = Other(n)
<1>1. IsFiniteSet(Nodes \ {n}) /\ Cardinality(Nodes \ {n}) = 1
  BY FriendshipAssumption, FS_RemoveElement
<1>2. PICK x : Nodes \ {n} = {x}
  BY <1>1, FS_Singleton
<1>3. x \in Nodes /\ x # n /\ \A m \in Nodes : m = n \/ m = x
  BY <1>2
<1>4. Other(n) = x
  BY <1>3 DEF Other
<1>5. Other(x) \in Nodes /\ Other(x) # x
  BY <1>3 DEF Other
<1> QED
  BY <1>3, <1>4, <1>5

(* Everything starts at rest. *)
LEMMA InitIsSound == Init => IInv
BY FriendshipAssumption
   DEF Init, IInv, TypeOK, States, Calls, Ops, Stranger, AtRest, OpsAreAllowed,
       Justified, RowsMeanIt, ReadsMeanIt, CallsMeanIt, Means

(* A statement on the trust group writes one row. *)
LEMMA PutFacts ==
  ASSUME TypeOK, NEW n \in Nodes, NEW s \in States, NEW p \in States \ {"blocked"},
         Put(n, s, p)
  PROVE  /\ row' \in [Nodes -> [state : States, prev : States \ {"blocked"}]]
         /\ row'[n].state = s /\ row'[n].prev = p
         /\ \A m \in Nodes \ {n} : row'[m] = row[m]
BY DEF TypeOK, Put

-----------------------------------------------------------------------------
(* The steps of a call: sent, received, answered, applied or given up.      *)

(* The caller's half of a call keeps the invariant. *)
LEMMA SweepIsSound ==
  ASSUME IInv, NEW n \in Nodes, Sweep(n)
  PROVE  IInv'
<1> USE OtherFacts DEF IInv, TypeOK, Calls
<1>1. CASE BeginSweep(n)
  BY <1>1 DEF BeginSweep, OpsAreAllowed, Justified, RowsMeanIt, ReadsMeanIt, CallsMeanIt, Means
<1>2. CASE Send(n)
  BY <1>2 DEF Send, OpsAreAllowed, Justified, RowsMeanIt, ReadsMeanIt, CallsMeanIt, Means
<1>3. CASE Arrive(n)
  <2> USE <1>3 DEF Arrive
  <2>1. TypeOK'
    BY DEF OpsAreAllowed
  <2>2. OpsAreAllowed'
    BY DEF OpsAreAllowed
  <2>3. RowsMeanIt'
    BY DEF Justified, RowsMeanIt, ReadsMeanIt, CallsMeanIt, OpsAreAllowed, Means
  <2>4. ReadsMeanIt'
    BY DEF Justified, RowsMeanIt, ReadsMeanIt, CallsMeanIt, Means
  <2>5. CallsMeanIt'
    BY DEF Justified, RowsMeanIt, ReadsMeanIt, CallsMeanIt, Means
  <2> QED
    BY <2>1, <2>2, <2>3, <2>4, <2>5 DEF Justified
<1>4. CASE Apply(n)
  <2> USE <1>4 DEF Apply, Set, SetFails, Put, Listed, States
  <2>1. TypeOK'
    <3>1. row' \in [Nodes -> [state : States, prev : States \ {"blocked"}]]
      BY PutFacts
    <3> QED
      BY <3>1
  <2>2. OpsAreAllowed'
    BY DEF OpsAreAllowed
  <2>3. RowsMeanIt'
    BY DEF Justified, RowsMeanIt, ReadsMeanIt, CallsMeanIt, OpsAreAllowed, Means
  <2>4. ReadsMeanIt'
    BY DEF Justified, RowsMeanIt, ReadsMeanIt, CallsMeanIt, Means
  <2>5. CallsMeanIt'
    BY DEF Justified, RowsMeanIt, ReadsMeanIt, CallsMeanIt, Means
  <2> QED
    BY <2>1, <2>2, <2>3, <2>4, <2>5 DEF Justified
<1> QED
  BY <1>1, <1>2, <1>3, <1>4 DEF Sweep

(* The handler's half of a call keeps the invariant. *)
LEMMA HandlerIsSound ==
  ASSUME IInv, NEW n \in Nodes, Handle(n) \/ HandlerDrops(n)
  PROVE  IInv'
<1> USE OtherFacts DEF IInv, TypeOK, Calls
<1>1. CASE HandlerReads(n)
  BY <1>1 DEF HandlerReads, States, OpsAreAllowed, Justified, RowsMeanIt, ReadsMeanIt, CallsMeanIt, Means
<1>2. CASE HandlerWrites(n)
  <2> USE <1>2 DEF HandlerWrites, Reply, Answer, Insert, InsertFails, Set, SetFails, Put, Listed, States
  <2>1. TypeOK'
    <3>1. row' \in [Nodes -> [state : States, prev : States \ {"blocked"}]]
      BY PutFacts
    <3>2. UNCHANGED <<admin, asked, acts, lost>>
      OBVIOUS
    <3>3. PICK result \in Calls : Reply(n, result)
      OBVIOUS
    <3>4. hand' \in [Nodes -> {"free", "authed"} \cup States] /\ call' \in [Nodes -> Calls]
      BY <3>3
    <3> QED
      BY <3>1, <3>2, <3>4
  <2>2. OpsAreAllowed'
    BY DEF OpsAreAllowed
  <2>3. RowsMeanIt'
    BY SMTT(60) DEF Justified, RowsMeanIt, ReadsMeanIt, CallsMeanIt, OpsAreAllowed, Means
  <2>4. ReadsMeanIt'
    BY DEF Justified, RowsMeanIt, ReadsMeanIt, CallsMeanIt, Means
  <2>5. CallsMeanIt'
    BY DEF Justified, RowsMeanIt, ReadsMeanIt, CallsMeanIt, Means
  <2> QED
    BY <2>1, <2>2, <2>3, <2>4, <2>5 DEF Justified
<1>3. CASE HandlerDrops(n)
  BY <1>3 DEF HandlerDrops, States, OpsAreAllowed, Justified, RowsMeanIt, ReadsMeanIt, CallsMeanIt, Means
<1> QED
  BY <1>1, <1>2, <1>3 DEF Handle

(* A call given up and a process restarted keep the invariant. *)
LEMMA FaultIsSound ==
  ASSUME IInv, NEW n \in Nodes, TimesOut(n) \/ Restart(n)
  PROVE  IInv'
<1> USE OtherFacts, FriendshipAssumption DEF IInv, TypeOK, Calls
<1>1. CASE TimesOut(n)
  BY <1>1 DEF TimesOut, OpsAreAllowed, Justified, RowsMeanIt, ReadsMeanIt, CallsMeanIt, Means
<1>2. CASE Restart(n)
  BY <1>2 DEF Restart, AtRest, Stranger, States, Ops, OpsAreAllowed, Justified, RowsMeanIt, ReadsMeanIt, CallsMeanIt, Means
<1> QED
  BY <1>1, <1>2

-----------------------------------------------------------------------------
(* The admins.                                                             *)

(* What an admin begins or another removes keeps the invariant. *)
LEMMA BeginIsSound ==
  ASSUME IInv, NEW n \in Nodes, (\E op \in Ops : AdminBegins(n, op)) \/ Remove(n)
  PROVE  IInv'
<1> USE OtherFacts, FriendshipAssumption DEF IInv, TypeOK
<1>1. ASSUME NEW op \in Ops, AdminBegins(n, op) PROVE IInv'
  BY <1>1 DEF AdminBegins, Allowed, AtRest, Stranger, States, Ops, OpsAreAllowed, Justified, RowsMeanIt, ReadsMeanIt, CallsMeanIt, Means
<1>2. CASE Remove(n)
  BY <1>2 DEF Remove, Set, Put, Listed, States, OpsAreAllowed, Justified, RowsMeanIt, ReadsMeanIt, CallsMeanIt, Means
<1> QED
  BY <1>1, <1>2

(* An operation that ends forgets what it read. *)
LEMMA RestFacts ==
  ASSUME TypeOK, NEW n \in Nodes, Rests(n)
  PROVE  /\ admin' \in [Nodes -> [op : Ops \cup {"idle"}, read : [state : States, prev : States]]]
         /\ admin'[n] = AtRest
         /\ \A m \in Nodes \ {n} : admin'[m] = admin[m]
BY DEF TypeOK, Rests, AtRest, Stranger, States

(* So an operation that wrote what its admin's wishes, old and new, mean    *)
(* keeps the invariant.                                                    *)
LEMMA SettledIsSound ==
  ASSUME IInv, NEW n \in Nodes, Rests(n), UNCHANGED <<call, hand, acts, lost>>,
         Asks(n) \/ UNCHANGED asked,
         \/ UNCHANGED row
         \/ \E s \in States, p \in States \ {"blocked"} :
              /\ Put(n, s, p)
              /\ s = "friend" => asked'[n] /\ asked'[Other(n)]
              /\ s = "outgoing" => asked'[n]
              /\ s = "incoming" => asked'[Other(n)]
              /\ Means(n, p)
  PROVE  IInv'
<1>1. TypeOK
  BY DEF IInv
<1>2. /\ asked' \in [Nodes -> BOOLEAN]
      /\ \A m \in Nodes : asked[m] => asked'[m]
  BY <1>1 DEF TypeOK, Asks
<1>3. row' \in [Nodes -> [state : States, prev : States \ {"blocked"}]]
  BY <1>1, PutFacts DEF TypeOK
<1>4. TypeOK'
  BY <1>1, <1>2, <1>3, RestFacts DEF TypeOK
<1>5. OpsAreAllowed'
  BY <1>1, RestFacts DEF IInv, OpsAreAllowed, AtRest, Stranger
<1>6. RowsMeanIt'
  <2>1. RowsMeanIt
    BY DEF IInv, Justified
  <2>2. CASE UNCHANGED row
    BY <1>2, <2>1, <2>2, OtherFacts DEF RowsMeanIt, Means
  <2>3. ASSUME NEW s \in States, NEW p \in States \ {"blocked"}, Put(n, s, p),
               s = "friend" => asked'[n] /\ asked'[Other(n)],
               s = "outgoing" => asked'[n],
               s = "incoming" => asked'[Other(n)],
               Means(n, p)
        PROVE  RowsMeanIt'
    <3>1. /\ row'[n].state = s /\ row'[n].prev = p
          /\ \A m \in Nodes \ {n} : row'[m] = row[m]
      BY <1>1, <2>3, PutFacts
    <3>2. (Means(n, row[n].state) /\ Means(n, row[n].prev))'
      BY <1>2, <2>3, <3>1, OtherFacts DEF Means
    <3>3. ASSUME NEW m \in Nodes \ {n}
          PROVE  (Means(m, row[m].state) /\ Means(m, row[m].prev))'
      BY <1>2, <2>1, <3>1, OtherFacts DEF RowsMeanIt, Means
    <3> QED
      BY <3>2, <3>3 DEF RowsMeanIt
  <2> QED
    BY <2>2, <2>3
<1>7. ReadsMeanIt'
  BY <1>1, <1>2, RestFacts, OtherFacts DEF IInv, Justified, ReadsMeanIt, Means, AtRest, Stranger
<1>8. CallsMeanIt'
  BY <1>2, OtherFacts DEF IInv, Justified, CallsMeanIt
<1> QED
  BY <1>4, <1>5, <1>6, <1>7, <1>8 DEF IInv, Justified

(* What an admin's operation writes keeps the invariant. *)
LEMMA WriteIsSound ==
  ASSUME IInv, NEW n \in Nodes, AdminWrites(n)
  PROVE  IInv'
<1> DEFINE read == admin[n].read
<1>1. TypeOK /\ UNCHANGED <<call, hand, acts, lost>> /\ Other(n) \in Nodes
  BY OtherFacts DEF IInv, AdminWrites
<1>2. read.state \in States /\ read.prev \in States \ {"blocked"}
  BY <1>1 DEF IInv, TypeOK, OpsAreAllowed
<1>3. Means(n, read.state) /\ Means(n, read.prev) /\ Means(n, "none")
  BY DEF IInv, Justified, ReadsMeanIt, Means
<1>4. Asks(n) => asked'[n] /\ (asked[Other(n)] => asked'[Other(n)])
  BY <1>1 DEF TypeOK, Asks
<1>5. CASE Befriend(n)
  <2>1. CASE /\ read.state = "none" /\ Insert(n, "outgoing") /\ Rests(n) /\ Asks(n)
    BY <1>1, <1>3, <1>4, <2>1, SettledIsSound DEF Insert, States
  <2>2. CASE read.state # "none" /\ Set(n, "friend") /\ Rests(n) /\ Asks(n)
    <3>1. asked[Other(n)]
      BY <1>3, <1>5, <2>2 DEF Befriend, IInv, OpsAreAllowed, Means
    <3> QED
      BY <1>1, <1>3, <1>4, <2>2, <3>1, SettledIsSound DEF Set, States
  <2>3. CASE (InsertFails(n) \/ SetFails(n)) /\ Refused(n)
    BY <1>1, <2>3, SettledIsSound DEF InsertFails, SetFails, Refused
  <2> QED
    BY <1>5, <2>1, <2>2, <2>3 DEF Befriend
<1>6. CASE Block(n)
  <2>1. CASE /\ Insert(n, "blocked") /\ read.state = "none" /\ UNCHANGED asked
             /\ admin' = [admin EXCEPT ![n].op = "mark"]
    <3>1. /\ row' \in [Nodes -> [state : States, prev : States \ {"blocked"}]]
          /\ row'[n].state = "blocked" /\ row'[n].prev = "none"
          /\ \A m \in Nodes \ {n} : row'[m] = row[m]
      BY <1>1, <2>1, PutFacts DEF Insert, States
    <3>2. /\ admin' \in [Nodes -> [op : Ops \cup {"idle"}, read : [state : States, prev : States]]]
          /\ admin'[n].op = "mark"
          /\ \A m \in Nodes : admin'[m].read = admin[m].read
          /\ \A m \in Nodes \ {n} : admin'[m] = admin[m]
      <4>1. admin' \in [Nodes -> [op : Ops \cup {"idle"}, read : [state : States, prev : States]]]
        BY <1>1, <2>1 DEF TypeOK, Ops
      <4> QED
        BY <1>1, <2>1, <4>1 DEF TypeOK
    <3>3. TypeOK'
      BY <1>1, <2>1, <3>1, <3>2 DEF TypeOK
    <3>4. OpsAreAllowed'
      BY <2>1, <3>2 DEF IInv, OpsAreAllowed
    <3>5. Justified'
      BY <1>1, <2>1, <3>1, <3>2, SMTT(60)
         DEF IInv, Justified, RowsMeanIt, ReadsMeanIt, CallsMeanIt, Means
    <3> QED
      BY <3>3, <3>4, <3>5 DEF IInv
  <2>2. CASE InsertFails(n) /\ Rests(n) /\ UNCHANGED asked
    BY <1>1, <2>2, SettledIsSound DEF InsertFails
  <2>3. CASE /\ Listed(n) /\ Put(n, "blocked", read.state) /\ read.state # "blocked"
             /\ Refused(n)
    BY <1>1, <1>2, <1>3, <2>3, SettledIsSound DEF Refused, States
  <2>4. CASE SetFails(n) /\ Refused(n)
    BY <1>1, <2>4, SettledIsSound DEF SetFails, Refused
  <2>5. admin[n].op \in {"block", "mark"} => read.state # "blocked"
    BY DEF IInv, OpsAreAllowed
  <2> QED
    BY <1>6, <2>1, <2>2, <2>3, <2>4, <2>5 DEF Block
<1>7. CASE Unblock(n)
  <2> DEFINE back == Standing(read)
  <2>1. back \in States /\ (back # "outgoing" => Means(n, back))
    BY <1>2, <1>3 DEF Standing, States
  <2>2. CASE Set(n, back) /\ Rests(n) /\ back = "outgoing" /\ Asks(n)
    BY <1>1, <1>3, <1>4, <2>1, <2>2, SettledIsSound DEF Set, States
  <2>3. CASE Set(n, back) /\ Rests(n) /\ back # "outgoing" /\ UNCHANGED asked
    BY <1>1, <1>3, <2>1, <2>3, SettledIsSound DEF Set, Means, States
  <2>4. CASE SetFails(n) /\ Refused(n)
    BY <1>1, <2>4, SettledIsSound DEF SetFails, Refused
  <2> QED
    BY <1>7, <2>2, <2>3, <2>4 DEF Unblock
<1> QED
  BY <1>5, <1>6, <1>7 DEF AdminWrites

-----------------------------------------------------------------------------
(* The theorems.                                                           *)

(* The next-state relation preserves the invariant. *)
LEMMA NextIsSound == IInv /\ [Next]_vars => IInv'
<1> SUFFICES ASSUME IInv, [Next]_vars PROVE IInv'
  OBVIOUS
<1>1. ASSUME NEW n \in Nodes,
             \/ Sweep(n) \/ Handle(n) \/ HandlerDrops(n)
             \/ TimesOut(n) \/ Restart(n)
             \/ \E op \in Ops : AdminBegins(n, op)
             \/ Remove(n) \/ AdminWrites(n)
      PROVE  IInv'
  BY <1>1, SweepIsSound, HandlerIsSound, FaultIsSound, BeginIsSound, WriteIsSound
<1>2. CASE UNCHANGED vars
  BY <1>2 DEF vars, IInv, TypeOK, OpsAreAllowed, Justified, RowsMeanIt, ReadsMeanIt,
              CallsMeanIt, Means
<1> QED
  BY <1>1, <1>2 DEF Next

(* The invariant holds throughout. *)
THEOREM InvariantHolds == Spec => []IInv
BY InitIsSound, NextIsSound, PTL DEF Spec

(* Nobody holds the other for a friend, or would after an unblock, unless   *)
(* both admins wanted it, whatever calls are lost, late or crossing with    *)
(* the admins' acts: the two trust columns mean what was said.              *)
THEOREM TrustHolds == Spec => []TrustIsSound
<1>1. IInv => TrustIsSound
  <2> SUFFICES ASSUME IInv PROVE FriendshipIsMutual
    BY DEF IInv, TrustIsSound
  <2>1. ASSUME NEW n \in Nodes, "friend" \in {row[n].state, row[n].prev}
        PROVE  \A m \in Nodes : asked[m]
    BY <2>1, OtherFacts DEF IInv, Justified, RowsMeanIt, Means
  <2> QED
    BY <2>1 DEF FriendshipIsMutual
<1> QED
  BY <1>1, InvariantHolds, PTL

(* Only a handler or a sweep that turns a row into "friend", or an act of   *)
(* the admin, changes an invitation or a friendship.                        *)
LEMMA StepNeverWithdraws ==
  ASSUME IInv, [Next]_vars, NEW n \in Nodes,
         row[n].state \in {"outgoing", "friend"}, row'[n].state # row[n].state
  PROVE  row'[n].state = "friend" \/ AdminSteps(n)
<1>1. TypeOK
  BY DEF IInv
<1>2. ASSUME NEW m \in Nodes, HandlerWrites(m) \/ Apply(m)
      PROVE  row'[n].state = "friend"
  <2>1. CASE m = n
    BY <1>1, <1>2, <2>1 DEF HandlerWrites, Apply, Insert, InsertFails, Set, SetFails, Listed,
                            Put, TypeOK
  <2>2. CASE m # n
    BY <1>1, <1>2, <2>2 DEF HandlerWrites, Apply, Insert, InsertFails, Set, SetFails, Put, TypeOK
  <2> QED
    BY <2>1, <2>2
<1>3. ASSUME NEW m \in Nodes, Remove(m)
      PROVE  AdminSteps(n)
  BY <1>1, <1>3 DEF Remove, AdminSteps, TypeOK
<1>4. ASSUME NEW m \in Nodes, AdminWrites(m)
      PROVE  AdminSteps(n)
  <2>1. m = n
    BY <1>1, <1>4 DEF AdminWrites, Befriend, Block, Unblock, Insert, InsertFails, Set, SetFails,
                      Put, TypeOK
  <2>2. admin'[n].op \in {"idle", "mark"} /\ admin'[n].op # admin[n].op
    BY <1>1, <1>4, <2>1
       DEF AdminWrites, Befriend, Block, Unblock, Refused, Rests, AtRest, TypeOK, Ops,
           Listed, Insert, SetFails
  <2> QED
    BY <2>2 DEF AdminSteps
<1>5. ASSUME NEW m \in Nodes,
             \/ BeginSweep(m) \/ Send(m) \/ Arrive(m) \/ HandlerReads(m) \/ HandlerDrops(m)
             \/ TimesOut(m) \/ Restart(m)
             \/ \E op \in Ops : AdminBegins(m, op)
      PROVE  UNCHANGED row
  BY <1>5 DEF BeginSweep, Send, Arrive, HandlerReads, HandlerDrops, TimesOut, Restart, AdminBegins
<1> QED
  BY <1>2, <1>3, <1>4, <1>5 DEF Next, Sweep, Handle, vars

(* No call, reply or race of handlers takes an invitation or a friendship   *)
(* back: only the node's own admin does.                                    *)
THEOREM NothingIsWithdrawn == Spec => MeshNeverWithdraws
<1>1. IInv /\ [Next]_vars =>
        [\A n \in Nodes :
           (row[n].state \in {"outgoing", "friend"} /\ row'[n].state # row[n].state)
             => (row'[n].state = "friend" \/ AdminSteps(n))]_vars
  BY StepNeverWithdraws
<1> QED
  BY <1>1, InvariantHolds, PTL DEF Spec, MeshNeverWithdraws

=============================================================================
