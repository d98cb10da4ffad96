----------------------------- MODULE Friendship -----------------------------
(***************************************************************************)
(* The pairing handshake of two nodes and the acts of their admins:         *)
(* federation/friendship.go over the trust group of federation_nodes        *)
(* (database/federation.go).                                                *)
(*                                                                         *)
(* Every database statement is one step, so a state read by one statement   *)
(* may be stale when the next one writes.  The sweep's peer list is such a  *)
(* read: a pairing call is made, and its reply applied, for the peer as it  *)
(* was listed.  A row keeps its id over a removal (the row stays when the   *)
(* node is still pulled from, and SQLite reuses the highest rowid).         *)
(***************************************************************************)
EXTENDS Integers, FiniteSets

CONSTANTS
  Nodes,     \* the two nodes
  MaxActs,   \* bound: operations their admins begin
  MaxLost    \* bound: calls that time out and processes that restart

ASSUME FriendshipAssumption ==
  /\ IsFiniteSet(Nodes) /\ Cardinality(Nodes) = 2
  /\ MaxActs \in Nat /\ MaxLost \in Nat

VARIABLES
  row,    \* n's row of the other node: trust_state ("none" if NULL), prev_state
  call,   \* n's outbound pairing call, for a peer its sweep listed as outgoing
  hand,   \* n's handler of the other's call: "free", "authed" or the state it read
  admin,  \* the operation n's admin has begun, with the state it read
  asked,  \* whether n's admin ever wanted the friendship (history)
  acts, lost

vars == <<row, call, hand, admin, asked, acts, lost>>

States == {"none", "outgoing", "incoming", "friend", "blocked"}
Calls  == {"idle", "due", "sent", "served", "friend", "pending"}
Ops    == {"import", "accept", "block", "mark", "unblock"}

Other(n) == CHOOSE m \in Nodes : m # n

Stranger == [state |-> "none", prev |-> "none"]
AtRest   == [op |-> "idle", read |-> Stranger]

Init ==
  /\ row = [n \in Nodes |-> Stranger] /\ admin = [n \in Nodes |-> AtRest]
  /\ call = [n \in Nodes |-> "idle"] /\ hand = [n \in Nodes |-> "free"]
  /\ asked = [n \in Nodes |-> FALSE]
  /\ acts = 0 /\ lost = 0

-----------------------------------------------------------------------------
(* The statements on the trust group.                                      *)

Listed(n) == row[n].state # "none"
Put(n, state, prev) == row' = [row EXCEPT ![n] = [state |-> state, prev |-> prev]]

(* Mutant: the upsert without its guard on an existing trust state. *)
InsertOverwriting(n, state) == Put(n, state, "none")

Insert(n, state) == ~Listed(n) /\ Put(n, state, "none")
InsertFails(n)   == Listed(n) /\ UNCHANGED row

Set(n, state)   == Listed(n) /\ Put(n, state, "none")
SetFails(n)     == ~Listed(n) /\ UNCHANGED row

-----------------------------------------------------------------------------
(* The sweep and the pairing call.                                         *)

BeginSweep(n) ==
  /\ call[n] = "idle" /\ row[n].state = "outgoing"
  /\ call' = [call EXCEPT ![n] = "due"]
  /\ UNCHANGED <<row, hand, admin, asked, acts, lost>>

Send(n) ==
  /\ call[n] = "due" /\ call' = [call EXCEPT ![n] = "sent"]
  /\ UNCHANGED <<row, hand, admin, asked, acts, lost>>

(* meshAuth refuses a blocked peer before the handler runs. *)
Arrive(n) ==
  LET m == Other(n) IN
  /\ call[n] = "sent" /\ hand[m] = "free"
  /\ IF row[m].state = "blocked"
       THEN call' = [call EXCEPT ![n] = "idle"] /\ UNCHANGED hand
       ELSE /\ call' = [call EXCEPT ![n] = "served"]
            /\ hand' = [hand EXCEPT ![m] = "authed"]
  /\ UNCHANGED <<row, admin, asked, acts, lost>>

HandlerReads(m) ==
  /\ hand[m] = "authed" /\ hand' = [hand EXCEPT ![m] = row[m].state]
  /\ UNCHANGED <<row, call, admin, asked, acts, lost>>

(* The reply reaches the caller unless it has stopped waiting. *)
Reply(m, result) ==
  /\ hand' = [hand EXCEPT ![m] = "free"]
  /\ call' = [call EXCEPT ![Other(m)] = IF @ = "served" THEN result ELSE @]

(* Mutants: a request that still waits for the admin answered as accepted,  *)
(* and a friend answered as if it still waited.                             *)
AnswerAccepting(state)       == "friend"
AnswerForgettingFriends(state) == "pending"

Answer(state) == IF state = "friend" THEN "friend" ELSE "pending"

HandlerWrites(m) ==
  /\ \/ hand[m] = "none" /\ Insert(m, "incoming") /\ Reply(m, "pending")
     \/ hand[m] = "none" /\ InsertFails(m) /\ Reply(m, "idle")
     \/ hand[m] = "outgoing" /\ Set(m, "friend") /\ Reply(m, "friend")
     \/ hand[m] = "outgoing" /\ SetFails(m) /\ Reply(m, "idle")
     \/ /\ hand[m] \in {"friend", "incoming", "blocked"}
        /\ Reply(m, Answer(hand[m])) /\ UNCHANGED row
  /\ UNCHANGED <<admin, asked, acts, lost>>

(* The request's context is cancelled with its connection: a statement     *)
(* begun after that fails.                                                 *)
HandlerDrops(m) ==
  /\ hand[m] # "free" /\ call[Other(m)] # "served"
  /\ hand' = [hand EXCEPT ![m] = "free"]
  /\ UNCHANGED <<row, call, admin, asked, acts, lost>>

Apply(n) ==
  /\ call[n] \in {"friend", "pending"} /\ call' = [call EXCEPT ![n] = "idle"]
  /\ IF call[n] = "friend" THEN Set(n, "friend") \/ SetFails(n) ELSE UNCHANGED row
  /\ UNCHANGED <<hand, admin, asked, acts, lost>>

TimesOut(n) ==
  /\ call[n] \in {"sent", "served"} /\ lost < MaxLost
  /\ call' = [call EXCEPT ![n] = "idle"] /\ lost' = lost + 1
  /\ UNCHANGED <<row, hand, admin, asked, acts>>

(* A process that stops forgets all but its rows. *)
Restart(n) ==
  /\ lost < MaxLost /\ lost' = lost + 1
  /\ call' = [m \in Nodes |-> IF m = n \/ call[m] = "served" THEN "idle" ELSE call[m]]
  /\ hand' = [hand EXCEPT ![n] = "free"] /\ admin' = [admin EXCEPT ![n] = AtRest]
  /\ UNCHANGED <<row, asked, acts>>

-----------------------------------------------------------------------------
(* The admins.  Each operation reads the row and decides, then writes.      *)

(* An operation that would only report the state it read is left out. *)
Allowed(op, state) ==
  \/ op = "import" /\ state \in {"none", "incoming"}
  \/ op = "accept" /\ state = "incoming"
  \/ op = "block" /\ state # "blocked"
  \/ op = "unblock" /\ state = "blocked"

AdminBegins(n, op) ==
  /\ admin[n] = AtRest /\ acts < MaxActs /\ acts' = acts + 1
  /\ Allowed(op, row[n].state)
  /\ admin' = [admin EXCEPT ![n] = [op |-> op, read |-> row[n]]]
  /\ UNCHANGED <<row, call, hand, asked, lost>>

(* Another administrator may remove the peer meanwhile. *)
Remove(n) ==
  /\ acts < MaxActs /\ acts' = acts + 1
  /\ Set(n, "none")
  /\ UNCHANGED <<call, hand, admin, asked, lost>>

Rests(n) == admin' = [admin EXCEPT ![n] = AtRest]
Asks(n)  == asked' = [asked EXCEPT ![n] = TRUE]

Refused(n) == Rests(n) /\ UNCHANGED asked

(* ImportCard and AcceptPeer. *)
Befriend(n) ==
  LET fresh == admin[n].read.state = "none" IN
  /\ admin[n].op \in {"import", "accept"}
  /\ \/ fresh /\ Insert(n, "outgoing") /\ Rests(n) /\ Asks(n)
     \/ fresh /\ InsertFails(n) /\ Refused(n)
     \/ ~fresh /\ Set(n, "friend") /\ Rests(n) /\ Asks(n)
     \/ ~fresh /\ SetFails(n) /\ Refused(n)

(* BlockKey on a stranger inserts the row and then marks it. *)
Block(n) ==
  LET read == admin[n].read.state IN
  \/ /\ admin[n].op = "block" /\ read = "none" /\ UNCHANGED asked
     /\ \/ Insert(n, "blocked") /\ admin' = [admin EXCEPT ![n].op = "mark"]
        \/ InsertFails(n) /\ Rests(n)
  \/ /\ \/ admin[n].op = "block" /\ read # "none"
        \/ admin[n].op = "mark"
     /\ \/ Listed(n) /\ Put(n, "blocked", read)
        \/ SetFails(n)
     /\ Refused(n)

Standing(read) == IF read.prev \in {"none", "blocked"} THEN "outgoing" ELSE read.prev

Unblock(n) ==
  LET back == Standing(admin[n].read) IN
  /\ admin[n].op = "unblock"
  /\ \/ /\ Set(n, back) /\ Rests(n)
        /\ IF back = "outgoing" THEN Asks(n) ELSE UNCHANGED asked
     \/ SetFails(n) /\ Refused(n)

AdminWrites(n) ==
  /\ Befriend(n) \/ Block(n) \/ Unblock(n)
  /\ UNCHANGED <<call, hand, acts, lost>>

-----------------------------------------------------------------------------
Sweep(n)  == BeginSweep(n) \/ Send(n) \/ Arrive(n) \/ Apply(n)
Handle(n) == HandlerReads(n) \/ HandlerWrites(n)

Next == \E n \in Nodes :
  \/ Sweep(n) \/ Handle(n) \/ HandlerDrops(n)
  \/ TimesOut(n) \/ Restart(n)
  \/ \E op \in Ops : AdminBegins(n, op)
  \/ Remove(n) \/ AdminWrites(n)

Spec == Init /\ [][Next]_vars

(* refreshLoop sweeps on a ticker and on every Nudge; a handler and an      *)
(* admin's request run to their end.  Nobody has to act.                    *)
Fairness == \A n \in Nodes :
  WF_vars(Sweep(n)) /\ WF_vars(Handle(n)) /\ WF_vars(AdminWrites(n))
FairSpec == Spec /\ Fairness

-----------------------------------------------------------------------------
(* Every variable keeps its type, and a block never remembers a block: an   *)
(* unblock could not tell what to return to.                                *)
TypeOK ==
  /\ row \in [Nodes -> [state : States, prev : States \ {"blocked"}]]
  /\ call \in [Nodes -> Calls] /\ hand \in [Nodes -> {"free", "authed"} \cup States]
  /\ admin \in [Nodes -> [op : Ops \cup {"idle"}, read : [state : States, prev : States]]]
  /\ asked \in [Nodes -> BOOLEAN] /\ acts \in 0 .. MaxActs /\ lost \in 0 .. MaxLost

(* A node holds the other for a friend, or would after an unblock, only if  *)
(* both admins wanted it: imported a card, accepted a request, or lifted a  *)
(* block that had no earlier standing to return to.                         *)
FriendshipIsMutual == \A n \in Nodes :
  "friend" \in {row[n].state, row[n].prev} => \A m \in Nodes : asked[m]

(* So the trust states mean what both admins said.                          *)
TrustIsSound == TypeOK /\ FriendshipIsMutual

(* Whatever calls arrive, replies come late or handlers race, only the      *)
(* admin takes an invitation or a friendship back.                          *)
AdminSteps(n) == admin'[n] # admin[n] \/ acts' # acts
MeshNeverWithdraws == [][\A n \in Nodes :
  (row[n].state \in {"outgoing", "friend"} /\ row'[n].state # row[n].state)
    => (row'[n].state = "friend" \/ AdminSteps(n))]_vars

(* Both halves of the handshake converge through lost calls, restarts and   *)
(* stale sweeps: two nodes that keep wanting each other end up friends.     *)
Converges ==
  (<>[]\A n \in Nodes : row[n].state \in {"outgoing", "friend"})
    => <>[]\A n \in Nodes : row[n].state = "friend"

=============================================================================
