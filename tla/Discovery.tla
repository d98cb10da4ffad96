----------------------------- MODULE Discovery -----------------------------
(***************************************************************************)
(* The pulling half of discovery, federation/discovery.go: which nodes     *)
(* this one keeps a cached catalog of, and whom it asks next.  The refresh *)
(* loop is one goroutine; announces, hints, deliveries, requests and the   *)
(* admin's decisions fall between any two of its store calls.              *)
(*                                                                         *)
(* Time is counted in rounds of the loop: every clock of a row is an age,  *)
(* capped where the code stops telling ages apart.                         *)
(***************************************************************************)
EXTENDS Integers, Sequences, FiniteSets, SequencesExt

CONSTANTS
  Nodes,      \* the other nodes' keys, integers for their order
  Dead,       \* those that never answer
  Refusing,   \* those that answer a ping and refuse their catalog
  Friends0,   \* friends at the start
  Reached0,   \* others the graph reaches at the start
  Cycle,      \* rounds in a catalog cycle (CatalogSync / Refresh)
  Window,     \* the pull freshness window, in rounds (3 * Cycle)
  Budget,     \* discovery_budget
  Cap,        \* discovery_cap
  MaxMoves    \* bound: decisions, requests and graph changes of one behaviour

ASSUME DiscoveryAssumption ==
  /\ Nodes \subseteq Nat /\ IsFiniteSet(Nodes)
  /\ Dead \cup Refusing \cup Friends0 \cup Reached0 \subseteq Nodes
  /\ Cycle \in Nat \ {0} /\ Window \in Nat /\ Window >= Cycle
  /\ Budget \in Nat /\ Cap \in Nat /\ MaxMoves \in Nat

VARIABLES
  trust,    \* node -> what an admin decided of it; "none" covers the pending states
  reached,  \* the nodes the gossip graph reaches
  rot,      \* the rows in the pull rotation: ORDER BY attempted_at, id
  row,      \* node -> tried (attempted_at # 0) and the ages of its three clocks
  pull,     \* the explicit queue, pullNow
  round,    \* the sweep: where it is, what it has read, what it has left to do
  held,     \* history: rounds a member's catalog has been kept without a break
  listed,   \* history: how long the last round's source list was, and the rounds
            \* since one was shorter than the list before it
  moves     \* bound

discovery == <<trust, reached, rot, row, pull, round, held, listed, moves>>

(* seen: since last_seen; sync: since catalog_synced_at; floor: since the  *)
(* last floor ping, floorPinged.                                           *)
Never == [tried |-> FALSE, sync |-> Cycle, seen |-> Window + 1, floor |-> Cycle]
Row   == [tried : BOOLEAN, sync : 0 .. Cycle, seen : 0 .. Window + 1, floor : 0 .. Cycle]

TrustedAs(t) == {n \in Nodes : trust[n] = t}
Members      == TrustedAs("friend") \cup (reached \ TrustedAs("blocked"))
InRotation   == ToSet(rot)

Idle == [pc |-> "idle"]

InitDiscovery ==
  /\ trust = [n \in Nodes |-> IF n \in Friends0 THEN "friend" ELSE "none"]
  /\ reached = Reached0
  /\ rot = <<>> /\ row = [n \in Nodes |-> Never]
  /\ pull = {} /\ round = Idle
  /\ held = [n \in Nodes |-> 0] /\ listed = [size |-> 0, calm |-> 0] /\ moves = 0

(***************************************************************************)
(* The store.                                                              *)
(***************************************************************************)

(* A set of numbers in ascending order, and the items of s at the places I. *)
Ascending(S) == [k \in 1 .. Cardinality(S) |-> CHOOSE n \in S : Cardinality({m \in S : m <= n}) = k]
Only(s, I)   == [k \in 1 .. Cardinality(I) |-> s[Ascending(I)[k]]]

(* New rows have attempted_at = 0 and stand before every attempted one.    *)
EnsureAll(r, S) ==
  Only(r, {i \in DOMAIN r : ~row[r[i]].tried}) \o Ascending(S \ ToSet(r))
    \o Only(r, {i \in DOMAIN r : row[r[i]].tried})
EnsureIn(r, n) == IF n \in ToSet(r) THEN r ELSE EnsureAll(r, {n})

(* Mutant: the attempt is not stamped. *)
Unstamped(r, n) == r

Attempted(r, n) == Append(Only(r, {i \in DOMAIN r : r[i] # n}), n)

(* A row outlives its place in the rotation while trust still claims it;   *)
(* the clock of its floor pings does not (forgetFloorPings).               *)
Dropped(n) == IF trust[n] = "none" THEN Never ELSE [Never EXCEPT !.seen = row[n].seen]

(***************************************************************************)
(* The sweep: the peer list, then the friends' pings and the source list,  *)
(* then retention and the explicit queue, then one request at a time.      *)
(***************************************************************************)
(* A tick of the loop; a request wakes it early.                           *)
Older(age, top) == IF age < top THEN age + 1 ELSE top

Tick ==
  /\ round.pc = "idle"
  /\ row' = [n \in Nodes |-> [row[n] EXCEPT !.sync = Older(@, Cycle),
                                            !.seen = Older(@, Window + 1),
                                            !.floor = Older(@, Cycle)]]
  /\ held' = [n \in Nodes |-> IF n \in Members \cap InRotation THEN Older(held[n], Cycle + 1) ELSE 0]
  /\ listed' = [listed EXCEPT !.calm = Older(@, Cycle)]
  /\ round' = [pc |-> "peers"]
  /\ UNCHANGED <<trust, reached, rot, pull, moves>>

Nudged ==
  /\ round.pc = "idle" /\ pull # {}
  /\ round' = [pc |-> "peers"]
  /\ UNCHANGED <<trust, reached, rot, row, pull, held, listed, moves>>

ReadPeers ==
  /\ round.pc = "peers"
  /\ round' = [pc |-> "list", friends |-> TrustedAs("friend"),
               decided |-> TrustedAs("friend") \cup TrustedAs("blocked")]
  /\ UNCHANGED <<trust, reached, rot, row, pull, held, listed, moves>>

Listing(r, at) ==
  [i \in DOMAIN r |-> [node |-> r[i], due |-> at[r[i]].sync = Cycle, seen |-> at[r[i]].seen]]

ListSources ==
  /\ round.pc = "list"
  /\ row' = [n \in Nodes |-> IF n \in round.friends \ Dead THEN [row[n] EXCEPT !.seen = 0] ELSE row[n]]
  /\ rot' = EnsureAll(rot, round.friends)
  /\ round' = [pc |-> "retain", friends |-> round.friends, decided |-> round.decided, members |-> Members,
               list |-> Listing(rot', row')]
  /\ UNCHANGED <<trust, reached, pull, held, listed, moves>>

(* What may stay is a matter of admission, what fits a matter of cost: the *)
(* least recently seen of the foreign catalogs go, ties in any order.      *)
Foreign   == {s \in ToSet(round.list) : s.node \notin round.decided /\ s.node \in round.members}
Unadmitted == {s \in ToSet(round.list) : s.node \notin round.decided /\ s.node \notin round.members}
Over == Cardinality(Foreign) - Cap

(* Mutant: the most recently seen go. *)
NewestEvicted ==
  IF Over <= 0 THEN {{}}
  ELSE {E \in SUBSET Foreign : Cardinality(E) = Over /\ \A e \in E, s \in Foreign \ E : e.seen <= s.seen}

Evictions ==
  IF Over <= 0 THEN {{}}
  ELSE {E \in SUBSET Foreign : Cardinality(E) = Over /\ \A e \in E, s \in Foreign \ E : e.seen >= s.seen}

(***************************************************************************)
(* The requests of a round follow from what it has read: friends that are  *)
(* due and whatever was asked for; members without a row, by key, within   *)
(* the budget; due members, least recently attempted first, with what is   *)
(* left of it; and floor pings for one round's share of the members not    *)
(* seen for a cycle.                                                       *)
(***************************************************************************)
Steps(op, s)  == [i \in DOMAIN s |-> [op |-> op, node |-> s[i].node]]
First(k, s)   == SubSeq(s, 1, IF k < Len(s) THEN k ELSE Len(s))

(* Mutant: the share is rounded down. *)
FloorShare(k) == k \div Cycle

FloorBudget(k) == (k + Cycle - 1) \div Cycle

Frontier(list, members) ==
  LET fresh == Ascending(members \ {s.node : s \in ToSet(list)})
  IN First(Budget, [i \in DOMAIN fresh |-> [node |-> fresh[i]]])

DueFriends(list, friends, wanted) ==
  Only(list, {i \in DOMAIN list : list[i].node \in friends /\ (list[i].due \/ list[i].node \in wanted)})

Plan(list, friends, wanted, members, floor) ==
  LET asked    == Only(list, {i \in DOMAIN list : list[i].node \in wanted \ friends})
      foreign  == {i \in DOMAIN list : list[i].node \in members \ friends}
      frontier == Frontier(list, members)
      turn     == First(Budget - Len(frontier), Only(list, {i \in foreign : list[i].due}))
      reachedNow == {s.node : s \in ToSet(asked) \cup ToSet(turn)}
      quiet    == Only(list, {i \in foreign : /\ list[i].node \notin reachedNow
                                              /\ list[i].seen >= Cycle /\ floor[list[i].node] = Cycle})
  IN Steps("friend", DueFriends(list, friends, wanted)) \o Steps("pull", asked \o frontier \o turn)
       \o Steps("ping", First(FloorBudget(Len(list)), quiet))

Retain ==
  /\ round.pc = "retain"
  /\ \E evicted \in Evictions :
       LET gone == {s.node : s \in evicted \cup Unadmitted}
           kept == Only(rot, {i \in DOMAIN rot : rot[i] \notin gone})
       IN /\ row' = [n \in Nodes |-> IF n \in gone THEN Dropped(n) ELSE row[n]]
          /\ rot' = EnsureAll(kept, pull)
          /\ pull' = {}
          /\ held' = [n \in Nodes |-> IF n \in gone THEN 0 ELSE held[n]]
          /\ LET list == IF pull = {} THEN Only(round.list, {i \in DOMAIN round.list : round.list[i].node \notin gone})
                         ELSE Listing(rot', row')
             IN /\ listed' = [size |-> Len(list), calm |-> IF Len(list) < listed.size THEN 0 ELSE listed.calm]
                /\ round' =
                     [pc |-> "ask", friends |-> round.friends,
                      todo |-> Plan(list, round.friends, pull, round.members, [n \in Nodes |-> row'[n].floor])]
  /\ UNCHANGED <<trust, reached, moves>>

(* One pull: the attempt is stamped first, answered or not.  A friend was  *)
(* pinged already; anyone else is pinged on the way.                       *)
Pull ==
  /\ round.pc = "ask" /\ round.todo # <<>> /\ Head(round.todo).op # "ping"
  /\ LET n == Head(round.todo).node
         serves == n \notin Dead \cup Refusing
         heard == serves \/ (Head(round.todo).op = "pull" /\ n \notin Dead)
     IN /\ rot' = Attempted(rot, n)
        /\ row' = [row EXCEPT ![n].tried = TRUE,
                              ![n].sync = IF serves THEN 0 ELSE @,
                              ![n].seen = IF heard THEN 0 ELSE @]
  /\ round' = [round EXCEPT !.todo = Tail(@)]
  /\ UNCHANGED <<trust, reached, pull, held, listed, moves>>

FloorPing ==
  /\ round.pc = "ask" /\ round.todo # <<>> /\ Head(round.todo).op = "ping"
  /\ LET n == Head(round.todo).node
     IN row' = [row EXCEPT ![n].floor = 0, ![n].seen = IF n \in Dead THEN @ ELSE 0]
  /\ round' = [round EXCEPT !.todo = Tail(@)]
  /\ UNCHANGED <<trust, reached, rot, pull, held, listed, moves>>

RoundEnd ==
  /\ round.pc = "ask" /\ round.todo = <<>>
  /\ round' = Idle
  /\ UNCHANGED <<trust, reached, rot, row, pull, held, listed, moves>>

Sweep == Tick \/ ReadPeers \/ ListSources \/ Retain \/ Pull \/ FloorPing \/ RoundEnd

(***************************************************************************)
(* What happens beside the loop.                                           *)
(***************************************************************************)
(* A member announces what it has acquired: first hand, so it may mint a   *)
(* row, and it was seen doing so.                                          *)
Announced(n) ==
  /\ n \in Members \ Dead /\ (n \notin InRotation \/ row[n].seen # 0)
  /\ rot' = EnsureIn(rot, n)
  /\ row' = [row EXCEPT ![n].seen = 0]
  /\ UNCHANGED <<trust, reached, pull, round, held, listed, moves>>

(* A friend vouches for a member it saw some rounds ago.                   *)
Hint(n, age) ==
  /\ n \in Members \cap InRotation /\ n \notin Dead /\ age < row[n].seen
  /\ row' = [row EXCEPT ![n].seen = age]
  /\ UNCHANGED <<trust, reached, rot, pull, round, held, listed, moves>>

PullFrom(n) ==
  /\ moves < MaxMoves /\ moves' = moves + 1
  /\ n \notin pull /\ pull' = pull \cup {n}
  /\ UNCHANGED <<trust, reached, rot, row, round, held, listed>>

(* An admin decides, a friendship converges, a friend is removed: a row    *)
(* that trust gives up stays for the rotation's sake, or goes.             *)
Decide(n) ==
  /\ moves < MaxMoves /\ moves' = moves + 1
  /\ \E t \in {"none", "friend", "blocked"} \ {trust[n]} :
       /\ trust' = [trust EXCEPT ![n] = t]
       /\ row' = IF t = "none" /\ n \notin InRotation THEN [row EXCEPT ![n] = Never] ELSE row
       /\ held' = [held EXCEPT ![n] = IF t = "blocked" \/ (t = "none" /\ n \notin reached) THEN 0 ELSE @]
  /\ UNCHANGED <<reached, rot, pull, round, listed>>

GraphMoves(n) ==
  /\ moves < MaxMoves /\ moves' = moves + 1
  /\ reached' = IF n \in reached THEN reached \ {n} ELSE reached \cup {n}
  /\ held' = [held EXCEPT ![n] = IF n \in reached /\ trust[n] # "friend" THEN 0 ELSE @]
  /\ UNCHANGED <<trust, rot, row, pull, round, listed>>

DiscoveryNext ==
  \/ Sweep \/ Nudged
  \/ \E n \in Nodes : Announced(n) \/ PullFrom(n) \/ Decide(n) \/ GraphMoves(n)
  \/ \E n \in Nodes, age \in 0 .. Cycle : Hint(n, age)

-----------------------------------------------------------------------------
DiscoveryTypeOK ==
  /\ row \in [Nodes -> Row]
  /\ pull \subseteq Nodes
  /\ held \in [Nodes -> 0 .. Cycle + 1] /\ listed \in [size : Nat, calm : 0 .. Cycle]
  /\ IsInjective(rot) /\ InRotation \subseteq Nodes
  /\ \A i, j \in DOMAIN rot : i < j /\ row[rot[i]].tried => row[rot[j]].tried

(* A member that answers and whose catalog is kept is seen at least every  *)
(* second cycle, however full the frontier is, however many of the others  *)
(* are dead, and whatever was asked for or decided meanwhile: the third    *)
(* cycle of the pull window is never needed (pingFloor).  It takes a list  *)
(* of sources that has not got shorter for a cycle: a round's share is of  *)
(* the list as it is, and who has had its ping and then leaves makes it    *)
(* smaller for those still waiting for theirs.                             *)
MarginHolds ==
  \A n \in Nodes \ Dead :
    held[n] > Cycle /\ listed.calm = Cycle => row[n].seen < 2 * Cycle

(* Retention drops every catalog we may not keep and no more of the rest   *)
(* than the cap asks for, the least recently seen; never one an admin      *)
(* decided about, unless the decision fell into the round (retainSources). *)
RetentionIsExact ==
  [][round.pc = "retain" /\ round'.pc = "ask" =>
       LET gone == {n \in InRotation : n \notin ToSet(rot') \/ (row[n].tried /\ ~row'[n].tried)}
           evicted == gone \cap round.members
           left == (ToSet(rot') \cap {s.node : s \in ToSet(round.list)}) \ round.decided
       IN /\ gone \cap round.decided = {}
          /\ left \subseteq round.members \cup pull
          /\ evicted # {} => Cardinality(left \ pull) <= Cap /\ Cardinality(left \cup evicted) >= Cap
          /\ \A e \in evicted, n \in left \ pull :
               \E s, t \in ToSet(round.list) : s.node = e /\ t.node = n /\ s.seen >= t.seen]_round

(* When a round ends no friend that serves its catalog is due any more,    *)
(* full frontier or not.                                                   *)
FriendsAreCurrent ==
  [][round.pc = "ask" /\ round' = Idle =>
       \A n \in round.friends \ (Dead \cup Refusing) : row[n].sync < Cycle]_round

Asking(n) == round.pc = "ask" /\ round.todo # <<>>
             /\ Head(round.todo).node = n /\ Head(round.todo).op # "ping"
=============================================================================
