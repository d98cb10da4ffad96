------------------------------- MODULE Gossip -------------------------------
(***************************************************************************)
(* Friend-list gossip as one node lives it (federation/gossip_node.go,     *)
(* database/madnetwork_graph.go): its refresh sweep publishes its own      *)
(* records, ages the store, recomputes who is a member, collects what no   *)
(* walk reaches and pulls its friends' stores; meanwhile the admin changes *)
(* friendships, friends read the digest, other nodes publish, records      *)
(* expire.  Records are signed, so a friend can withhold, delay or replay  *)
(* what another node wrote, and never alter it.                            *)
(*                                                                         *)
(* A record is its author's i-th of a kind: pub[kind][author][i] is the set *)
(* of keys it names.  Sequences are anchored to the wall clock, so the i-th *)
(* always outranks the ones before it, even when they were swept.          *)
(***************************************************************************)
EXTENDS GossipGraph, Sequences, FiniteSetsExt, Functions

CONSTANTS
  Lists,       \* bound: Lists[kind][o], what another node o publishes, in its order
  KeyOrder,    \* the keys as ORDER BY has them
  MaxOrigins,  \* MaxOriginsPerBranch
  Start,       \* the trusted-peer table at the start,
  Marked,      \* and whom the distrust list we once published names
  MaxBeats,    \* bound: records of our own up to which the heartbeat repeats one
  Fading,      \* bound: Fading[kind][o], how many of them may expire
  MaxReply,    \* bound: records in an answer that is not all a friend has
  MaxActs      \* bound: what the admin does

Kinds == {"graph", "mark"}

ASSUME GossipAssumption ==
  /\ KeyOrder \in Seq(Keys) /\ Len(KeyOrder) = Cardinality(Keys) /\ Range(KeyOrder) = Keys
  /\ MaxOrigins \in Nat \ {0} /\ MaxBeats \in Nat /\ MaxActs \in Nat /\ MaxReply \in Nat
  /\ Start \in [Others -> TrustStates] /\ Marked \subseteq Others /\ Fading \in [Kinds -> [Keys -> Nat]]
  /\ Lists \in [Kinds -> [Others -> Seq(SUBSET Keys)]]

VARIABLES
  pub,      \* what has been published, by everyone
  gone,     \* gone[kind][o]: how many of o's records are past their expiry
  trust,    \* federation_nodes: the trusted-peer table
  held,     \* held[kind]: origin -> the record stored, and the friend it came from
  slot,     \* graphAccept: origins accepted within the current interval
  digest,   \* the memoized digest: kind -> origin -> seq, or NoDigest
  members,  \* the perimeter the last sweep installed
  pc,       \* the refresh loop: idle, or the part of the sweep it is at
  sweep,    \* what that part works on
  moved,    \* history: a friendship changed since the retention walk read them
  heard,    \* history: the friend that has just answered with all it has
  acts

world == <<pub, gone>>
node  == <<held, slot, digest, members, pc, sweep>>
gossip == <<world, trust, node, moved, heard, acts>>

NoDigest == << >>
Nobody == Self  \* received_from of a record of our own, or of a friend since deleted

Live(k, o, i)   == i > gone[k][o]
Content(k, o)   == pub[k][o][held[k][o].seq]
Fresh(k)        == {o \in DOMAIN held[k] : Live(k, o, held[k][o].seq)}

\* GraphEdges: claims out of unexpired records; and out of all that are stored.
GraphEdges == UNION {{o} \X Content("graph", o) : o \in Fresh("graph")}
StoredEdges(h) == UNION {{o} \X pub["graph"][o][h["graph"][o].seq] : o \in DOMAIN h["graph"]}

GraphDigest == [k \in Kinds |-> [o \in Fresh(k) |-> held[k][o].seq]]
GraphIntroduced(h, f) == {o \in DOMAIN h["graph"] : h["graph"][o].via = f}
GraphKnowsKey(h, o) == o \in PeerRows(trust) \/ \E e \in StoredEdges(h) : e[2] = o

GossipInit ==
  /\ pub = [k \in Kinds |-> [o \in Keys |->
              IF <<k, o>> = <<"mark", Self>> THEN <<Marked>>
              ELSE IF k = "mark" \/ o = Self \/ Lists[k][o] = << >> THEN << >>
              ELSE <<Head(Lists[k][o])>>]]
  /\ gone = [k \in Kinds |-> [o \in Keys |-> 0]]
  /\ trust = Start
  /\ held = [k \in Kinds |-> [o \in IF k = "mark" THEN {Self} ELSE {} |-> [seq |-> 1, via |-> Nobody]]]
  /\ slot = {} /\ digest = NoDigest /\ members = {}
  /\ pc = "idle" /\ sweep = << >> /\ moved = FALSE /\ heard = Nobody /\ acts = 0

-----------------------------------------------------------------------------
(* The world.                                                               *)

\* Only a sync reads what others have published, so it is published there.
NodePublishes(o) ==
  /\ pc = "sync"
  /\ \E k \in Kinds :
       /\ Len(pub[k][o]) < Len(Lists[k][o])
       /\ pub' = [pub EXCEPT ![k][o] = Append(@, Lists[k][o][Len(@) + 1])]
  /\ UNCHANGED <<gone, trust, node, moved, acts>>

RecordExpires(o) ==
  /\ \E k \in Kinds :
       /\ gone[k][o] < Len(pub[k][o]) /\ gone[k][o] < Fading[k][o]
       /\ gone' = [gone EXCEPT ![k][o] = @ + 1]
  /\ UNCHANGED <<pub, trust, node, moved, acts>>

-----------------------------------------------------------------------------
(* The trusted-peer table changes: pairing, block, unblock, removal.        *)

SetTrust(f, s) ==
  /\ acts < MaxActs /\ trust[f] # s
  /\ acts' = acts + 1 /\ trust' = [trust EXCEPT ![f] = s] /\ moved' = TRUE

AskToPair(f) == trust[f] = "none" /\ SetTrust(f, "pending") /\ UNCHANGED <<world, node>>
Befriend(f) == SetTrust(f, "friend") /\ UNCHANGED <<world, node>>
BlockPeer(f) == SetTrust(f, "blocked") /\ UNCHANGED <<world, node>>

\* Deleting the row forgets what the peer introduced; a row that also is a
\* catalog source is only demoted and keeps its id.
RemovePeer(f) ==
  /\ SetTrust(f, "none")
  /\ \E forget \in BOOLEAN :
       held' = IF ~forget THEN held
               ELSE [k \in Kinds |-> [o \in DOMAIN held[k] |->
                       IF held[k][o].via = f THEN [held[k][o] EXCEPT !.via = Nobody]
                       ELSE held[k][o]]]
  /\ UNCHANGED <<world, slot, digest, members, pc, sweep>>

-----------------------------------------------------------------------------
(* Storing a record: PutGraphRecord, PutMarkRecord, over a store h.         *)

Newer(h, k, o, i) == o \notin DOMAIN h[k] \/ i > h[k][o].seq
Put(h, k, o, i, from) ==
  [h EXCEPT ![k] = [x \in DOMAIN @ \cup {o} |->
                      IF x = o THEN [seq |-> i, via |-> from] ELSE @[x]]]

-----------------------------------------------------------------------------
(* The sweep: publish and expire, walk, drop, then sync with the friends    *)
(* due.  Reading the peer list, publishing and expiring are one action: what *)
(* happens between them happens as well before or after.                    *)

\* publishOwnRecord, publishOwnMarkRecord: when what we would say has changed or
\* the heartbeat is due, which an expired record certainly is.
OwnList(k, t) == IF k = "graph" THEN Friends(t) ELSE Blocked(t)
Said(k) == Self \in DOMAIN held[k]
NothingToSay(k) == k = "mark" /\ ~Said(k) /\ Blocked(trust) = {}
Unchanged(k) == Said(k) /\ Content(k, Self) = OwnList(k, trust) /\ Self \in Fresh(k)

\* The kinds to publish: what changed, and what the heartbeat repeats.
Due ==
  {K \in SUBSET Kinds :
     \A k \in Kinds : IF NothingToSay(k) THEN k \notin K
                      ELSE IF Unchanged(k) THEN k \in K => Len(pub[k][Self]) < MaxBeats
                      ELSE k \in K}
PutOwn(K) ==
  [k \in Kinds |-> IF k \in K THEN Put(held, k, Self, Len(pub[k][Self]) + 1, Nobody)[k] ELSE held[k]]
Unexpired(h) ==
  [k \in Kinds |-> [o \in {x \in DOMAIN h[k] : Live(k, x, h[k][x].seq)} |-> h[k][o]]]

\* rested: GraphAccept has passed since the last sweep (Rescan can come sooner).
BeginSweep(rested) ==
  /\ pc = "idle"
  /\ \E K \in Due :
       /\ pub' = [k \in Kinds |-> IF k \in K THEN [pub[k] EXCEPT ![Self] = Append(@, OwnList(k, trust))]
                                  ELSE pub[k]]
       /\ held' = Unexpired(PutOwn(K))
  /\ digest' = IF held' # held THEN NoDigest ELSE digest
  /\ pc' = "walk" /\ sweep' = [top |-> trust]
  /\ slot' = IF rested THEN {} ELSE slot
  /\ UNCHANGED <<gone, trust, members, moved, acts>>

\* Mutant: the walk decides from the list the sweep began with.
WalkPeersOfSweep == sweep.top
\* expireGraph reads the peer list and the edges again, and two walks run over
\* them: whom we serve, installed at once, and what we keep.
WalkPeers == trust

Retention ==
  /\ pc = "walk"
  /\ members' = MemberKeys(WalkPeers, GraphEdges)
  /\ pc' = "drop" /\ sweep' = [top |-> sweep.top, keep |-> ReachableKeys(WalkPeers, GraphEdges)]
  /\ moved' = FALSE
  /\ UNCHANGED <<world, trust, held, slot, digest, acts>>

\* Mutant: what is still named by a record stays.
KeptWhileNamed ==
  [k \in Kinds |-> [o \in {x \in DOMAIN held[k] : x \in sweep.keep \/ GraphKnowsKey(held, x)} |-> held[k][o]]]
Kept == [k \in Kinds |-> [o \in DOMAIN held[k] \cap sweep.keep |-> held[k][o]]]

\* Mutant: only when a friend's record came in does it matter.
ToldLate(stored) == IF stored /\ pc = "sync" THEN NoDigest ELSE digest
\* The digest is invalidated where the store changed.
Told(stored) == IF stored THEN NoDigest ELSE digest

Syncing(F) ==
  IF F = {} THEN pc' = "idle" /\ sweep' = << >> ELSE pc' = "sync" /\ sweep' = [todo |-> F]

DropUnreachableGraph ==
  /\ pc = "drop"
  /\ held' = Kept
  /\ digest' = Told(held' # held)
  /\ Syncing(Friends(sweep.top))  \* one not due this round is one that does not answer
  /\ UNCHANGED <<world, trust, slot, members, moved, acts>>

-----------------------------------------------------------------------------
(* One friend's turn: the digest, the fetch, and each record of the reply.  *)

\* The records we lack, of every age the friend's store may have them in.
HeldSeq(k, o) == IF o \in Fresh(k) THEN held[k][o].seq ELSE 0
Published == UNION {[kind : {k}, origin : {o}, seq : 1 .. Len(pub[k][o])] : k \in Kinds, o \in Keys}
Missing ==
  {x \in Published : Live(x.kind, x.origin, x.seq) /\ x.seq > HeldSeq(x.kind, x.origin)}
OnePerOrigin(R) == \A x, y \in R : x.kind = y.kind /\ x.origin = y.origin => x = y
\* All a friend's store can hold, the newest of each.
Everything == {x \in Missing : x.seq = Len(pub[x.kind][x.origin])}

\* A digest lists origins by key; friend lists come first, and of those the
\* friend's own changes places with the first.
Index(o) == CHOOSE i \in DOMAIN KeyOrder : KeyOrder[i] = o
Place(f, R, x) ==
  LET lists == {y.origin : y \in {z \in R : z.kind = "graph"}}
      first == CHOOSE o \in lists : \A p \in lists : Index(o) <= Index(p)
  IN  CASE x.kind = "mark" -> Len(KeyOrder) + Index(x.origin)
        [] x.kind = "graph" /\ f \in lists /\ x.origin = f -> Index(first)
        [] x.kind = "graph" /\ f \in lists \ {x.origin} /\ x.origin = first -> Index(f)
        [] OTHER -> Index(x.origin)

\* admitRecord: named by what we hold, not accepted from within the interval (the
\* slot is taken whatever then comes of the record), and within the branch's share.
Accept(f, n, x) ==
  LET o == x.origin
      known == GraphKnowsKey(n.held, o)
      admitted == \/ o = Self
                  \/ known /\ o \notin n.slot /\ Cardinality(GraphIntroduced(n.held, f)) < MaxOrigins
  IN  [held |-> IF admitted /\ Newer(n.held, x.kind, o, x.seq)
                THEN Put(n.held, x.kind, o, x.seq, f) ELSE n.held,
       slot |-> IF o # Self /\ known THEN n.slot \cup {o} ELSE n.slot]

\* What the store has become when the reply is read up to place i.
Reading(f, R) ==
  LET N[i \in 0 .. 2 * Len(KeyOrder)] ==
        IF i = 0 THEN [held |-> held, slot |-> slot]
        ELSE LET n == N[i - 1]
                 X == {x \in R : Place(f, R, x) = i}
             IN  IF X = {} THEN n ELSE Accept(f, n, CHOOSE x \in X : TRUE)
  IN  N[2 * Len(KeyOrder)]

Turn(f, R) ==
  /\ pc = "sync" /\ f \in sweep.todo
  /\ LET n == Reading(f, R) IN held' = n.held /\ slot' = n.slot
  /\ digest' = Told(held' # held)
  /\ Syncing(sweep.todo \ {f})
  /\ UNCHANGED <<world, trust, members, moved, acts>>

\* The friend answers with all it may hold, or with less, or not at all.
SyncGraph(f) == Turn(f, Everything) /\ heard' = f
Withheld(f) ==
  \E n \in 0 .. MaxReply : \E R \in kSubset(n, Missing) : OnePerOrigin(R) /\ Turn(f, R)

-----------------------------------------------------------------------------
(* Serving: handleGraph, out of a digest memoized for GraphDigestTTL.       *)

HandleGraph(f) ==
  /\ trust[f] = "friend" /\ digest = NoDigest
  /\ digest' = GraphDigest
  /\ UNCHANGED <<world, trust, held, slot, members, pc, sweep, moved, acts>>

DigestAges ==
  /\ digest # NoDigest /\ digest' = NoDigest
  /\ UNCHANGED <<world, trust, held, slot, members, pc, sweep, moved, acts>>

-----------------------------------------------------------------------------
Sweeping == (\E rested \in BOOLEAN : BeginSweep(rested)) \/ Retention \/ DropUnreachableGraph

GossipNext ==
  \/ /\ \/ Sweeping \/ DigestAges
        \/ \E f \in Others : \/ NodePublishes(f) \/ AskToPair(f) \/ Befriend(f) \/ BlockPeer(f)
                             \/ RemovePeer(f) \/ Withheld(f) \/ HandleGraph(f)
        \/ \E o \in Keys : RecordExpires(o)
     /\ heard' = Nobody
  \/ \E f \in Others : SyncGraph(f)

\* The loop goes on, and not always because Rescan was pressed; a friend that is
\* asked again and again once answers with all it has.  Each is told by what it
\* does to pc, slot and heard, which nothing else does.
Goes(from, to) == pc = from /\ pc' \in to
Rested == Goes("idle", {"walk"}) /\ slot' = {}
Answers(f) == pc = "sync" /\ f \in sweep.todo /\ heard' = f

Fairness ==
  /\ WF_pc(Goes("idle", {"walk"}) \/ Goes("walk", {"drop"}) \/ Goes("drop", {"sync", "idle"}))
  /\ SF_<<pc, slot>>(Rested)
  /\ \A f \in Others : SF_heard(Answers(f))

GossipSpec == GossipInit /\ [][GossipNext]_gossip
FairSpec == GossipSpec /\ Fairness

-----------------------------------------------------------------------------
(* Properties                                                               *)

GossipTypeOK ==
  /\ \A k \in Kinds : DOMAIN held[k] \subseteq Keys
  /\ \A k \in Kinds : \A o \in DOMAIN held[k] :
       /\ held[k][o].seq \in 1 .. Len(pub[k][o]) /\ held[k][o].via \in Keys
  /\ trust \in [Others -> TrustStates] /\ slot \subseteq Others /\ members \subseteq Others
  /\ \A k \in Kinds : \A o \in Keys : gone[k][o] \in 0 .. Len(pub[k][o])

(***************************************************************************)
(* Nobody is served as a member on somebody else's word: a member that is  *)
(* not one of our friends has itself signed a record that names another    *)
(* member, so one friend's invented list admits no one.                    *)
(***************************************************************************)
MembersDeclareThemselves ==
  \A m \in members :
    \/ trust[m] = "friend" \/ moved
    \/ \E i \in 1 .. Len(pub["graph"][m]) : pub["graph"][m][i] \cap (members \ {m}) # {}

(***************************************************************************)
(* The store and the perimeter do not drift: whoever is served beyond our  *)
(* own friends has its record in the store, except between the moment      *)
(* records are expired and the walk that follows in the same sweep.        *)
(***************************************************************************)
PerimeterInsideStore ==
  pc # "walk" => \A m \in members : trust[m] = "friend" \/ moved \/ m \in DOMAIN held["graph"]

\* The retention walk never collects a record somebody we are friends with still
\* vouches for, unless a friendship changed after the walk's own reading.
RetentionSparesFriends ==
  [][pc = "drop" /\ ~moved =>
       ReachableKeys(trust, GraphEdges) \cap (DOMAIN held["graph"] \ DOMAIN held'["graph"]) = {}]_gossip

\* What the node knows it offers: the memoized digest is never older than the
\* store, except while a friend's reply is being stored.
DigestIsCurrent ==
  digest # NoDigest =>
    \A k \in Kinds : \A o \in Keys :
      IF o \in Fresh(k) THEN o \in DOMAIN digest[k] /\ digest[k][o] = held[k][o].seq
      ELSE o \in DOMAIN digest[k] => o \in DOMAIN held[k]

\* Our records catch up with the peer table: the friend list names our friends,
\* and the distrust list our blocked peers, once there ever was one, the empty
\* list included.
OwnRecordsCatchUp ==
  <>[](\A k \in Kinds : Said(k) => Content(k, Self) = OwnList(k, trust))

\* What nothing vouches for is forgotten, again and again.
Forgets == []<>(DOMAIN held["graph"] \subseteq ReachableKeys(trust, GraphEdges))

\* Gossip converges: when no branch stays or becomes full, the newest record of
\* everyone in reach ends up in the store and stays.
NoBranchIsFull == \A f \in Others : Cardinality(GraphIntroduced(held, f)) < MaxOrigins
HearsEveryone ==
  Friends(trust) # {} =>
    \A k \in Kinds : \A o \in ReachableKeys(trust, GraphEdges) \ {Self} :
      LET n == Len(pub[k][o]) IN n > gone[k][o] => HeldSeq(k, o) = n
Converges == <>[]NoBranchIsFull => <>[]HearsEveryone

\* Blocking the friends a node is drawn through takes it from where it stands on
\* the map: every one of them on a shortest way is named.
ViaCutsShortestWays ==
  pc = "drop" =>
    LET E == GraphEdges
        V == Via(trust, E)
    IN  \A k \in DOMAIN V :
          LET t == [f \in Others |-> IF f \in V[k] THEN "blocked" ELSE trust[f]]
          IN  k \in Found(t, E) => Distance(t, E, k) > Distance(trust, E, k)

\* Who is served, what the store holds, what is offered of it and how the map is
\* drawn agree, at every station of the sweep.
PerimeterIsSound ==
  /\ GossipTypeOK /\ MembersDeclareThemselves /\ PerimeterInsideStore
  /\ DigestIsCurrent /\ ViaCutsShortestWays

\* Gossip settles: our records, those in reach, and what nothing vouches for.
GossipSettles == OwnRecordsCatchUp /\ Forgets /\ Converges
=============================================================================
