----------------------------- MODULE GossipGraph -----------------------------
(***************************************************************************)
(* What one node reads out of the friendship graph it was told about       *)
(* (federation/gossip.go): the walk that finds who is reachable and through *)
(* whom, the stricter walk that decides who is a member.                   *)
(* Pure operators over the trusted-peer table t (key to trust state) and   *)
(* the claims E, pairs <<origin, peer>> out of the records held.           *)
(***************************************************************************)
EXTENDS Naturals, FiniteSets

CONSTANTS
  Self,    \* this node
  Others   \* every other node that exists

ASSUME KeysAssumption == Self \notin Others /\ IsFiniteSet(Others)

Keys == Others \cup {Self}
TrustStates == {"none", "pending", "friend", "blocked"}

Friends(t)  == {k \in Others : t[k] = "friend"}
PeerRows(t) == {k \in Others : t[k] # "none"}
Blocked(t)  == {k \in Others : t[k] = "blocked"}

\* Hearsay about our own friendships is not evidence.
Evidence(E) == {e \in E : e[1] # e[2] /\ Self \notin {e[1], e[2]}}
Own(t) == {Self} \X Friends(t)
Both(P) == P \cup {<<p[2], p[1]>> : p \in P}

Depth == Cardinality(Others)

\* The links out of S; nothing is found through a blocked node.
Step(t, L, S) == {k \in Keys : \E c \in S \ Blocked(t) : <<c, k>> \in L}

\* Walk(t, L)[d]: everyone found at d hops over the links L and not nearer, and
\* everyone found so far.
Walk(t, L) ==
  LET W[d \in 0 .. Depth] ==
        IF d = 0 THEN [ring |-> {Self}, seen |-> {Self}]
        ELSE LET w == W[d - 1]
                 found == Step(t, L, w.ring) \ w.seen
             IN  [ring |-> found, seen |-> w.seen \cup found]
  IN  W
Reach(t, L) == Walk(t, L)[Depth].seen

Links(t, E) == Both(Evidence(E)) \cup Both(Own(t))
Found(t, E) == Reach(t, Links(t, E))
Distance(t, E, k) ==
  LET W == Walk(t, Links(t, E)) IN CHOOSE d \in 0 .. Depth : k \in W[d].ring

\* The direct friends on the shortest ways to each key: a label reaches a node from
\* every neighbour one hop nearer.  A node's own is the one of its hop.
Via(t, E) ==
  LET L == Links(t, E)
      W == Walk(t, L)
      Label[d \in 0 .. Depth] ==
        [k \in Keys |->
           IF d <= 1 THEN {k}
           ELSE UNION {Label[d - 1][c] : c \in {x \in W[d - 1].ring \ Blocked(t) : <<x, k>> \in L}}]
  IN  [k \in Found(t, E) \ {Self} |-> Label[Distance(t, E, k)][k]]

ReachableKeys(t, E) == Found(t, E) \cup PeerRows(t) \cup {Self}

\* Access: an edge counts when both ends claim it.  Our friends need claim nothing.
Agreed(E) == {e \in Evidence(E) : <<e[2], e[1]>> \in E}

MemberKeys(t, E) ==
  Reach(t, Agreed(E) \cup Both(Own(t))) \ (Blocked(t) \cup {Self})

=============================================================================
