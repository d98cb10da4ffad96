------------------------------- MODULE Reach -------------------------------
(***************************************************************************)
(* Who is available: the two clocks of a node row, the down-mark, and the  *)
(* predicate the browse reads them by (federation/reachability.go,         *)
(* freshness.go, and reachClause / ReachableAt of database/madnetwork.go). *)
(* Every clock is an age in refresh rounds, capped past the windows that   *)
(* compare it.                                                             *)
(***************************************************************************)
EXTENDS Integers, FiniteSets

CONSTANTS
  Peers,     \* nodes we hold a row for
  Vouching,  \* those of them that are friends: pinged, and relaying hints
  Tight,     \* the ping window
  Wide,      \* the pull window
  Guard,     \* guardWindow: how recently another node must have answered
  Throttle,  \* peerTouchThrottle
  Kick,      \* Intervals.Kick
  NoOne      \* no reply yet

ASSUME ReachAssumption ==
  /\ IsFiniteSet(Peers) /\ Vouching \subseteq Peers /\ NoOne \notin Peers
  /\ Tight \in Nat /\ Wide \in Nat /\ Tight < Wide
  /\ Guard \in Nat /\ Kick \in Nat /\ Throttle \in Nat /\ Throttle < Tight

VARIABLES
  clock,   \* node -> ages: last_seen, unreachable_at, hinted_at, and lastTouch in memory
  last,    \* lastReplyKey and the age of lastReplyAt
  kicked,  \* the age of kickedAt
  up,      \* the nodes that are up
  cut,     \* how long our own uplink has been down; 0 when it works
  truth    \* history, node -> ages: when it was last up, when it last answered us

reach == <<clock, last, kicked, up, cut, truth>>

Old == Wide + 1
Aged(a, top) == IF a < top THEN a + 1 ELSE top

InitReach ==
  /\ clock = [n \in Peers |-> [seen |-> Old, mark |-> Old, hint |-> Old, touch |-> Throttle]]
  /\ last = [key |-> NoOne, age |-> Guard] /\ kicked = Kick
  /\ up = Peers /\ cut = 0
  /\ truth = [n \in Peers |-> [alive |-> 0, answered |-> Old]]

(***************************************************************************)
(* The predicate.  A view is the windows a request asks by, None standing  *)
(* for a cutoff of zero.                                                   *)
(***************************************************************************)
Zero == -1
View == [cutoff : {Zero, Tight}, pull : {Zero, Tight - 1, Wide}, pinged : {Zero, Tight}]
Browse == [cutoff |-> Tight, pull |-> Wide, pinged |-> Tight]

Since(age, cutoff) == age <= cutoff
SourcePinged(n, v) == v.pinged = Zero \/ n \in Vouching \/ Since(clock[n].hint, v.pinged)

ReachClause(n, v) ==
  LET single == v.pull = Zero \/ v.pull <= v.cutoff \/ v.pinged = Zero
  IN \/ v.cutoff = Zero
     \/ single /\ Since(clock[n].seen, v.cutoff)
     \/ /\ ~single
        /\ Since(clock[n].seen, IF SourcePinged(n, v) THEN v.cutoff ELSE v.pull)
        /\ ~(clock[n].mark < clock[n].seen /\ ~Since(clock[n].seen, v.cutoff))

(* Mutant: inside the tight window the mark counts as well. *)
ReachableUnmarked(n, v) ==
  \/ v.cutoff = Zero
  \/ /\ ~SourcePinged(n, v) /\ v.pull > v.cutoff
     /\ ~(clock[n].mark < clock[n].seen) /\ Since(clock[n].seen, v.pull)
  \/ (SourcePinged(n, v) \/ v.pull <= v.cutoff) /\ Since(clock[n].seen, v.cutoff)

ReachableAt(n, v) ==
  \/ v.cutoff = Zero
  \/ /\ ~SourcePinged(n, v) /\ v.pull > v.cutoff
     /\ ~(clock[n].mark < clock[n].seen /\ ~Since(clock[n].seen, v.cutoff))
     /\ Since(clock[n].seen, v.pull)
  \/ /\ SourcePinged(n, v) \/ v.pull <= v.cutoff
     /\ Since(clock[n].seen, v.cutoff)

(***************************************************************************)
(* Observations.                                                           *)
(***************************************************************************)
Answers(n) == n \in up /\ cut = 0

NoteContact(n) == last' = [key |-> n, age |-> 0]

Replied(n, c) ==
  /\ NoteContact(n)
  /\ clock' = [clock EXCEPT ![n] = c]
  /\ truth' = [truth EXCEPT ![n].answered = 0]
  /\ UNCHANGED <<kicked, up, cut>>

(* A ping or a pull that is answered (observeControl and its caller).      *)
Control(n) == Answers(n) /\ Replied(n, [clock[n] EXCEPT !.seen = 0])

(* A transfer request that is answered, whatever the status (observeReply, *)
(* observePeerAlive).                                                      *)

Alive(c) == IF c.touch < Throttle THEN c ELSE [c EXCEPT !.seen = 0, !.touch = 0]
Reply(n) == Answers(n) /\ Replied(n, Alive(clock[n]))

(* A dial that fails: the underlay is kicked, and the node is marked if    *)
(* some other one answered recently.                                       *)

GuardPasses(n) == last.key # NoOne /\ last.key # n /\ last.age < Guard

KickUnderlay == kicked' = IF kicked >= Kick THEN 0 ELSE kicked

DialFails(n) ==
  /\ ~Answers(n)
  /\ KickUnderlay
  /\ clock' = IF GuardPasses(n) THEN [clock EXCEPT ![n].mark = 0] ELSE clock
  /\ UNCHANGED <<last, up, cut, truth>>

(* A friend vouches for what it saw itself: the age it gives may be old,   *)
(* the claim is heard now (applyFreshnessHints).                           *)

Younger(a, b) == IF a < b THEN a ELSE b

Vouched(n) ==
  /\ \E f \in Vouching \ {n} : Answers(f)
  /\ \E age \in truth[n].alive .. Old :
       clock' = [clock EXCEPT ![n].seen = Younger(@, age), ![n].hint = 0]
  /\ UNCHANGED <<last, kicked, up, cut, truth>>

(***************************************************************************)
(* Time and the network.                                                   *)
(***************************************************************************)
Minute ==
  /\ clock' = [n \in Peers |-> [seen |-> Aged(clock[n].seen, Old), mark |-> Aged(clock[n].mark, Old),
                                hint |-> Aged(clock[n].hint, Old), touch |-> Aged(clock[n].touch, Throttle)]]
  /\ last' = [last EXCEPT !.age = Aged(@, Guard)]
  /\ kicked' = Aged(kicked, Kick)
  /\ cut' = IF cut = 0 THEN 0 ELSE Aged(cut, Guard + 1)
  /\ truth' = [n \in Peers |-> [alive |-> IF n \in up THEN 0 ELSE Aged(truth[n].alive, Old),
                                answered |-> Aged(truth[n].answered, Old)]]
  /\ UNCHANGED up

NodeFails(n)  == n \in up /\ up' = up \ {n} /\ UNCHANGED <<clock, last, kicked, cut, truth>>
NodeReturns(n) == /\ n \notin up /\ up' = up \cup {n}
                  /\ truth' = [truth EXCEPT ![n].alive = 0] /\ UNCHANGED <<clock, last, kicked, cut>>
UplinkFails   == cut = 0 /\ cut' = 1 /\ UNCHANGED <<clock, last, kicked, up, truth>>
UplinkReturns == cut # 0 /\ cut' = 0 /\ UNCHANGED <<clock, last, kicked, up, truth>>

ReachNext ==
  \/ \E n \in Peers : Control(n) \/ Reply(n) \/ DialFails(n) \/ Vouched(n) \/ NodeFails(n) \/ NodeReturns(n)
  \/ Minute \/ UplinkFails \/ UplinkReturns

-----------------------------------------------------------------------------
(* The two spellings of the predicate agree on every row, by every view:   *)
(* what the strip greys is what the browse hides.                          *)
SpellingsAgree == \A n \in Peers, v \in View : ReachClause(n, v) = ReachableAt(n, v)

(* Nothing is offered from the dead: an available node was up inside its   *)
(* window, whoever observed it and however late the claim was heard; once  *)
(* something pings it every minute that is the tight one.                  *)
NoGhosts ==
  \A n \in Peers : ReachClause(n, Browse) =>
    truth[n].alive <= (IF SourcePinged(n, Browse) THEN Tight ELSE Wide)

(* A node that has answered us inside the tight window, less the throttle  *)
(* on a transfer's writes, is never hidden: no failed dial since, and no   *)
(* hint, takes it off the page.                                            *)
AnsweringIsShown ==
  \A n \in Peers : truth[n].answered <= Tight - Throttle => ReachClause(n, Browse)

(* Our own outage blames nobody: once it has lasted the guard window, no   *)
(* node that is up is marked by it.                                        *)
OutageBlamesNobody ==
  [][\A n \in up : clock'[n].mark = 0 /\ clock[n].mark # 0 => cut # 0 /\ cut <= Guard]_reach
=============================================================================
