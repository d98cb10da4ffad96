------------------------------ MODULE Catalog ------------------------------
(***************************************************************************)
(* The pulling half of reach, its three parts side by side: whom to ask,   *)
(* what a pull brings, and who counts as available.  They meet in one row  *)
(* of federation_nodes but read and write different columns of it, save    *)
(* last_seen, which each of them only ever moves forward.                  *)
(***************************************************************************)
EXTENDS Discovery, CatalogSync, Reach

VARIABLE side  \* bound: the part a behaviour is about

vars == <<discovery, catalog, reach, side>>

Init == /\ InitReach /\ InitDiscovery
        /\ \/ side = "sync" /\ InitSync
           \/ side \in {"rounds", "windows"} /\ InitSync /\ pub.wide = {} /\ lib.files = {}

Next == \/ side = "rounds" /\ DiscoveryNext /\ UNCHANGED <<catalog, reach, side>>
        \/ side = "sync" /\ SyncNext /\ UNCHANGED <<discovery, reach, side>>
        \/ side = "windows" /\ ReachNext /\ UNCHANGED <<discovery, catalog, side>>

(* The refresh loop goes round, the pull goes on and a snapshot's TTL runs *)
(* out.  Sweep and Sync have a next step in every state and pass both of   *)
(* their two stations, a memo that is there can always expire: weak        *)
(* fairness of each is what these say of the states.                       *)
Fairness ==
  /\ \A pc \in {"idle", "peers"} : []<>(side # "rounds" \/ round.pc = pc)
  /\ \A pc \in {"rest", "holdings"} : []<>(side # "sync" \/ sync.pc = pc)
  /\ \A a \in {"friend", "member"} : []<>(pub.memo[a] = Absent)

Spec == Init /\ [][Next]_vars /\ Fairness

TypeOK ==
  /\ DiscoveryTypeOK
  /\ src.new \subseteq Cached /\ lib.prints \subseteq lib.files /\ lib.new \subseteq lib.prints
  /\ pub.fresh \subseteq Blobs /\ src.holds \subseteq Traded
  /\ \A n \in Peers : \A a \in Range(clock[n]) : a \in 0 .. Old

Crowded == Cardinality(Members \ TrustedAs("friend")) > Cap

(* While the members fit the cap each of them is asked again and again: a  *)
(* node that never answers, or refuses, loses its turn like any other.     *)
MembersComeRound ==
  \A n \in Nodes : <>[](side = "rounds" /\ n \in Members /\ ~Crowded) => []<>Asking(n)

(* When the publisher's library and audience rest, the copy and the        *)
(* holdings become what it serves and holds: no memo, serial, lost or      *)
(* overtaken announce keeps them apart.                                    *)
CopyCatchesUp ==
  <>[](side = "sync" /\ pub.sees # "none" => src.copy = PublishedCatalog(pub.sees) /\ src.holds = pub.cached)

-----------------------------------------------------------------------------
(* The rotation neglects no member that answers.                           *)
RotationIsFair == TypeOK /\ MarginHolds

(* A pull shows nothing it may not and overlooks nothing it should see.    *)
PullsAreExact == NoListingLeaks /\ NothingSlipsPast

(* What is shown as available is, and what is available is shown.          *)
AvailabilityIsTrue == SpellingsAgree /\ NoGhosts /\ AnsweringIsShown

(* No step undoes what trust, an admin or another node's answer has        *)
(* settled: retention, the friends' pulls, dismissals and the down-mark.   *)
NothingIsUndone == RetentionIsExact /\ FriendsAreCurrent /\ DismissedStays /\ OutageBlamesNobody

(* Every member is asked, every copy catches up and every lie comes out.   *)
AllComesRound == MembersComeRound /\ LiesComeOut /\ CopyCatchesUp
=============================================================================
