---------------------------- MODULE CatalogSync ----------------------------
(***************************************************************************)
(* What one pull brings: a publisher's catalog as a community member sees  *)
(* it, the cached copy of it here, and the two checks every pull ends in,  *)
(* contradicted claims and better renditions (federation/catalog.go,       *)
(* announce.go; database/madnetwork.go, madnetwork_claims.go, upgrades.go).*)
(* The pull is one goroutine; the publisher's library, its audience, our   *)
(* library and an admin's decisions move between its steps.                *)
(***************************************************************************)
EXTENDS Integers, FiniteSets, Functions

CONSTANTS
  Keys,      \* the publisher's entries (tagsets)
  Blobs,     \* renditions, by content hash
  Recording, \* blob -> the recording its audio is of
  Quality,   \* blob -> its place on the quality ladder
  Lies,      \* blobs the publisher advertises a false fingerprint for
  Absent,    \* no memo, no serial, no finding
  Traded,    \* bound: the blobs the publisher's download cache ever holds
  MaxEdits   \* bound: changes of either library, of the audience, of decisions

ASSUME CatalogSyncAssumption ==
  /\ IsFiniteSet(Blobs) /\ Lies \cup Traded \subseteq Blobs
  /\ Recording \in [Blobs -> Blobs] /\ Quality \in [Blobs -> Nat]
  /\ MaxEdits \in Nat /\ Absent \notin {"new", "dismissed"}

VARIABLES
  pub,    \* the publisher: entries, their reach, audience of our node, memos, blobs cached
  src,    \* here: our copy of its catalog, the serial, the watermark, the holdings
  lib,    \* our library: live files, those with a fingerprint
  found,  \* our findings: claim reports and upgrades, with their dispositions
  sync,   \* the pull: where it is and what it holds
  edits,  \* bound
  past    \* history: what was ever listed for members, pairs compared, renditions grafted on

catalog == <<pub, src, lib, found, sync, edits, past>>

Rest == [pc |-> "rest"]

InitSync ==
  /\ \E w \in SUBSET Keys :
       /\ pub = [has |-> [k \in Keys |-> {}], wide |-> w, sees |-> "member",
                 memo |-> [a \in {"friend", "member"} |-> Absent], cached |-> {}, fresh |-> {}]
       /\ past = [wide |-> w, friend |-> FALSE, compared |-> {}, grafted |-> {}]
  /\ src = [copy |-> [k \in Keys |-> {}], serial |-> Absent, new |-> {}, marked |-> FALSE, holds |-> {}]
  /\ \E F \in SUBSET Blobs, P \in {{}, Blobs} : lib = [files |-> F, prints |-> F \cap P, new |-> {}]
  /\ found = [report |-> [b \in Blobs |-> Absent], upgrade |-> [b \in Blobs |-> Absent]]
  /\ sync = Rest /\ edits = 0

(***************************************************************************)
(* Serving.  A snapshot is memoized per audience; its serial is a hash of  *)
(* what it lists, so here it is what it lists.                             *)
(***************************************************************************)
PublishedCatalog(aud) ==
  [k \in Keys |-> IF aud = "friend" \/ k \in pub.wide THEN pub.has[k] ELSE {}]

OwnSnapshot(aud) == IF pub.memo[aud] = Absent THEN PublishedCatalog(aud) ELSE pub.memo[aud]

SnapshotExpires(a) ==
  /\ pub.memo[a] # Absent /\ pub' = [pub EXCEPT !.memo[a] = Absent]
  /\ UNCHANGED <<src, lib, found, sync, edits, past>>

(* Another node of the same audience pulls.                                *)
AnotherAsks(a) ==
  /\ pub.memo[a] = Absent /\ pub' = [pub EXCEPT !.memo[a] = OwnSnapshot(a)]
  /\ UNCHANGED <<src, lib, found, sync, edits, past>>

(* One request of a pull is answered: nothing outside the community, "as   *)
(* you have it" for the serial just served, the snapshot otherwise.        *)
Asks ==
  /\ sync.pc = "rest"
  /\ \/ /\ pub.sees # "none"
        /\ LET snap == OwnSnapshot(pub.sees)
           IN /\ pub' = [pub EXCEPT !.memo[pub.sees] = snap]
              /\ sync' = IF src.serial = snap THEN [pc |-> "checked"]
                         ELSE [pc |-> "replace", snap |-> snap]
        /\ past' = [past EXCEPT !.friend = @ \/ pub.sees = "friend"]
     \/ /\ pub.sees = "none"
        /\ sync' = [pc |-> "holdings"] /\ UNCHANGED <<pub, past>>
  /\ UNCHANGED <<src, lib, found, edits>>

(***************************************************************************)
(* Storing: the copy becomes the snapshot; a row that was there keeps the  *)
(* date it was first seen, so only a new one is new to the upgrade scan.   *)
(***************************************************************************)
Cached == {k \in Keys : src.copy[k] # {}}
Listed(c) == UNION Range(c)
Advertised == {b \in Blobs : \E k \in Keys : b \in src.copy[k]}

ReplaceSourceCatalog ==
  /\ sync.pc = "replace"
  /\ LET snap == sync.snap
         kept == {k \in Cached : snap[k] # {}}
         new  == {k \in Keys \ Cached : snap[k] # {}}
     IN /\ src' = [src EXCEPT !.copy = snap, !.serial = snap, !.new = (@ \cap kept) \cup new]
        /\ past' = [past EXCEPT
             !.compared = {p \in @ : p[1] \in Listed([k \in kept |-> snap[k] \cap src.copy[k]])},
             !.grafted = {g \in @ : g[1] \in kept /\ g[2] \in snap[g[1]]}
                           \cup {g \in (kept \ src.new) \X Blobs : g[2] \in snap[g[1]] \ src.copy[g[1]]}]
  /\ sync' = [pc |-> "claims"]
  /\ UNCHANGED <<pub, lib, found, edits>>

MarkSourceCatalogChecked ==
  /\ sync.pc = "checked"
  /\ sync' = [pc |-> "claims"]
  /\ UNCHANGED <<pub, src, lib, found, edits, past>>

(***************************************************************************)
(* Claims: an advertised fingerprint against our own of the same bytes,    *)
(* and blobs one entry groups against each other.  A report that is there  *)
(* keeps its disposition.                                                  *)
(***************************************************************************)
HeldBlobClaims == {b \in Advertised \cap lib.prints : b \in Lies}
GroupingClaims ==
  {b \in lib.prints : \E k \in Keys, c \in lib.prints :
     {b, c} \subseteq src.copy[k] /\ Recording[b] # Recording[c]}

Noted(f, S) == [b \in Blobs |-> IF b \in S /\ f[b] = Absent THEN "new" ELSE f[b]]

CheckSourceClaims ==
  /\ sync.pc = "claims"
  /\ found' = [found EXCEPT !.report = Noted(@, HeldBlobClaims \cup GroupingClaims)]
  /\ sync' = [pc |-> "byHash", before |-> [files |-> lib.prints, rows |-> Cached]]
  /\ UNCHANGED <<pub, src, lib, edits, past>>

(***************************************************************************)
(* Upgrades.  The time the watermark moves to is taken before anything is  *)
(* read.  Pairs are <<theirs, ours>>.                                      *)
(***************************************************************************)
ScanUpgradesByHash ==
  /\ sync.pc = "byHash"
  /\ sync' = [pc |-> "byPrint", before |-> sync.before,
              pairs |-> {p \in Blobs \X lib.files : \E k \in Cached : {p[1], p[2]} \subseteq src.copy[k]}]
  /\ UNCHANGED <<pub, src, lib, found, edits, past>>

Across(rows, prints) == {p \in Blobs \X prints : \E k \in rows : p[1] \in src.copy[k]}

ScanUpgradesByFingerprint ==
  /\ sync.pc = "byPrint"
  /\ LET measured == IF ~src.marked THEN Across(Cached, lib.prints)
                     ELSE Across(src.new, lib.prints) \cup Across(Cached, lib.new)
     IN /\ sync' = [pc |-> "record", before |-> sync.before,
                    pairs |-> sync.pairs \cup {p \in measured : Recording[p[1]] = Recording[p[2]]}]
        /\ past' = [past EXCEPT !.compared = @ \cup measured]
  /\ UNCHANGED <<pub, src, lib, found, edits>>

Ours(r) == {f \in lib.files : Recording[f] = r}
Beats(b, r) == /\ Ours(r) # {} /\ b \notin lib.files
               /\ \A f \in Ours(r) : Quality[b] > Quality[f]

(* Mutant: the watermark is the time the scan ends. *)
NoneUnscanned(new, seen) == {}

Unscanned(new, seen) == new \ seen

RecordUpgrades ==
  /\ sync.pc = "record"
  /\ found' = [found EXCEPT !.upgrade =
                 Noted(@, {b \in Blobs : \E p \in sync.pairs : p[1] = b /\ Beats(b, Recording[p[2]])})]
  /\ src' = [src EXCEPT !.marked = TRUE, !.new = Unscanned(@, sync.before.rows)]
  /\ lib' = [lib EXCEPT !.new = Unscanned(@, sync.before.files)]
  /\ sync' = [pc |-> "sweep"]
  /\ UNCHANGED <<pub, edits, past>>

SweepUpgrades ==
  /\ sync.pc = "sweep"
  /\ found' = [found EXCEPT !.upgrade =
                 [b \in Blobs |-> IF b \in lib.files \/ b \notin Advertised THEN Absent ELSE @[b]]]
  /\ sync' = [pc |-> "holdings"]
  /\ UNCHANGED <<pub, src, lib, edits, past>>

(***************************************************************************)
(* Holdings: the listing replaces, an announce adds.                       *)
(***************************************************************************)
AskHoldings ==
  /\ sync.pc = "holdings"
  /\ sync' = IF pub.sees = "none" THEN Rest ELSE [pc |-> "store", list |-> pub.cached]
  /\ UNCHANGED <<pub, src, lib, found, edits, past>>

ReplaceSourceHoldings ==
  /\ sync.pc = "store"
  /\ src' = [src EXCEPT !.holds = sync.list]
  /\ sync' = Rest
  /\ UNCHANGED <<pub, lib, found, edits, past>>

(* What the publisher has just acquired it tells its friends, once; what   *)
(* is lost on the way is lost (drainAnnounce, handleAnnounce).             *)
Announce ==
  /\ pub.fresh # {} /\ pub' = [pub EXCEPT !.fresh = {}]
  /\ \/ src' = [src EXCEPT !.holds = @ \cup pub.fresh]
     \/ UNCHANGED src
  /\ UNCHANGED <<lib, found, sync, edits, past>>

Sync == Asks \/ ReplaceSourceCatalog \/ MarkSourceCatalogChecked \/ CheckSourceClaims
          \/ ScanUpgradesByHash \/ ScanUpgradesByFingerprint \/ RecordUpgrades \/ SweepUpgrades
          \/ AskHoldings \/ ReplaceSourceHoldings

(***************************************************************************)
(* The source is dropped by retention between two rounds: its satellites   *)
(* go; if trust keeps the row the watermark stays, otherwise it goes too.  *)
(***************************************************************************)
DropCatalogSource ==
  /\ edits < MaxEdits /\ edits' = edits + 1
  /\ sync.pc = "rest"
  /\ \E marked \in {src.marked, FALSE} :
       src' = [copy |-> [k \in Keys |-> {}], serial |-> Absent, new |-> {}, marked |-> marked, holds |-> {}]
  /\ found' = [found EXCEPT !.report = [b \in Blobs |-> Absent]]
  /\ past' = [past EXCEPT !.compared = {}, !.grafted = {}]
  /\ UNCHANGED <<pub, lib, sync>>

(***************************************************************************)
(* The publisher's library and trust, our library, an admin's decisions.   *)
(***************************************************************************)
Publish ==
  /\ \E k \in Keys :
       \/ \E b \in Blobs : /\ pub' = [pub EXCEPT !.has[k] = IF b \in @ THEN @ \ {b} ELSE @ \cup {b}]
                           /\ past' = past
       \/ /\ pub' = [pub EXCEPT !.wide = IF k \in @ THEN @ \ {k} ELSE @ \cup {k}]
          /\ past' = [past EXCEPT !.wide = @ \cup {k}]
  /\ UNCHANGED <<src, lib, found>>

SeeUs ==
  /\ \E a \in {"friend", "member", "none"} \ {pub.sees} : pub' = [pub EXCEPT !.sees = a]
  /\ UNCHANGED <<src, lib, found, past>>

Acquire ==
  /\ \E b \in Traded : pub' = IF b \in pub.cached THEN [pub EXCEPT !.cached = @ \ {b}]
                             ELSE [pub EXCEPT !.cached = @ \cup {b}, !.fresh = @ \cup {b}]
  /\ UNCHANGED <<src, lib, found, past>>

(* A file that is purged takes its fingerprint and its date along: should  *)
(* it come back, the scan under way knows it no more than a new one.       *)
Undated(s, b) ==
  IF s.pc \in {"byHash", "byPrint", "record"} THEN [s EXCEPT !.before.files = @ \ {b}] ELSE s

Library ==
  /\ \E b \in Blobs :
       \/ b \notin lib.files /\ lib' = [lib EXCEPT !.files = @ \cup {b}] /\ UNCHANGED <<past, sync>>
       \/ /\ b \in lib.files \ lib.prints
          /\ lib' = [lib EXCEPT !.prints = @ \cup {b}, !.new = @ \cup {b}] /\ UNCHANGED <<past, sync>>
       \/ /\ b \in lib.files
          /\ lib' = [files |-> lib.files \ {b}, prints |-> lib.prints \ {b}, new |-> lib.new \ {b}]
          /\ past' = [past EXCEPT !.compared = {p \in @ : p[2] # b}]
          /\ sync' = Undated(sync, b)
  /\ UNCHANGED <<pub, src, found>>

Dispose ==
  /\ \E b \in Blobs :
       \/ found.report[b] = "new" /\ found' = [found EXCEPT !.report[b] = "dismissed"]
       \/ found.upgrade[b] = "new" /\ found' = [found EXCEPT !.upgrade[b] = "dismissed"]
  /\ UNCHANGED <<pub, src, lib, past>>

Edit == /\ edits < MaxEdits /\ edits' = edits + 1
        /\ \/ Library
           \/ (Publish \/ SeeUs \/ Acquire \/ Dispose) /\ UNCHANGED sync

SyncNext == Sync \/ (\E a \in DOMAIN pub.memo : SnapshotExpires(a) \/ AnotherAsks(a)) \/ Announce \/ DropCatalogSource \/ Edit

-----------------------------------------------------------------------------
(* Nobody outside the friends learns of what was never listed for members, *)
(* though one publisher serves both at once and an audience may change     *)
(* between two pulls (the memo and the serial are one per audience).       *)
NoListingLeaks ==
  past.friend \/ \A k \in Cached \cup {j \in Keys : sync.pc = "replace" /\ sync.snap[j] # {}} : k \in past.wide

(* The watermark loses nothing: when a scan has ended, every rendition of  *)
(* the copy has been compared with every fingerprint that was there when   *)
(* the scan began, unless it was grafted onto a row already scanned.       *)
NothingSlipsPast ==
  sync.pc \in {"sweep", "holdings", "store", "rest"} =>
    \A k \in Cached \ src.new, b \in Blobs, f \in lib.prints \ lib.new :
      b \in src.copy[k] => <<b, f>> \in past.compared \/ <<k, b>> \in past.grafted

(* A finding that was dismissed stays dismissed while the blob is offered  *)
(* and not ours, a report while the source is kept: nobody is asked again. *)
DismissedStays ==
  [][\A b \in Blobs :
       /\ found.upgrade[b] = "dismissed" /\ b \in Advertised \ lib.files => found'.upgrade[b] = "dismissed"
       /\ found.report[b] = "dismissed" /\ (sync.pc # "rest" \/ sync' # Rest)
            => found'.report[b] = "dismissed"]_<<found>>

(* A claim our own bytes contradict comes out, although the catalog stands *)
(* still and it is our library that moved (checkClaims on both paths).     *)
LiesComeOut ==
  \A b \in Lies : (b \in lib.prints \cap Advertised)
                    ~> (b \notin lib.prints \/ found.report[b] # Absent \/ b \notin Advertised)
=============================================================================
