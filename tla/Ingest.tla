------------------------------- MODULE Ingest -------------------------------
(***************************************************************************)
(* How files get into the catalog and out of it while nobody looks: scans  *)
(* of directories whose files stay where they are (one symlink and one row *)
(* per content), uploads, the removal of a source, the reviewed prune of   *)
(* rows whose bytes are gone, and the worker that fingerprints new files.  *)
(* The requests and the background processes interleave step by step:      *)
(*   slot    the sources manager's one scan or removal                     *)
(*   client  a request that has read something and not yet acted on it     *)
(*   up      an upload on its way                                          *)
(*   pr      the prune manager's one run, held the scan it keeps for it    *)
(*   sweep   a purge whose row is gone and whose bytes are not yet         *)
(*   wk      one analysis worker                                           *)
(***************************************************************************)
EXTENDS Jobs, FiniteSets

CONSTANTS
  Hashes, Sources,
  Paths,     \* the files of the directories outside
  Original,  \* what each of them holds when it is mounted
  Roots,     \* the paths under each source's root
  None

Ref0 == [hash : Hashes, at : {"local", "links"}, target : Paths \cup {None}]
File == [id : Nat, at : {"local", "links"}, target : Paths \cup {None},
         fp : Hashes \cup {None}, by : SUBSET Sources]
Held == [deep : BOOLEAN, refs : SUBSET Ref0]

ASSUME IngestAssumption == /\ Original \in [Paths -> Hashes]
                           /\ Roots \in [Sources -> SUBSET Paths]
                           /\ None \notin Hashes \cup Paths /\ None \notin Nat
                           /\ None \notin File /\ None \notin Held
                           /\ IsFiniteSet(Hashes)

VARIABLES db, disk, outside, slot, client, up, pr, held, sweep, wk

ingest == <<db, disk, outside, slot, client, up, pr, held, sweep, wk>>

Rows(d) == {h \in Hashes : d.files[h] # None}
Live == Rows(db)
WithId(d, i) == {h \in Rows(d) : d.files[h].id = i}
NextFileId(d) == 1 + Max({0} \cup {d.files[h].id : h \in Rows(d)})
Known(d, s) == d.src[s] # "none"

(***************************************************************************)
(* Rows.  Attribution (by), fingerprint and jobs belong to the row and go  *)
(* with it; a reference to a row or a source that is gone is refused.      *)
(***************************************************************************)
InsertFile(d, h, at, target) ==
  [d EXCEPT !.files[h] = [id |-> NextFileId(d), at |-> at, target |-> target,
                          fp |-> None, by |-> {}]]

HardDeleteFile(d, h) ==
  IF d.files[h] = None THEN d
  ELSE [d EXCEPT !.files[h] = None, !.jobs = DropJobs(@, d.files[h].id)]

AttributeSourceFile(d, s, i) ==
  IF ~Known(d, s) THEN d
  ELSE [d EXCEPT !.files = [h \in Hashes |-> IF h \in WithId(d, i)
                                             THEN [d.files[h] EXCEPT !.by = @ \cup {s}]
                                             ELSE d.files[h]]]

EnqueueAnalysis(d, i) ==
  IF WithId(d, i) = {} THEN d ELSE [d EXCEPT !.jobs = Enqueue(@, i)]

DeleteDataSource(d, s) ==
  [d EXCEPT !.src[s] = "none",
            !.files = [h \in Hashes |-> IF d.files[h] = None THEN None
                                        ELSE [d.files[h] EXCEPT !.by = @ \ {s}]]]

SetStatus(d, s, status) == IF Known(d, s) THEN [d EXCEPT !.src[s] = status] ELSE d

ExclusiveTo(d, s) == {h \in Rows(d) : d.files[h].by = {s}}

(***************************************************************************)
(* Bytes.  A blob is good, bad (it no longer hashes to its name) or none;  *)
(* a link is the path it points at.                                        *)
(***************************************************************************)
TargetIs(h, content) == disk.link[h] # None /\ outside[disk.link[h]] \in content
LinkWorks(h) == TargetIs(h, Hashes)

(* Resolve: a local blob first, then a link that leads somewhere.          *)
Content(h) ==
  CASE disk.blob[h] = "good" -> h
    [] disk.blob[h] = "bad" -> None
    [] OTHER -> outside[disk.link[h]]
Resolves(h) == disk.blob[h] # "none" \/ LinkWorks(h)

Ref(h) == [hash |-> h, at |-> db.files[h].at, target |-> db.files[h].target]

(* refReason: the row's entry is missing, dangling, points elsewhere or    *)
(* (a deep run) holds other bytes.                                         *)
Damaged(ref, deep) ==
  IF ref.at = "local"
  THEN \/ disk.blob[ref.hash] = "none"
       \/ deep /\ disk.blob[ref.hash] = "bad"
  ELSE \/ ~LinkWorks(ref.hash)
       \/ disk.link[ref.hash] # ref.target
       \/ deep /\ ~TargetIs(ref.hash, {ref.hash})

Reclaimed(k, h, at) == IF at = "links" THEN [k EXCEPT !.link[h] = None]
                       ELSE [k EXCEPT !.blob[h] = "none"]

(* gap records that bytes or a link were put somewhere between a prune's   *)
(* check of an entry and its delete.                                       *)
PutBack == pr' = IF pr.pc = "delete" THEN [pr EXCEPT !.gap = TRUE] ELSE pr

(***************************************************************************)
(* Scans.  Add inserts its row in state scanning under the slot; a rescan  *)
(* has read the source before it asks for the slot, so the source may be   *)
(* gone by then and the scan runs all the same.                            *)
(***************************************************************************)
(* seen: the contents the scan has read.                                   *)
Walk(s) == [pc |-> "walk", src |-> s, left |-> Roots[s], seen |-> {}]
Back(k) == [pc |-> "walk", src |-> k.src, left |-> k.left, seen |-> k.seen]
Row(pc, k, i) == [pc |-> pc, src |-> k.src, left |-> k.left, seen |-> k.seen, row |-> i]
Linking(pc, k, h, p, i) ==
  [pc |-> pc, src |-> k.src, left |-> k.left, seen |-> k.seen, hash |-> h, path |-> p, row |-> i]

AddSource(s) ==
  /\ slot = Idle /\ ~Known(db, s) /\ Spend
  /\ db' = [db EXCEPT !.src[s] = "scanning"]
  /\ slot' = Walk(s)
  /\ UNCHANGED <<disk, outside, client, up, pr, held, sweep, wk>>

AskRescan(s) ==
  /\ client = Idle /\ Known(db, s) /\ Spend
  /\ client' = [pc |-> "rescan", src |-> s]
  /\ UNCHANGED <<db, disk, outside, slot, up, pr, held, sweep, wk>>

StartRescan ==
  /\ client.pc = "rescan"
  /\ client' = Idle
  /\ IF slot # Idle THEN UNCHANGED <<slot, db>>
     ELSE slot' = Walk(client.src) /\ db' = SetStatus(db, client.src, "scanning")
  /\ UNCHANGED <<disk, outside, up, pr, held, sweep, wk, ops>>

(* A content that is linked already is skipped, and attributed by hash.    *)
Skipped(d, s, h) == IF d.files[h] = None THEN d ELSE AttributeSourceFile(d, s, d.files[h].id)

ScanLook(p) ==
  /\ slot.pc = "walk" /\ p \in slot.left
  /\ LET h == outside[p]
         rest == [slot EXCEPT !.left = @ \ {p}, !.seen = @ \cup ({h} \ {None})]
     IN \/ h = None /\ slot' = rest /\ UNCHANGED db
        \/ /\ h # None /\ disk.link[h] # None
           /\ slot' = rest /\ db' = Skipped(db, slot.src, h)
        \/ /\ h # None /\ disk.link[h] = None
           /\ slot' = Linking("link", rest, h, p, IF h \in Live THEN db.files[h].id ELSE None)
           /\ UNCHANGED db
  /\ UNCHANGED <<disk, outside, client, up, pr, held, sweep, wk, ops>>

ScanLink ==
  /\ slot.pc = "link"
  /\ IF disk.link[slot.hash] # None THEN slot' = Back(slot) /\ UNCHANGED <<disk, pr>>
     ELSE /\ disk' = [disk EXCEPT !.link[slot.hash] = slot.path]
          /\ slot' = IF slot.row # None THEN Row("keep", slot, slot.row)
                     ELSE Linking("insert", slot, slot.hash, slot.path, None)
          /\ PutBack
  /\ UNCHANGED <<db, outside, client, up, held, sweep, wk, ops>>

(* The row of a content that arrived some other way since then refuses the *)
(* new one, and the link just made is taken back.                          *)
ScanInsert ==
  /\ slot.pc = "insert"
  /\ IF slot.hash \in Live
     THEN disk' = [disk EXCEPT !.link[slot.hash] = None] /\ slot' = Back(slot) /\ UNCHANGED db
     ELSE /\ db' = InsertFile(db, slot.hash, "links", slot.path)
          /\ slot' = Row("attribute", slot, NextFileId(db))
          /\ UNCHANGED disk
  /\ UNCHANGED <<outside, client, up, pr, held, sweep, wk, ops>>

ScanAttribute ==
  /\ slot.pc \in {"keep", "attribute"}
  /\ db' = AttributeSourceFile(db, slot.src, slot.row)
  /\ slot' = IF slot.pc = "keep" THEN Back(slot) ELSE Row("enqueue", slot, slot.row)
  /\ UNCHANGED <<disk, outside, client, up, pr, held, sweep, wk, ops>>

ScanEnqueue ==
  /\ slot.pc = "enqueue"
  /\ db' = EnqueueAnalysis(db, slot.row)
  /\ slot' = Back(slot)
  /\ UNCHANGED <<disk, outside, client, up, pr, held, sweep, wk, ops>>

(* The walk never fails: what cannot be read is logged and passed over,    *)
(* the root included, so every scan that ends leaves its source active.    *)
ScanEnd ==
  /\ slot.pc = "walk" /\ slot.left = {}
  /\ db' = SetStatus(db, slot.src, "active")
  /\ slot' = Idle
  /\ UNCHANGED <<disk, outside, client, up, pr, held, sweep, wk, ops>>

(***************************************************************************)
(* Removing a source: what only it references, listed under the slot; each *)
(* link is unlinked, and each row that was an import is deleted by hash.   *)
(***************************************************************************)
AskRemove(s) ==
  /\ client = Idle /\ Known(db, s) /\ Spend
  /\ client' = [pc |-> "remove", src |-> s]
  /\ UNCHANGED <<db, disk, outside, slot, up, pr, held, sweep, wk>>

Unlinking(s, left) == [pc |-> "unlink", src |-> s, left |-> left]
Removal == Unlinking(client.src, {Ref(h) : h \in ExclusiveTo(db, client.src)})

StartRemove ==
  /\ client.pc = "remove"
  /\ slot' = IF slot = Idle THEN Removal ELSE slot
  /\ client' = Idle
  /\ UNCHANGED <<db, disk, outside, up, pr, held, sweep, wk, ops>>

RemoveUnlink(ref) ==
  /\ slot.pc = "unlink" /\ ref \in slot.left
  /\ disk' = [disk EXCEPT !.link[ref.hash] = None]
  /\ slot' = LET rest == Unlinking(slot.src, slot.left \ {ref})
             IN IF ref.at = "local" THEN rest
                ELSE [pc |-> "delete", src |-> rest.src, left |-> rest.left, hash |-> ref.hash]
  /\ UNCHANGED <<db, outside, client, up, pr, held, sweep, wk, ops>>

RemoveDelete ==
  /\ slot.pc = "delete"
  /\ db' = HardDeleteFile(db, slot.hash)
  /\ slot' = Unlinking(slot.src, slot.left)
  /\ UNCHANGED <<disk, outside, client, up, pr, held, sweep, wk, ops>>

RemoveEnd ==
  /\ slot.pc = "unlink" /\ slot.left = {}
  /\ db' = DeleteDataSource(db, slot.src)
  /\ slot' = Idle
  /\ UNCHANGED <<disk, outside, client, up, pr, held, sweep, wk, ops>>

(***************************************************************************)
(* Uploads, and the purge of a row from Trash: the bytes go after the row. *)
(***************************************************************************)
UploadLook(h) ==
  /\ up = Idle /\ Spend
  /\ up' = IF h \in Live THEN Idle ELSE [pc |-> "put", hash |-> h]
  /\ UNCHANGED <<db, disk, outside, slot, client, pr, held, sweep, wk>>

UploadPut ==
  /\ up.pc = "put"
  /\ disk' = [disk EXCEPT !.blob[up.hash] = "good"]
  /\ up' = [up EXCEPT !.pc = "insert"]
  /\ PutBack
  /\ UNCHANGED <<db, outside, slot, client, held, sweep, wk, ops>>

UploadInsert ==
  /\ up.pc = "insert"
  /\ IF up.hash \in Live THEN up' = Idle /\ UNCHANGED db
     ELSE /\ db' = InsertFile(db, up.hash, "local", None)
          /\ up' = [pc |-> "enqueue", row |-> NextFileId(db)]
  /\ UNCHANGED <<disk, outside, slot, client, pr, held, sweep, wk, ops>>

UploadEnqueue ==
  /\ up.pc = "enqueue"
  /\ db' = EnqueueAnalysis(db, up.row)
  /\ up' = Idle
  /\ UNCHANGED <<disk, outside, slot, client, pr, held, sweep, wk, ops>>

Purge(h) ==
  /\ sweep = Idle /\ h \in Live /\ Spend
  /\ db' = HardDeleteFile(db, h)
  /\ sweep' = [pc |-> "reclaim", hash |-> h, at |-> db.files[h].at]
  /\ UNCHANGED <<disk, outside, slot, client, up, pr, held, wk>>

ReclaimStorage ==
  /\ sweep.pc = "reclaim"
  /\ disk' = Reclaimed(disk, sweep.hash, sweep.at)
  /\ sweep' = Idle
  /\ UNCHANGED <<db, outside, slot, client, up, pr, held, wk, ops>>
(***************************************************************************)
(* Prune.  A scan walks the rows it listed when it began; a prune takes    *)
(* what the scan held, checks each entry again, deletes the row by hash    *)
(* and sweeps.  Starting anything forgets what was held.  StartPrune reads *)
(* the held set under the lock and starts after it has let go of it.       *)
(***************************************************************************)
Run(pc, deep, left) == [pc |-> pc, deep |-> deep, left |-> left, found |-> {}, cut |-> FALSE]
Condemned(pc, run, ref, gap) ==
  [pc |-> pc, deep |-> run.deep, left |-> run.left, cut |-> run.cut, ref |-> ref, gap |-> gap]

StartScan(deep) ==
  /\ pr = Idle /\ Spend
  /\ pr' = Run("scan", deep, {Ref(h) : h \in Live})
  /\ held' = None
  /\ UNCHANGED <<db, disk, outside, slot, client, up, sweep, wk>>

ScanProbe(ref) ==
  /\ pr.pc = "scan" /\ ~pr.cut /\ ref \in pr.left
  /\ pr' = [pr EXCEPT !.left = @ \ {ref}, !.found = IF Damaged(ref, pr.deep) THEN @ \cup {ref} ELSE @]
  /\ UNCHANGED <<db, disk, outside, slot, client, up, held, sweep, wk, ops>>

(* A cancelled scan keeps what it had found.                               *)
ScanRunEnd ==
  /\ pr.pc = "scan" /\ (pr.left = {} \/ pr.cut)
  /\ held' = [deep |-> pr.deep, refs |-> pr.found]
  /\ pr' = Idle
  /\ UNCHANGED <<db, disk, outside, slot, client, up, sweep, wk, ops>>

AskPrune ==
  /\ client = Idle /\ pr = Idle /\ held # None /\ held.refs # {} /\ Spend
  /\ client' = [pc |-> "prune", deep |-> held.deep, refs |-> held.refs]
  /\ UNCHANGED <<db, disk, outside, slot, up, pr, held, sweep, wk>>

StartPrune ==
  /\ client.pc = "prune"
  /\ client' = Idle
  /\ IF pr # Idle THEN UNCHANGED <<pr, held>>
     ELSE pr' = Run("prune", client.deep, client.refs) /\ held' = None
  /\ UNCHANGED <<db, disk, outside, slot, up, sweep, wk, ops>>

(* Mutant: the reviewed set is deleted as it was reviewed.                 *)
NotChecked(ref, deep) == TRUE
StillDamaged(ref, deep) == Damaged(ref, deep)

PruneCheck(ref) ==
  /\ pr.pc = "prune" /\ ~pr.cut /\ ref \in pr.left
  /\ pr' = LET rest == [pr EXCEPT !.left = @ \ {ref}]
           IN IF StillDamaged(ref, pr.deep) THEN Condemned("delete", rest, ref, FALSE) ELSE rest
  /\ UNCHANGED <<db, disk, outside, slot, client, up, held, sweep, wk, ops>>

PruneDelete ==
  /\ pr.pc = "delete"
  /\ db' = HardDeleteFile(db, pr.ref.hash)
  /\ pr' = Condemned("sweep", pr, pr.ref, pr.gap)
  /\ UNCHANGED <<disk, outside, slot, client, up, held, sweep, wk, ops>>

PruneSweep ==
  /\ pr.pc = "sweep"
  /\ disk' = Reclaimed(disk, pr.ref.hash, pr.ref.at)
  /\ pr' = [Run("prune", pr.deep, pr.left) EXCEPT !.cut = pr.cut]
  /\ UNCHANGED <<db, outside, slot, client, up, held, sweep, wk, ops>>

(* Mutant: the cancelled run stops working and does not end.               *)
PruneEndUncut ==
  /\ pr.pc = "prune" /\ pr.left = {}
  /\ pr' = Idle
  /\ UNCHANGED <<db, disk, outside, slot, client, up, held, sweep, wk, ops>>

PruneEnd ==
  /\ pr.pc = "prune" /\ (pr.left = {} \/ pr.cut)
  /\ pr' = Idle
  /\ UNCHANGED <<db, disk, outside, slot, client, up, held, sweep, wk, ops>>

Cancel ==
  /\ pr # Idle /\ ~pr.cut /\ Spend
  /\ pr' = [pr EXCEPT !.cut = TRUE]
  /\ UNCHANGED <<db, disk, outside, slot, client, up, held, sweep, wk>>

(***************************************************************************)
(* The analysis worker.  Nothing to read is an error that is tried again,  *)
(* a content the tools cannot decode is not; what it found is stored by    *)
(* file id, and the job finished by job id, if they are still there.       *)
(***************************************************************************)
WorkClaim ==
  /\ wk = Idle /\ Pending(db.jobs) # {}
  /\ LET j == Claimed(db.jobs) IN
       /\ db' = [db EXCEPT !.jobs = Claim(@)]
       /\ wk' = [pc |-> "analyze", job |-> j.id, row |-> j.key,
                 hash |-> CHOOSE h \in WithId(db, j.key) : TRUE]
  /\ UNCHANGED <<disk, outside, slot, client, up, pr, held, sweep, ops>>

WorkAnalyze ==
  /\ wk.pc = "analyze"
  /\ wk' = [pc |-> IF Resolves(wk.hash) THEN "store" ELSE "fail", job |-> wk.job, row |-> wk.row,
            fp |-> IF Resolves(wk.hash) THEN Content(wk.hash) ELSE None]
  /\ UNCHANGED <<db, disk, outside, slot, client, up, pr, held, sweep, ops>>

StoreFingerprint(d, i, fp) ==
  [d EXCEPT !.files = [h \in Hashes |-> IF fp # None /\ h \in WithId(d, i)
                                        THEN [d.files[h] EXCEPT !.fp = fp] ELSE d.files[h]]]

WorkFinish ==
  /\ wk.pc \in {"store", "fail"}
  /\ db' = [StoreFingerprint(db, wk.row, wk.fp) EXCEPT
              !.jobs = IF wk.pc = "store" THEN FinishDone(@, wk.job) ELSE FinishFailed(@, wk.job)]
  /\ wk' = Idle
  /\ UNCHANGED <<disk, outside, slot, client, up, pr, held, sweep, ops>>

(***************************************************************************)
(* The world: a drive goes and comes back, a file outside is replaced, a   *)
(* blob is lost or rots.                                                   *)
(***************************************************************************)
Unmount(p) ==
  /\ outside[p] # None /\ Spend
  /\ outside' = [outside EXCEPT ![p] = None]
  /\ UNCHANGED <<db, disk, slot, client, up, pr, held, sweep, wk>>

Mount(p) ==
  /\ outside[p] # Original[p] /\ Spend
  /\ outside' = [outside EXCEPT ![p] = Original[p]]
  /\ PutBack
  /\ UNCHANGED <<db, disk, slot, client, up, held, sweep, wk>>

Replace(p) ==
  /\ outside[p] = Original[p] /\ Spend
  /\ \E h \in Hashes \ {Original[p]} : outside' = [outside EXCEPT ![p] = h]
  /\ PutBack
  /\ UNCHANGED <<db, disk, slot, client, up, held, sweep, wk>>

Decay(h) ==
  /\ disk.blob[h] = "good" /\ Spend
  /\ \E b \in {"bad", "none"} : disk' = [disk EXCEPT !.blob[h] = b]
  /\ UNCHANGED <<db, outside, slot, client, up, pr, held, sweep, wk>>

(***************************************************************************)
(* A start: blobs without a row are removed, running jobs queued again,    *)
(* what lacks a fingerprint queued, scans that were cut off marked, and    *)
(* sources without any attribution given what lies under their root.       *)
(***************************************************************************)
ReconcileOrphans(k) == [k EXCEPT !.blob = [h \in Hashes |-> IF h \in Live THEN @[h] ELSE "none"]]

(* Mutant: only what has no job row is looked for, and a crash's losses    *)
(* are not.                                                                *)
NoneNeeded(d) == {}
FilesNeedingAnalysis(d) == {d.files[h].id : h \in {r \in Rows(d) : d.files[r].fp = None}}
BackfillAnalysis(d) ==
  [d EXCEPT !.jobs = EnqueueAll(@, FilesNeedingAnalysis(d))]

ResetStaleScans(d) ==
  [d EXCEPT !.src = [s \in Sources |-> IF d.src[s] = "scanning" THEN "error" ELSE d.src[s]]]

BackfillAttribution(d) ==
  LET need == {s \in Sources : Known(d, s) /\ \A h \in Rows(d) : s \notin d.files[h].by}
      of(f) == {s \in need : f.at = "links" /\ f.target \in Roots[s]}
  IN [d EXCEPT !.files = [h \in Hashes |-> IF d.files[h] = None THEN None
                                           ELSE [d.files[h] EXCEPT !.by = @ \cup of(d.files[h])]]]

Started(d) ==
  BackfillAttribution(ResetStaleScans(BackfillAnalysis([d EXCEPT !.jobs = ResetStale(@)])))

RestartIngest ==
  /\ disk' = ReconcileOrphans(disk)
  /\ db' = Started(db)
  /\ slot' = Idle /\ client' = Idle /\ up' = Idle /\ pr' = Idle /\ sweep' = Idle /\ wk' = Idle
  /\ held' = None
  /\ UNCHANGED outside

Scan == \/ StartRescan \/ \E p \in Paths : ScanLook(p)
        \/ ScanLink \/ ScanInsert \/ ScanAttribute \/ ScanEnqueue \/ ScanEnd
Withdraw == \/ StartRemove \/ RemoveDelete \/ RemoveEnd
            \/ slot.pc = "unlink" /\ \E ref \in slot.left : RemoveUnlink(ref)
Upload == UploadPut \/ UploadInsert \/ UploadEnqueue
Prune == \/ ScanRunEnd \/ StartPrune \/ PruneDelete \/ PruneSweep \/ PruneEnd
         \/ pr # Idle /\ \E ref \in pr.left : ScanProbe(ref) \/ PruneCheck(ref)
Work == WorkClaim \/ WorkAnalyze \/ WorkFinish
Request == \/ \E s \in Sources : AddSource(s) \/ AskRescan(s) \/ AskRemove(s)
           \/ \E h \in Hashes : UploadLook(h) \/ Purge(h) \/ Decay(h)
           \/ \E p \in Paths : Unmount(p) \/ Mount(p) \/ Replace(p)
           \/ \E deep \in BOOLEAN : StartScan(deep)
           \/ AskPrune \/ Cancel
IngestNext == Scan \/ Withdraw \/ Upload \/ ReclaimStorage \/ Prune \/ Work \/ Request

(* A library at rest: sources scanned to the end, every file analysed; a   *)
(* drive may be away, and a scan that saw it gone may be held for review.  *)
Linked(S) == {Original[p] : p \in UNION {Roots[s] : s \in S}}

AtRest(S, L, ids, target) ==
  /\ IsInjective(ids)
  /\ \A h \in DOMAIN target : /\ Original[target[h]] = h
                              /\ \E s \in S : target[h] \in Roots[s]
  /\ disk = [blob |-> [h \in Hashes |-> IF h \in L THEN "good" ELSE "none"],
             link |-> [h \in Hashes |-> IF h \in DOMAIN target THEN target[h] ELSE None]]
  /\ db = [src |-> [s \in Sources |-> IF s \in S THEN "active" ELSE "none"],
           jobs |-> {[id |-> i, key |-> i, status |-> "done", tries |-> 0] : i \in Range(ids)},
           files |-> [h \in Hashes |->
             IF h \notin DOMAIN ids THEN None
             ELSE [id |-> ids[h], at |-> IF h \in L THEN "local" ELSE "links", fp |-> h,
                   target |-> IF h \in L THEN None ELSE target[h],
                   by |-> {s \in S : \E p \in Roots[s] : Original[p] = h}]]]

InitIngest ==
  /\ \E S \in SUBSET Sources, L \in SUBSET Hashes :
       \E ids \in [Linked(S) \cup L -> 1..Cardinality(Linked(S) \cup L)], target \in [Linked(S) -> Paths] :
         AtRest(S, L, ids, target)
  /\ outside \in {Original} \cup {[Original EXCEPT ![p] = None] : p \in Paths}
  /\ slot = Idle /\ client = Idle /\ up = Idle /\ pr = Idle /\ sweep = Idle /\ wk = Idle
  /\ held \in {None, [deep |-> FALSE, refs |-> {Ref(h) : h \in {g \in Live : Damaged(Ref(g), FALSE)}}]}
=============================================================================
