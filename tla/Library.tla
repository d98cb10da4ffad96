------------------------------- MODULE Library -------------------------------
(***************************************************************************)
(* The life of the library: uploads, review, curation, Trash, purge, the   *)
(* fingerprint resolver and prune, interleaved.  An administrator's or a   *)
(* moderator's request is one transaction (an operator of LibraryStore),   *)
(* so it is one action; what spans several transactions, or a transaction  *)
(* and the blob storage, is a process with a program counter:              *)
(*   up      an upload or a mesh download that has arrived: look the hash  *)
(*           up, then store, restore or attach                             *)
(*   res     the analysis worker regrouping a file by its fingerprint      *)
(*   bulk    a bulk purge of recordings: resolve the ids, then delete them *)
(*   pr      a prune run: scan, then per blob check, delete the row, sweep *)
(*   reclaim the hashes whose rows are purged and bytes not yet removed    *)
(***************************************************************************)
EXTENDS LibraryStore, TLC

CONSTANTS
  UploadHashes, \* the hashes that uploads send and downloads fetch
  AutoApprove,  \* downloads are published without review
  MaxOps,       \* bound: requests of one behaviour
  BatchMax      \* bound: rows of one bulk request

ASSUME LibraryAssumption ==
  /\ UploadHashes \subseteq Hashes /\ AutoApprove \in BOOLEAN
  /\ UploadHashes \notin {{}, Hashes} /\ Keys # {Nameless}  \* what is there at the start
  /\ MaxOps \in Nat /\ BatchMax \in Nat \ {0}

VARIABLES
  db,       \* the tables
  disk,     \* the hashes whose bytes the blob storage holds
  reclaim,  \* hashes a committed purge still has to remove from the storage
  up, res, bulk, pr,
  ops       \* requests so far

vars == <<db, disk, reclaim, up, res, bulk, pr, ops>>

Idle == [pc |-> "idle"]
Batch(S) == {T \in SUBSET S : Cardinality(T) \in 1..BatchMax}

(* Two published uploads of the same song, one of them on a playlist.      *)
Init ==
  /\ LET one == CHOOSE h \in UploadHashes : TRUE
         two == CHOOSE h \in Hashes : h \notin UploadHashes
         k == CHOOSE x \in Keys : x # Nameless
     IN
       /\ db = [recs |-> {1, 2}, saved |-> {2},
                files |-> [f \in {1, 2} |-> [hash |-> IF f = 1 THEN one ELSE two, rec |-> f,
                                            gone |-> FALSE, pin |-> FALSE]],
                tags |-> [t \in {1, 2} |-> [rec |-> t, key |-> k, state |-> "approved",
                                           gone |-> FALSE, origin |-> t]]]
       /\ disk = {one, two}
  /\ reclaim = {} /\ ops = 0
  /\ up = Idle /\ res = Idle /\ bulk = Idle /\ pr = Idle

-----------------------------------------------------------------------------
(* A request that is one transaction.                                      *)

Fits(d) == d.recs \subseteq 1..RecMax /\ DOMAIN d.files \subseteq 1..FileMax
                                     /\ DOMAIN d.tags \subseteq 1..TagMax
Spend == ops < MaxOps /\ ops' = ops + 1

Request(d) ==
  /\ d # db /\ Fits(d) /\ Spend
  /\ db' = d
  /\ UNCHANGED <<disk, reclaim, up, res, bulk, pr>>

(* Mutant: only what was in Trash itself is reclaimed.                     *)
PurgeRequestOfTrash(d) ==
  /\ d # db /\ Spend
  /\ db' = d
  /\ reclaim' = reclaim \cup ({db.files[f].hash : f \in {g \in DOMAIN db.files : db.files[g].gone}}
                               \ HashesOf(d))
  /\ UNCHANGED <<disk, up, res, bulk, pr>>

(* A purge: the bytes of the rows it removed are reclaimed after it.       *)
PurgeRequest(d) ==
  /\ d # db /\ Spend
  /\ db' = d
  /\ reclaim' = reclaim \cup (HashesOf(db) \ HashesOf(d))
  /\ UNCHANGED <<disk, up, res, bulk, pr>>

Tags == DOMAIN db.tags
Files == DOMAIN db.files

(* Review.  Whether a submitted draft is a duplicate is read before the    *)
(* transaction that submits it; a moderator's own draft is approved unless *)
(* it is one, anybody else's is submitted.                                 *)
SubmitMyUploads ==
  \E T \in Batch({t \in Tags : db.tags[t].state \in {"draft", "returned"}}) :
    \E to \in {"submitted", "approved"} :
      /\ to = "approved" => \A t \in T : ~MatchedExisting(db, t)
      /\ Request(BulkUpdateReviewState(db, T, {"draft", "returned"}, to))
MyUploadDiscard == \E t \in Tags : Request(DiscardOwnUpload(db, t))
MyUploadsBulk == \E T \in Batch(Tags) : Request(BulkDiscardOwnUploads(db, T))
ModerationBulk ==
  \E T \in Batch(Tags), to \in {"approved", "returned"} :
    Request(BulkUpdateReviewState(db, T, {"submitted", "returned"}, to))
ModerationReturn ==
  \E t \in Tags : Request(UpdateReviewState(db, t, {"submitted", "returned"}, "returned"))
ModerationApprove ==
  \E t \in Tags, drop, new \in BOOLEAN : Request(ApproveSubmission(db, t, drop, new))

(* Trash and restore: one row from a list, or the ticked ones of a bin.    *)
ModerationDiscard == \E t \in Tags : Request(BulkTrashTagsets(db, {t}))
AppearancesBulk == \E T \in Batch(Tags) : Request(BulkTrashTagsets(db, T))
RecordingsTrash == \E r \in db.recs : Request(TrashRecording(db, r))
RecordingsTrashBulk == \E R \in Batch(db.recs) : Request(BulkTrashRecordings(db, R))
RenditionRemove == \E f \in Files : Request(RemoveRendition(db, f))

TagsetRestore == \E t \in Tags : Request(RestoreTagset(db, t))
RestoreTagsets  == \E T \in Batch(Tags) : Request(BulkRestoreTagsets(db, T))
RenditionRestore == \E f \in Files : Request(RestoreRendition(db, f))
RestoreFiles    == \E F \in Batch(Files) : Request(BulkRestoreRemovedFiles(db, F))
RecordingsRestore == \E r \in db.recs : Request(RestoreRecording(db, r))
RestoreRecordings == \E R \in Batch(db.recs) : Request(BulkRestoreRecordings(db, R))

(* Curation.                                                               *)
RecordingsMerge ==
  \E r \in db.recs : \E S \in Batch(db.recs \ {r}) : Request(MergeRecordings(db, r, S))
TagsetMove == \E t \in Tags, r \in db.recs : Request(MoveTagset(db, t, r))
RecordingsAddAppearance ==
  \E r \in db.recs, k \in Keys : Request(CreateAppearance(db, r, k))
DuplicatesAbsorb ==
  \E keep \in Files : \E A \in Batch(Files \ {keep}) :
    Request(AbsorbRenditions(db, db.files[keep].rec, keep, A))
DuplicatesBulkAbsorb == \E R \in Batch(db.recs) : Request(BulkAbsorbKeepBest(db, R))
RenditionSplit == \E f \in Files : Request(SplitRendition(db, f))

(* Purge.  Appearances and files have to be in Trash, and the transaction  *)
(* looks; a recording is deleted from its own page wherever its rows are.  *)
TagsetHardDelete == \E t \in Tags : PurgeRequest(HardDeleteTrashedTagset(db, t))
PurgeTagsets == \E T \in Batch(Tags) : PurgeRequest(BulkHardDeleteTagsets(db, T))
RenditionHardDelete == \E f \in Files : PurgeRequest(HardDeleteRemovedFile(db, f))
PurgeFiles   == \E F \in Batch(Files) : PurgeRequest(BulkHardDeleteRemovedFiles(db, F))
RecordingsHardDelete == \E r \in db.recs : PurgeRequest(HardDeleteRecording(db, r))

(* The Recordings bin resolves "all" to ids first and deletes those ids.   *)
BulkResolve ==
  /\ bulk = Idle /\ TrashedRecordingIDs(db) # {} /\ Spend
  /\ bulk' = [pc |-> "delete", ids |-> TrashedRecordingIDs(db)]
  /\ UNCHANGED <<db, disk, reclaim, up, res, pr>>
BulkDelete ==
  /\ bulk.pc = "delete"
  /\ LET d == BulkHardDeleteRecordings(db, bulk.ids)
     IN db' = d /\ reclaim' = reclaim \cup (HashesOf(db) \ HashesOf(d))
  /\ bulk' = Idle
  /\ UNCHANGED <<disk, up, res, pr, ops>>

ReclaimBytes ==
  \E h \in reclaim :
    /\ reclaim' = reclaim \ {h}
    /\ disk' = disk \ {h}
    /\ UNCHANGED <<db, up, res, bulk, pr, ops>>

-----------------------------------------------------------------------------
(* An upload, or a download from the mesh once its bytes are here.         *)

Arrival(via, h, k, pc) ==
  up' = [via |-> via, hash |-> h, key |-> k, pc |-> pc,
         file |-> IF FileWith(db, h) = {} THEN NoFile ELSE Min(FileWith(db, h))]

UploadLookup ==
  /\ up = Idle /\ Spend
  /\ \E h \in UploadHashes, k \in Keys :
       Arrival("upload", h, k, IF FileWith(db, h) = {} THEN "put"
                               ELSE IF \E f \in FileWith(db, h) : SeenTrashed(db, f)
                                    THEN "restore" ELSE "attach")
  /\ UNCHANGED <<db, disk, reclaim, res, bulk, pr>>

(* A trashed row does not count: the download goes on and its insert fails.*)
DownloadLookup ==
  /\ up = Idle /\ Spend
  /\ \E h \in UploadHashes, k \in Keys :
       Arrival("download", h, k, IF \E f \in FileWith(db, h) : ~SeenTrashed(db, f)
                                 THEN "attach" ELSE "put")
  /\ UNCHANGED <<db, disk, reclaim, res, bulk, pr>>

(* An uploader restores by hash, without the bytes; nothing in Trash ends  *)
(* the request.                                                            *)
RestoreForUploader ==
  /\ up = Idle /\ Spend
  /\ \E h \in HashesOf(db) : Arrival("request", h, Nameless, "restore")
  /\ UNCHANGED <<db, disk, reclaim, res, bulk, pr>>

Put ==
  /\ up.pc = "put"
  /\ disk' = disk \cup {up.hash}
  /\ up' = [up EXCEPT !.pc = "insert"]
  /\ UNCHANGED <<db, reclaim, res, bulk, pr, ops>>

(* files.hash is UNIQUE: a row that appeared meanwhile fails the insert.   *)
Insert(via, state) ==
  /\ up.pc = "insert" /\ up.via = via
  /\ db' = IF FileWith(db, up.hash) # {} THEN db ELSE InsertFile(db, up.hash, up.key, state)
  /\ Fits(db')
  /\ up' = Idle
  /\ UNCHANGED <<disk, reclaim, res, bulk, pr, ops>>
UploadInsert == Insert("upload", "draft")
DownloadInsert == Insert("download", IF AutoApprove THEN "approved" ELSE "draft")

UploadRestore ==
  /\ up.pc = "restore"
  /\ db' = RestoreFileByHash(db, up.hash)
  /\ up' = IF up.via = "request" /\ db' = db THEN Idle ELSE [up EXCEPT !.pc = "stage"]
  /\ UNCHANGED <<disk, reclaim, res, bulk, pr, ops>>
UploadStage ==
  /\ up.pc = "stage"
  /\ db' = StageRestoredFile(db, up.hash)
  /\ up' = Idle
  /\ UNCHANGED <<disk, reclaim, res, bulk, pr, ops>>

Attach(via, next(_)) ==
  /\ up.pc = "attach" /\ up.via = via
  /\ db' = AttachDraftTagset(db, up.file, up.key)
  /\ Fits(db')
  /\ up' = next(DOMAIN db'.tags \ Tags)
  /\ UNCHANGED <<disk, reclaim, res, bulk, pr, ops>>
UploadAttach == LET rest(new) == Idle IN Attach("upload", rest)
AttachRemoteTagset ==
  LET approve(new) == IF AutoApprove /\ new # {} THEN [pc |-> "approve", tag |-> Min(new)]
                      ELSE Idle
  IN Attach("download", approve)
DownloadApprove ==
  /\ up.pc = "approve"
  /\ db' = UpdateReviewState(db, up.tag, {"draft"}, "approved")
  /\ up' = Idle
  /\ UNCHANGED <<disk, reclaim, res, bulk, pr, ops>>

-----------------------------------------------------------------------------
(* The analysis worker: it reads whether a human pinned the file and which *)
(* recordings match, and moves the file in a transaction of its own.       *)

ResolveRead ==
  /\ res = Idle /\ Spend
  /\ \E f \in Files :
       /\ ~db.files[f].pin
       /\ \E g \in LiveFiles(db, db.recs \ {db.files[f].rec}) :
            /\ Audio[db.files[g].hash] = Audio[db.files[f].hash]
            /\ res' = [pc |-> "move", file |-> f, cur |-> db.files[f].rec,
                       best |-> db.files[g].rec]
  /\ UNCHANGED <<db, disk, reclaim, up, bulk, pr>>
ResolveMove ==
  /\ res.pc = "move"
  /\ db' = ResolveTx(db, res.file, res.cur, res.best)
  /\ res' = Idle
  /\ UNCHANGED <<disk, reclaim, up, bulk, pr, ops>>

-----------------------------------------------------------------------------
(* Prune: rows whose bytes are missing.                                    *)

(* The environment: a blob vanishes from the storage.                      *)
LoseBytes ==
  /\ Spend
  /\ \E h \in disk \cap HashesOf(db) : disk' = disk \ {h}
  /\ UNCHANGED <<db, reclaim, up, res, bulk, pr>>

Dangling == {db.files[f].hash : f \in LiveFiles(db, db.recs)} \ disk

ScanDangling ==
  /\ pr = Idle /\ Dangling # {} /\ Spend
  /\ pr' = [pc |-> "check", todo |-> Dangling]
  /\ UNCHANGED <<db, disk, reclaim, up, res, bulk>>
PruneCheck ==
  /\ pr.pc = "check"
  /\ \E h \in pr.todo :
       pr' = IF h \in disk THEN [pr EXCEPT !.todo = @ \ {h}]
             ELSE [pc |-> "delete", todo |-> pr.todo \ {h}, hash |-> h]
  /\ UNCHANGED <<db, disk, reclaim, up, res, bulk, ops>>
PruneDelete ==
  /\ pr.pc = "delete"
  /\ db' = HardDeleteFileByHash(db, pr.hash)
  /\ pr' = [pr EXCEPT !.pc = "sweep"]
  /\ UNCHANGED <<disk, reclaim, up, res, bulk, ops>>
PruneSweep ==
  /\ pr.pc = "sweep"
  /\ disk' = disk \ {pr.hash}
  /\ pr' = [pc |-> "check", todo |-> pr.todo]
  /\ UNCHANGED <<db, reclaim, up, res, bulk, ops>>
PruneReap ==
  /\ pr.pc = "check" /\ pr.todo = {}
  /\ db' = Reap(db)
  /\ pr' = Idle
  /\ UNCHANGED <<disk, reclaim, up, res, bulk, ops>>

-----------------------------------------------------------------------------
Review == \/ SubmitMyUploads \/ MyUploadDiscard \/ MyUploadsBulk
          \/ ModerationBulk \/ ModerationReturn \/ ModerationApprove
Trash == \/ ModerationDiscard \/ AppearancesBulk \/ RenditionRemove
         \/ RecordingsTrash \/ RecordingsTrashBulk
RestoreFromBin == RecordingsRestore \/ RestoreRecordings
Restore == \/ TagsetRestore \/ RestoreTagsets
           \/ RenditionRestore \/ RestoreFiles \/ RestoreFromBin
Absorb == DuplicatesAbsorb \/ DuplicatesBulkAbsorb
Regroup == RecordingsMerge \/ TagsetMove \/ RecordingsAddAppearance \/ Absorb
Curate == Regroup \/ RenditionSplit
Purge == \/ TagsetHardDelete \/ PurgeTagsets \/ RenditionHardDelete \/ PurgeFiles
         \/ RecordingsHardDelete \/ BulkDelete
Upload == \/ UploadLookup \/ DownloadLookup \/ RestoreForUploader \/ Put
          \/ UploadInsert \/ DownloadInsert \/ UploadRestore \/ UploadStage
          \/ UploadAttach \/ AttachRemoteTagset \/ DownloadApprove
Resolve == ResolveRead \/ ResolveMove
Prune == ScanDangling \/ PruneCheck \/ PruneDelete \/ PruneSweep \/ PruneReap

Next == \/ Review \/ Trash \/ Restore \/ Curate \/ Purge \/ BulkResolve \/ ReclaimBytes
        \/ Upload \/ Resolve \/ LoseBytes \/ Prune

Spec == Init /\ [][Next]_vars

-----------------------------------------------------------------------------
(* The rows are well-formed and every foreign key has its row; a hash is   *)
(* in one file row.                                                        *)
TypeOK ==
  /\ db.recs \subseteq 1..RecMax
  /\ DOMAIN db.files \subseteq 1..FileMax /\ DOMAIN db.tags \subseteq 1..TagMax
  /\ \A f \in Files : db.files[f] \in FileRow /\ db.files[f].rec \in db.recs
  /\ \A t \in Tags : /\ db.tags[t] \in TagRow /\ db.tags[t].rec \in db.recs
                     /\ db.tags[t].origin \in Files \cup {NoFile}
  /\ db.saved \subseteq Tags
  /\ \A f, g \in Files : db.files[f].hash = db.files[g].hash => f = g
  /\ disk \cup reclaim \subseteq Hashes

(* Destroying a file row takes a purge or a prune.  Review, curation,      *)
(* Trash, uploads, the resolver and the reaper behind each of them may     *)
(* empty a recording, but they only demote what is in it.                  *)
OnlyPurgeDestroys ==
  [][~(HashesOf(db) \subseteq HashesOf(db')) => Purge \/ PruneDelete]_vars

(* No bytes leak: those without a row are still to be reclaimed, whatever  *)
(* took the row - a purge of Trash, the deletion of a recording, a purge   *)
(* that emptied one - or are in the hands of an upload or a prune run.     *)
InHand == UNION {{p["hash"] : x \in {"hash"} \cap DOMAIN p} : p \in {up, pr}}
NoBytesLeak == disk \subseteq HashesOf(db) \cup reclaim \cup InHand

(* Dedup reasons about live appearances only: a step that drops a row that *)
(* Trash or the review queue owns is neither a merge nor an absorb, nor    *)
(* any other curation.                                                     *)
Pending == {t \in Tags : ~Live(db.tags[t]) \/ db.tags[t].state # "approved"}
DedupSparesPending == [][~(Pending \subseteq DOMAIN db'.tags) => ~Curate]_vars

(* A merge or an absorb drops appearances for repeating one that stays: no *)
(* named entry (an identity key) that the library shows disappears with    *)
(* them, be it through a trashed or unpublished twin or through the reap.  *)
Shown(d) == {d.tags[t].key : t \in Visible(d)} \ {Nameless}
DedupKeepsLibrary ==
  [][~(Shown(db) \subseteq Shown(db')) => ~(RecordingsMerge \/ Absorb)]_vars

(* Curation never costs a file its entry: a file that is live before and   *)
(* after, in a recording with appearances, is in one with appearances.     *)
(* Only a split may take it: the appearances read from its rendition go    *)
(* along, also from a recording that has no other one left; one that has   *)
(* an appearance of its own keeps it.                                      *)
NamedFiles(d) == {f \in LiveFiles(d, d.recs) : TagsOf(d, {d.files[f].rec}) # {}}
OwnNamed(d) == {f \in LiveFiles(d, d.recs) : \E t \in TagsOf(d, {d.files[f].rec}) :
                  d.tags[t].origin \in FilesOf(d, {d.files[f].rec}) \cup {NoFile}}
StayNamed(F) == F \cap LiveFiles(db', db'.recs) \subseteq NamedFiles(db')
CuratedFilesStayNamed ==
  [][/\ ~StayNamed(NamedFiles(db)) => ~Regroup
     /\ ~StayNamed(OwnNamed(db)) => ~RenditionSplit]_vars

(* An absorb that drops a saved appearance saves another one of the same   *)
(* recording in its place: no playlist loses its track to it.              *)
AbsorbKeepsSaved == [][db.saved # {} /\ db'.saved = {} => ~Absorb]_vars

(* Restoring a published recording makes it play: whatever combination of  *)
(* bins its appearances and renditions went through, one of them is live.  *)
Republished == {db.tags[t].rec : t \in {u \in Pending \cap DOMAIN db'.tags :
                  db.tags[u].state = "approved" /\ ~Live(db.tags[u]) /\ Live(db'.tags[u])}}
RestoredRecordingsPlay ==
  [][(\E r \in Republished : FilesOf(db, {r}) # {} /\ TagsOf(db', {r}) \cap Visible(db') = {})
       => ~RestoreFromBin]_vars

(* The rows and the bytes agree, whatever was destroyed and by whom.       *)
BytesAreAccounted == TypeOK /\ NoBytesLeak

(* Deduplication costs the library nothing: no pending row, no entry that  *)
(* it shows and no track of a playlist.                                    *)
DedupCostsNothing == DedupSparesPending /\ DedupKeepsLibrary /\ AbsorbKeepsSaved

(* What curation or Trash gives back still has a name and still plays.     *)
CurationKeepsPlaying == CuratedFilesStayNamed /\ RestoredRecordingsPlay
=============================================================================
