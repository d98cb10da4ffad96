---------------------------- MODULE LibraryStore ----------------------------
(***************************************************************************)
(* The library tables of the database package and every transaction that   *)
(* changes them, as functions from one database value to the next.  SQLite *)
(* serializes the transactions (BEGIN IMMEDIATE), so a transaction is one  *)
(* application of one of these operators; Library.tla interleaves them.    *)
(*                                                                         *)
(* A database value is a record                                            *)
(*   recs   the ids of the rows of recordings                              *)
(*   files  rendition rows: [hash, rec, gone (deleted_at set), pin]        *)
(*   tags   appearance rows: [rec, key, state, gone, origin]               *)
(*   saved  the appearances a user's playlist or favorites list holds      *)
(* Left out of the rows: owners, titles, is_primary and preferred_file_id  *)
(* (preferences), and the entity names behind an appearance's key.         *)
(***************************************************************************)
EXTENDS Naturals, FiniteSets, FiniteSetsExt, Functions, SequencesExt

CONSTANTS
  Hashes,      \* content addresses
  Keys,        \* identity keys of appearances (album, album artist, disc, track)
  Nameless,    \* the key of the reserved Unknown-artist / Other bucket
  Audio,       \* the audio a hash decodes to: what fingerprints compare
  Quality,     \* the quality ladder: a hash's rank, higher is better
  RecMax, FileMax, TagMax   \* bounds on the row ids

ASSUME StoreAssumption ==
  /\ Nameless \in Keys
  /\ DOMAIN Audio = Hashes
  /\ Quality \in [Hashes -> Nat]
  /\ {RecMax, FileMax, TagMax} \subseteq Nat \ {0, 1}

NoFile == 0       \* origin_file_id IS NULL
States == {"draft", "submitted", "returned", "approved"}

FileRow == [hash : Hashes, rec : 1..RecMax, gone : BOOLEAN, pin : BOOLEAN]
TagRow  == [rec : 1..RecMax, key : Keys, state : States, gone : BOOLEAN,
            origin : 0..FileMax]

-----------------------------------------------------------------------------
(* Queries.                                                                *)

FilesOf(d, R) == {f \in DOMAIN d.files : d.files[f].rec \in R}
TagsOf(d, R)  == {t \in DOMAIN d.tags : d.tags[t].rec \in R}
HashesOf(d)   == {d.files[f].hash : f \in DOMAIN d.files}
FileWith(d, h) == {f \in DOMAIN d.files : d.files[f].hash = h}

Live(row)     == ~row.gone
LiveFiles(d, R) == {f \in FilesOf(d, R) : Live(d.files[f])}

(* Dedup reasons about live appearances only: not trashed and approved.    *)
LiveTags(d, R) == {t \in TagsOf(d, R) : Live(d.tags[t]) /\ d.tags[t].state = "approved"}

(* visibleTagset: what the library shows.                                  *)
Visible(d) == {t \in LiveTags(d, d.recs) : LiveFiles(d, {d.tags[t].rec}) # {}}

(* The ids an INTEGER PRIMARY KEY hands out: one above the largest in use, *)
(* so the id of a deleted last row is handed out again.                    *)
NextId(S) == IF S = {} THEN 1 ELSE Max(S) + 1

(* renditionLadderOrder / RankRenditions.                                  *)
Best(d, F) == CHOOSE f \in F : \A g \in F \ {f} :
  LET q(x) == Quality[d.files[x].hash] IN q(f) > q(g) \/ (q(f) = q(g) /\ f < g)

(* reprTagset: the appearance a file is shown under: its own submission,   *)
(* then a live one, then the oldest.                                       *)
Repr(d, f) ==
  LET T == TagsOf(d, {d.files[f].rec})
      Own == {t \in T : d.tags[t].origin = f}
      C == IF Own # {} THEN Own ELSE T
      L == {t \in C : Live(d.tags[t])}
  IN Min(IF L # {} THEN L ELSE C)

(* GetFileByHash's deleted mark: the rendition's own or, failing that, its *)
(* representative appearance's.                                            *)
SeenTrashed(d, f) ==
  \/ d.files[f].gone
  \/ TagsOf(d, {d.files[f].rec}) # {} /\ d.tags[Repr(d, f)].gone

(* recordingFilterClause("trashed"): once published, nothing visible now.  *)
TrashedRecordingIDs(d) ==
  {r \in d.recs : /\ \E t \in TagsOf(d, {r}) : d.tags[t].state = "approved"
                  /\ TagsOf(d, {r}) \cap Visible(d) = {}}

(* ClassifySubmission's MatchedExisting: the recording, or the blob, is    *)
(* already published under another appearance.                             *)
MatchedExisting(d, t) ==
  LET o == d.tags[t].origin
      Other(S) == \E u \in S \ {t} : Live(d.tags[u]) /\ d.tags[u].state = "approved"
  IN /\ o # NoFile /\ Live(d.files[o])
     /\ \/ Other({u \in DOMAIN d.tags : d.tags[u].origin = o})
        \/ Other(TagsOf(d, {d.files[o].rec}))

-----------------------------------------------------------------------------
(* Row edits.                                                              *)

EditFiles(d, F, Edit(_)) ==
  [d EXCEPT !.files = [f \in DOMAIN @ |-> IF f \in F THEN Edit(@[f]) ELSE @[f]]]
EditTags(d, T, Edit(_)) ==
  [d EXCEPT !.tags = [t \in DOMAIN @ |-> IF t \in T THEN Edit(@[t]) ELSE @[t]]]
TrashRow(x)   == [x EXCEPT !.gone = TRUE]
RestoreRow(x) == [x EXCEPT !.gone = FALSE]

(* DELETE FROM tagsets: playlist_items.tagset_id is ON DELETE CASCADE.     *)
DropTags(d, T) == [d EXCEPT !.tags = Restrict(@, DOMAIN @ \ T), !.saved = @ \ T]

(* DELETE FROM files: tagsets.origin_file_id is ON DELETE SET NULL.        *)
DropFiles(d, F) ==
  LET forget(t) == [t EXCEPT !.origin = NoFile]
  IN [EditTags(d, {t \in DOMAIN d.tags : d.tags[t].origin \in F}, forget)
        EXCEPT !.files = Restrict(@, DOMAIN @ \ F)]

AddRec(d)     == [d EXCEPT !.recs = @ \cup {NextId(@)}]
WithRow(rows, id, row) == [x \in DOMAIN rows \cup {id} |-> IF x = id THEN row ELSE rows[x]]
AddTag(d, row) == [d EXCEPT !.tags = WithRow(@, NextId(DOMAIN @), row)]
AddFile(d, row) == [d EXCEPT !.files = WithRow(@, NextId(DOMAIN @), row)]

(* Moving a rendition pins it where a human decided so.                    *)
MoveFiles(d, F, r, pinned) ==
  LET move(x) == [x EXCEPT !.rec = r, !.pin = @ \/ pinned] IN EditFiles(d, F, move)
MoveTags(d, T, r) == LET move(x) == [x EXCEPT !.rec = r] IN EditTags(d, T, move)

-----------------------------------------------------------------------------
(* The reaper: demotes, never destroys, except the empty husk itself.      *)

(* Mutant: an abandoned recording's files are deleted.                     *)
ReapOnDestroying(d, R) ==
  LET noTags  == {r \in R : TagsOf(d, {r}) = {}}
      noFiles == {r \in R : FilesOf(d, {r}) = {}}
  IN [EditTags(DropFiles(d, FilesOf(d, noTags)), TagsOf(d, noFiles), TrashRow)
        EXCEPT !.recs = @ \ noTags]

ReapOn(d, R) ==
  LET noTags  == {r \in R : TagsOf(d, {r}) = {}}
      noFiles == {r \in R : FilesOf(d, {r}) = {}}
      quarantined == EditFiles(d, FilesOf(d, noTags), TrashRow)
      demoted == EditTags(quarantined, TagsOf(d, noFiles), TrashRow)
  IN [demoted EXCEPT !.recs = @ \ (noTags \cap noFiles)]

Reap(d) == ReapOn(d, d.recs)

(* Purge.  Drafts die with their origin blob.                              *)
DeleteFileRows(d, F) ==
  LET drafts == {t \in DOMAIN d.tags : /\ Live(d.tags[t]) /\ d.tags[t].origin \in F
                                       /\ d.tags[t].state # "approved"}
  IN DropFiles(EditTags(d, drafts, TrashRow), F)

(* A recording without appearances goes, with whatever files it has.       *)
ReclaimAbandoned(d, R) ==
  LET A == {r \in R : TagsOf(d, {r}) = {}}
  IN [DropFiles(d, FilesOf(d, A)) EXCEPT !.recs = @ \ A]

PurgeTags(d, T) == ReclaimAbandoned(DropTags(d, T), {d.tags[t].rec : t \in T})

BulkHardDeleteTagsets(d, T) == PurgeTags(d, {t \in T \cap DOMAIN d.tags : d.tags[t].gone})
HardDeleteTrashedTagset(d, t) == BulkHardDeleteTagsets(d, {t})

BulkHardDeleteRecordings(d, R) ==
  ReclaimAbandoned(DropTags(d, TagsOf(d, R)), R \cap d.recs)
HardDeleteRecording(d, r) == BulkHardDeleteRecordings(d, {r})

BulkHardDeleteRemovedFiles(d, F) ==
  LET G == {f \in F \cap DOMAIN d.files : d.files[f].gone}
  IN ReapOn(DeleteFileRows(d, G), {d.files[f].rec : f \in G})
HardDeleteRemovedFile(d, f) == BulkHardDeleteRemovedFiles(d, {f})

(* Prune's row delete asks for no Trash mark.                              *)
HardDeleteFileByHash(d, h) ==
  LET F == FileWith(d, h) IN ReapOn(DeleteFileRows(d, F), {d.files[f].rec : f \in F})

-----------------------------------------------------------------------------
(* Trash and restore.                                                      *)

BulkTrashTagsets(d, T) == EditTags(d, T, TrashRow)
BulkTrashRecordings(d, R) == BulkTrashTagsets(d, TagsOf(d, R))
TrashRecording(d, r) == BulkTrashRecordings(d, {r})
RemoveRendition(d, f) == EditFiles(d, {f}, TrashRow)

BulkRestoreTagsets(d, T) == EditTags(d, T, RestoreRow)
RestoreTagset(d, t) == BulkRestoreTagsets(d, {t})
BulkRestoreRemovedFiles(d, F) == EditFiles(d, F, RestoreRow)
RestoreRendition(d, f) == BulkRestoreRemovedFiles(d, {f})

(* Mutant: only the appearances come back.                                 *)
RestoreAppearances(d, R) == BulkRestoreTagsets(d, TagsOf(d, R))

(* Every appearance back and, where no rendition is live, the best one.    *)
BulkRestoreRecordings(d, R) ==
  LET dormant == {r \in R : FilesOf(d, {r}) # {} /\ LiveFiles(d, {r}) = {}}
  IN EditFiles(BulkRestoreTagsets(d, TagsOf(d, R)),
               {Best(d, FilesOf(d, {r})) : r \in dormant}, RestoreRow)
RestoreRecording(d, r) == BulkRestoreRecordings(d, {r})

(* A re-upload of trashed bytes: the rendition and every appearance of its *)
(* recording come back; the second transaction re-stages what it published.*)
RestoreFileByHash(d, h) ==
  LET F == FileWith(d, h)
  IN EditFiles(EditTags(d, TagsOf(d, {d.files[f].rec : f \in F}), RestoreRow), F, RestoreRow)

StageRestoredFile(d, h) ==
  LET R == {d.files[f].rec : f \in FileWith(d, h)}
      stage(t) == [t EXCEPT !.state = "draft"]
  IN EditTags(d, LiveTags(d, R), stage)

-----------------------------------------------------------------------------
(* Uploads and review.                                                     *)

InsertFile(d, h, k, state) ==
  LET r == NextId(d.recs)
      f == NextId(DOMAIN d.files)
  IN AddTag(AddFile(AddRec(d), [hash |-> h, rec |-> r, gone |-> FALSE, pin |-> FALSE]),
            [rec |-> r, key |-> k, state |-> state, gone |-> FALSE, origin |-> f])

SameKey(d, r, k) == {t \in TagsOf(d, {r}) : Live(d.tags[t]) /\ d.tags[t].key = k}

(* A byte-identical upload offers its tags as a new draft, unless the      *)
(* rendition is trashed or unknown by now or the appearance is there.      *)
AttachDraftTagset(d, f, k) ==
  IF \/ f \notin DOMAIN d.files
     \/ d.files[f].gone
     \/ SameKey(d, d.files[f].rec, k) # {}
  THEN d
  ELSE AddTag(d, [rec |-> d.files[f].rec, key |-> k, state |-> "draft", gone |-> FALSE,
                  origin |-> f])

BulkUpdateReviewState(d, T, from, to) ==
  LET set(t) == [t EXCEPT !.state = to]
  IN EditTags(d, {t \in T \cap DOMAIN d.tags : Live(d.tags[t]) /\ d.tags[t].state \in from}, set)

UpdateReviewState(d, t, from, to) == BulkUpdateReviewState(d, {t}, from, to)

(* Drafts and returned appearances go to Trash.                            *)
BulkDiscardOwnUploads(d, T) ==
  EditTags(d, {t \in T : d.tags[t].state \in {"draft", "returned"}}, TrashRow)
DiscardOwnUpload(d, t) == BulkDiscardOwnUploads(d, {t})

(* forceNew: the submission's blob becomes a recording of its own, with    *)
(* every appearance read from it, unless another of those is published.    *)
SplitSubmission(d, t) ==
  LET f == d.tags[t].origin
      mine == {u \in DOMAIN d.tags : d.tags[u].origin = f}
      shared == \E u \in mine \ {t} : Live(d.tags[u]) /\ d.tags[u].state = "approved"
      r == NextId(d.recs)
      moved == MoveTags(MoveFiles(AddRec(d), {f}, r, TRUE), mine, r)
  IN IF f = NoFile \/ shared THEN d ELSE ReapOn(moved, {d.tags[t].rec})

ApproveSubmission(d, t, dropBytes, forceNew) ==
  LET split == IF forceNew THEN SplitSubmission(d, t) ELSE d
      published == BulkUpdateReviewState(split, {t}, {"submitted", "returned"}, "approved")
  IN IF Live(d.tags[t]) /\ d.tags[t].state \in {"submitted", "returned"}
     THEN IF dropBytes THEN EditFiles(published, {d.tags[t].origin}, TrashRow) ELSE published
     ELSE d

-----------------------------------------------------------------------------
(* Curation.                                                               *)

(* repointPlaylistItemsTx: a saved appearance about to die is replaced by  *)
(* another live one of the recording it is in, same key first, then oldest.*)
RepointSaved(d, T) ==
  LET others(t) == LiveTags(d, {d.tags[t].rec}) \ T
      same(t) == {s \in others(t) : d.tags[s].key = d.tags[t].key}
      heir(t) == Min(IF same(t) # {} THEN same(t) ELSE others(t))
      rescued == {t \in d.saved \cap T : others(t) # {}}
  IN [d EXCEPT !.saved = (@ \ rescued) \cup {heir(t) : t \in rescued}]

(* deleteTagsetIDsTx.                                                      *)
DedupTags(d, T) == DropTags(RepointSaved(d, T), T)

(* Live appearances that repeat another one of their recording, or have no *)
(* name, go with the renditions A they were read from.  Of those that      *)
(* repeat each other the first stays, and one that is not read from A does.*)
AbsorbFiles(d, A) ==
  LET R == {d.files[f].rec : f \in A}
      absorbed == {t \in LiveTags(d, R) :
                     d.tags[t].origin \in FilesOf(d, {d.tags[t].rec}) \cap A}
      Repeats(t, u) == d.tags[u].key = d.tags[t].key /\ (u \in absorbed => u < t)
      drop == {t \in absorbed : \/ d.tags[t].key = Nameless
                                \/ \E u \in LiveTags(d, {d.tags[t].rec}) : Repeats(t, u)}
  IN ReapOn(EditFiles(DedupTags(d, drop), A, TrashRow), R)

AbsorbRenditions(d, r, keep, A) ==
  IF keep \in A \/ A = {} \/ ~(A \cup {keep} \subseteq LiveFiles(d, {r})) THEN d
  ELSE AbsorbFiles(d, A)

(* The best live rendition of each recording keeps its place.              *)
BulkAbsorbKeepBest(d, R) ==
  AbsorbFiles(d, UNION {L \ {Best(d, L)} : L \in {LiveFiles(d, {r}) : r \in R} \ {{}}})

(* Mutant: the target's trashed and pending appearances claim their keys.  *)
MergeRecordingsByAnyKey(d, target, S) ==
  LET claims == TagsOf(d, {target})
      drop == {t \in LiveTags(d, S) : \E u \in claims : d.tags[u].key = d.tags[t].key}
      deduped == DedupTags(d, drop)
      moved == MoveFiles(MoveTags(deduped, TagsOf(deduped, S), target),
                         FilesOf(d, S), target, TRUE)
  IN IF target \in S \/ S = {} \/ ~(S \cup {target} \subseteq d.recs) THEN d
     ELSE ReapOn([moved EXCEPT !.recs = @ \ S], {target})

(* The sources are folded into the target in the order of their ids: of    *)
(* the live appearances that repeat a key the target's stays, then that of *)
(* the oldest source; nameless ones go.  What is pending or in Trash moves *)
(* along, and renditions move pinned.                                      *)
MergeRecordings(d, target, S) ==
  LET kept == LiveTags(d, {target})
      merged == LiveTags(d, S)
      Before(u, t) == \/ d.tags[u].rec < d.tags[t].rec
                      \/ d.tags[u].rec = d.tags[t].rec /\ u < t
      Repeats(t, u) == d.tags[u].key = d.tags[t].key /\ (u \in merged => Before(u, t))
      drop == {t \in merged : \/ d.tags[t].key = Nameless
                              \/ \E u \in kept \cup merged : Repeats(t, u)}
      deduped == DedupTags(d, drop)
      moved == MoveFiles(MoveTags(deduped, TagsOf(deduped, S), target),
                         FilesOf(d, S), target, TRUE)
  IN IF target \in S \/ S = {} \/ ~(S \cup {target} \subseteq d.recs) THEN d
     ELSE ReapOn([moved EXCEPT !.recs = @ \ S], {target})

(* Refused: the same recording, its last appearance, a key already there.  *)
MoveTagset(d, t, r) ==
  LET src == d.tags[t].rec
  IN IF r = src \/ Cardinality(TagsOf(d, {src})) <= 1 \/ SameKey(d, r, d.tags[t].key) # {}
     THEN d
     ELSE ReapOn(MoveTags(d, {t}, r), {src})

CreateAppearance(d, r, k) ==
  IF k = Nameless \/ SameKey(d, r, k) # {} THEN d
  ELSE AddTag(d, [rec |-> r, key |-> k, state |-> "approved", gone |-> FALSE,
                  origin |-> NoFile])

(* Split a live rendition off, with the appearances read from it, or a     *)
(* copy of one; refused when live appearances would be left without a file.*)
SplitRendition(d, f) ==
  LET old == d.files[f].rec
      r == NextId(d.recs)
      mine == {t \in DOMAIN d.tags : d.tags[t].origin = f}
      stranded == {t \in TagsOf(d, {old}) : Live(d.tags[t])} \ mine
      moved == MoveTags(MoveFiles(AddRec(d), {f}, r, TRUE), mine, r)
      left == TagsOf(moved, {old})
      live == {t \in left : Live(d.tags[t])}
      model == Min(IF live # {} THEN live ELSE left)
      named == IF mine # {} \/ left = {} THEN moved
               ELSE AddTag(moved, [d.tags[model] EXCEPT !.rec = r, !.gone = FALSE,
                                                        !.origin = f])
  IN IF d.files[f].gone \/ (FilesOf(d, {old}) = {f} /\ stranded # {})
     THEN d
     ELSE ReapOn(named, {old})

(* ResolveRecording's transaction, acting on the recordings `cur` and      *)
(* `best` it read before it began.  A foreign key error changes nothing.   *)
ResolveTx(d, f, cur, best) ==
  LET F == {f} \cap DOMAIN d.files
      mine == {t \in DOMAIN d.tags : f # NoFile /\ d.tags[t].origin = f}
      moved == MoveTags(MoveFiles(d, F, best, FALSE), mine, best)
      stranded == IF FilesOf(moved, {cur}) = {} THEN TagsOf(moved, {cur}) ELSE {}
      all == MoveTags(moved, stranded, best)
  IN IF best \notin d.recs /\ (F # {} \/ mine # {} \/ stranded # {})
     THEN d
     ELSE ReapOn(all, {cur})
=============================================================================
