------------------------------- MODULE Covers -------------------------------
(***************************************************************************)
(* Album covers.  A cover is a source original on disk, a row naming it    *)
(* (ready once its variants are) and a job that derives the variants.  An  *)
(* administrator sets a cover and replaces what is there; an upload, a     *)
(* scan or a mesh download fills in a cover where there is none.  The      *)
(* three are written one after the other by several requests at once, and  *)
(* any of them can be the last thing that happens before the process dies. *)
(***************************************************************************)
EXTENDS Jobs

CONSTANTS
  Albums, Images,
  Undecodable,  \* the images no variant can be derived from
  Writers,      \* the requests that may be writing a cover at once
  NoCover

ASSUME CoversAssumption == /\ Undecodable \subseteq Images /\ IsFiniteSet(Images)
                           /\ NoCover \notin [img : Images, ready : BOOLEAN]

VARIABLES
  albums,   \* the albums there are
  cover,    \* the cover row of each
  imgs,     \* the image jobs
  orig,     \* the images whose original is on disk
  derived,  \* the images whose variants are
  writer,   \* the cover each request is writing
  iw        \* the image worker

covers == <<albums, cover, imgs, orig, derived, writer, iw>>

Cover(i, r) == [img |-> i, ready |-> r]
JobsOf(i) == {j \in imgs : j.key = i}

(***************************************************************************)
(* Writing a cover: the original first, then the row, then the job.        *)
(***************************************************************************)
Write(w, a, i, as) ==
  writer' = [writer EXCEPT ![w] = [pc |-> "write", album |-> a, img |-> i, as |-> as]]
Stop(w) == writer' = [writer EXCEPT ![w] = Idle]
Step(w, pc) == writer' = [writer EXCEPT ![w].pc = pc]

(* An editor replaces; who may only upload is refused if there is a cover, *)
(* which is looked at here and not again.                                  *)
UploadAlbumImage(w, a, i, as) ==
  /\ writer[w] = Idle /\ a \in albums /\ Spend
  /\ as = "uploader" => cover[a] = NoCover
  /\ Write(w, a, i, as)
  /\ UNCHANGED <<albums, cover, imgs, orig, derived, iw>>

(* HasAlbumCover is looked at first, and again when the row is claimed.    *)
FillCover(w, a, i) ==
  /\ writer[w] = Idle /\ a \in albums /\ cover[a] = NoCover /\ Spend
  /\ Write(w, a, i, "fill")
  /\ UNCHANGED <<albums, cover, imgs, orig, derived, iw>>

WriteOriginal(w) ==
  /\ writer[w].pc = "write"
  /\ orig' = orig \cup {writer[w].img}
  /\ Step(w, "claim")
  /\ UNCHANGED <<albums, cover, imgs, derived, iw, ops>>

Claims(w) == /\ writer[w].album \in albums
             /\ writer[w].as = "fill" => cover[writer[w].album] = NoCover

ClaimRow(w) ==
  /\ writer[w].pc = "claim"
  /\ IF Claims(w)
     THEN cover' = [cover EXCEPT ![writer[w].album] = Cover(writer[w].img, FALSE)] /\ Step(w, "enqueue")
     ELSE Stop(w) /\ UNCHANGED cover
  /\ UNCHANGED <<albums, imgs, orig, derived, iw, ops>>

EnqueueImageJob(w) ==
  /\ writer[w].pc = "enqueue"
  /\ imgs' = Enqueue(imgs, writer[w].img)
  /\ Stop(w)
  /\ UNCHANGED <<albums, cover, orig, derived, iw, ops>>

(* A merged album's cover goes to the album it is merged into, if that one *)
(* has none.                                                               *)
MergeAlbums(a, b) ==
  /\ a # b /\ {a, b} \subseteq albums /\ Spend
  /\ albums' = albums \ {a}
  /\ cover' = [cover EXCEPT ![a] = NoCover, ![b] = IF @ = NoCover THEN cover[a] ELSE @]
  /\ UNCHANGED <<imgs, orig, derived, writer, iw>>

(***************************************************************************)
(* The image worker.  An attempt that fails half way removes the variants  *)
(* it wrote, whoever else was using the files of those names.              *)
(***************************************************************************)
ClaimImageJob ==
  /\ iw = Idle /\ Pending(imgs) # {}
  /\ iw' = [pc |-> "generate", job |-> Claimed(imgs).id, img |-> Claimed(imgs).key]
  /\ imgs' = Claim(imgs)
  /\ UNCHANGED <<albums, cover, orig, derived, writer, ops>>

Generate ==
  /\ iw.pc = "generate"
  /\ LET can == iw.img \in orig \ Undecodable IN
       \/ can /\ derived' = derived \cup {iw.img} /\ iw' = [iw EXCEPT !.pc = "done"] /\ UNCHANGED ops
       \/ can /\ Spend /\ derived' = derived \ {iw.img} /\ iw' = [iw EXCEPT !.pc = "fail"]
       \/ ~can /\ iw' = [iw EXCEPT !.pc = "fail"] /\ UNCHANGED <<derived, ops>>
  /\ UNCHANGED <<albums, cover, imgs, orig, writer>>

FinishImageJob ==
  /\ iw.pc \in {"done", "fail"}
  /\ imgs' = IF iw.pc = "done" THEN FinishDone(imgs, iw.job) ELSE FinishFailed(imgs, iw.job)
  /\ cover' = IF iw.pc = "fail" THEN cover
              ELSE [a \in Albums |-> IF cover[a] # NoCover /\ cover[a].img = iw.img
                                     THEN Cover(iw.img, TRUE) ELSE cover[a]]
  /\ iw' = Idle
  /\ UNCHANGED <<albums, orig, derived, writer, ops>>

(***************************************************************************)
(* A start.  Image directories that no cover row names and no active job   *)
(* is for are removed from both trees; then a cover that is not ready and  *)
(* whose image never had a job gets one.                                   *)
(***************************************************************************)
(* Mutant: only the images somebody is working on are spared.              *)
OnlyWorkedOn(c, q) == ActiveKeys(q)
Covered(c) == {c[a].img : a \in {b \in Albums : c[b] # NoCover}}
Referenced(c, q) == Covered(c) \cup ActiveKeys(q)

Stuck(c) == {c[a].img : a \in {b \in Albums : c[b] # NoCover /\ ~c[b].ready}}
RequeueStuckImageJobs(c, q) == EnqueueAll(q, Stuck(c) \ JobKeys(q))

RestartCovers ==
  LET q == ResetStale(imgs) IN
  /\ imgs' = RequeueStuckImageJobs(cover, q)
  /\ orig' = orig \cap Referenced(cover, q)
  /\ derived' = derived \cap Referenced(cover, q)
  /\ writer' = [w \in Writers |-> Idle] /\ iw' = Idle
  /\ UNCHANGED <<albums, cover>>

Writing == \E w \in Writers : WriteOriginal(w) \/ ClaimRow(w) \/ EnqueueImageJob(w)
Deriving == ClaimImageJob \/ Generate \/ FinishImageJob
CoverRequest ==
  \/ \E w \in Writers, a \in Albums, i \in Images :
       FillCover(w, a, i) \/ \E as \in {"editor", "uploader"} : UploadAlbumImage(w, a, i, as)
  \/ \E a, b \in Albums : MergeAlbums(a, b)
CoversNext == Writing \/ Deriving \/ CoverRequest

InitCovers ==
  /\ albums = Albums /\ cover = [a \in Albums |-> NoCover] /\ imgs = {}
  /\ orig = {} /\ derived = {} /\ writer = [w \in Writers |-> Idle] /\ iw = Idle
=============================================================================
