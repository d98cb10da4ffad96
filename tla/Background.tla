----------------------------- MODULE Background -----------------------------
(***************************************************************************)
(* The background work of the program as a whole: ingest and covers side   *)
(* by side, each with its worker, and the process dying at any point.  A   *)
(* crash ends every request and every process; the start that follows      *)
(* repairs both components before it serves anything.                      *)
(***************************************************************************)
EXTENDS Ingest, Covers, TLC

CONSTANT MaxCrashes  \* bound: crashes of one behaviour

ASSUME BackgroundAssumption == MaxCrashes \in Nat

VARIABLES
  crashes,
  side   \* bound: which of the two a behaviour's requests are for; they share no state

vars == <<ingest, covers, ops, crashes, side>>

Init == /\ InitIngest /\ InitCovers /\ ops = 0 /\ crashes = 0
        /\ \/ side = "ingest"
           \/ side = "covers" /\ Live = {} /\ held = None /\ outside = Original

CrashAndRestart ==
  /\ crashes < MaxCrashes /\ crashes' = crashes + 1
  /\ RestartIngest /\ RestartCovers
  /\ UNCHANGED <<ops, side>>

Next == \/ side = "ingest" /\ IngestNext /\ UNCHANGED <<covers, crashes, side>>
        \/ side = "covers" /\ CoversNext /\ UNCHANGED <<ingest, crashes, side>>
        \/ CrashAndRestart

Spec == Init /\ [][Next]_vars

(* Every process of the program goes on while it can; nobody has to ask    *)
(* for anything, nothing outside has to happen, nothing has to crash.      *)
Fairness == /\ WF_slot(Scan) /\ WF_slot(Withdraw) /\ WF_up(Upload) /\ WF_sweep(ReclaimStorage)
            /\ WF_pr(Prune) /\ WF_wk(Work) /\ WF_writer(Writing) /\ WF_iw(Deriving)

FairSpec == Spec /\ Fairness

(* Rows, bytes, queues and processes have the shapes the code gives them.  *)
At == {"local", "links"}
Scanning == [pc : {"walk"}, src : Sources, left : SUBSET Paths, seen : SUBSET Hashes]
              \cup [pc : {"link", "insert"}, src : Sources, left : SUBSET Paths, seen : SUBSET Hashes,
                    hash : Hashes, path : Paths, row : Nat \cup {None}]
              \cup [pc : {"keep", "attribute", "enqueue"}, src : Sources, left : SUBSET Paths,
                    seen : SUBSET Hashes, row : Nat]
Removing == [pc : {"unlink"}, src : Sources, left : SUBSET Ref0]
              \cup [pc : {"delete"}, src : Sources, left : SUBSET Ref0, hash : Hashes]
Running == [pc : {"scan", "prune"}, deep : BOOLEAN, left : SUBSET Ref0, found : SUBSET Ref0, cut : BOOLEAN]
             \cup [pc : {"delete", "sweep"}, deep : BOOLEAN, left : SUBSET Ref0, cut : BOOLEAN,
                   ref : Ref0, gap : BOOLEAN]

Queue(q, K) == q \subseteq Job(K, Nat) /\ IsFiniteSet(q) /\ \A j, k \in q : j.id = k.id => j = k

FileTypes ==
  /\ db \in [src : [Sources -> {"none", "scanning", "active", "error"}],
             jobs : SUBSET Job(Nat, Nat), files : [Hashes -> File \cup {None}]]
  /\ disk \in [blob : [Hashes -> {"good", "bad", "none"}], link : [Hashes -> Paths \cup {None}]]
  /\ outside \in [Paths -> Hashes \cup {None}]

ProcessTypes ==
  /\ slot \in {Idle} \cup Scanning \cup Removing
  /\ client \in {Idle} \cup [pc : {"rescan", "remove"}, src : Sources]
                  \cup [pc : {"prune"}, deep : BOOLEAN, refs : SUBSET Ref0]
  /\ up \in {Idle} \cup [pc : {"put", "insert"}, hash : Hashes] \cup [pc : {"enqueue"}, row : Nat]
  /\ pr \in {Idle} \cup Running
  /\ held \in {None} \cup Held
  /\ sweep \in {Idle} \cup [pc : {"reclaim"}, hash : Hashes, at : At]
  /\ wk \in {Idle} \cup [pc : {"analyze"}, job : Nat, row : Nat, hash : Hashes]
              \cup [pc : {"store", "fail"}, job : Nat, row : Nat, fp : Hashes \cup {None}]

CoverTypes ==
  /\ albums \subseteq Albums
  /\ cover \in [Albums -> [img : Images, ready : BOOLEAN] \cup {NoCover}]
  /\ orig \cup derived \subseteq Images
  /\ writer \in [Writers -> {Idle} \cup [pc : {"write", "claim", "enqueue"}, album : Albums,
                                         img : Images, as : {"fill", "editor", "uploader"}]]
  /\ iw \in {Idle} \cup [pc : {"generate", "done", "fail"}, job : Nat, img : Images]

(* Two rows never share an id, though ids are used again, and a job is for *)
(* a row that is there.                                                    *)
RowsKeyed ==
  /\ \A h, g \in Live : db.files[h].id = db.files[g].id => h = g
  /\ \A j \in db.jobs : WithId(db, j.key) # {}

TypeOK == FileTypes /\ ProcessTypes /\ CoverTypes /\ Queue(db.jobs, Nat) /\ Queue(imgs, Images) /\ RowsKeyed

(***************************************************************************)
(* Sources.                                                                *)
(***************************************************************************)
(* A source says it is scanning only while the one slot is scanning it: no *)
(* page shows a scan that nobody runs, after a crash as little as after    *)
(* requests that overtook each other (ResetStaleScans, the slot).          *)
ScanningIsScanned ==
  \A s \in Sources : db.src[s] = "scanning" => slot # Idle /\ slot.src = s

(* When a scan ends, every import whose content it has read is attributed  *)
(* to its source, whoever linked it first and whatever was purged, pruned  *)
(* or uploaded meanwhile: so removing another source cannot take it away   *)
(* (ingestOne attributes on every path, the skip path included).           *)
ScanAttributesAll ==
  [][slot.pc = "walk" /\ slot' = Idle /\ Known(db, slot.src) /\ crashes' = crashes
      => \A h \in slot.seen \cap Live :
           db.files[h].at = "links" => slot.src \in db.files[h].by]_<<slot, crashes>>

(* Removing a source deletes nothing that another source references, and   *)
(* leaves behind no import that only it referenced.                        *)
RemovalIsExact ==
  [][/\ slot.pc = "delete" /\ slot.hash \in Live /\ db'.files[slot.hash] = None /\ slot' # slot
          => db.files[slot.hash].by \subseteq {slot.src}
     /\ slot.pc = "unlink" /\ slot' = Idle /\ crashes' = crashes
          => \A h \in Live : db.files[h].by = {slot.src} => db.files[h].at = "local"]_<<slot, crashes>>

(***************************************************************************)
(* Prune.                                                                  *)
(***************************************************************************)
(* A prune deletes the row that was reviewed only if its entry is damaged  *)
(* when it is deleted, unless something was put back after the check:      *)
(* whatever healed since the scan is left alone (PruneRefs checks again).  *)
HealedStays ==
  [][pr.pc = "delete" /\ pr'.pc = "sweep" /\ pr.ref.hash \in Live /\ pr.ref = Ref(pr.ref.hash) /\ ~pr.gap
      => Damaged(pr.ref, pr.deep)]_<<pr, crashes>>

(***************************************************************************)
(* Analysis.                                                               *)
(***************************************************************************)
Arriving == {p.row : p \in {q \in {slot, up} : q.pc \in {"attribute", "enqueue"}}}

(* No file is forgotten: a row without a fingerprint has had a job, or the *)
(* request that inserted it is about to enqueue one; what a crash cut off  *)
(* the next start finds.                                                   *)
NoneForgotten ==
  \A h \in Live : db.files[h].fp = None =>
    db.files[h].id \in Arriving \cup JobKeys(db.jobs)

(* A job is done, given up or dropped with its file in the end, however    *)
(* often the process dies with the job in a worker's hands.                *)
Ids == 1..Cardinality(Hashes) + MaxOps
JobsSettle == \A i \in Ids : (i \in ActiveKeys(db.jobs)) ~> (i \notin ActiveKeys(db.jobs))

(* The slot and the run come free again whatever happens to the source or  *)
(* to the rows meanwhile: nobody is refused as busy for ever.              *)
SlotsComeFree == []<>(slot = Idle) /\ []<>(pr = Idle)

(***************************************************************************)
(* Covers.                                                                 *)
(***************************************************************************)
(* A cover that is served has its variants on disk, through crashes and    *)
(* the sweeps of a start, unless a later attempt at the same image failed  *)
(* half way.                                                               *)
ReadyMeansDerived ==
  \A a \in Albums : cover[a] # NoCover /\ cover[a].ready =>
    \/ cover[a].img \in derived
    \/ \E j \in JobsOf(cover[a].img) : IsActive(j) \/ j.status = "failed"

(* Art that is filled in never takes the place of a cover that is there,   *)
(* of an editor's least of all, though the look came before the write.     *)
ExplicitBeatsFilled ==
  [][\A w \in Writers : writer[w].pc = "claim" /\ writer[w].as = "fill" /\ writer'[w].pc = "enqueue"
      => cover[writer[w].album] = NoCover]_<<writer>>

(* The image a cover needs is not swept away under it: until it is ready   *)
(* its original is on disk, and a start leaves it there.                   *)
OriginalsStay ==
  \A a \in Albums : cover[a] # NoCover => cover[a].img \in orig

(* A cover that is not ready becomes ready or is replaced, or a job for    *)
(* its image has come to an end.                                           *)
CoversSettle ==
  \A a \in Albums, i \in Images :
    (cover[a] = Cover(i, FALSE)) ~>
      (cover[a] # Cover(i, FALSE) \/ \E j \in JobsOf(i) : ~IsActive(j))

-----------------------------------------------------------------------------
(***************************************************************************)
(* Why: the inductive invariants.                                          *)
(***************************************************************************)
(* What a scan has read is attributed, but for the row it has in hand; the *)
(* link it is about to make is made by nobody else.                        *)
InHand(h) == \/ slot.pc = "link" /\ h = slot.hash /\ db.files[h].id = slot.row
             \/ slot.pc \in {"keep", "attribute"} /\ db.files[h].id = slot.row
SeenIsAttributed ==
  slot \in Scanning /\ Known(db, slot.src) =>
    \A h \in slot.seen \cap Live :
      db.files[h].at = "links" => slot.src \in db.files[h].by \/ InHand(h)
LinkIsFree == slot.pc = "link" => disk.link[slot.hash] = None

(* A removal lists what only its source references, as long as it runs.    *)
ListIsExact ==
  slot \in Removing =>
    /\ \A h \in Live : (\E ref \in slot.left : ref.hash = h)
                       => db.files[h].by \subseteq {slot.src}
    /\ slot.pc = "delete" /\ slot.hash \in Live => db.files[slot.hash].by \subseteq {slot.src}
    /\ \A h \in Live : db.files[h].at = "links" /\ db.files[h].by = {slot.src} =>
         \/ slot.pc = "delete" /\ slot.hash = h
         \/ \E ref \in slot.left : ref.hash = h /\ ref.at = "links"

(* What a prune has checked stays damaged until something is put back.     *)
CondemnedIsDamaged == pr.pc = "delete" /\ ~pr.gap => Damaged(pr.ref, pr.deep)

(* The worker has a running job; what it has derived is there; what a      *)
(* request is about to name has its original.                              *)
WorkerHasJob ==
  /\ iw # Idle => \E j \in imgs : j.id = iw.job /\ j.key = iw.img /\ j.status = "running"
  /\ iw.pc = "done" => iw.img \in derived
  /\ \A w \in Writers : writer[w].pc \in {"claim", "enqueue"} => writer[w].img \in orig

FilesInv == FileTypes /\ ProcessTypes /\ Queue(db.jobs, Nat) /\ RowsKeyed /\ ScanningIsScanned
              /\ NoneForgotten /\ SeenIsAttributed /\ LinkIsFree /\ ListIsExact /\ CondemnedIsDamaged
CoversInv == CoverTypes /\ Queue(imgs, Images) /\ WorkerHasJob /\ ReadyMeansDerived /\ OriginalsStay

-----------------------------------------------------------------------------
(* No file and no source is left behind by a scan, a crash or a purge.     *)
FilesAreKept == TypeOK /\ ScanningIsScanned /\ NoneForgotten

(* No cover loses its image, before it is ready or after.                  *)
CoversAreKept == ReadyMeansDerived /\ OriginalsStay

(* A step acts on what is there, not on what was there when it was asked   *)
(* for: scans, removals, prune runs and covers that are filled in.         *)
StepsAreCurrent == ScanAttributesAll /\ RemovalIsExact /\ HealedStays /\ ExplicitBeatsFilled

(* Everything that was begun comes to an end.                              *)
AllSettles == JobsSettle /\ SlotsComeFree /\ CoversSettle
=============================================================================
