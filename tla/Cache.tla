-------------------------------- MODULE Cache -------------------------------
(***************************************************************************)
(* The download cache: a directory of blobs and the index that describes   *)
(* it.  The directory is the truth; the index is what the ceiling and the  *)
(* age rule go by.  Fetches land in the directory and are indexed later,   *)
(* reads move a blob's clock, and everything that tidies up looks at one   *)
(* of the two, then changes the other, several of them at once:            *)
(*   sweep    the retention rules: age first, then the ceiling             *)
(*   forget   the summary's pass over rows whose file is gone              *)
(*   page     the same for the rows of one page, each looked at            *)
(*   rescan   index and directory made to agree on demand                  *)
(*   unlink   a removal, or a blob the library has taken over              *)
(* Blobs are of one size.                                                  *)
(***************************************************************************)
EXTENDS Integers, FiniteSets

CONSTANTS
  Blobs, NoRow,
  Keepers,   \* the tidying runs that may be under way at once
  Ceiling,   \* cache ceiling, in blobs; 0 is off
  MaxAge,    \* age rule, in ticks of cacheTouchInterval; 0 is off
  MaxTick,   \* bound on the clock
  MaxAsks    \* bound: requests and outside events of one behaviour

ASSUME CacheAssumption == /\ {Ceiling, MaxAge, MaxTick, MaxAsks} \subseteq Nat
                          /\ NoRow \notin Nat

VARIABLES
  dir,      \* the blobs in the directory
  lib,      \* the blobs the library holds
  row,      \* each blob's last-used clock in the index
  fetching, \* the blobs being fetched
  indexer,  \* what is left to do for a blob that has landed
  touched,  \* cacheTouches: when each clock was last written
  writing,  \* the clock writes under way
  keeper, tick, asks,
  asked,    \* history: the last read that was to move a row's clock
  raced     \* history: blobs that landed after a keeper had seen them missing

cache == <<dir, lib, row, fetching, indexer, touched, writing, keeper, tick, asks, asked, raced>>

Rowed == {h \in Blobs : row[h] # NoRow}
NoRows == [h \in Blobs |-> NoRow]
Resting == [pc |-> "idle", does |-> "rest", seen |-> {}, list |-> NoRows, left |-> {}, over |-> 0, at |-> NoRow]
NotDue == [pc |-> "no", at |-> 0]

Ask == asks < MaxAsks /\ asks' = asks + 1

(* A row that goes takes the history of its clock with it. *)
DropRows(S) == /\ row' = [h \in Blobs |-> IF h \in S THEN NoRow ELSE row[h]]
               /\ asked' = [h \in Blobs |-> IF h \in S THEN NoRow ELSE asked[h]]

(***************************************************************************)
(* Asking for a blob (ensureBlob): what is here is complete, what is being *)
(* fetched is joined, anything else starts a fetch; and the clock of the   *)
(* blob is moved, at most once a tick, by a write that may come later.     *)
(***************************************************************************)
Throttled(h) == touched[h] = tick

TouchCache(h) ==
  IF Throttled(h) THEN UNCHANGED <<touched, writing>>
  ELSE /\ touched' = [touched EXCEPT ![h] = tick]
       /\ writing' = writing \cup {<<h, tick>>}

EnsureBlob(h) ==
  /\ Ask
  /\ fetching' = IF h \in lib \cup dir THEN fetching ELSE fetching \cup {h}
  /\ TouchCache(h)
  /\ asked' = IF h \in Rowed /\ ~Throttled(h) THEN [asked EXCEPT ![h] = tick] ELSE asked
  /\ UNCHANGED <<dir, lib, row, indexer, keeper, tick, raced>>

(* TouchMadnetworkCache: the clock never goes back, and no row is made.    *)
(* Mutant: the write that comes last wins, though the read it is for came  *)
(* before another.                                                         *)
Written(h, at) == row[h] # at
Later(h, at) == row[h] < at
TouchWrite(h, at) ==
  /\ <<h, at>> \in writing /\ writing' = writing \ {<<h, at>>}
  /\ row' = IF h \in Rowed /\ Later(h, at) THEN [row EXCEPT ![h] = at] ELSE row
  /\ UNCHANGED <<dir, lib, fetching, indexer, touched, keeper, tick, asks, asked, raced>>

(***************************************************************************)
(* Landing.  The file gets its name, and the goroutine that waits for the  *)
(* fetch describes it and writes its row: one goroutine stands for all of  *)
(* those that waited.  A row that is there keeps its clock.                *)
(***************************************************************************)
(* The blobs whose row a keeper is about to drop without another look.     *)
Condemned(k) ==
  CASE k.pc = "read"                    -> Blobs \ k.seen
    [] k.pc \in {"forget", "rescan"}    -> k.left
    [] k.pc \in {"gone", "evicted"}     -> {k.at}
    [] OTHER                            -> {}

Land(h) ==
  /\ h \in fetching /\ indexer[h] = NotDue
  /\ fetching' = fetching \ {h}
  /\ dir' = dir \cup {h}
  /\ indexer' = [indexer EXCEPT ![h].pc = "look"]
  /\ raced' = IF \E k \in Keepers : h \in Condemned(keeper[k]) THEN raced \cup {h} ELSE raced
  /\ UNCHANGED <<lib, row, touched, writing, keeper, tick, asks, asked>>

Fail(h) ==
  /\ h \in fetching /\ fetching' = fetching \ {h}
  /\ UNCHANGED <<dir, lib, row, indexer, touched, writing, keeper, tick, asks, asked, raced>>

IndexLook(h) ==
  /\ indexer[h].pc = "look"
  /\ indexer' = [indexer EXCEPT ![h] = IF h \in dir THEN [pc |-> "put", at |-> tick] ELSE NotDue]
  /\ UNCHANGED <<dir, lib, row, fetching, touched, writing, keeper, tick, asks, asked, raced>>

IndexPut(h) ==
  /\ indexer[h].pc = "put" /\ indexer' = [indexer EXCEPT ![h] = NotDue]
  /\ row' = IF h \in Rowed THEN row ELSE [row EXCEPT ![h] = indexer[h].at]
  /\ UNCHANGED <<dir, lib, fetching, touched, writing, keeper, tick, asks, asked, raced>>

(***************************************************************************)
(* The keepers.  seen is what a run read first: the blobs being fetched,   *)
(* for a sweep, or those in the directory.                                 *)
(***************************************************************************)
With(run, state) == [f \in DOMAIN run |-> IF f \in DOMAIN state THEN state[f] ELSE run[f]]
Begin(k, state) == keeper[k] = Resting /\ Ask /\ keeper' = [keeper EXCEPT ![k] = With(Resting, state)]
Go(k, state) == keeper' = [keeper EXCEPT ![k] = With(@, state)]
End(k) == keeper' = [keeper EXCEPT ![k] = Resting]
At(k, pc) == keeper[k].pc = pc
Left(k) == keeper[k].left
Others == UNCHANGED <<lib, fetching, indexer, writing, tick, raced>>
Looks == Others /\ UNCHANGED <<dir, row, touched, asked>>
Indexes == Others /\ UNCHANGED <<dir, asks>>

(* sweepCache: what is being fetched is read first and never touched.      *)
Sweep(k) == Begin(k, [pc |-> "age", does |-> "age", seen |-> fetching]) /\ Looks

(* SweepCacheAge lists the rows once.                                      *)
Stale(h) == MaxAge > 0 /\ row[h] < tick - MaxAge
SweepCacheAge(k) ==
  /\ At(k, "age") /\ Looks /\ UNCHANGED asks
  /\ Go(k, [pc |-> "evict", list |-> row, left |-> {h \in Rowed : Stale(h)}, over |-> Cardinality(Rowed)])

(* SweepCacheCeiling: how much is over, then the rows; the timer has read  *)
(* what is being fetched once more, the settings page has not.             *)
Over == IF Ceiling > 0 THEN Cardinality(Rowed) - Ceiling ELSE 0
Measure(k) ==
  /\ At(k, "measure") /\ Looks /\ UNCHANGED asks
  /\ IF Over <= 0 THEN End(k)
     ELSE \E live \in {keeper[k].seen, fetching} :
            Go(k, [pc |-> "ceiling", does |-> "ceiling", seen |-> live, over |-> Over])
SweepCacheCeiling(k) ==
  /\ At(k, "ceiling") /\ Looks /\ UNCHANGED asks
  /\ Go(k, [pc |-> "evict", list |-> row, left |-> Rowed])

(* evictCacheEntry: the file first, then the row; coldest first.           *)
Coldest(k) == {h \in Left(k) : \A g \in Left(k) : keeper[k].list[h] <= keeper[k].list[g]}
Enough(k) == Left(k) = {} \/ keeper[k].over <= 0
EvictFile(k, h) ==
  /\ At(k, "evict") /\ ~Enough(k) /\ h \in Coldest(k)
  /\ IF h \in keeper[k].seen
     THEN Go(k, [left |-> Left(k) \ {h}]) /\ UNCHANGED dir
     ELSE /\ dir' = dir \ {h}
          /\ Go(k, [pc |-> "evicted", at |-> h, left |-> Left(k) \ {h}, over |-> keeper[k].over - 1])
  /\ Others /\ UNCHANGED <<row, touched, asked, asks>>
EvictRow(k) ==
  /\ At(k, "evicted") /\ DropRows({keeper[k].at}) /\ Go(k, [pc |-> "evict", at |-> NoRow])
  /\ Indexes /\ UNCHANGED touched
EvictEnd(k) ==
  /\ At(k, "evict") /\ Enough(k)
  /\ IF keeper[k].does = "age" THEN Go(k, [pc |-> "measure", list |-> NoRows, left |-> {}, over |-> 0]) ELSE End(k)
  /\ Looks /\ UNCHANGED asks

(* DropMissingMadnetworkCacheRows and ReconcileMadnetworkCache read the    *)
(* directory, then the index.                                              *)
ReadDir(k, does) == Begin(k, [pc |-> "read", does |-> does, seen |-> dir]) /\ Looks
ReadIndex(k) ==
  /\ At(k, "read") /\ Looks /\ UNCHANGED asks
  /\ Go(k, [pc |-> keeper[k].does, list |-> row, left |-> Rowed \ keeper[k].seen])

Forget(k, h) ==
  /\ At(k, "forget") /\ h \in Left(k)
  /\ DropRows({h}) /\ Go(k, [left |-> Left(k) \ {h}])
  /\ Indexes /\ UNCHANGED touched

(* The transaction fails as a whole when a blob to adopt has got its row   *)
(* meanwhile.  An adopted row's clock is what the file's time says.        *)
Adopted(k) == {h \in keeper[k].seen \cap dir : keeper[k].list[h] = NoRow}
Reconcile(k) ==
  /\ At(k, "rescan") /\ End(k)
  /\ IF Adopted(k) \cap Rowed # {} THEN UNCHANGED <<row, asked>>
     ELSE \E at \in 0..tick :
            /\ row' = [h \in Blobs |-> IF h \in Adopted(k) THEN at
                                       ELSE IF h \in Left(k) THEN NoRow ELSE row[h]]
            /\ asked' = [h \in Blobs |-> IF h \in Left(k) THEN NoRow ELSE asked[h]]
  /\ Indexes /\ UNCHANGED touched

(* forgetVanished looks at each file of a page before it drops its row,    *)
(* and so does a play of one blob.                                         *)
Page(k, S) == Begin(k, [pc |-> "page", does |-> "page", left |-> S]) /\ Looks
Stat(k, h) ==
  /\ At(k, "page") /\ h \in Left(k) /\ Looks /\ UNCHANGED asks
  /\ IF h \in dir THEN Go(k, [left |-> Left(k) \ {h}])
     ELSE Go(k, [pc |-> "gone", at |-> h, left |-> Left(k) \ {h}])

(* removeCached, evictCached: the file, then the row and its throttle.     *)
RemoveCached(k, S) == Begin(k, [pc |-> "unlink", does |-> "unlink", left |-> S]) /\ Looks
Materialize(k, h) ==
  /\ h \in dir /\ Begin(k, [pc |-> "unlink", does |-> "unlink", left |-> {h}])
  /\ lib' = lib \cup {h}
  /\ UNCHANGED <<dir, row, fetching, indexer, touched, writing, tick, asked, raced>>
Unlink(k, h) ==
  /\ At(k, "unlink") /\ h \in Left(k)
  /\ dir' = dir \ {h}
  /\ Go(k, [pc |-> "gone", at |-> h, left |-> Left(k) \ {h}])
  /\ Others /\ UNCHANGED <<row, touched, asked, asks>>

DropCacheIndex(k) ==
  /\ At(k, "gone")
  /\ DropRows({keeper[k].at}) /\ touched' = [touched EXCEPT ![keeper[k].at] = NoRow]
  /\ Go(k, [pc |-> keeper[k].does, at |-> NoRow])
  /\ Indexes

Done(k) ==
  /\ keeper[k].pc \in {"forget", "page", "unlink"} /\ Left(k) = {} /\ End(k)
  /\ Looks /\ UNCHANGED asks

-----------------------------------------------------------------------------
(* What happens outside: the library takes in or purges a blob, somebody   *)
(* deletes a file, time passes.                                            *)
LibraryChanges(h) ==
  /\ Ask /\ lib' = IF h \in lib THEN lib \ {h} ELSE lib \cup {h}
  /\ UNCHANGED <<dir, row, fetching, indexer, touched, writing, keeper, tick, asked, raced>>
RemovedByHand(h) ==
  /\ Ask /\ h \in dir /\ dir' = dir \ {h}
  /\ UNCHANGED <<lib, row, fetching, indexer, touched, writing, keeper, tick, asked, raced>>
Tick ==
  /\ tick < MaxTick /\ tick' = tick + 1
  /\ UNCHANGED <<dir, lib, row, fetching, indexer, touched, writing, keeper, asks, asked, raced>>

(* A start: what the library holds is evicted, then the index is made to   *)
(* agree with the directory.                                               *)
EvictedAtStart == dir \ lib
ReconciledAtStart(d, at) == [h \in Blobs |-> IF h \notin d THEN NoRow ELSE IF h \in Rowed THEN row[h] ELSE at]
RestartCache ==
  /\ dir' = EvictedAtStart
  /\ \E at \in 0..tick : row' = ReconciledAtStart(dir', at)
  /\ asked' = [h \in Blobs |-> IF h \in dir' /\ \A w \in writing : w[1] # h THEN asked[h] ELSE NoRow]
  /\ fetching' = {} /\ indexer' = [h \in Blobs |-> NotDue] /\ touched' = NoRows /\ writing' = {}
  /\ keeper' = [k \in Keepers |-> Resting] /\ raced' = {}
  /\ UNCHANGED <<lib, tick, asks>>

InitCache ==
  /\ dir = {} /\ lib = {} /\ row = NoRows /\ asked = NoRows
  /\ fetching = {} /\ indexer = [h \in Blobs |-> NotDue] /\ touched = NoRows /\ writing = {}
  /\ keeper = [k \in Keepers |-> Resting] /\ tick = 0 /\ asks = 0 /\ raced = {}

Keep(k) ==
  \/ Sweep(k) \/ SweepCacheAge(k) \/ Measure(k) \/ SweepCacheCeiling(k) \/ EvictRow(k) \/ EvictEnd(k)
  \/ \E does \in {"forget", "rescan"} : ReadDir(k, does)
  \/ ReadIndex(k) \/ Reconcile(k) \/ DropCacheIndex(k) \/ Done(k)
  \/ \E S \in {Rowed} \cup {{h} : h \in Blobs} : Page(k, S) \/ RemoveCached(k, S)
  \/ \E h \in Blobs : EvictFile(k, h) \/ Forget(k, h) \/ Stat(k, h) \/ Materialize(k, h) \/ Unlink(k, h)

CacheNext ==
  \/ Tick
  \/ \E h \in Blobs : \/ EnsureBlob(h) \/ Land(h) \/ Fail(h) \/ IndexLook(h) \/ IndexPut(h)
                      \/ LibraryChanges(h) \/ RemovedByHand(h)
  \/ \E w \in writing : TouchWrite(w[1], w[2])
  \/ \E k \in Keepers : Keep(k)
=============================================================================
