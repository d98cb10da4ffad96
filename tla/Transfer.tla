------------------------------ MODULE Transfer ------------------------------
(***************************************************************************)
(* The fetches of one blob and everybody who follows them:                  *)
(* federation/transfer.go, the partial serving of federation/swarm.go, the  *)
(* relay of api/madnetwork_transfer_handlers.go and the reaping of          *)
(* database/madnetwork_cache.go.                                            *)
(*                                                                         *)
(* Bytes are counted in chunks.  A file is an inode holding a sequence of   *)
(* chunks, each "good", "bad" or a "hole" (the zeros Truncate pre-sizes     *)
(* with); names are pointers to inodes, so a descriptor survives a rename   *)
(* or an unlink as it does in POSIX.  How a swarm schedules its chunks is   *)
(* ChunkPlan; here they land and are published as ChunkDelivery promises.   *)
(***************************************************************************)
EXTENDS Integers, Sequences, FiniteSets

CONSTANTS
  Size,        \* the blob's true length in chunks
  Advertised,  \* the length its catalog row claims, 0 if unknown
  Manifests,   \* what fetchAgreedManifest may return: NoManifest or a claim
  Offers,      \* per holder in order, what it may send as the whole file
  Fetches,     \* identities of fetches, started in turn (bounds their number)
  Readers,     \* relays following a fetch (copyTransfer)
  Peers,       \* mesh requests answered out of a partial
  Events,      \* what else may happen: "abandon", "evict", "reap", "crash", "disk"
  NoManifest, None

Claims == [size : Nat \ {0}, good : BOOLEAN, quorum : BOOLEAN]

ASSUME TransferAssumption ==
  /\ Size \in Nat \ {0} /\ Advertised \in Nat
  /\ NoManifest \notin Claims /\ Manifests \subseteq Claims \cup {NoManifest}
  /\ Offers \in Seq(SUBSET [size : Nat \ {0}, good : BOOLEAN])
  /\ IsFiniteSet(Fetches) /\ Fetches # {} /\ None \notin Fetches \cup Nat
  /\ Events \subseteq {"abandon", "evict", "reap", "crash", "disk"}

VARIABLES
  fetch,   \* each transfer object and where its runTransfer goroutine is
  live,    \* n.transfers[hash]
  data,    \* the contents of every inode created so far
  part,    \* the inode named <hash>.part
  cache,   \* the inode named <hash>
  reader,  \* each relay
  peer,    \* each partial answer
  reaper   \* the reap handler and the live set it was called with

vars == <<fetch, live, data, part, cache, reader, peer, reaper>>
diskVars == <<data, part, cache>>

Blob == [i \in 1 .. Size |-> "good"]
Holes(n) == [i \in 1 .. n |-> "hole"]
Byte(man) == IF man.good THEN "good" ELSE "bad"

Unstarted ==
  [phase |-> "idle", turn |-> 1, from |-> NoManifest, fd |-> None, size |-> 0, progress |-> 0,
   chunked |-> FALSE, chunkOK |-> {}, withheld |-> FALSE, finished |-> FALSE, failed |-> FALSE,
   cancelled |-> FALSE, spec |-> "none", received |-> 0, wasted |-> -1]

Init ==
  /\ fetch = [f \in Fetches |-> Unstarted] /\ live = None
  /\ data = <<>> /\ part = None /\ cache = None
  /\ reader = [r \in Readers |-> [pc |-> "ask", of |-> None, off |-> 0, total |-> 0,
                                  fd |-> None, got |-> <<>>]]
  /\ peer = [q \in Peers |-> [pc |-> "idle", at |-> 0, sent |-> <<>>]]
  /\ reaper = "idle"

With(record, changes) ==
  [k \in DOMAIN record |-> IF k \in DOMAIN changes THEN changes[k] ELSE record[k]]

Set(f, changes) == fetch' = [fetch EXCEPT ![f] = With(@, changes)]
Go(f, where)    == Set(f, [phase |-> where])

\* os.OpenFile(partPath, O_CREATE|O_TRUNC), then Truncate(n).
PartFile == IF part = None THEN Len(data) + 1 ELSE part

OpenPart(n) ==
  /\ data' = IF part = None THEN Append(data, Holes(n)) ELSE [data EXCEPT ![part] = Holes(n)]
  /\ part' = PartFile
  /\ UNCHANGED cache

\* availLocked: how many chunks are readable from off on.
Avail(f, off) ==
  LET t == fetch[f]
      run == {n \in 1 .. Size : off .. off + n - 1 \subseteq t.chunkOK}
  IN  IF t.finished /\ ~t.failed THEN t.size - off
      ELSE IF t.withheld THEN 0
      ELSE IF t.chunked THEN Cardinality(run)
      ELSE t.progress - off

CompleteByExtent(f) ==
  LET t == fetch[f] IN IF t.finished /\ t.failed THEN {} ELSE 0 .. t.size - 1

\* CompleteRanges, as the set of chunks in them.
Complete(f) ==
  LET t == fetch[f]
  IN  IF t.finished THEN IF t.failed THEN {} ELSE 0 .. t.size - 1
      ELSE IF t.chunked THEN t.chunkOK ELSE {}

------------------------------------------------------------------------------
(* The fetching goroutine: runTransfer and runWhole *)

others == <<live, reader, peer, reaper>>

\* resetProgress, on the way to phase and to the holder whose turn it is.
Restart(f, phase, turn) ==
  Set(f, [progress |-> 0, chunked |-> FALSE, chunkOK |-> {}, phase |-> phase, turn |-> turn])

\* A sole manifest contradicting the advertised size costs the fetch its
\* streaming and the swarm; a quorum outranks the advertisement.
GetManifest(f) ==
  /\ fetch[f].phase = "manifest"
  /\ \E man \in Manifests :
       IF man = NoManifest \/ fetch[f].cancelled THEN Go(f, "whole")
       ELSE IF ~man.quorum /\ Advertised > 0 /\ man.size # Advertised
       THEN Set(f, [phase |-> "whole", withheld |-> TRUE])
       ELSE Set(f, [phase |-> "open", from |-> man, size |-> man.size])
  /\ UNCHANGED <<diskVars, others>>

OpenSwarm(f) ==
  /\ fetch[f].phase = "open"
  /\ OpenPart(fetch[f].size)
  /\ Set(f, [phase |-> "swarm", fd |-> PartFile, chunked |-> TRUE, chunkOK |-> {}])
  /\ UNCHANGED others

Landed(f) == {c \in 0 .. fetch[f].from.size - 1 : data[fetch[f].fd][c + 1] # "hole"}

\* A chunk that matches the manifest is written at its offset.  The speculative
\* fetch may stand for the first one; its bytes are credited already.
Land(f, c) ==
  LET t == fetch[f]
  IN  /\ t.phase = "swarm" /\ c \notin Landed(f) /\ ~t.cancelled
      /\ data' = [data EXCEPT ![t.fd][c + 1] = Byte(t.from)]
      /\ \/ Set(f, [received |-> t.received + 1])
         \/ c = 0 /\ t.spec = "landed" /\ Set(f, [spec |-> "used"])
      /\ UNCHANGED <<part, cache, others>>

\* chunkDone: the mark is a watermark computed when some chunk landed.
Publish(f, c) ==
  LET t == fetch[f]
      m == CHOOSE m \in 0 .. t.size : 0 .. m - 1 \subseteq Landed(f) /\ m \notin Landed(f)
  IN  /\ t.phase = "swarm" /\ c \in Landed(f) \ t.chunkOK
      /\ Set(f, [chunkOK |-> t.chunkOK \cup {c}, progress |-> IF m > t.progress THEN m ELSE t.progress])
      /\ UNCHANGED <<diskVars, others>>

SwarmEnds(f) ==
  /\ fetch[f].phase = "swarm"
  /\ \/ Go(f, "reset")
     \/ fetch[f].chunkOK = 0 .. fetch[f].size - 1 /\ Go(f, "verify")
  /\ UNCHANGED <<diskVars, others>>

\* verifyFileHash
Verify(f) ==
  /\ fetch[f].phase = "verify"
  /\ Go(f, IF part # None /\ data[part] = Blob THEN "rename" ELSE "reset")
  /\ UNCHANGED <<diskVars, others>>

DiscardByUnlinking(f) ==
  /\ fetch[f].phase = "reset"
  /\ Restart(f, "whole", fetch[f].turn)
  /\ part' = None
  /\ UNCHANGED <<data, cache, others>>

\* discardPartial: readers are held first, then the file is emptied in place.
Discard(f) ==
  /\ \/ fetch[f].phase = "reset" /\ Restart(f, "truncate", fetch[f].turn) /\ UNCHANGED data
     \/ /\ fetch[f].phase = "truncate" /\ Go(f, "whole")
        /\ data' = IF part = None THEN data ELSE [data EXCEPT ![part] = <<>>]
  /\ UNCHANGED <<part, cache, others>>

\* The next holder is asked for the whole file, unless the fetch was abandoned
\* or nobody is left.
FetchFrom(f) ==
  LET t == fetch[f]
  IN  /\ t.phase = "whole"
      /\ IF t.turn > Len(Offers) THEN Go(f, "remove") /\ UNCHANGED diskVars
         ELSE IF t.cancelled THEN Set(f, [phase |-> "finish", failed |-> TRUE]) /\ UNCHANGED diskVars
         ELSE \/ Restart(f, "whole", t.turn + 1) /\ UNCHANGED diskVars
              \/ \E o \in Offers[t.turn] :
                   /\ OpenPart(0)
                   /\ Set(f, [phase |-> "stream", fd |-> PartFile, size |-> o.size,
                              from |-> [size |-> o.size, good |-> o.good, quorum |-> FALSE],
                              withheld |-> t.withheld \/ (Advertised > 0 /\ o.size # Advertised)])
      /\ UNCHANGED others

\* One buffer is written, then counted.
Stream(f) ==
  LET t == fetch[f]
      written == Len(data[t.fd])
  IN  /\ t.phase = "stream"
      /\ \/ /\ written = t.progress /\ written < t.from.size /\ ~t.cancelled
            /\ data' = [data EXCEPT ![t.fd] = Append(@, Byte(t.from))]
            /\ Set(f, [received |-> t.received + 1])
         \/ /\ written > t.progress
            /\ Set(f, [progress |-> written]) /\ UNCHANGED data
      /\ UNCHANGED <<part, cache, others>>

StreamEndsAskingAgain(f) ==
  LET t == fetch[f]
  IN  /\ t.phase = "stream"
      /\ \/ Restart(f, "whole", t.turn)
         \/ t.progress = t.from.size /\ t.from.good /\ Go(f, "rename")
      /\ UNCHANGED <<diskVars, others>>

\* The stream ends: with an error, or at EOF, when the hash decides.
StreamEnds(f) ==
  LET t == fetch[f]
      verified == t.progress = t.from.size /\ t.from.good /\ t.from.size = Size
  IN  /\ t.phase = "stream"
      /\ \/ Restart(f, "whole", t.turn + 1)
         \/ verified /\ Go(f, "rename")
      /\ UNCHANGED <<diskVars, others>>

\* A failed rename is our own disk's fault and ends the fetch.
Rename(f) ==
  /\ fetch[f].phase = "rename"
  /\ \/ /\ part # None
        /\ cache' = part /\ part' = None
        /\ Go(f, "finish")
     \/ /\ part = None \/ "disk" \in Events
        /\ Go(f, "remove") /\ UNCHANGED <<part, cache>>
  /\ UNCHANGED <<data, others>>

RemovePart(f) ==
  /\ fetch[f].phase = "remove"
  /\ part' = None
  /\ Set(f, [phase |-> "finish", failed |-> TRUE])
  /\ UNCHANGED <<data, cache, others>>

Finish(f) ==
  LET t == fetch[f]
  IN  /\ t.phase = "finish"
      /\ Set(f, [phase |-> "unlist", finished |-> TRUE,
                 size |-> IF t.failed THEN t.size ELSE t.progress])
      /\ UNCHANGED <<diskVars, others>>

Unlist(f) ==
  /\ fetch[f].phase = "unlist"
  /\ live' = None
  /\ Go(f, "settle")
  /\ UNCHANGED <<diskVars, reader, peer, reaper>>

Kept(t) == IF t.failed THEN 0 ELSE t.size
Positive(n) == IF n > 0 THEN n ELSE 0

BookAtOnce(f) ==
  LET t == fetch[f]
  IN  /\ t.phase = "settle"
      /\ Set(f, [phase |-> "over", wasted |-> Positive(t.received - Kept(t))])
      /\ UNCHANGED <<diskVars, others>>

\* settle() waits for the speculative fetch; only then is the waste final.
Book(f) ==
  LET t == fetch[f]
  IN  /\ t.phase = "settle" /\ t.spec # "running"
      /\ Set(f, [phase |-> "over", wasted |-> Positive(t.received - Kept(t))])
      /\ UNCHANGED <<diskVars, others>>

\* The speculative chunk-0 fetch ends, with bytes (credited) or without.  It
\* may be cancelled at any moment and still credit what it got.
Speculate(f) ==
  LET t == fetch[f]
  IN  /\ t.spec = "running"
      /\ \/ Set(f, [spec |-> "landed", received |-> t.received + 1])
         \/ Set(f, [spec |-> "failed"])
      /\ UNCHANGED <<diskVars, others>>

Run(f) ==
  \/ GetManifest(f) \/ OpenSwarm(f) \/ (\E c \in 0 .. fetch[f].size - 1 : Land(f, c) \/ Publish(f, c))
  \/ SwarmEnds(f) \/ Verify(f) \/ Discard(f) \/ FetchFrom(f) \/ Stream(f) \/ StreamEnds(f)
  \/ Rename(f) \/ RemovePart(f) \/ Finish(f) \/ Unlist(f) \/ Book(f)

------------------------------------------------------------------------------
(* Relays: madnetworkStream, serveGrowingTransfer and copyTransfer *)

Now(r, changes) == reader' = [reader EXCEPT ![r] = With(@, changes)]
Ended == {"end", "cut", "failed"}

\* ensureBlob looks for the cached file before it takes transferMu.
Ask(r) ==
  /\ reader[r].pc = "ask"
  /\ Now(r, [pc |-> IF cache # None THEN "cached" ELSE "lock"])
  /\ UNCHANGED <<fetch, live, diskVars, peer, reaper>>

Started == [Unstarted EXCEPT !.phase = "manifest", !.size = Advertised,
                             !.spec = IF Advertised > 0 THEN "running" ELSE "none"]

Start(r) ==
  \E f \in Fetches :
    /\ fetch[f].phase = "idle"
    /\ fetch' = [fetch EXCEPT ![f] = Started] /\ live' = f
    /\ Now(r, [pc |-> "first", of |-> f])

NoHolder(r) == Now(r, [pc |-> "failed"]) /\ UNCHANGED <<fetch, live>>

JoinWithoutLooking(r) ==
  /\ reader[r].pc = "lock"
  /\ Start(r) \/ NoHolder(r)
  /\ UNCHANGED <<diskVars, peer, reaper>>

\* Join the running fetch, or start one; discovery may find no holder.
Join(r) ==
  /\ reader[r].pc = "lock"
  /\ IF live # None THEN Now(r, [pc |-> "first", of |-> live]) /\ UNCHANGED <<fetch, live>>
     ELSE Start(r) \/ NoHolder(r)
  /\ UNCHANGED <<diskVars, peer, reaper>>

\* WaitFor(0), then the response headers: the total is committed here.
Respond(r) ==
  LET t == fetch[reader[r].of]
  IN  /\ \/ /\ reader[r].pc = "first"
            /\ \/ Avail(reader[r].of, 0) > 0 /\ Now(r, [pc |-> "head"])
               \/ t.finished /\ t.failed /\ Now(r, [pc |-> "failed"])
         \/ /\ reader[r].pc = "head"
            /\ IF t.finished THEN Now(r, [pc |-> IF t.failed THEN "failed" ELSE "cached"])
               ELSE Now(r, [pc |-> "open", total |-> t.size])
      /\ UNCHANGED <<fetch, live, diskVars, peer, reaper>>

\* A finished file is served whole; a growing one is opened once.
OpenFile(r) ==
  LET t == fetch[reader[r].of]
      fd == IF ~t.finished /\ part # None THEN part ELSE cache
  IN  /\ \/ /\ reader[r].pc = "cached"
            /\ Now(r, IF cache = None THEN [pc |-> "failed"]
                      ELSE [pc |-> "end", got |-> data[cache], total |-> Len(data[cache])])
         \/ /\ reader[r].pc = "open"
            /\ Now(r, IF fd = None THEN [pc |-> "cut"] ELSE [pc |-> "wait", fd |-> fd])
      /\ UNCHANGED <<fetch, live, diskVars, peer, reaper>>

\* WaitFor and Available, then f.Read: two steps, the file may change between.
Follow(r) ==
  LET x == reader[r]
      t == fetch[x.of]
  IN  /\ x.pc = "wait"
      /\ \/ Avail(x.of, x.off) > 0 /\ Now(r, [pc |-> "read"])
         \/ /\ t.finished /\ Avail(x.of, x.off) <= 0
            /\ Now(r, [pc |-> IF t.failed THEN "cut" ELSE "end"])
      /\ UNCHANGED <<fetch, live, diskVars, peer, reaper>>

ReadFile(r) ==
  LET x == reader[r]
  IN  /\ x.pc = "read"
      /\ IF x.off < Len(data[x.fd])
         THEN Now(r, [got |-> Append(x.got, data[x.fd][x.off + 1]), off |-> x.off + 1,
                      pc |-> IF x.off + 1 >= x.total THEN "end" ELSE "wait"])
         ELSE Now(r, [pc |-> "wait"])
      /\ UNCHANGED <<fetch, live, diskVars, peer, reaper>>

Relay(r) == Ask(r) \/ Join(r) \/ Respond(r) \/ OpenFile(r) \/ Follow(r) \/ ReadFile(r)

------------------------------------------------------------------------------
(* Mesh requests answered out of a partial: servePartialBlob *)

CheckPartial(q) ==
  /\ peer[q].pc = "idle" /\ cache = None /\ live # None
  /\ \E c \in Complete(live) : peer' = [peer EXCEPT ![q].pc = "open", ![q].at = c]
  /\ UNCHANGED <<fetch, live, diskVars, reader, reaper>>

SendPartial(q) ==
  LET x == peer[q]
  IN  /\ x.pc = "open"
      /\ peer' = [peer EXCEPT ![q].pc = "done",
                              ![q].sent = IF part # None /\ x.at < Len(data[part])
                                          THEN Append(@, data[part][x.at + 1]) ELSE @]
      /\ UNCHANGED <<fetch, live, diskVars, reader, reaper>>

------------------------------------------------------------------------------
(* What else happens to the cache directory *)

Running(f) == fetch[f].phase \notin {"idle", "settle", "over"}

Abandon(f) ==
  /\ "abandon" \in Events /\ Running(f) /\ ~fetch[f].cancelled
  /\ Set(f, [cancelled |-> TRUE])
  /\ UNCHANGED <<diskVars, others>>

\* EvictCachedBlob: the blob has landed in the library.
Evict ==
  /\ "evict" \in Events /\ cache # None
  /\ cache' = None
  /\ UNCHANGED <<fetch, live, data, part, reader, peer, reaper>>

\* adminCacheReapPartials: the live set is taken before the directory is read.
\* (With the fetch in the set the reaper leaves this hash alone.)
Reap ==
  /\ "reap" \in Events
  /\ \/ reaper = "idle" /\ live = None /\ reaper' = "unlisted" /\ UNCHANGED part
     \/ reaper = "unlisted" /\ reaper' = "done" /\ part' = None
  /\ UNCHANGED <<fetch, live, data, cache, reader, peer>>

\* The process dies and starts again: memory is gone, the directory is not, and
\* the startup sweep (app.go) removes every partial.
Crash ==
  /\ "crash" \in Events /\ live # None
  /\ fetch' = [f \in Fetches |-> IF fetch[f].phase = "idle" THEN fetch[f]
                                 ELSE [Unstarted EXCEPT !.phase = "over"]]
  /\ live' = None /\ part' = None
  /\ reader' = [r \in Readers |-> IF reader[r].pc \in Ended \cup {"ask"} THEN reader[r]
                                  ELSE [reader[r] EXCEPT !.pc = "cut"]]
  /\ peer' = [q \in Peers |-> [peer[q] EXCEPT !.pc = "done"]]
  /\ UNCHANGED <<data, cache, reaper>>

Over == /\ \A r \in Readers : reader[r].pc \in Ended
        /\ \A f \in Fetches : fetch[f].phase \in {"idle", "over"}
        /\ UNCHANGED vars

Next ==
  \/ \E f \in Fetches : Run(f) \/ Speculate(f) \/ Abandon(f)
  \/ \E r \in Readers : Relay(r)
  \/ \E q \in Peers : CheckPartial(q) \/ SendPartial(q)
  \/ Evict \/ Reap \/ Crash \/ Over

Fairness ==
  /\ \A f \in Fetches : WF_vars(Run(f)) /\ WF_vars(Speculate(f))
  /\ \A r \in Readers : WF_vars(Relay(r))

Spec == Init /\ [][Next]_vars
FairSpec == Spec /\ Fairness

------------------------------------------------------------------------------
(* Properties *)

TypeOK ==
  /\ \A f \in Fetches :
       /\ DOMAIN fetch[f] = DOMAIN Unstarted
       /\ fetch[f].chunkOK \subseteq 0 .. fetch[f].size - 1
       /\ fetch[f].phase \in {"swarm", "stream"} => fetch[f].fd \in DOMAIN data
  /\ live \in Fetches \cup {None}
  /\ part \in DOMAIN data \cup {None} /\ cache \in DOMAIN data \cup {None}
  /\ \A i \in DOMAIN data : \A j \in DOMAIN data[i] : data[i][j] \in {"good", "bad", "hole"}

(***************************************************************************)
(* The name <hash> only ever holds the whole verified blob, and a fetch     *)
(* that reports success reports its length: through lying manifests,        *)
(* truncated holders, fallbacks, crashes and joins of a finishing fetch.    *)
(***************************************************************************)
CacheIsVerified ==
  /\ cache # None => data[cache] = Blob
  /\ \A f \in Fetches : fetch[f].finished /\ ~fetch[f].failed => fetch[f].size = Size

\* One fetch of a hash at a time: the one that is listed.  Two would write one
\* part file.
OneFetchPerHash == \A f \in Fetches : Running(f) => live = f

\* What is cached was verified, and one fetch at a time is what could put it there.
CacheIsSound == CacheIsVerified /\ OneFetchPerHash

\* Nobody is ever sent the zeros a part file is pre-sized with: no relay, whose
\* descriptor outlives what the fetch does to the file (reaping apart), ...
NoHolesRelayed == \A r \in Readers : \A i \in DOMAIN reader[r].got : reader[r].got[i] # "hole"

\* ... and no peer answered out of a partial, whose length says nothing.
NoHolesSeeded == \A q \in Peers : \A i \in DOMAIN peer[q].sent : peer[q].sent[i] # "hole"

\* If nobody lies, a relay sends exactly the blob: whatever fails under it, it
\* skips and repeats nothing, and one that ends cleanly has sent all of it.
RelaysAreExact ==
  \A r \in Readers :
    /\ reader[r].got = SubSeq(Blob, 1, Len(reader[r].got))
    /\ reader[r].pc = "end" => reader[r].got = Blob

\* The waste booked for a fetch is what it received beyond what it delivered,
\* the speculative fetch's last bytes included.
WasteIsFinal ==
  \A f \in Fetches :
    fetch[f].wasted >= 0 => fetch[f].wasted = Positive(fetch[f].received - Kept(fetch[f]))

\* "A failed fetch cleans up after itself": with no fetch running there is no
\* part file.
FailedFetchCleansUp == live = None => part = None

\* However a fetch ends, it leaves no part file and books its waste once.
FetchesEndClean == TypeOK /\ FailedFetchCleansUp /\ WasteIsFinal

\* Every relay ends and every fetch is over.
RelaysEnd == \A r \in Readers : <>(reader[r].pc \in Ended)
FetchesEnd == \A f \in Fetches : fetch[f].phase = "manifest" ~> fetch[f].phase = "over"
AllEnd == RelaysEnd /\ FetchesEnd

==============================================================================
