--------------------------- MODULE TransferProofs ---------------------------
(***************************************************************************)
(* What the transfers of a blob promise, for blobs of any size, any number  *)
(* of holders, fetches, relays and mesh requests, and manifests and offers  *)
(* that lie as they please.                                                 *)
(***************************************************************************)
EXTENDS Transfer, FiniteSetTheorems, WellFoundedInduction, TLAPS

\* A nonempty set of naturals below a bound has a least element.
LEMMA LeastElement ==
  ASSUME NEW n \in Nat, NEW T, T \subseteq 0 .. n, T # {}
  PROVE  \E m \in T : \A k \in T : m <= k
<1> DEFINE Below == {0 .. m : m \in T}
<1>1. IsFiniteSet(0 .. n)
  BY FS_Interval
<1>2. Below \subseteq FiniteSubsetsOf(0 .. n)
  <2> SUFFICES ASSUME NEW m \in T PROVE 0 .. m \in FiniteSubsetsOf(0 .. n)
    OBVIOUS
  <2>1. m \in Nat /\ 0 .. m \subseteq 0 .. n
    OBVIOUS
  <2>2. IsFiniteSet(0 .. m)
    BY <2>1, FS_Interval
  <2> QED
    BY <2>1, <2>2 DEF FiniteSubsetsOf
<1>3. IsWellFoundedOn(StrictSubsetOrdering(0 .. n), FiniteSubsetsOf(0 .. n))
  BY <1>1, FS_StrictSubsetOrderingWellFounded
<1>4. PICK B \in Below : \A C \in Below : ~(<<C, B>> \in StrictSubsetOrdering(0 .. n))
  <2> HIDE DEF Below
  <2>1. Below # {}
    BY DEF Below
  <2> QED
    BY <1>2, <1>3, <2>1, WFMin
<1>5. PICK m \in T : B = 0 .. m
  OBVIOUS
<1>6. ASSUME NEW k \in T, ~(m <= k) PROVE FALSE
  <2>1. m \in Nat /\ k \in Nat /\ k < m
    BY <1>6
  <2>2. 0 .. k \subseteq 0 .. m /\ m \notin 0 .. k /\ m \in 0 .. m
    BY <2>1
  <2>3. 0 .. k \in SUBSET (0 .. n) /\ 0 .. m \in SUBSET (0 .. n)
    BY <2>1
  <2>4. <<0 .. k, 0 .. m>> \in StrictSubsetOrdering(0 .. n)
    BY <2>2, <2>3 DEF StrictSubsetOrdering
  <2> QED
    BY <1>4, <1>5, <2>4
<1> QED
  BY <1>6

-----------------------------------------------------------------------------
(* The invariant on the files and the fetch that writes them.              *)

Phases ==
  {"idle", "manifest", "open", "swarm", "verify", "reset", "truncate", "whole", "stream",
   "rename", "remove", "finish", "unlist", "settle", "over"}
Chunk == {"good", "bad", "hole"}

Fields ==
  {"phase", "turn", "from", "fd", "size", "progress", "chunked", "chunkOK", "withheld",
   "finished", "failed", "cancelled", "spec", "received", "wasted"}

FetchTyped(t) ==
  /\ DOMAIN t = Fields
  /\ t.phase \in Phases /\ t.turn \in Nat \ {0} /\ t.from \in Claims \cup {NoManifest}
  /\ t.size \in Nat /\ t.progress \in Nat /\ t.chunkOK \subseteq Nat
  /\ t.chunked \in BOOLEAN /\ t.withheld \in BOOLEAN /\ t.finished \in BOOLEAN
  /\ t.failed \in BOOLEAN /\ t.cancelled \in BOOLEAN
  /\ t.received \in Nat /\ t.wasted \in Int

Typed ==
  /\ DOMAIN fetch = Fetches /\ \A f \in Fetches : FetchTyped(fetch[f])
  /\ live \in Fetches \cup {None}
  /\ data \in Seq(Seq(Chunk))
  /\ part \in DOMAIN data \cup {None} /\ cache \in DOMAIN data \cup {None}

(* The listed fetch is the one that runs. *)
Alone == OneFetchPerHash /\ (live # None => Running(live))

(* The two names are two files, and the cached one was verified. *)
Names == /\ part # None => part # cache
         /\ cache # None => data[cache] = Blob

Writing == {"swarm", "verify", "reset", "truncate", "stream"}

(* A fetch writes a file of its own, never the cached one, and the part     *)
(* file is that file unless it was reaped.                                  *)
OwnFile(f) ==
  fetch[f].phase \in Writing =>
    /\ fetch[f].fd \in DOMAIN data /\ fetch[f].fd # cache
    /\ part \in {None, fetch[f].fd}

(* A swarm's file is pre-sized, and what is published has landed: the       *)
(* watermark reaches every published prefix.                                *)
Swarming(f) ==
  LET t == fetch[f]
  IN  /\ t.phase \in {"swarm", "verify", "reset"} =>
           /\ t.chunked
           /\ \A c \in t.chunkOK : c + 1 \in DOMAIN data[t.fd] /\ data[t.fd][c + 1] # "hole"
      /\ t.phase \in {"open", "swarm", "verify"} => t.from \in Claims /\ t.size = t.from.size
      /\ t.phase \in {"swarm", "verify"} =>
           /\ Len(data[t.fd]) = t.size /\ t.progress <= t.size
           /\ \A k \in 0 .. t.size : 0 .. k - 1 \subseteq t.chunkOK => k <= t.progress
      /\ t.phase = "verify" => t.chunkOK = 0 .. t.size - 1
      /\ t.chunkOK \subseteq 0 .. t.size - 1

(* A stream's file holds what was counted, and at most one buffer more. *)
Streaming(f) ==
  LET t == fetch[f]
  IN  /\ t.phase \in {"idle", "manifest", "open", "truncate", "whole", "stream"} =>
           t.chunkOK = {}
      /\ t.phase \in {"idle", "manifest", "open", "truncate", "whole"} =>
           ~t.chunked /\ t.progress = 0
      /\ t.phase = "stream" =>
           /\ t.from \in Claims /\ t.size = t.from.size
           /\ t.progress <= Len(data[t.fd]) /\ Len(data[t.fd]) <= t.size
           /\ \A i \in DOMAIN data[t.fd] : data[t.fd][i] = Byte(t.from)

(* Only the whole verified blob is renamed, and reported as success. *)
Ending(f) ==
  LET t == fetch[f]
  IN  /\ t.phase = "rename" => /\ t.progress = Size /\ t.size = Size
                               /\ part # None => data[part] = Blob
      /\ t.phase = "finish" /\ ~t.failed => t.progress = Size /\ t.size = Size
      /\ t.finished => t.phase \in {"unlist", "settle", "over"}
      /\ t.finished /\ ~t.failed => t.size = Size
      /\ t.phase \in {"unlist", "settle"} => t.finished
      /\ t.phase = "over" => t.spec # "running"
      /\ t.wasted >= 0 => t.phase = "over" /\ t.wasted = Positive(t.received - Kept(t))

Fetching(f) == OwnFile(f) /\ Swarming(f) /\ Streaming(f) /\ Ending(f)

FilesInv == Typed /\ Alone /\ Names /\ \A f \in Fetches : Fetching(f)

-----------------------------------------------------------------------------
(* Without abandons, a part file is never left behind.                      *)

TidyInv ==
  /\ \A f \in Fetches :
       /\ ~fetch[f].cancelled
       /\ fetch[f].phase \in {"manifest", "open", "finish", "unlist"} => part = None
  /\ live = None => part = None

-----------------------------------------------------------------------------
(* Followers.                                                              *)

Filling(f) == fetch[f].phase \in {"swarm", "verify", "reset", "truncate"}
Clean(fd)  == \A i \in DOMAIN data[fd] : data[fd][i] # "hole"

(* A swarm starts on a new file, and only a running swarm's file has holes. *)
HolesAreFilled ==
  /\ \A f \in Fetches :
       /\ fetch[f].phase \in {"manifest", "open"} => part = None
       /\ fetch[f].phase \in Writing => part = fetch[f].fd
       /\ fetch[f].phase \in {"finish", "unlist"} => part = None \/ fetch[f].cancelled
       /\ fetch[f].cancelled => "abandon" \in Events
  /\ live = None /\ (\E f \in Fetches : fetch[f].phase = "idle") => part = None
  /\ part # None => Clean(part) \/ \E f \in Fetches : Filling(f)

Following == {"first", "head", "open", "wait", "read"}

RelayFields == {"pc", "of", "off", "total", "fd", "got"}

(* A relay follows a listed or a finished fetch, and what it is about to     *)
(* read is no hole.                                                        *)
Follows(r) ==
  LET x == reader[r]
  IN  /\ DOMAIN x = RelayFields /\ x.off \in Nat /\ x.got \in Seq(Chunk \ {"hole"})
      /\ x.pc \in Following =>
           x.of \in Fetches /\ fetch[x.of].phase # "idle" /\ (fetch[x.of].finished \/ x.of = live)
      /\ x.pc \in {"wait", "read"} =>
           /\ x.fd \in DOMAIN data
           /\ Clean(x.fd) \/ (x.of = live /\ Filling(x.of) /\ fetch[x.of].fd = x.fd)
      /\ x.pc = "read" /\ x.off + 1 \in DOMAIN data[x.fd] => data[x.fd][x.off + 1] # "hole"

RelayInv == DOMAIN reader = Readers /\ \A r \in Readers : Follows(r)

(* One fetch alone: its part file is pre-sized once, before anyone asks. *)
Unseeded == {"idle", "manifest", "open"}
Seeds(q) ==
  /\ DOMAIN peer[q] = {"pc", "at", "sent"}
  /\ peer[q].at \in Nat /\ peer[q].sent \in Seq(Chunk \ {"hole"})
  /\ peer[q].pc = "open" /\ part # None /\ peer[q].at + 1 \in DOMAIN data[part]
       => data[part][peer[q].at + 1] # "hole"

SeedInv ==
  /\ \A f \in Fetches :
       fetch[f].phase \in Unseeded => part = None /\ \A q \in Peers : peer[q].pc # "open"
  /\ part # None => Clean(part) \/ \E f \in Fetches : Filling(f)
  /\ DOMAIN peer = Peers /\ \A q \in Peers : Seeds(q)

(* Nobody lies. *)
Honest ==
  /\ Advertised \in {0, Size}
  /\ \A man \in Manifests \ {NoManifest} : man.good /\ man.size = Size
  /\ \A i \in DOMAIN Offers : \A o \in Offers[i] : o.good /\ o.size = Size

(* Every byte written is good. *)
NoBad == \A i \in DOMAIN data : \A j \in DOMAIN data[i] : data[i][j] # "bad"

(* A fetch has no length before it has heard of one, and then the true one. *)
Sized == {"open", "swarm", "verify", "reset", "truncate", "stream", "rename"}
Measures(f) ==
  LET t == fetch[f]
  IN  /\ t.size \in {0, Size}
      /\ t.from = NoManifest \/ (t.from.good /\ t.from.size = Size)
      /\ t.size = 0 => t.phase \notin Sized /\ t.progress = 0 /\ t.chunkOK = {}

(* A relay has sent what it counted, of the length it announced. *)
Copies(r) ==
  LET x == reader[r]
  IN  /\ x.got \in Seq({"good"}) /\ Len(x.got) <= Size
      /\ x.pc = "head" => fetch[x.of].size = Size
      /\ x.pc \in {"open", "wait", "read"} => x.total = Size
      /\ x.pc \in {"ask", "lock", "first", "head", "open"} => x.off = 0
      /\ x.pc \in {"wait", "read"} => x.off < Size
      /\ x.pc # "end" => x.off = Len(x.got)
      /\ x.pc = "end" => Len(x.got) = Size

HonestInv ==
  /\ NoBad
  /\ \A f \in Fetches : Measures(f)
  /\ \A r \in Readers : Copies(r)

-----------------------------------------------------------------------------
(* Records, files and the fetches that do not step.                        *)

(* Set changes the named fields of one fetch. *)
LEMMA SetFacts ==
  ASSUME Typed, NEW f \in Fetches, NEW c, Set(f, c)
  PROVE  /\ DOMAIN fetch' = Fetches
         /\ \A g \in Fetches \ {f} : fetch'[g] = fetch[g]
         /\ DOMAIN fetch'[f] = Fields
         /\ \A k \in Fields : fetch'[f][k] = IF k \in DOMAIN c THEN c[k] ELSE fetch[f][k]
BY DEF Typed, FetchTyped, Set, With

(* f's fields other than ks keep their values. *)
Keeps(f, ks) == /\ DOMAIN fetch'[f] = Fields
                /\ \A k \in Fields \ ks : fetch'[f][k] = fetch[f][k]

(* Opening the part file leaves one file more or empties that one. *)
LEMMA OpenFacts ==
  ASSUME Typed, Names, NEW n \in Nat, OpenPart(n)
  PROVE  /\ data' \in Seq(Seq(Chunk)) /\ DOMAIN data \subseteq DOMAIN data'
         /\ PartFile \in DOMAIN data' /\ part' = PartFile /\ PartFile # cache
         /\ data'[PartFile] = Holes(n) /\ Len(Holes(n)) = n
         /\ \A i \in DOMAIN data : i # PartFile => data'[i] = data[i]
         /\ cache' = cache
<1>1. Holes(n) \in Seq(Chunk) /\ Len(Holes(n)) = n
  BY DEF Holes, Chunk
<1>2. None \notin DOMAIN data /\ Len(data) + 1 \notin DOMAIN data /\ Len(data) + 1 # None
  BY TransferAssumption DEF Typed
<1>3. CASE part = None
  <2>1. data' = Append(data, Holes(n)) /\ PartFile = Len(data) + 1
    BY <1>3 DEF OpenPart, PartFile
  <2> QED
    BY <1>1, <1>2, <2>1 DEF OpenPart, Typed
<1>4. CASE part # None
  <2>1. data' = [data EXCEPT ![part] = Holes(n)] /\ PartFile = part /\ part \in DOMAIN data
    BY <1>4 DEF OpenPart, PartFile, Typed
  <2> QED
    BY <1>1, <1>4, <2>1 DEF OpenPart, Typed, Names
<1> QED
  BY <1>3, <1>4

(* A fetch that does not run has nothing to do with the files. *)
LEMMA RestingIsSound ==
  ASSUME Typed, NEW f \in Fetches, Fetching(f), ~Running(f), fetch'[f] = fetch[f]
  PROVE  Fetching(f)'
BY SMTT(60) DEF Fetching, OwnFile, Swarming, Streaming, Ending, Running, Writing, Typed, FetchTyped, Phases, Kept, Positive

(* So a step of the running fetch is judged by what it does to that one. *)
LEMMA StepIsSound ==
  ASSUME FilesInv, NEW f \in Fetches, Running(f),
         \A g \in Fetches \ {f} : fetch'[g] = fetch[g],
         UNCHANGED live, Running(f)', Typed', Names', Fetching(f)'
  PROVE  FilesInv'
<1>1. \A g \in Fetches \ {f} : ~Running(g)
  BY DEF FilesInv, Alone, OneFetchPerHash
<1>2. \A g \in Fetches \ {f} : Fetching(g)'
  BY <1>1, RestingIsSound DEF FilesInv
<1>3. live = f /\ f # None
  BY TransferAssumption DEF FilesInv, Alone, OneFetchPerHash
<1>4. \A g \in Fetches \ {f} : ~Running(g)'
  BY <1>1 DEF Running
<1>5. Alone'
  BY <1>3, <1>4 DEF Alone, OneFetchPerHash
<1> QED
  BY <1>2, <1>5 DEF FilesInv

-----------------------------------------------------------------------------
(* The steps of a fetch.                                                   *)

(* A step of f that leaves the files alone. *)
LEMMA QuietIsSound ==
  ASSUME FilesInv, NEW f \in Fetches, Running(f), UNCHANGED <<data, part, cache, live>>,
         DOMAIN fetch' = Fetches, \A g \in Fetches \ {f} : fetch'[g] = fetch[g],
         FetchTyped(fetch'[f]), Running(f)', Fetching(f)'
  PROVE  FilesInv'
<1>1. Typed' /\ Names'
  BY DEF FilesInv, Typed, Names
<1> QED
  BY <1>1, StepIsSound

(* A step of f that writes into f's own file. *)
LEMMA WritingIsSound ==
  ASSUME FilesInv, NEW f \in Fetches, Running(f), fetch[f].phase \in Writing,
         NEW s \in Seq(Chunk), data' = [data EXCEPT ![fetch[f].fd] = s],
         UNCHANGED <<part, cache, live>>,
         DOMAIN fetch' = Fetches, \A g \in Fetches \ {f} : fetch'[g] = fetch[g],
         FetchTyped(fetch'[f]), Running(f)',
         data'[fetch[f].fd] = s => Fetching(f)'
  PROVE  FilesInv'
<1>1. fetch[f].fd \in DOMAIN data /\ fetch[f].fd # cache
  BY DEF FilesInv, Fetching, OwnFile
<1>2. /\ data' \in Seq(Seq(Chunk)) /\ DOMAIN data' = DOMAIN data /\ data'[fetch[f].fd] = s
      /\ \A i \in DOMAIN data : i # fetch[f].fd => data'[i] = data[i]
  BY <1>1 DEF FilesInv, Typed
<1>3. Typed'
  BY <1>2 DEF FilesInv, Typed
<1>4. Names'
  BY <1>1, <1>2 DEF FilesInv, Typed, Names
<1> QED
  BY <1>2, <1>3, <1>4, StepIsSound

(* A manifest is fetched, or none. *)
LEMMA GetManifestIsSound ==
  ASSUME FilesInv, NEW f \in Fetches, GetManifest(f)
  PROVE  FilesInv'
<1>1. Typed /\ Names /\ Fetching(f) /\ Running(f) /\ fetch[f].phase = "manifest"
  BY DEF FilesInv, GetManifest, Running
<1>2. UNCHANGED <<data, part, cache, live>>
  BY DEF GetManifest, diskVars, others
<1>3. PICK man \in Manifests :
        \/ Set(f, [phase |-> "whole"])
        \/ Set(f, [phase |-> "whole", withheld |-> TRUE])
        \/ man # NoManifest /\ Set(f, [phase |-> "open", from |-> man, size |-> man.size])
  BY DEF GetManifest, Go
<1>4. CASE Set(f, [phase |-> "whole"])
  <2>1. Keeps(f, {"phase"}) /\ fetch'[f].phase = "whole"
    BY <1>1, <1>2, <1>4, SetFacts DEF Fields, Keeps
  <2>2. DOMAIN fetch' = Fetches /\ \A g \in Fetches \ {f} : fetch'[g] = fetch[g]
    BY <1>1, <1>2, <1>4, SetFacts
  <2>3. FetchTyped(fetch'[f]) /\ Running(f)'
    BY <1>1, <1>2, <1>4, <2>1, SMTT(60) DEF Typed, FetchTyped, Phases, Fields, Keeps, Running
  <2>4. OwnFile(f)'
    BY <1>1, <1>2, <1>4, <2>1 DEF Fields, Keeps, Fetching, OwnFile, Writing
  <2>5. Swarming(f)'
    BY <1>1, <1>2, <1>4, <2>1 DEF Fields, Keeps, Fetching, Swarming, Streaming
  <2>6. Streaming(f)'
    BY <1>1, <1>2, <1>4, <2>1 DEF Fields, Keeps, Fetching, Streaming
  <2>7. Ending(f)'
    BY <1>1, <1>2, <1>4, <2>1 DEF Fields, Keeps, Fetching, Ending, Kept
  <2> QED
    BY <1>1, <1>2, <2>2, <2>3, <2>4, <2>5, <2>6, <2>7, QuietIsSound DEF Fetching
<1>5. CASE Set(f, [phase |-> "whole", withheld |-> TRUE])
  <2>1. Keeps(f, {"phase", "withheld"}) /\ fetch'[f].phase = "whole" /\ fetch'[f].withheld
    BY <1>1, <1>2, <1>5, SetFacts DEF Fields, Keeps
  <2>2. DOMAIN fetch' = Fetches /\ \A g \in Fetches \ {f} : fetch'[g] = fetch[g]
    BY <1>1, <1>2, <1>5, SetFacts
  <2>3. FetchTyped(fetch'[f]) /\ Running(f)'
    BY <1>1, <1>2, <1>5, <2>1, SMTT(60) DEF Typed, FetchTyped, Phases, Fields, Keeps, Running
  <2>4. OwnFile(f)'
    BY <1>1, <1>2, <1>5, <2>1 DEF Fields, Keeps, Fetching, OwnFile, Writing
  <2>5. Swarming(f)'
    BY <1>1, <1>2, <1>5, <2>1 DEF Fields, Keeps, Fetching, Swarming, Streaming
  <2>6. Streaming(f)'
    BY <1>1, <1>2, <1>5, <2>1 DEF Fields, Keeps, Fetching, Streaming
  <2>7. Ending(f)'
    BY <1>1, <1>2, <1>5, <2>1 DEF Fields, Keeps, Fetching, Ending, Kept
  <2> QED
    BY <1>1, <1>2, <2>2, <2>3, <2>4, <2>5, <2>6, <2>7, QuietIsSound DEF Fetching
<1>6. CASE man # NoManifest /\ Set(f, [phase |-> "open", from |-> man, size |-> man.size])
  <2>0. man \in Claims /\ man.size \in Nat
    BY <1>6, TransferAssumption DEF Claims
  <2>1. Keeps(f, {"phase", "from", "size"}) /\ fetch'[f].phase = "open" /\ fetch'[f].from = man /\ fetch'[f].size = man.size
    BY <1>1, <1>2, <1>6, <2>0, SetFacts DEF Fields, Keeps
  <2>2. DOMAIN fetch' = Fetches /\ \A g \in Fetches \ {f} : fetch'[g] = fetch[g]
    BY <1>1, <1>2, <1>6, <2>0, SetFacts
  <2>3. FetchTyped(fetch'[f]) /\ Running(f)'
    BY <1>1, <1>2, <1>6, <2>0, <2>1 DEF Typed, FetchTyped, Phases, Fields, Keeps, Running
  <2>4. OwnFile(f)'
    BY <1>1, <1>2, <1>6, <2>0, <2>1 DEF Fields, Keeps, Fetching, OwnFile, Writing
  <2>5. Swarming(f)'
    BY <1>1, <1>2, <1>6, <2>0, <2>1 DEF Fields, Keeps, Fetching, Swarming, Streaming
  <2>6. Streaming(f)'
    BY <1>1, <1>2, <1>6, <2>0, <2>1 DEF Fields, Keeps, Fetching, Streaming
  <2>7. Ending(f)'
    BY <1>1, <1>2, <1>6, <2>0, <2>1 DEF Fields, Keeps, Fetching, Ending, Kept
  <2> QED
    BY <1>1, <1>2, <2>2, <2>3, <2>4, <2>5, <2>6, <2>7, QuietIsSound DEF Fetching
<1> QED
  BY <1>3, <1>4, <1>5, <1>6

(* Opening the swarm's file. *)
LEMMA OpenSwarmIsSound ==
  ASSUME FilesInv, NEW f \in Fetches, OpenSwarm(f)
  PROVE  FilesInv'
<1>1. Typed /\ Names /\ Fetching(f) /\ Running(f) /\ fetch[f].phase = "open"
  BY DEF FilesInv, OpenSwarm, Running
<1>2. /\ OpenPart(fetch[f].size) /\ UNCHANGED live /\ fetch[f].size \in Nat
      /\ Set(f, [phase |-> "swarm", fd |-> PartFile, chunked |-> TRUE, chunkOK |-> {}])
  BY <1>1 DEF OpenSwarm, others, Typed, FetchTyped
<1>3. /\ Keeps(f, {"phase", "fd", "chunked", "chunkOK"}) 
      /\ fetch'[f].phase = "swarm" /\ fetch'[f].fd = PartFile /\ fetch'[f].chunked
      /\ fetch'[f].chunkOK = {}
      /\ DOMAIN fetch' = Fetches /\ \A g \in Fetches \ {f} : fetch'[g] = fetch[g]
  BY <1>1, <1>2, SetFacts DEF Fields, Keeps
<1>4. FetchTyped(fetch'[f]) /\ Running(f)'
  BY <1>1, <1>3 DEF Typed, FetchTyped, Phases, Fields, Keeps, Running
<1>5. Fetching(f)'
  <2>1. OwnFile(f)'
    BY <1>1, <1>2, <1>3, OpenFacts DEF OwnFile
  <2>2. Swarming(f)'
    <3>1. /\ fetch'[f].size = fetch[f].size /\ fetch'[f].from = fetch[f].from
          /\ fetch'[f].progress = 0 /\ fetch[f].size = fetch[f].from.size
          /\ fetch[f].from \in Claims
      BY <1>1, <1>3 DEF Fields, Keeps, Fetching, Swarming, Streaming
    <3>2. Len(data'[fetch'[f].fd]) = fetch[f].size
      BY <1>1, <1>2, <1>3, OpenFacts
    <3>3. \A k \in 0 .. fetch[f].size : 0 .. k - 1 \subseteq {} => k <= 0
      BY <1>2
    <3> QED
      BY <1>2, <1>3, <3>1, <3>2, <3>3 DEF Swarming
  <2>3. Streaming(f)' /\ Ending(f)'
    BY <1>1, <1>3 DEF Fields, Keeps, Fetching, Streaming, Ending
  <2> QED
    BY <2>1, <2>2, <2>3 DEF Fetching
<1>6. Typed' /\ Names'
  BY <1>1, <1>2, <1>3, <1>4, OpenFacts, TransferAssumption DEF Typed, Names
<1> QED
  BY <1>1, <1>2, <1>3, <1>4, <1>5, <1>6, StepIsSound

(* A chunk lands: a hole of the file is filled. *)
LEMMA LandIsSound ==
  ASSUME FilesInv, NEW f \in Fetches, NEW c \in 0 .. fetch[f].size - 1, Land(f, c)
  PROVE  FilesInv'
<1>1. Typed /\ Names /\ Fetching(f) /\ Running(f) /\ fetch[f].phase = "swarm"
  BY DEF FilesInv, Land, Running
<1>2. /\ UNCHANGED <<part, cache, live>> /\ c \in 0 .. fetch[f].size - 1
      /\ data' = [data EXCEPT ![fetch[f].fd][c + 1] = Byte(fetch[f].from)]
      /\ \/ Set(f, [received |-> fetch[f].received + 1])
         \/ Set(f, [spec |-> "used"])
  BY DEF Land, others
<1>3. /\ data[fetch[f].fd] \in Seq(Chunk) /\ fetch[f].fd \in DOMAIN data
      /\ Len(data[fetch[f].fd]) = fetch[f].size /\ fetch[f].size \in Nat
      /\ Byte(fetch[f].from) \in Chunk \ {"hole"} /\ c + 1 \in 1 .. fetch[f].size
  <2>1. fetch[f].fd \in DOMAIN data /\ Len(data[fetch[f].fd]) = fetch[f].size
    BY <1>1 DEF Fetching, OwnFile, Writing, Swarming
  <2>2. data[fetch[f].fd] \in Seq(Chunk) /\ fetch[f].size \in Nat
    BY <1>1, <2>1 DEF Typed, FetchTyped
  <2>3. Byte(fetch[f].from) \in Chunk \ {"hole"}
    BY DEF Byte, Chunk
  <2> QED
    BY <1>2, <2>1, <2>2, <2>3
<1> DEFINE s == [data[fetch[f].fd] EXCEPT ![c + 1] = Byte(fetch[f].from)]
<1>4. /\ s \in Seq(Chunk) /\ Len(s) = fetch[f].size
      /\ \A i \in DOMAIN data[fetch[f].fd] :
           i \in DOMAIN s /\ (data[fetch[f].fd][i] # "hole" => s[i] # "hole")
      /\ data' = [data EXCEPT ![fetch[f].fd] = s]
  BY <1>2, <1>3
<1> HIDE DEF s
<1>5. /\ Keeps(f, {"received", "spec"}) /\ fetch'[f].received \in Nat /\ fetch'[f].phase = "swarm"
      /\ fetch'[f].fd = fetch[f].fd
  <2>0. fetch[f].received \in Nat
    BY <1>1 DEF Typed, FetchTyped
  <2>1. CASE Set(f, [received |-> fetch[f].received + 1])
    BY <1>1, <2>0, <2>1, SetFacts DEF Fields, Keeps
  <2>2. CASE Set(f, [spec |-> "used"])
    BY <1>1, <2>0, <2>2, SetFacts DEF Fields, Keeps
  <2> QED
    BY <1>2, <2>1, <2>2
<1>6. DOMAIN fetch' = Fetches /\ \A g \in Fetches \ {f} : fetch'[g] = fetch[g]
  BY <1>1, <1>2, SetFacts
<1>7. FetchTyped(fetch'[f]) /\ Running(f)'
  BY <1>1, <1>5 DEF Typed, FetchTyped, Phases, Fields, Keeps, Running
<1>8. ASSUME data'[fetch[f].fd] = s PROVE Fetching(f)'
  <2>1. OwnFile(f)'
    BY <1>1, <1>2, <1>4, <1>5 DEF Fields, Keeps, Fetching, OwnFile, Writing
  <2>2. Swarming(f)'
    BY <1>1, <1>3, <1>4, <1>5, <1>8 DEF Fields, Keeps, Fetching, Swarming
  <2>3. Streaming(f)' /\ Ending(f)'
    BY <1>1, <1>5 DEF Fields, Keeps, Fetching, Streaming, Ending
  <2> QED
    BY <2>1, <2>2, <2>3 DEF Fetching
<1> QED
  BY <1>1, <1>2, <1>4, <1>6, <1>7, <1>8, WritingIsSound DEF Writing

(* The watermark chunkDone computes: the first chunk that has not landed. *)
LEMMA WatermarkFacts ==
  ASSUME Typed, NEW f \in Fetches, Fetching(f), fetch[f].phase = "swarm"
  PROVE  LET m == CHOOSE m \in 0 .. fetch[f].size :
                    0 .. m - 1 \subseteq Landed(f) /\ m \notin Landed(f)
         IN  m \in 0 .. fetch[f].size /\ 0 .. m - 1 \subseteq Landed(f) /\ m \notin Landed(f)
<1> DEFINE Missing == {k \in 0 .. fetch[f].size : k \notin Landed(f)}
<1>1. fetch[f].size \in Nat /\ fetch[f].size = fetch[f].from.size
  BY DEF Typed, FetchTyped, Fetching, Swarming
<1>2. fetch[f].size \in Missing
  BY <1>1 DEF Landed
<1>3. PICK m \in Missing : \A k \in Missing : m <= k
  <2> HIDE DEF Missing
  <2>1. Missing \subseteq 0 .. fetch[f].size
    BY DEF Missing
  <2> QED
    BY <1>1, <1>2, <2>1, LeastElement
<1>4. 0 .. m - 1 \subseteq Landed(f)
  <2>1. ASSUME NEW k \in 0 .. m - 1 PROVE k \in Landed(f)
    <3>1. k \in 0 .. fetch[f].size /\ ~(m <= k)
      BY <1>1
    <3> QED
      BY <1>3, <3>1
  <2> QED
    BY <2>1
<1> QED
  BY <1>3, <1>4

(* A landed chunk is published, and the watermark moves up. *)
LEMMA PublishIsSound ==
  ASSUME FilesInv, NEW f \in Fetches, NEW c \in 0 .. fetch[f].size - 1, Publish(f, c)
  PROVE  FilesInv'
<1>1. Typed /\ Names /\ Fetching(f) /\ Running(f) /\ fetch[f].phase = "swarm"
  BY DEF FilesInv, Publish, Running
<1>2. UNCHANGED <<data, part, cache, live>> /\ c \in Landed(f)
  BY DEF Publish, diskVars, others
<1> DEFINE m == CHOOSE m \in 0 .. fetch[f].size :
                  0 .. m - 1 \subseteq Landed(f) /\ m \notin Landed(f)
           mark == IF m > fetch[f].progress THEN m ELSE fetch[f].progress
<1>3. Set(f, [chunkOK |-> fetch[f].chunkOK \cup {c}, progress |-> mark])
  BY DEF Publish
<1>4. m \in 0 .. fetch[f].size /\ 0 .. m - 1 \subseteq Landed(f) /\ m \notin Landed(f)
  BY <1>1, WatermarkFacts
<1> HIDE DEF m
<1>5. /\ fetch[f].size \in Nat /\ fetch[f].progress \in Nat /\ fetch[f].chunkOK \subseteq Nat
      /\ fetch[f].chunked /\ fetch[f].size = fetch[f].from.size /\ fetch[f].from \in Claims
      /\ Len(data[fetch[f].fd]) = fetch[f].size /\ fetch[f].progress <= fetch[f].size
      /\ fetch[f].chunkOK \subseteq 0 .. fetch[f].size - 1
      /\ \A i \in fetch[f].chunkOK :
           i + 1 \in DOMAIN data[fetch[f].fd] /\ data[fetch[f].fd][i + 1] # "hole"
      /\ data[fetch[f].fd] \in Seq(Chunk) /\ fetch[f].fd \in DOMAIN data
  BY <1>1, SMTT(60) DEF Typed, FetchTyped, Fetching, OwnFile, Writing, Swarming
<1>6. mark \in Nat /\ mark <= fetch[f].size /\ m <= mark
  BY <1>4, <1>5
<1> HIDE DEF mark
<1>7. /\ Keeps(f, {"chunkOK", "progress"}) /\ fetch'[f].chunkOK = fetch[f].chunkOK \cup {c}
      /\ fetch'[f].progress = mark
  BY <1>1, <1>3, SetFacts DEF Fields, Keeps
<1>8. DOMAIN fetch' = Fetches /\ \A g \in Fetches \ {f} : fetch'[g] = fetch[g]
  BY <1>1, <1>3, SetFacts
<1>9. c \in 0 .. fetch[f].size - 1 /\ c + 1 \in DOMAIN data[fetch[f].fd]
      /\ data[fetch[f].fd][c + 1] # "hole"
  BY <1>2, <1>5 DEF Landed
<1>10. FetchTyped(fetch'[f]) /\ Running(f)'
  <2>1. fetch'[f].chunkOK \subseteq Nat /\ fetch'[f].progress \in Nat
    BY <1>5, <1>6, <1>7
  <2> QED
    BY <1>1, <1>7, <2>1 DEF Typed, FetchTyped, Phases, Fields, Keeps, Running
<1>11. OwnFile(f)'
  BY <1>1, <1>2, <1>7 DEF Fields, Keeps, Fetching, OwnFile, Writing
<1>12. Swarming(f)'
  <2>1. ASSUME NEW k \in 0 .. fetch[f].size, 0 .. k - 1 \subseteq fetch[f].chunkOK \cup {c}
        PROVE  k <= mark
    <3>1. fetch[f].chunkOK \cup {c} \subseteq Landed(f)
      BY <1>5, <1>9 DEF Landed
    <3>2. ~(m \in 0 .. k - 1)
      BY <1>4, <2>1, <3>1
    <3> QED
      BY <1>4, <1>6, <3>2
  <2>2. /\ fetch'[f].phase = "swarm" /\ fetch'[f].size = fetch[f].size
        /\ fetch'[f].fd = fetch[f].fd /\ fetch'[f].from = fetch[f].from /\ fetch'[f].chunked
    BY <1>1, <1>5, <1>7 DEF Fields, Keeps
  <2> QED
    BY <1>2, <1>5, <1>6, <1>7, <1>9, <2>1, <2>2 DEF Swarming
<1>13. Streaming(f)' /\ Ending(f)'
  BY <1>1, <1>7 DEF Fields, Keeps, Fetching, Streaming, Ending
<1> QED
  BY <1>1, <1>2, <1>8, <1>10, <1>11, <1>12, <1>13, QuietIsSound DEF Fetching

(* The swarm gives up, or has every chunk. *)
LEMMA SwarmEndsIsSound ==
  ASSUME FilesInv, NEW f \in Fetches, SwarmEnds(f)
  PROVE  FilesInv'
<1>1. Typed /\ Names /\ Fetching(f) /\ Running(f) /\ fetch[f].phase = "swarm"
  BY DEF FilesInv, SwarmEnds, Running
<1>2. UNCHANGED <<data, part, cache, live>>
  BY DEF SwarmEnds, diskVars, others
<1>3. \/ Set(f, [phase |-> "reset"])
      \/ fetch[f].chunkOK = 0 .. fetch[f].size - 1 /\ Set(f, [phase |-> "verify"])
  BY DEF SwarmEnds, Go
<1>4. CASE Set(f, [phase |-> "reset"])
  <2>1. Keeps(f, {"phase"}) /\ fetch'[f].phase = "reset"
    BY <1>1, <1>2, <1>4, SetFacts DEF Fields, Keeps
  <2>2. DOMAIN fetch' = Fetches /\ \A g \in Fetches \ {f} : fetch'[g] = fetch[g]
    BY <1>1, <1>2, <1>4, SetFacts
  <2>3. FetchTyped(fetch'[f]) /\ Running(f)'
    BY <1>1, <1>2, <1>4, <2>1, SMTT(60) DEF Typed, FetchTyped, Phases, Fields, Keeps, Running
  <2>4. OwnFile(f)'
    BY <1>1, <1>2, <1>4, <2>1 DEF Fields, Keeps, Fetching, OwnFile, Writing
  <2>5. Swarming(f)'
    BY <1>1, <1>2, <1>4, <2>1 DEF Fields, Keeps, Fetching, Swarming, Streaming
  <2>6. Streaming(f)'
    BY <1>1, <1>2, <1>4, <2>1 DEF Fields, Keeps, Fetching, Streaming
  <2>7. Ending(f)'
    BY <1>1, <1>2, <1>4, <2>1 DEF Fields, Keeps, Fetching, Ending, Kept
  <2> QED
    BY <1>1, <1>2, <2>2, <2>3, <2>4, <2>5, <2>6, <2>7, QuietIsSound DEF Fetching
<1>5. CASE fetch[f].chunkOK = 0 .. fetch[f].size - 1 /\ Set(f, [phase |-> "verify"])
  <2>1. Keeps(f, {"phase"}) /\ fetch'[f].phase = "verify"
    BY <1>1, <1>2, <1>5, SetFacts DEF Fields, Keeps
  <2>2. DOMAIN fetch' = Fetches /\ \A g \in Fetches \ {f} : fetch'[g] = fetch[g]
    BY <1>1, <1>2, <1>5, SetFacts
  <2>3. FetchTyped(fetch'[f]) /\ Running(f)'
    BY <1>1, <1>2, <1>5, <2>1, SMTT(60) DEF Typed, FetchTyped, Phases, Fields, Keeps, Running
  <2>4. OwnFile(f)'
    BY <1>1, <1>2, <1>5, <2>1 DEF Fields, Keeps, Fetching, OwnFile, Writing
  <2>5. Swarming(f)'
    BY <1>1, <1>2, <1>5, <2>1, ZenonT(60) DEF Fields, Keeps, Fetching, Swarming, Streaming
  <2>6. Streaming(f)'
    BY <1>1, <1>2, <1>5, <2>1 DEF Fields, Keeps, Fetching, Streaming
  <2>7. Ending(f)'
    BY <1>1, <1>2, <1>5, <2>1 DEF Fields, Keeps, Fetching, Ending, Kept
  <2> QED
    BY <1>1, <1>2, <2>2, <2>3, <2>4, <2>5, <2>6, <2>7, QuietIsSound DEF Fetching
<1> QED
  BY <1>3, <1>4, <1>5

(* The assembled file is hashed. *)
LEMMA VerifyIsSound ==
  ASSUME FilesInv, NEW f \in Fetches, Verify(f)
  PROVE  FilesInv'
<1>1. Typed /\ Names /\ Fetching(f) /\ Running(f) /\ fetch[f].phase = "verify"
  BY DEF FilesInv, Verify, Running
<1>2. UNCHANGED <<data, part, cache, live>>
  BY DEF Verify, diskVars, others
<1>3. \/ Set(f, [phase |-> "reset"])
      \/ part # None /\ data[part] = Blob /\ Set(f, [phase |-> "rename"])
  BY DEF Verify, Go
<1>4. CASE Set(f, [phase |-> "reset"])
  <2>1. Keeps(f, {"phase"}) /\ fetch'[f].phase = "reset"
    BY <1>1, <1>2, <1>4, SetFacts DEF Fields, Keeps
  <2>2. DOMAIN fetch' = Fetches /\ \A g \in Fetches \ {f} : fetch'[g] = fetch[g]
    BY <1>1, <1>2, <1>4, SetFacts
  <2>3. FetchTyped(fetch'[f]) /\ Running(f)'
    BY <1>1, <1>2, <1>4, <2>1, SMTT(60) DEF Typed, FetchTyped, Phases, Fields, Keeps, Running
  <2>4. OwnFile(f)'
    BY <1>1, <1>2, <1>4, <2>1 DEF Fields, Keeps, Fetching, OwnFile, Writing
  <2>5. Swarming(f)'
    BY <1>1, <1>2, <1>4, <2>1, SMTT(60) DEF Fields, Keeps, Fetching, Swarming, Streaming
  <2>6. Streaming(f)'
    BY <1>1, <1>2, <1>4, <2>1 DEF Fields, Keeps, Fetching, Streaming
  <2>7. Ending(f)'
    BY <1>1, <1>2, <1>4, <2>1 DEF Fields, Keeps, Fetching, Ending, Kept
  <2> QED
    BY <1>1, <1>2, <2>2, <2>3, <2>4, <2>5, <2>6, <2>7, QuietIsSound DEF Fetching
<1>5. CASE part # None /\ data[part] = Blob /\ Set(f, [phase |-> "rename"])
  <2>0. fetch[f].progress = Size /\ fetch[f].size = Size
    <3>1. Len(data[part]) = Size
      BY <1>5, TransferAssumption DEF Blob
    <3>2. Len(data[part]) = fetch[f].size /\ fetch[f].size \in Nat /\ fetch[f].progress \in Nat
      BY <1>1, <1>5 DEF Typed, FetchTyped, Fetching, OwnFile, Writing, Swarming
    <3>3. fetch[f].progress <= fetch[f].size /\ fetch[f].size <= fetch[f].progress
      BY <1>1, <3>2 DEF Fetching, Swarming
    <3> QED
      BY <3>1, <3>2, <3>3
  <2>1. Keeps(f, {"phase"}) /\ fetch'[f].phase = "rename"
    BY <1>1, <1>2, <1>5, <2>0, SetFacts DEF Fields, Keeps
  <2>2. DOMAIN fetch' = Fetches /\ \A g \in Fetches \ {f} : fetch'[g] = fetch[g]
    BY <1>1, <1>2, <1>5, <2>0, SetFacts
  <2>3. FetchTyped(fetch'[f]) /\ Running(f)'
    BY <1>1, <1>2, <1>5, <2>0, <2>1, SMTT(60) DEF Typed, FetchTyped, Phases, Fields, Keeps, Running
  <2>4. OwnFile(f)'
    BY <1>1, <1>2, <1>5, <2>0, <2>1 DEF Fields, Keeps, Fetching, OwnFile, Writing
  <2>5. Swarming(f)'
    BY <1>1, <1>2, <1>5, <2>0, <2>1 DEF Fields, Keeps, Fetching, Swarming, Streaming
  <2>6. Streaming(f)'
    BY <1>1, <1>2, <1>5, <2>0, <2>1 DEF Fields, Keeps, Fetching, Streaming
  <2>7. Ending(f)'
    BY <1>1, <1>2, <1>5, <2>0, <2>1 DEF Fields, Keeps, Fetching, Ending, Kept
  <2> QED
    BY <1>1, <1>2, <2>2, <2>3, <2>4, <2>5, <2>6, <2>7, QuietIsSound DEF Fetching
<1> QED
  BY <1>3, <1>4, <1>5

(* The assembled file did not verify and is emptied in place. *)
LEMMA DiscardIsSound ==
  ASSUME FilesInv, NEW f \in Fetches, Discard(f)
  PROVE  FilesInv'
<1>1. Typed /\ Names /\ Fetching(f) /\ Running(f) /\ fetch[f].phase \in {"reset", "truncate"}
  BY DEF FilesInv, Discard, Running
<1>2. UNCHANGED <<part, cache, live>>
  BY DEF Discard, others
<1>3. CASE Restart(f, "truncate", fetch[f].turn) /\ UNCHANGED data /\ fetch[f].phase = "reset"
  <2>0. Set(f, [progress |-> 0, chunked |-> FALSE, chunkOK |-> {}, phase |-> "truncate",
                turn |-> fetch[f].turn]) /\ fetch[f].turn \in Nat \ {0}
    BY <1>1, <1>3 DEF Restart, Typed, FetchTyped
  <2>1. Keeps(f, {"phase", "progress", "chunked", "chunkOK", "turn"}) /\ fetch'[f].phase = "truncate" /\ fetch'[f].progress = 0 /\ fetch'[f].chunked = FALSE /\ fetch'[f].chunkOK = {} /\ fetch'[f].turn = fetch[f].turn
    BY <1>1, <1>2, <1>3, <2>0, SetFacts DEF Fields, Keeps
  <2>2. DOMAIN fetch' = Fetches /\ \A g \in Fetches \ {f} : fetch'[g] = fetch[g]
    BY <1>1, <1>2, <1>3, <2>0, SetFacts
  <2>3. FetchTyped(fetch'[f]) /\ Running(f)'
    <3>1. fetch'[f].chunkOK \subseteq Nat /\ fetch'[f].progress \in Nat /\ fetch'[f].turn \in Nat \ {0}
      BY <2>0, <2>1
    <3> QED
      BY <1>1, <2>1, <3>1, ZenonT(60) DEF Typed, FetchTyped, Phases, Fields, Keeps, Running
  <2>4. OwnFile(f)'
    BY <1>1, <1>2, <1>3, <2>0, <2>1 DEF Fields, Keeps, Fetching, OwnFile, Writing
  <2>5. Swarming(f)'
    BY <1>1, <1>2, <1>3, <2>0, <2>1 DEF Fields, Keeps, Fetching, Swarming, Streaming
  <2>6. Streaming(f)'
    BY <1>1, <1>2, <1>3, <2>0, <2>1 DEF Fields, Keeps, Fetching, Streaming
  <2>7. Ending(f)'
    BY <1>1, <1>2, <1>3, <2>0, <2>1 DEF Fields, Keeps, Fetching, Ending, Kept
  <2> QED
    BY <1>1, <1>2, <1>3, <2>2, <2>3, <2>4, <2>5, <2>6, <2>7, QuietIsSound DEF Fetching
<1>4. CASE /\ Set(f, [phase |-> "whole"]) /\ fetch[f].phase = "truncate"
           /\ data' = IF part = None THEN data ELSE [data EXCEPT ![part] = <<>>]
  <2>1. Keeps(f, {"phase"}) /\ fetch'[f].phase = "whole"
    BY <1>1, <1>2, <1>4, SetFacts DEF Fields, Keeps
  <2>2. DOMAIN fetch' = Fetches /\ \A g \in Fetches \ {f} : fetch'[g] = fetch[g]
    BY <1>1, <1>2, <1>4, SetFacts
  <2>3. FetchTyped(fetch'[f]) /\ Running(f)'
    BY <1>1, <1>2, <1>4, <2>1 DEF Typed, FetchTyped, Phases, Fields, Keeps, Running
  <2>4. OwnFile(f)'
    BY <1>1, <1>2, <1>4, <2>1 DEF Fields, Keeps, Fetching, OwnFile, Writing
  <2>5. Swarming(f)'
    BY <1>1, <1>2, <1>4, <2>1 DEF Fields, Keeps, Fetching, Swarming, Streaming
  <2>6. Streaming(f)'
    BY <1>1, <1>2, <1>4, <2>1 DEF Fields, Keeps, Fetching, Streaming
  <2>7. Ending(f)'
    BY <1>1, <1>2, <1>4, <2>1 DEF Fields, Keeps, Fetching, Ending, Kept
  <2>8. CASE part = None
    BY <1>1, <1>2, <1>4, <2>2, <2>3, <2>4, <2>5, <2>6, <2>7, <2>8, QuietIsSound DEF Fetching
  <2>9. CASE part # None
    <3>1. part = fetch[f].fd /\ <<>> \in Seq(Chunk)
      BY <1>1, <2>9 DEF Fetching, OwnFile, Writing
    <3> QED
      BY <1>1, <1>2, <1>4, <2>2, <2>3, <2>4, <2>5, <2>6, <2>7, <2>9, <3>1, WritingIsSound
         DEF Fetching, Writing
  <2> QED
    BY <2>8, <2>9
<1> QED
  BY <1>1, <1>3, <1>4 DEF Discard, Go

(* The next holder is asked for the whole file. *)
LEMMA FetchFromIsSound ==
  ASSUME FilesInv, NEW f \in Fetches, FetchFrom(f)
  PROVE  FilesInv'
<1>1. Typed /\ Names /\ Fetching(f) /\ Running(f) /\ fetch[f].phase = "whole"
  BY DEF FilesInv, FetchFrom, Running
<1>2. UNCHANGED live
  BY DEF FetchFrom, others
<1>3. CASE UNCHANGED diskVars /\ Set(f, [phase |-> "remove"])
  <2>1. Keeps(f, {"phase"}) /\ fetch'[f].phase = "remove"
    BY <1>1, <1>2, <1>3, SetFacts DEF Fields, Keeps
  <2>2. DOMAIN fetch' = Fetches /\ \A g \in Fetches \ {f} : fetch'[g] = fetch[g]
    BY <1>1, <1>2, <1>3, SetFacts
  <2>3. FetchTyped(fetch'[f]) /\ Running(f)'
    BY <1>1, <1>2, <1>3, <2>1, SMTT(60) DEF Typed, FetchTyped, Phases, Fields, Keeps, Running
  <2>4. OwnFile(f)'
    BY <1>1, <1>2, <1>3, <2>1 DEF Fields, Keeps, Fetching, OwnFile, Writing
  <2>5. Swarming(f)'
    BY <1>1, <1>2, <1>3, <2>1 DEF Fields, Keeps, Fetching, Swarming, Streaming
  <2>6. Streaming(f)'
    BY <1>1, <1>2, <1>3, <2>1 DEF Fields, Keeps, Fetching, Streaming
  <2>7. Ending(f)'
    BY <1>1, <1>2, <1>3, <2>1 DEF Fields, Keeps, Fetching, Ending, Kept
  <2> QED
    BY <1>1, <1>2, <1>3, <2>2, <2>3, <2>4, <2>5, <2>6, <2>7, QuietIsSound DEF Fetching, diskVars
<1>4. CASE UNCHANGED diskVars /\ Set(f, [phase |-> "finish", failed |-> TRUE])
  <2>1. Keeps(f, {"phase", "failed"}) /\ fetch'[f].phase = "finish" /\ fetch'[f].failed
    BY <1>1, <1>2, <1>4, SetFacts DEF Fields, Keeps
  <2>2. DOMAIN fetch' = Fetches /\ \A g \in Fetches \ {f} : fetch'[g] = fetch[g]
    BY <1>1, <1>2, <1>4, SetFacts
  <2>3. FetchTyped(fetch'[f]) /\ Running(f)'
    BY <1>1, <1>2, <1>4, <2>1, SMTT(60) DEF Typed, FetchTyped, Phases, Fields, Keeps, Running
  <2>4. OwnFile(f)'
    BY <1>1, <1>2, <1>4, <2>1 DEF Fields, Keeps, Fetching, OwnFile, Writing
  <2>5. Swarming(f)'
    BY <1>1, <1>2, <1>4, <2>1 DEF Fields, Keeps, Fetching, Swarming, Streaming
  <2>6. Streaming(f)'
    BY <1>1, <1>2, <1>4, <2>1 DEF Fields, Keeps, Fetching, Streaming
  <2>7. Ending(f)'
    BY <1>1, <1>2, <1>4, <2>1 DEF Fields, Keeps, Fetching, Ending, Kept
  <2> QED
    BY <1>1, <1>2, <1>4, <2>2, <2>3, <2>4, <2>5, <2>6, <2>7, QuietIsSound DEF Fetching, diskVars
<1>5. CASE UNCHANGED diskVars /\ Restart(f, "whole", fetch[f].turn + 1)
  <2>0. Set(f, [progress |-> 0, chunked |-> FALSE, chunkOK |-> {}, phase |-> "whole",
                turn |-> fetch[f].turn + 1]) /\ fetch[f].turn + 1 \in Nat \ {0}
    BY <1>1, <1>5 DEF Restart, Typed, FetchTyped
  <2>1. Keeps(f, {"phase", "progress", "chunked", "chunkOK", "turn"}) /\ fetch'[f].phase = "whole" /\ fetch'[f].progress = 0 /\ fetch'[f].chunked = FALSE /\ fetch'[f].chunkOK = {} /\ fetch'[f].turn = fetch[f].turn + 1
    BY <1>1, <1>2, <1>5, <2>0, SetFacts DEF Fields, Keeps
  <2>2. DOMAIN fetch' = Fetches /\ \A g \in Fetches \ {f} : fetch'[g] = fetch[g]
    BY <1>1, <1>2, <1>5, <2>0, SetFacts
  <2>3. FetchTyped(fetch'[f]) /\ Running(f)'
    <3>1. fetch'[f].chunkOK \subseteq Nat /\ fetch'[f].progress \in Nat /\ fetch'[f].turn \in Nat \ {0}
      BY <2>0, <2>1
    <3> QED
      BY <1>1, <2>1, <3>1 DEF Typed, FetchTyped, Phases, Fields, Keeps, Running
  <2>4. OwnFile(f)'
    BY <1>1, <1>2, <1>5, <2>0, <2>1 DEF Fields, Keeps, Fetching, OwnFile, Writing
  <2>5. Swarming(f)'
    BY <1>1, <1>2, <1>5, <2>0, <2>1 DEF Fields, Keeps, Fetching, Swarming, Streaming
  <2>6. Streaming(f)'
    BY <1>1, <1>2, <1>5, <2>0, <2>1 DEF Fields, Keeps, Fetching, Streaming
  <2>7. Ending(f)'
    BY <1>1, <1>2, <1>5, <2>0, <2>1 DEF Fields, Keeps, Fetching, Ending, Kept
  <2> QED
    BY <1>1, <1>2, <1>5, <2>2, <2>3, <2>4, <2>5, <2>6, <2>7, QuietIsSound DEF Fetching, diskVars
<1>6. ASSUME fetch[f].turn \in DOMAIN Offers, NEW o \in Offers[fetch[f].turn], OpenPart(0),
             NEW w \in BOOLEAN,
             Set(f, [phase |-> "stream", fd |-> PartFile, size |-> o.size,
                     from |-> [size |-> o.size, good |-> o.good, quorum |-> FALSE],
                     withheld |-> w])
      PROVE  FilesInv'
  <2> DEFINE from == [size |-> o.size, good |-> o.good, quorum |-> FALSE]
  <2>0. from \in Claims /\ o.size \in Nat /\ from.size = o.size
    BY <1>6, TransferAssumption DEF Claims
  <2>00. Set(f, [phase |-> "stream", fd |-> PartFile, size |-> o.size, from |-> from,
                 withheld |-> w])
    BY <1>6
  <2> HIDE DEF from
  <2>1. Keeps(f, {"phase", "fd", "size", "from", "withheld"}) /\ fetch'[f].phase = "stream" /\ fetch'[f].fd = PartFile /\ fetch'[f].size = o.size /\ fetch'[f].from = from /\ fetch'[f].withheld = w
    BY <1>1, <1>6, <2>0, <2>00, SetFacts DEF Fields, Keeps
  <2>2. DOMAIN fetch' = Fetches /\ \A g \in Fetches \ {f} : fetch'[g] = fetch[g]
    BY <1>1, <1>6, <2>0, <2>00, SetFacts
  <2>3. FetchTyped(fetch'[f]) /\ Running(f)'
    BY <1>1, <1>6, <2>0, <2>00, <2>1, ZenonT(60) DEF Typed, FetchTyped, Phases, Fields, Keeps, Running
  <2>4. OwnFile(f)'
    BY <1>1, <1>6, <2>0, <2>00, <2>1, OpenFacts DEF Fields, Keeps, Fetching, OwnFile, Writing
  <2>5. Swarming(f)'
    BY <1>1, <1>6, <2>0, <2>00, <2>1 DEF Fields, Keeps, Fetching, Swarming, Streaming
  <2>6. Streaming(f)'
    <3>1. /\ fetch'[f].fd = PartFile /\ fetch'[f].size = o.size /\ fetch'[f].from = from
          /\ fetch'[f].chunkOK = {} /\ fetch'[f].progress = 0 /\ fetch'[f].phase = "stream"
      BY <1>1, <2>1 DEF Fields, Keeps, Fetching, Streaming
    <3>2. Len(data'[PartFile]) = 0 /\ DOMAIN data'[PartFile] = {}
      <4>1. data'[PartFile] = Holes(0) /\ Len(Holes(0)) = 0
        BY <1>1, <1>6, OpenFacts
      <4>2. DOMAIN Holes(0) = {}
        BY DEF Holes
      <4> QED
        BY <4>1, <4>2
    <3> QED
      BY <2>0, <3>1, <3>2 DEF Streaming
  <2>7. Ending(f)'
    BY <1>1, <1>6, <2>0, <2>00, <2>1 DEF Fields, Keeps, Fetching, Ending, Kept
  <2>8. Typed' /\ Names'
    BY <1>1, <1>2, <1>6, <2>2, <2>3, OpenFacts, TransferAssumption DEF Typed, Names
  <2> QED
    BY <1>1, <1>2, <2>2, <2>3, <2>4, <2>5, <2>6, <2>7, <2>8, StepIsSound DEF Fetching
<1>7. fetch[f].turn \in Nat \ {0} /\ Offers \in Seq(SUBSET [size : Nat \ {0}, good : BOOLEAN])
  BY <1>1, TransferAssumption DEF Typed, FetchTyped
<1>8. fetch[f].turn > Len(Offers) \/ fetch[f].turn \in DOMAIN Offers
  BY <1>7
<1> QED
  BY <1>3, <1>4, <1>5, <1>6, <1>8 DEF FetchFrom, Go

(* A stream ends, and its hash decides. *)
LEMMA StreamEndsIsSound ==
  ASSUME FilesInv, NEW f \in Fetches, StreamEnds(f)
  PROVE  FilesInv'
<1>1. Typed /\ Names /\ Fetching(f) /\ Running(f) /\ fetch[f].phase = "stream"
  BY DEF FilesInv, StreamEnds, Running
<1>2. UNCHANGED <<data, part, cache, live>>
  BY DEF StreamEnds, diskVars, others
<1>3. CASE Restart(f, "whole", fetch[f].turn + 1)
  <2>0. Set(f, [progress |-> 0, chunked |-> FALSE, chunkOK |-> {}, phase |-> "whole",
                turn |-> fetch[f].turn + 1]) /\ fetch[f].turn + 1 \in Nat \ {0}
    BY <1>1, <1>3 DEF Restart, Typed, FetchTyped
  <2>1. Keeps(f, {"phase", "progress", "chunked", "chunkOK", "turn"}) /\ fetch'[f].phase = "whole" /\ fetch'[f].progress = 0 /\ fetch'[f].chunked = FALSE /\ fetch'[f].chunkOK = {} /\ fetch'[f].turn = fetch[f].turn + 1
    BY <1>1, <1>2, <1>3, <2>0, SetFacts DEF Fields, Keeps
  <2>2. DOMAIN fetch' = Fetches /\ \A g \in Fetches \ {f} : fetch'[g] = fetch[g]
    BY <1>1, <1>2, <1>3, <2>0, SetFacts
  <2>3. FetchTyped(fetch'[f]) /\ Running(f)'
    <3>1. fetch'[f].chunkOK \subseteq Nat /\ fetch'[f].progress \in Nat /\ fetch'[f].turn \in Nat \ {0}
      BY <2>0, <2>1
    <3> QED
      BY <1>1, <2>1, <3>1 DEF Typed, FetchTyped, Phases, Fields, Keeps, Running
  <2>4. OwnFile(f)'
    BY <1>1, <1>2, <1>3, <2>0, <2>1 DEF Fields, Keeps, Fetching, OwnFile, Writing
  <2>5. Swarming(f)'
    BY <1>1, <1>2, <1>3, <2>0, <2>1 DEF Fields, Keeps, Fetching, Swarming, Streaming
  <2>6. Streaming(f)'
    BY <1>1, <1>2, <1>3, <2>0, <2>1 DEF Fields, Keeps, Fetching, Streaming
  <2>7. Ending(f)'
    BY <1>1, <1>2, <1>3, <2>0, <2>1 DEF Fields, Keeps, Fetching, Ending, Kept
  <2> QED
    BY <1>1, <1>2, <2>2, <2>3, <2>4, <2>5, <2>6, <2>7, QuietIsSound DEF Fetching
<1>4. CASE /\ fetch[f].progress = fetch[f].from.size /\ fetch[f].from.good
           /\ fetch[f].from.size = Size /\ Set(f, [phase |-> "rename"])
  <2>0. /\ fetch[f].progress = Size /\ fetch[f].size = Size
        /\ part # None => data[part] = Blob
    <3>1. /\ fetch[f].size = fetch[f].from.size /\ fetch[f].progress <= Len(data[fetch[f].fd])
          /\ Len(data[fetch[f].fd]) <= fetch[f].size
          /\ \A i \in DOMAIN data[fetch[f].fd] : data[fetch[f].fd][i] = "good"
          /\ fetch[f].fd \in DOMAIN data /\ part \in {None, fetch[f].fd}
      BY <1>1, <1>4 DEF Fetching, Streaming, OwnFile, Writing, Byte
    <3>2. data[fetch[f].fd] \in Seq(Chunk) /\ Size \in Nat
      BY <1>1, <3>1, TransferAssumption DEF Typed
    <3>3. Len(data[fetch[f].fd]) = Size
      BY <1>4, <3>1, <3>2
    <3>4. data[fetch[f].fd] = Blob
      BY <3>1, <3>2, <3>3 DEF Blob
    <3> QED
      BY <1>4, <3>1, <3>4
  <2>1. Keeps(f, {"phase"}) /\ fetch'[f].phase = "rename"
    BY <1>1, <1>2, <1>4, <2>0, SetFacts DEF Fields, Keeps
  <2>2. DOMAIN fetch' = Fetches /\ \A g \in Fetches \ {f} : fetch'[g] = fetch[g]
    BY <1>1, <1>2, <1>4, <2>0, SetFacts
  <2>3. FetchTyped(fetch'[f]) /\ Running(f)'
    BY <1>1, <1>2, <1>4, <2>0, <2>1 DEF Typed, FetchTyped, Phases, Fields, Keeps, Running
  <2>4. OwnFile(f)'
    BY <1>1, <1>2, <1>4, <2>0, <2>1 DEF Fields, Keeps, Fetching, OwnFile, Writing
  <2>5. Swarming(f)'
    BY <1>1, <1>2, <1>4, <2>0, <2>1 DEF Fields, Keeps, Fetching, Swarming, Streaming
  <2>6. Streaming(f)'
    BY <1>1, <1>2, <1>4, <2>0, <2>1 DEF Fields, Keeps, Fetching, Streaming
  <2>7. Ending(f)'
    BY <1>1, <1>2, <1>4, <2>0, <2>1 DEF Fields, Keeps, Fetching, Ending, Kept
  <2> QED
    BY <1>1, <1>2, <2>2, <2>3, <2>4, <2>5, <2>6, <2>7, QuietIsSound DEF Fetching
<1> QED
  BY <1>3, <1>4 DEF StreamEnds, Go

(* A buffer is written, then counted. *)
LEMMA StreamIsSound ==
  ASSUME FilesInv, NEW f \in Fetches, Stream(f)
  PROVE  FilesInv'
<1>1. Typed /\ Names /\ Fetching(f) /\ Running(f) /\ fetch[f].phase = "stream"
  BY DEF FilesInv, Stream, Running
<1>2. UNCHANGED <<part, cache, live>>
  BY DEF Stream, others
<1> DEFINE file == data[fetch[f].fd]
<1>3. /\ fetch[f].fd \in DOMAIN data /\ fetch[f].progress <= Len(file)
      /\ Len(file) <= fetch[f].size /\ fetch[f].size = fetch[f].from.size
      /\ \A i \in DOMAIN file : file[i] = Byte(fetch[f].from)
  BY <1>1 DEF Fetching, OwnFile, Writing, Streaming
<1>4. file \in Seq(Chunk) /\ fetch[f].progress \in Nat /\ fetch[f].size \in Nat
      /\ fetch[f].received \in Nat
  BY <1>1, <1>3 DEF Typed, FetchTyped
<1>5. CASE /\ Len(file) = fetch[f].progress /\ Len(file) < fetch[f].from.size
           /\ data' = [data EXCEPT ![fetch[f].fd] = Append(@, Byte(fetch[f].from))]
           /\ Set(f, [received |-> fetch[f].received + 1])
  <2> DEFINE s == Append(file, Byte(fetch[f].from))
  <2>0. /\ s \in Seq(Chunk) /\ Len(s) = Len(file) + 1
        /\ \A i \in DOMAIN s : s[i] = Byte(fetch[f].from)
    <3>1. Byte(fetch[f].from) \in Chunk
      BY DEF Byte, Chunk
    <3> QED
      BY <1>3, <1>4, <3>1
  <2>00. data' = [data EXCEPT ![fetch[f].fd] = s]
    BY <1>5
  <2> HIDE DEF s
  <2>1. Keeps(f, {"received"}) /\ fetch'[f].received = fetch[f].received + 1
    BY <1>1, <1>2, <1>4, <1>5, SetFacts DEF Fields, Keeps
  <2>2. DOMAIN fetch' = Fetches /\ \A g \in Fetches \ {f} : fetch'[g] = fetch[g]
    BY <1>1, <1>2, <1>4, <1>5, SetFacts
  <2>3. FetchTyped(fetch'[f]) /\ Running(f)'
    <3>1. fetch'[f].received \in Nat
      BY <1>4, <2>1
    <3> QED
      BY <1>1, <2>1, <3>1 DEF Typed, FetchTyped, Phases, Fields, Keeps, Running
  <2>4. ASSUME data'[fetch[f].fd] = s PROVE Fetching(f)'
    <3>1. OwnFile(f)'
      BY <1>1, <1>2, <2>00, <2>1 DEF Fields, Keeps, Fetching, OwnFile, Writing
    <3>2. Swarming(f)' /\ Ending(f)'
      BY <1>1, <2>1 DEF Fields, Keeps, Fetching, Swarming, Ending
    <3>3. Streaming(f)'
      <4>1. /\ fetch'[f].fd = fetch[f].fd /\ fetch'[f].size = fetch[f].size
            /\ fetch'[f].from = fetch[f].from /\ fetch'[f].progress = fetch[f].progress
            /\ fetch'[f].chunkOK = {} /\ fetch'[f].phase = "stream" /\ fetch[f].from \in Claims
        BY <1>1, <2>1 DEF Fields, Keeps, Fetching, Streaming
      <4>2. fetch[f].progress <= Len(s) /\ Len(s) <= fetch[f].size
        BY <1>3, <1>4, <1>5, <2>0
      <4> QED
        BY <1>3, <2>0, <2>4, <4>1, <4>2 DEF Streaming
    <3> QED
      BY <3>1, <3>2, <3>3 DEF Fetching
  <2> QED
    BY <1>1, <1>2, <2>0, <2>00, <2>2, <2>3, <2>4, WritingIsSound DEF Writing
<1>6. CASE /\ Len(file) > fetch[f].progress /\ Set(f, [progress |-> Len(file)])
           /\ UNCHANGED data
  <2>1. Keeps(f, {"progress"}) /\ fetch'[f].progress = Len(file)
    BY <1>1, <1>2, <1>3, <1>4, <1>6, SetFacts DEF Fields, Keeps
  <2>2. DOMAIN fetch' = Fetches /\ \A g \in Fetches \ {f} : fetch'[g] = fetch[g]
    BY <1>1, <1>2, <1>3, <1>4, <1>6, SetFacts
  <2>3. FetchTyped(fetch'[f]) /\ Running(f)'
    <3>1. fetch'[f].progress \in Nat
      BY <1>4, <2>1
    <3> QED
      BY <1>1, <2>1, <3>1 DEF Typed, FetchTyped, Phases, Fields, Keeps, Running
  <2>4. OwnFile(f)'
    BY <1>1, <1>2, <1>3, <1>4, <1>6, <2>1 DEF Fields, Keeps, Fetching, OwnFile, Writing
  <2>5. Swarming(f)'
    BY <1>1, <1>2, <1>3, <1>4, <1>6, <2>1 DEF Fields, Keeps, Fetching, Swarming, Streaming
  <2>6. Streaming(f)'
    BY <1>1, <1>2, <1>3, <1>4, <1>6, <2>1 DEF Fields, Keeps, Fetching, Streaming
  <2>7. Ending(f)'
    BY <1>1, <1>2, <1>3, <1>4, <1>6, <2>1 DEF Fields, Keeps, Fetching, Ending, Kept
  <2> QED
    BY <1>1, <1>2, <1>6, <2>2, <2>3, <2>4, <2>5, <2>6, <2>7, QuietIsSound DEF Fetching
<1> QED
  BY <1>5, <1>6 DEF Stream

(* The verified file takes the blob's name, or cannot. *)
LEMMA RenameIsSound ==
  ASSUME FilesInv, NEW f \in Fetches, Rename(f)
  PROVE  FilesInv'
<1>1. Typed /\ Names /\ Fetching(f) /\ Running(f) /\ fetch[f].phase = "rename"
  BY DEF FilesInv, Rename, Running
<1>2. UNCHANGED <<data, live>>
  BY DEF Rename, others
<1>3. CASE part # None /\ cache' = part /\ part' = None /\ Set(f, [phase |-> "finish"])
  <2>1. Keeps(f, {"phase"}) /\ fetch'[f].phase = "finish"
    BY <1>1, <1>2, <1>3, SetFacts DEF Fields, Keeps
  <2>2. DOMAIN fetch' = Fetches /\ \A g \in Fetches \ {f} : fetch'[g] = fetch[g]
    BY <1>1, <1>2, <1>3, SetFacts
  <2>3. FetchTyped(fetch'[f]) /\ Running(f)'
    BY <1>1, <1>2, <1>3, <2>1 DEF Typed, FetchTyped, Phases, Fields, Keeps, Running
  <2>4. OwnFile(f)'
    BY <1>1, <1>2, <1>3, <2>1 DEF Fields, Keeps, Fetching, OwnFile, Writing
  <2>5. Swarming(f)'
    BY <1>1, <1>2, <1>3, <2>1 DEF Fields, Keeps, Fetching, Swarming, Streaming
  <2>6. Streaming(f)'
    BY <1>1, <1>2, <1>3, <2>1 DEF Fields, Keeps, Fetching, Streaming
  <2>7. Ending(f)'
    BY <1>1, <1>2, <1>3, <2>1 DEF Fields, Keeps, Fetching, Ending, Kept
  <2>8. Typed' /\ Names'
    BY <1>1, <1>2, <1>3, <2>2, <2>3 DEF Typed, Names, Fetching, Ending
  <2> QED
    BY <1>1, <1>2, <2>2, <2>3, <2>4, <2>5, <2>6, <2>7, <2>8, StepIsSound DEF Fetching
<1>4. CASE UNCHANGED <<part, cache>> /\ Set(f, [phase |-> "remove"])
  <2>1. Keeps(f, {"phase"}) /\ fetch'[f].phase = "remove"
    BY <1>1, <1>2, <1>4, SetFacts DEF Fields, Keeps
  <2>2. DOMAIN fetch' = Fetches /\ \A g \in Fetches \ {f} : fetch'[g] = fetch[g]
    BY <1>1, <1>2, <1>4, SetFacts
  <2>3. FetchTyped(fetch'[f]) /\ Running(f)'
    BY <1>1, <1>2, <1>4, <2>1, SMTT(60) DEF Typed, FetchTyped, Phases, Fields, Keeps, Running
  <2>4. OwnFile(f)'
    BY <1>1, <1>2, <1>4, <2>1 DEF Fields, Keeps, Fetching, OwnFile, Writing
  <2>5. Swarming(f)'
    BY <1>1, <1>2, <1>4, <2>1 DEF Fields, Keeps, Fetching, Swarming, Streaming
  <2>6. Streaming(f)'
    BY <1>1, <1>2, <1>4, <2>1 DEF Fields, Keeps, Fetching, Streaming
  <2>7. Ending(f)'
    BY <1>1, <1>2, <1>4, <2>1 DEF Fields, Keeps, Fetching, Ending, Kept
  <2> QED
    BY <1>1, <1>2, <1>4, <2>2, <2>3, <2>4, <2>5, <2>6, <2>7, QuietIsSound DEF Fetching
<1> QED
  BY <1>3, <1>4 DEF Rename, Go

(* A failed fetch removes its part file. *)
LEMMA RemovePartIsSound ==
  ASSUME FilesInv, NEW f \in Fetches, RemovePart(f)
  PROVE  FilesInv'
<1>1. Typed /\ Names /\ Fetching(f) /\ Running(f) /\ fetch[f].phase = "remove"
  BY DEF FilesInv, RemovePart, Running
<1>2. UNCHANGED <<data, cache, live>> /\ part' = None
      /\ Set(f, [phase |-> "finish", failed |-> TRUE])
  BY DEF RemovePart, others
<1>3. CASE TRUE
  <2>1. Keeps(f, {"phase", "failed"}) /\ fetch'[f].phase = "finish" /\ fetch'[f].failed
    BY <1>1, <1>2, SetFacts DEF Fields, Keeps
  <2>2. DOMAIN fetch' = Fetches /\ \A g \in Fetches \ {f} : fetch'[g] = fetch[g]
    BY <1>1, <1>2, SetFacts
  <2>3. FetchTyped(fetch'[f]) /\ Running(f)'
    BY <1>1, <1>2, <2>1, SMTT(60) DEF Typed, FetchTyped, Phases, Fields, Keeps, Running
  <2>4. OwnFile(f)'
    BY <1>1, <1>2, <2>1 DEF Fields, Keeps, Fetching, OwnFile, Writing
  <2>5. Swarming(f)'
    BY <1>1, <1>2, <2>1 DEF Fields, Keeps, Fetching, Swarming, Streaming
  <2>6. Streaming(f)'
    BY <1>1, <1>2, <2>1 DEF Fields, Keeps, Fetching, Streaming
  <2>7. Ending(f)'
    BY <1>1, <1>2, <2>1 DEF Fields, Keeps, Fetching, Ending, Kept
  <2>8. Typed' /\ Names'
    BY <1>1, <1>2, <2>2, <2>3 DEF Typed, Names
  <2> QED
    BY <1>1, <1>2, <2>2, <2>3, <2>4, <2>5, <2>6, <2>7, <2>8, StepIsSound DEF Fetching
<1> QED
  BY <1>3

(* The fetch is over: a success reports what it counted. *)
LEMMA FinishIsSound ==
  ASSUME FilesInv, NEW f \in Fetches, Finish(f)
  PROVE  FilesInv'
<1>1. Typed /\ Names /\ Fetching(f) /\ Running(f) /\ fetch[f].phase = "finish"
  BY DEF FilesInv, Finish, Running
<1>2. UNCHANGED <<data, part, cache, live>>
  BY DEF Finish, diskVars, others
<1> DEFINE length == IF fetch[f].failed THEN fetch[f].size ELSE fetch[f].progress
<1>3. /\ Set(f, [phase |-> "unlist", finished |-> TRUE, size |-> length])
      /\ length \in Nat /\ length = fetch[f].size
  BY <1>1 DEF Finish, Typed, FetchTyped, Fetching, Ending
<1> HIDE DEF length
<1>4. CASE TRUE
  <2>1. Keeps(f, {"phase", "finished", "size"}) /\ fetch'[f].phase = "unlist" /\ fetch'[f].finished /\ fetch'[f].size = length
    BY <1>1, <1>2, <1>3, SetFacts DEF Fields, Keeps
  <2>2. DOMAIN fetch' = Fetches /\ \A g \in Fetches \ {f} : fetch'[g] = fetch[g]
    BY <1>1, <1>2, <1>3, SetFacts
  <2>3. FetchTyped(fetch'[f]) /\ Running(f)'
    BY <1>1, <1>2, <1>3, <2>1, SMTT(60) DEF Typed, FetchTyped, Phases, Fields, Keeps, Running
  <2>4. OwnFile(f)'
    BY <1>1, <1>2, <1>3, <2>1 DEF Fields, Keeps, Fetching, OwnFile, Writing
  <2>5. Swarming(f)'
    BY <1>1, <1>2, <1>3, <2>1 DEF Fields, Keeps, Fetching, Swarming, Streaming
  <2>6. Streaming(f)'
    BY <1>1, <1>2, <1>3, <2>1 DEF Fields, Keeps, Fetching, Streaming
  <2>7. Ending(f)'
    BY <1>1, <1>2, <1>3, <2>1 DEF Fields, Keeps, Fetching, Ending, Kept
  <2> QED
    BY <1>1, <1>2, <2>2, <2>3, <2>4, <2>5, <2>6, <2>7, QuietIsSound DEF Fetching
<1> QED
  BY <1>4

(* The fetch is taken off the list. *)
LEMMA UnlistIsSound ==
  ASSUME FilesInv, NEW f \in Fetches, Unlist(f)
  PROVE  FilesInv'
<1>1. Typed /\ Names /\ Fetching(f) /\ Running(f) /\ fetch[f].phase = "unlist"
  BY DEF FilesInv, Unlist, Running
<1>2. UNCHANGED <<data, part, cache>> /\ live' = None /\ Set(f, [phase |-> "settle"])
  BY DEF Unlist, diskVars, Go
<1>3. CASE TRUE
  <2>1. Keeps(f, {"phase"}) /\ fetch'[f].phase = "settle"
    BY <1>1, <1>2, SetFacts DEF Fields, Keeps
  <2>2. DOMAIN fetch' = Fetches /\ \A g \in Fetches \ {f} : fetch'[g] = fetch[g]
    BY <1>1, <1>2, SetFacts
  <2>3. FetchTyped(fetch'[f]) /\ ~Running(f)'
    BY <1>1, <1>2, <2>1, SMTT(60) DEF Typed, FetchTyped, Phases, Fields, Keeps, Running
  <2>4. OwnFile(f)'
    BY <1>1, <1>2, <2>1 DEF Fields, Keeps, Fetching, OwnFile, Writing
  <2>5. Swarming(f)'
    BY <1>1, <1>2, <2>1 DEF Fields, Keeps, Fetching, Swarming, Streaming
  <2>6. Streaming(f)'
    BY <1>1, <1>2, <2>1 DEF Fields, Keeps, Fetching, Streaming
  <2>7. Ending(f)'
    BY <1>1, <1>2, <2>1 DEF Fields, Keeps, Fetching, Ending, Kept
  <2>8. Typed' /\ Names'
    BY <1>1, <1>2, <2>2, <2>3 DEF Typed, Names
  <2>9. \A g \in Fetches \ {f} : ~Running(g) /\ ~Running(g)' /\ Fetching(g)'
    <3>1. \A g \in Fetches \ {f} : ~Running(g)
      BY <1>1 DEF FilesInv, Alone, OneFetchPerHash
    <3>2. \A g \in Fetches \ {f} : Fetching(g)'
      BY <1>1, <2>2, <3>1, RestingIsSound DEF FilesInv
    <3> QED
      BY <2>2, <3>1, <3>2 DEF Running
  <2>10. Alone'
    BY <1>2, <2>3, <2>9 DEF Alone, OneFetchPerHash
  <2> QED
    BY <2>4, <2>5, <2>6, <2>7, <2>8, <2>9, <2>10 DEF FilesInv, Fetching
<1> QED
  BY <1>3

(* A step that leaves the files and every fetch's phase alone. *)
LEMMA AccountIsSound ==
  ASSUME FilesInv, NEW f \in Fetches, UNCHANGED <<data, part, cache, live>>,
         DOMAIN fetch' = Fetches, \A g \in Fetches \ {f} : fetch'[g] = fetch[g],
         FetchTyped(fetch'[f]), Running(f)' <=> Running(f), Fetching(f)'
  PROVE  FilesInv'
<1>1. Typed' /\ Names'
  BY DEF FilesInv, Typed, Names
<1>2. CASE Running(f)
  BY <1>2, QuietIsSound
<1>3. CASE ~Running(f)
  <2>1. \A g \in Fetches \ {f} : Running(g)' <=> Running(g)
    BY DEF Running
  <2>2. Alone'
    <3>1. \A g \in Fetches : Running(g)' <=> Running(g)
      BY <2>1
    <3>2. live' \in Fetches \cup {None} /\ live' = live
      BY DEF FilesInv, Typed
    <3>3. live' # None => Running(live)'
      <4> SUFFICES ASSUME live # None PROVE Running(live)'
        BY <3>2
      <4>1. live \in Fetches \ {f} /\ Running(live)
        BY <1>3, <3>2 DEF FilesInv, Alone
      <4> QED
        BY <3>2, <4>1 DEF Running
    <3> QED
      BY <3>1, <3>2, <3>3 DEF FilesInv, Alone, OneFetchPerHash
  <2>3. ASSUME NEW g \in Fetches \ {f} PROVE Fetching(g)'
    <3>1. Fetching(g) /\ fetch'[g] = fetch[g]
      BY DEF FilesInv
    <3>2. OwnFile(g)' /\ Swarming(g)'
      BY <3>1 DEF Fetching, OwnFile, Swarming
    <3>3. Streaming(g)'
      BY <3>1 DEF Fetching, Streaming
    <3>4. Ending(g)'
      BY <3>1 DEF Fetching, Ending
    <3> QED
      BY <3>2, <3>3, <3>4 DEF Fetching
  <2> QED
    BY <1>1, <2>2, <2>3 DEF FilesInv
<1> QED
  BY <1>2, <1>3

(* The speculative first chunk ends, with bytes or without. *)
LEMMA SpeculateIsSound ==
  ASSUME FilesInv, NEW f \in Fetches, Speculate(f)
  PROVE  FilesInv'
<1>1. Typed /\ Fetching(f) /\ UNCHANGED <<data, part, cache, live>> /\ fetch[f].spec = "running"
  BY DEF FilesInv, Speculate, diskVars, others
<1>2. fetch[f].received \in Nat /\ fetch[f].phase # "over" /\ ~(fetch[f].wasted >= 0)
  BY <1>1 DEF Typed, FetchTyped, Fetching, Ending
<1>3. /\ Keeps(f, {"received", "spec"}) /\ fetch'[f].received \in Nat
      /\ fetch'[f].phase = fetch[f].phase /\ fetch'[f].wasted = fetch[f].wasted
      /\ DOMAIN fetch' = Fetches /\ \A g \in Fetches \ {f} : fetch'[g] = fetch[g]
  <2>1. CASE Set(f, [spec |-> "landed", received |-> fetch[f].received + 1])
    BY <1>1, <1>2, <2>1, SetFacts DEF Fields, Keeps
  <2>2. CASE Set(f, [spec |-> "failed"])
    BY <1>1, <1>2, <2>2, SetFacts DEF Fields, Keeps
  <2> QED
    BY <2>1, <2>2 DEF Speculate
<1>4. FetchTyped(fetch'[f]) /\ (Running(f)' <=> Running(f))
  BY <1>1, <1>3 DEF Typed, FetchTyped, Phases, Fields, Keeps, Running
<1>5. OwnFile(f)' /\ Swarming(f)'
  BY <1>1, <1>3, ZenonT(60) DEF Fields, Keeps, Fetching, OwnFile, Swarming
<1>6. Streaming(f)'
  BY <1>1, <1>3 DEF Fields, Keeps, Fetching, Streaming
<1>7. Ending(f)'
  BY <1>1, <1>2, <1>3 DEF Fields, Keeps, Fetching, Ending
<1> QED
  BY <1>1, <1>3, <1>4, <1>5, <1>6, <1>7, AccountIsSound DEF Fetching

(* The waste is booked once the speculative fetch has ended. *)
LEMMA BookIsSound ==
  ASSUME FilesInv, NEW f \in Fetches, Book(f)
  PROVE  FilesInv'
<1>1. /\ Typed /\ Fetching(f) /\ UNCHANGED <<data, part, cache, live>>
      /\ fetch[f].phase = "settle" /\ fetch[f].spec # "running"
  BY DEF FilesInv, Book, diskVars, others
<1> DEFINE waste == Positive(fetch[f].received - Kept(fetch[f]))
<1>2. /\ waste \in Int /\ Set(f, [phase |-> "over", wasted |-> waste])
  BY <1>1 DEF Book, Typed, FetchTyped, Positive, Kept
<1> HIDE DEF waste
<1>3. /\ Keeps(f, {"phase", "wasted"}) /\ fetch'[f].phase = "over" /\ fetch'[f].wasted = waste
      /\ DOMAIN fetch' = Fetches /\ \A g \in Fetches \ {f} : fetch'[g] = fetch[g]
  BY <1>1, <1>2, SetFacts DEF Fields, Keeps
<1>4. FetchTyped(fetch'[f]) /\ (Running(f)' <=> Running(f))
  BY <1>1, <1>2, <1>3 DEF Typed, FetchTyped, Phases, Fields, Keeps, Running
<1>5. OwnFile(f)' /\ Swarming(f)' /\ Streaming(f)'
  BY <1>1, <1>3 DEF Fields, Keeps, Fetching, OwnFile, Swarming, Streaming, Writing
<1>6. Ending(f)'
  <2>1. waste = Positive(fetch'[f].received - Kept(fetch'[f]))
    BY <1>1, <1>3 DEF Fields, Keeps, Kept, waste
  <2> QED
    BY <1>1, <1>3, <2>1 DEF Fields, Keeps, Fetching, Ending
<1> QED
  BY <1>1, <1>3, <1>4, <1>5, <1>6, AccountIsSound DEF Fetching

(* A fetch is told to stop. *)
LEMMA AbandonIsSound ==
  ASSUME FilesInv, NEW f \in Fetches, Abandon(f)
  PROVE  FilesInv'
<1>1. /\ Typed /\ Fetching(f) /\ UNCHANGED <<data, part, cache, live>>
      /\ Set(f, [cancelled |-> TRUE])
  BY DEF FilesInv, Abandon, diskVars, others
<1>2. /\ Keeps(f, {"cancelled"}) /\ fetch'[f].cancelled
      /\ DOMAIN fetch' = Fetches /\ \A g \in Fetches \ {f} : fetch'[g] = fetch[g]
  BY <1>1, SetFacts DEF Fields, Keeps
<1>3. FetchTyped(fetch'[f]) /\ (Running(f)' <=> Running(f))
  BY <1>1, <1>2 DEF Typed, FetchTyped, Phases, Fields, Keeps, Running
<1>4. OwnFile(f)' /\ Swarming(f)'
  BY <1>1, <1>2 DEF Fields, Keeps, Fetching, OwnFile, Swarming
<1>5. Streaming(f)' /\ Ending(f)'
  BY <1>1, <1>2 DEF Fields, Keeps, Fetching, Streaming, Ending, Kept
<1> QED
  BY <1>1, <1>2, <1>3, <1>4, <1>5, AccountIsSound DEF Fetching

-----------------------------------------------------------------------------
(* Relays start fetches; evictions, reaps and crashes.                      *)

(* A fetch is started only when none is listed. *)
LEMMA StartIsSound ==
  ASSUME FilesInv, NEW r \in Readers, live = None, Start(r), UNCHANGED diskVars
  PROVE  FilesInv'
<1>1. PICK f \in Fetches : /\ fetch[f].phase = "idle" /\ live' = f
                           /\ fetch' = [fetch EXCEPT ![f] = Started]
  BY DEF Start
<1>2. Typed /\ Names /\ UNCHANGED <<data, part, cache>> /\ f # None
  BY TransferAssumption DEF FilesInv, diskVars
<1>3. \A g \in Fetches : ~Running(g)
  BY TransferAssumption DEF FilesInv, Alone, OneFetchPerHash
<1>4. /\ DOMAIN fetch' = Fetches /\ \A g \in Fetches \ {f} : fetch'[g] = fetch[g]
      /\ fetch'[f] = Started
  BY <1>1, <1>2 DEF Typed
<1>5. FetchTyped(Started)
  BY TransferAssumption DEF FetchTyped, Started, Unstarted, Fields, Phases
<1>6. Typed' /\ Names'
  BY <1>1, <1>2, <1>4, <1>5 DEF Typed, Names
<1>7. \A g \in Fetches \ {f} : ~Running(g)' /\ Fetching(g)'
  BY <1>2, <1>3, <1>4, RestingIsSound DEF Running, FilesInv
<1>8. Running(f)' /\ Fetching(f)'
  BY <1>4, TransferAssumption
     DEF Started, Unstarted, Running, Fetching, OwnFile, Writing, Swarming, Streaming, Ending
<1> QED
  BY <1>1, <1>6, <1>7, <1>8 DEF FilesInv, Alone, OneFetchPerHash

(* What relays, mesh requests, evictions, reaps and crashes do keeps the    *)
(* invariant.                                                              *)
LEMMA OthersAreSound ==
  ASSUME FilesInv,
         \/ \E r \in Readers : Relay(r)
         \/ \E q \in Peers : CheckPartial(q) \/ SendPartial(q)
         \/ Evict \/ Reap \/ Crash \/ UNCHANGED vars
  PROVE  FilesInv'
<1>1. ASSUME UNCHANGED <<fetch, live, data>>,
             part' \in {part, None}, cache' \in {cache, None}
      PROVE  FilesInv'
  <2>1. Typed' /\ Names' /\ Alone'
    BY <1>1 DEF FilesInv, Typed, Names, Alone, OneFetchPerHash, Running
  <2>2. ASSUME NEW f \in Fetches PROVE Fetching(f)'
    <3>1. Fetching(f) /\ None \notin DOMAIN data
      BY TransferAssumption DEF FilesInv, Typed
    <3>2. OwnFile(f)'
      BY <1>1, <3>1 DEF Fetching, OwnFile
    <3>3. Swarming(f)' /\ Streaming(f)'
      BY <1>1, <3>1 DEF Fetching, Swarming, Streaming
    <3>4. Ending(f)'
      BY <1>1, <3>1 DEF Fetching, Ending
    <3> QED
      BY <3>2, <3>3, <3>4 DEF Fetching
  <2> QED
    BY <2>1, <2>2 DEF FilesInv
<1>2. ASSUME NEW r \in Readers, Join(r) PROVE FilesInv'
  BY <1>1, <1>2, StartIsSound DEF Join, NoHolder, diskVars
<1>3. ASSUME NEW r \in Readers,
             Ask(r) \/ Respond(r) \/ OpenFile(r) \/ Follow(r) \/ ReadFile(r)
      PROVE  FilesInv'
  BY <1>1, <1>3 DEF Ask, Respond, OpenFile, Follow, ReadFile, diskVars
<1>4. ASSUME NEW q \in Peers, CheckPartial(q) \/ SendPartial(q) PROVE FilesInv'
  BY <1>1, <1>4 DEF CheckPartial, SendPartial, diskVars
<1>5. CASE Evict \/ Reap \/ UNCHANGED vars
  BY <1>1, <1>5 DEF Evict, Reap, vars
<1>6. CASE Crash
  <2>1. /\ live' = None /\ part' = None /\ UNCHANGED <<data, cache>>
        /\ fetch' = [f \in Fetches |-> IF fetch[f].phase = "idle" THEN fetch[f]
                                         ELSE [Unstarted EXCEPT !.phase = "over"]]
    BY <1>6 DEF Crash
  <2>2. FetchTyped([Unstarted EXCEPT !.phase = "over"])
    BY DEF FetchTyped, Unstarted, Fields, Phases
  <2>3. Typed' /\ Names'
    BY <2>1, <2>2 DEF FilesInv, Typed, Names
  <2>4. ASSUME NEW f \in Fetches PROVE ~Running(f)' /\ Fetching(f)'
    <3>1. CASE fetch[f].phase = "idle"
      BY <2>1, <3>1, RestingIsSound DEF Running, FilesInv
    <3>2. CASE fetch[f].phase # "idle"
      BY <2>1, <3>2 DEF Unstarted, Running, Fetching, OwnFile, Writing, Swarming, Streaming, Ending
    <3> QED
      BY <3>1, <3>2
  <2> QED
    BY <2>1, <2>3, <2>4 DEF FilesInv, Alone, OneFetchPerHash
<1> QED
  BY <1>2, <1>3, <1>4, <1>5, <1>6 DEF Relay

-----------------------------------------------------------------------------
(* The cache.                                                              *)

(* Nothing has been fetched yet. *)
LEMMA InitFiles == Init => FilesInv
<1> SUFFICES ASSUME Init PROVE FilesInv
  OBVIOUS
<1>1. /\ fetch = [f \in Fetches |-> Unstarted] /\ live = None /\ data = <<>>
      /\ part = None /\ cache = None
  BY DEF Init
<1>2. FetchTyped(Unstarted)
  BY DEF FetchTyped, Unstarted, Fields, Phases
<1>3. Typed /\ Names
  BY <1>1, <1>2 DEF Typed, Names
<1>4. ASSUME NEW f \in Fetches PROVE ~Running(f) /\ Fetching(f)
  BY <1>1 DEF Unstarted, Running, Fetching, OwnFile, Writing, Swarming, Streaming, Ending
<1> QED
  BY <1>1, <1>3, <1>4 DEF FilesInv, Alone, OneFetchPerHash

(* Every step keeps the invariant. *)
LEMMA NextFiles == FilesInv /\ [Next]_vars => FilesInv'
<1> SUFFICES ASSUME FilesInv, [Next]_vars PROVE FilesInv'
  OBVIOUS
<1>1. ASSUME NEW f \in Fetches, Run(f) PROVE FilesInv'
  BY <1>1, GetManifestIsSound, OpenSwarmIsSound, LandIsSound, PublishIsSound, SwarmEndsIsSound,
     VerifyIsSound, DiscardIsSound, FetchFromIsSound, StreamIsSound, StreamEndsIsSound,
     RenameIsSound, RemovePartIsSound, FinishIsSound, UnlistIsSound, BookIsSound DEF Run
<1>2. ASSUME NEW f \in Fetches, Speculate(f) \/ Abandon(f) PROVE FilesInv'
  BY <1>2, SpeculateIsSound, AbandonIsSound
<1> QED
  BY <1>1, <1>2, OthersAreSound DEF Next, Over

(* The invariant of the files holds throughout. *)
THEOREM FilesHold == Spec => []FilesInv
BY InitFiles, NextFiles, PTL DEF Spec

(* Whatever manifests, holders, fallbacks, crashes and joins do, one fetch   *)
(* of a hash runs at a time, the name <hash> holds nothing but the whole     *)
(* verified blob, and a fetch that reports success reports its length.       *)
THEOREM CacheHolds == Spec => []CacheIsSound
<1>1. FilesInv => CacheIsSound
  BY DEF FilesInv, Names, Alone, Fetching, Ending, CacheIsSound, CacheIsVerified
<1> QED
  BY <1>1, FilesHold, PTL

-----------------------------------------------------------------------------
(* What a step of a fetch does to those who follow it.                      *)

(* The step is f's alone, and takes f off the list only when it is over. *)
Moves(f) ==
  /\ DOMAIN fetch' = Fetches /\ \A g \in Fetches \ {f} : fetch'[g] = fetch[g]
  /\ fetch[f].phase # "idle" /\ fetch'[f].phase # "idle" /\ fetch'[f].cancelled = fetch[f].cancelled
  /\ fetch[f].finished => fetch'[f].finished
  /\ live' # live => fetch[f].phase = "unlist" /\ live' = None /\ fetch'[f].finished

(* Where the part file can come from, and where it goes. *)
PartMoves(f) ==
  /\ fetch'[f].phase \in {"manifest", "open"} =>
       fetch[f].phase \in {"manifest", "open"} /\ part' = part
  /\ fetch'[f].phase \in Writing =>
       \/ fetch[f].phase \in Writing /\ fetch'[f].fd = fetch[f].fd /\ part' = part
       \/ part' = fetch'[f].fd
  /\ fetch'[f].phase \in {"finish", "unlist"} =>
       part' = None \/ fetch[f].cancelled \/ (fetch[f].phase = "finish" /\ part' = part)
  /\ \/ part' \in {None, part}
     \/ fetch'[f].phase = "stream" /\ Clean(part)'
     \/ fetch[f].phase = "open" /\ fetch'[f].phase = "swarm"
  /\ fetch[f].phase \in {"unlist", "settle", "over"} => part' = part

(* No file that exists gets a hole it did not have. *)
NoNewHoles ==
  /\ DOMAIN data \subseteq DOMAIN data'
  /\ \A i \in DOMAIN data : \A j \in DOMAIN data'[i] :
       data'[i][j] = "hole" => j \in DOMAIN data[i] /\ data[i][j] = "hole"

(* A swarm leaves its file filled or emptied, unless it was reaped. *)
LeavesClean(f) ==
  Filling(f) => \/ Filling(f)' /\ fetch'[f].fd = fetch[f].fd
                \/ part = None /\ part' = None
                \/ fetch'[f].fd = fetch[f].fd /\ Clean(fetch[f].fd)'

Shape(f) == Moves(f) /\ PartMoves(f) /\ NoNewHoles /\ LeavesClean(f)

(* The blob has no holes. *)
LEMMA BlobIsClean ==
  /\ Len(Blob) = Size /\ DOMAIN Blob = 1 .. Size /\ Size \in Nat \ {0}
  /\ \A i \in DOMAIN Blob : Blob[i] = "good"
BY TransferAssumption DEF Blob

(* Filling in a place of a file adds no hole to it. *)
LEMMA FillFacts ==
  ASSUME NEW q \in Seq(Chunk), NEW i, NEW b \in Chunk \ {"hole"}
  PROVE  /\ [q EXCEPT ![i] = b] \in Seq(Chunk)
         /\ \A j \in DOMAIN [q EXCEPT ![i] = b] :
              [q EXCEPT ![i] = b][j] = "hole" => j \in DOMAIN q /\ q[j] = "hole"
<1>1. q \in [1 .. Len(q) -> Chunk] /\ Len(q) \in Nat
  OBVIOUS
<1>2. [q EXCEPT ![i] = b] \in [1 .. Len(q) -> Chunk]
  BY <1>1
<1> QED
  BY <1>1, <1>2

(* A step that touches no file keeps its shape if the phases do. *)
LEMMA QuietShape ==
  ASSUME Typed, NEW f \in Fetches, UNCHANGED diskVars,
         DOMAIN fetch' = Fetches, \A g \in Fetches \ {f} : fetch'[g] = fetch[g],
         fetch[f].phase # "idle", fetch'[f].phase # "idle",
         fetch'[f].cancelled = fetch[f].cancelled, fetch[f].finished => fetch'[f].finished,
         live' # live => fetch[f].phase = "unlist" /\ live' = None /\ fetch'[f].finished,
         fetch'[f].phase \in {"manifest", "open"} => fetch[f].phase \in {"manifest", "open"},
         fetch'[f].phase \in Writing => fetch[f].phase \in Writing /\ fetch'[f].fd = fetch[f].fd,
         fetch'[f].phase \in {"finish", "unlist"} => fetch[f].cancelled \/ fetch[f].phase = "finish",
         Filling(f) => fetch'[f].fd = fetch[f].fd /\ (Filling(f)' \/ Clean(fetch[f].fd) \/ part = None)
  PROVE  Shape(f)
<1>1. Moves(f)
  BY DEF Moves
<1>2. PartMoves(f)
  BY DEF PartMoves, diskVars
<1>3. NoNewHoles
  BY DEF NoNewHoles, diskVars
<1>4. LeavesClean(f)
  BY DEF LeavesClean, diskVars, Clean
<1> QED
  BY <1>1, <1>2, <1>3, <1>4 DEF Shape

(* A step that writes f's own file. *)
LEMMA WritingShape ==
  ASSUME FilesInv, NEW f \in Fetches, fetch[f].phase \in Writing,
         NEW s \in Seq(Chunk), data' = [data EXCEPT ![fetch[f].fd] = s],
         UNCHANGED <<part, cache, live>>,
         DOMAIN fetch' = Fetches, \A g \in Fetches \ {f} : fetch'[g] = fetch[g],
         Keeps(f, {"phase", "received", "spec", "progress"}),
         fetch'[f].phase = fetch[f].phase \/ (fetch'[f].phase = "whole" /\ s = <<>>),
         \A j \in DOMAIN s : s[j] = "hole" =>
           j \in DOMAIN data[fetch[f].fd] /\ data[fetch[f].fd][j] = "hole"
  PROVE  Shape(f)
<1>1. /\ fetch[f].fd \in DOMAIN data /\ Typed
      /\ fetch'[f].fd = fetch[f].fd /\ fetch'[f].cancelled = fetch[f].cancelled
      /\ fetch'[f].finished = fetch[f].finished
  BY DEF FilesInv, Fetching, OwnFile, Fields, Keeps
<1>2. /\ DOMAIN data' = DOMAIN data /\ data'[fetch[f].fd] = s
      /\ \A i \in DOMAIN data : i # fetch[f].fd => data'[i] = data[i]
  BY <1>1 DEF Typed
<1>3. Moves(f)
  BY <1>1 DEF Moves, Writing
<1>4. PartMoves(f)
  BY <1>1 DEF PartMoves, Writing
<1>5. NoNewHoles
  BY <1>1, <1>2 DEF NoNewHoles
<1>6. LeavesClean(f)
  BY <1>1, <1>2 DEF LeavesClean, Clean, Filling
<1> QED
  BY <1>3, <1>4, <1>5, <1>6 DEF Shape

(* Steps that touch no file. *)
LEMMA QuietStepsHaveShape ==
  ASSUME FilesInv, NEW f \in Fetches,
         \/ GetManifest(f) \/ (\E c \in 0 .. fetch[f].size - 1 : Publish(f, c)) \/ SwarmEnds(f)
         \/ Verify(f) \/ StreamEnds(f) \/ Finish(f) \/ Unlist(f) \/ Book(f)
  PROVE  Shape(f)
<1>1. Typed /\ Fetching(f)
  BY DEF FilesInv
<1>2. CASE GetManifest(f)
  <2>1. UNCHANGED <<diskVars, live>> /\ fetch[f].phase = "manifest"
    BY <1>2 DEF GetManifest, others
  <2>2. PICK man \in Manifests :
          \/ Set(f, [phase |-> "whole"])
          \/ Set(f, [phase |-> "whole", withheld |-> TRUE])
          \/ Set(f, [phase |-> "open", from |-> man, size |-> man.size])
    BY <1>2 DEF GetManifest, Go
  <2>3. /\ Keeps(f, {"phase", "withheld", "from", "size"}) /\ fetch'[f].phase \in {"whole", "open"}
        /\ DOMAIN fetch' = Fetches /\ \A g \in Fetches \ {f} : fetch'[g] = fetch[g]
    <3>1. CASE Set(f, [phase |-> "whole"])
      BY <1>1, <3>1, SetFacts DEF Fields, Keeps
    <3>2. CASE Set(f, [phase |-> "whole", withheld |-> TRUE])
      BY <1>1, <3>2, SetFacts DEF Fields, Keeps
    <3>3. CASE Set(f, [phase |-> "open", from |-> man, size |-> man.size])
      BY <1>1, <3>3, SetFacts DEF Fields, Keeps
    <3> QED
      BY <2>2, <3>1, <3>2, <3>3
  <2> QED
    BY <1>1, <2>1, <2>3, QuietShape DEF Keeps, Fields, Writing, Filling
<1>3. ASSUME NEW c \in 0 .. fetch[f].size - 1, Publish(f, c) PROVE Shape(f)
  <2>1. UNCHANGED <<diskVars, live>> /\ fetch[f].phase = "swarm"
    BY <1>3 DEF Publish, others
  <2>2. /\ Keeps(f, {"chunkOK", "progress"})
        /\ DOMAIN fetch' = Fetches /\ \A g \in Fetches \ {f} : fetch'[g] = fetch[g]
    BY <1>1, <1>3, SetFacts DEF Publish, Fields, Keeps
  <2> QED
    BY <1>1, <2>1, <2>2, QuietShape DEF Keeps, Fields, Writing, Filling
<1>4. CASE SwarmEnds(f)
  <2>1. UNCHANGED <<diskVars, live>> /\ fetch[f].phase = "swarm"
    BY <1>4 DEF SwarmEnds, others
  <2>2. /\ Keeps(f, {"phase"}) /\ fetch'[f].phase \in {"reset", "verify"}
        /\ DOMAIN fetch' = Fetches /\ \A g \in Fetches \ {f} : fetch'[g] = fetch[g]
    BY <1>1, <1>4, SetFacts DEF SwarmEnds, Go, Fields, Keeps
  <2> QED
    BY <1>1, <2>1, <2>2, QuietShape DEF Keeps, Fields, Writing, Filling
<1>5. CASE Verify(f)
  <2>1. UNCHANGED <<diskVars, live>> /\ fetch[f].phase = "verify"
    BY <1>5 DEF Verify, others
  <2>2. /\ Keeps(f, {"phase"})
        /\ fetch'[f].phase = "reset" \/ (fetch'[f].phase = "rename" /\ part # None /\ data[part] = Blob)
        /\ DOMAIN fetch' = Fetches /\ \A g \in Fetches \ {f} : fetch'[g] = fetch[g]
    BY <1>1, <1>5, SetFacts DEF Verify, Go, Fields, Keeps
  <2>3. part # None /\ data[part] = Blob => Clean(fetch[f].fd)
    BY <1>1, <2>1, BlobIsClean DEF Fetching, OwnFile, Writing, Clean
  <2> QED
    BY <1>1, <2>1, <2>2, <2>3, QuietShape DEF Keeps, Fields, Writing, Filling
<1>6. CASE StreamEnds(f)
  <2>1. UNCHANGED <<diskVars, live>> /\ fetch[f].phase = "stream"
    BY <1>6 DEF StreamEnds, others
  <2>2. /\ Keeps(f, {"phase", "progress", "chunked", "chunkOK", "turn"})
        /\ fetch'[f].phase \in {"whole", "rename"}
        /\ DOMAIN fetch' = Fetches /\ \A g \in Fetches \ {f} : fetch'[g] = fetch[g]
    BY <1>1, <1>6, SetFacts DEF StreamEnds, Restart, Go, Fields, Keeps
  <2> QED
    BY <1>1, <2>1, <2>2, QuietShape DEF Keeps, Fields, Writing, Filling
<1>7. CASE Finish(f)
  <2>1. UNCHANGED <<diskVars, live>> /\ fetch[f].phase = "finish"
    BY <1>7 DEF Finish, others
  <2>2. /\ Keeps(f, {"phase", "finished", "size"}) /\ fetch'[f].phase = "unlist" /\ fetch'[f].finished
        /\ DOMAIN fetch' = Fetches /\ \A g \in Fetches \ {f} : fetch'[g] = fetch[g]
    BY <1>1, <1>7, SetFacts DEF Finish, Fields, Keeps
  <2> QED
    BY <1>1, <2>1, <2>2, QuietShape DEF Keeps, Fields, Writing, Filling
<1>8. CASE Unlist(f)
  <2>1. UNCHANGED diskVars /\ fetch[f].phase = "unlist" /\ live' = None /\ fetch[f].finished
    BY <1>1, <1>8 DEF Unlist, Fetching, Ending
  <2>2. /\ Keeps(f, {"phase"}) /\ fetch'[f].phase = "settle"
        /\ DOMAIN fetch' = Fetches /\ \A g \in Fetches \ {f} : fetch'[g] = fetch[g]
    BY <1>1, <1>8, SetFacts DEF Unlist, Go, Fields, Keeps
  <2> QED
    BY <1>1, <2>1, <2>2, QuietShape DEF Keeps, Fields, Writing, Filling
<1>9. CASE Book(f)
  <2>1. UNCHANGED <<diskVars, live>> /\ fetch[f].phase = "settle"
    BY <1>9 DEF Book, others
  <2>2. /\ Keeps(f, {"phase", "wasted"}) /\ fetch'[f].phase = "over"
        /\ DOMAIN fetch' = Fetches /\ \A g \in Fetches \ {f} : fetch'[g] = fetch[g]
    BY <1>1, <1>9, SetFacts DEF Book, Fields, Keeps
  <2> QED
    BY <1>1, <2>1, <2>2, QuietShape DEF Keeps, Fields, Writing, Filling
<1> QED
  BY <1>2, <1>3, <1>4, <1>5, <1>6, <1>7, <1>8, <1>9

(* Steps that write f's own file. *)
LEMMA WritingStepsHaveShape ==
  ASSUME FilesInv, NEW f \in Fetches,
         \/ \E c \in 0 .. fetch[f].size - 1 : Land(f, c)
         \/ Stream(f) \/ Discard(f)
  PROVE  Shape(f)
<1>1. Typed /\ Fetching(f)
  BY DEF FilesInv
<1> DEFINE file == data[fetch[f].fd]
<1>2. fetch[f].phase \in Writing => fetch[f].fd \in DOMAIN data /\ file \in Seq(Chunk)
  BY <1>1 DEF Typed, Fetching, OwnFile
<1>3. Byte(fetch[f].from) \in Chunk \ {"hole"}
  BY DEF Byte, Chunk
<1>4. ASSUME NEW c \in 0 .. fetch[f].size - 1, Land(f, c) PROVE Shape(f)
  <2> DEFINE s == [file EXCEPT ![c + 1] = Byte(fetch[f].from)]
  <2>1. /\ fetch[f].phase = "swarm" /\ UNCHANGED <<part, cache, live>>
        /\ data' = [data EXCEPT ![fetch[f].fd] = s]
        /\ Set(f, [received |-> fetch[f].received + 1]) \/ Set(f, [spec |-> "used"])
    BY <1>4 DEF Land, others
  <2>2. /\ s \in Seq(Chunk)
        /\ \A j \in DOMAIN s : s[j] = "hole" => j \in DOMAIN file /\ file[j] = "hole"
    <3>1. file \in Seq(Chunk) /\ Byte(fetch[f].from) \in Chunk \ {"hole"}
      BY <1>2, <1>3, <2>1 DEF Writing
    <3> QED
      BY <3>1, FillFacts
  <2>3. /\ Keeps(f, {"phase", "received", "spec", "progress"}) /\ fetch'[f].phase = fetch[f].phase
        /\ DOMAIN fetch' = Fetches /\ \A g \in Fetches \ {f} : fetch'[g] = fetch[g]
    BY <1>1, <2>1, SetFacts DEF Fields, Keeps
  <2> HIDE DEF s
  <2> QED
    BY <2>1, <2>2, <2>3, WritingShape DEF Writing
<1>5. CASE Stream(f)
  <2>1. UNCHANGED <<part, cache, live>> /\ fetch[f].phase = "stream"
    BY <1>5 DEF Stream, others
  <2>2. CASE /\ data' = [data EXCEPT ![fetch[f].fd] = Append(@, Byte(fetch[f].from))]
             /\ Set(f, [received |-> fetch[f].received + 1])
    <3> DEFINE s == Append(file, Byte(fetch[f].from))
    <3>1. /\ s \in Seq(Chunk) /\ data' = [data EXCEPT ![fetch[f].fd] = s]
          /\ \A j \in DOMAIN s : s[j] = "hole" => j \in DOMAIN file /\ file[j] = "hole"
      BY <1>2, <1>3, <2>1, <2>2 DEF Writing
    <3>2. /\ Keeps(f, {"phase", "received", "spec", "progress"}) /\ fetch'[f].phase = fetch[f].phase
          /\ DOMAIN fetch' = Fetches /\ \A g \in Fetches \ {f} : fetch'[g] = fetch[g]
      BY <1>1, <2>2, SetFacts DEF Fields, Keeps
    <3> HIDE DEF s
    <3> QED
      BY <2>1, <3>1, <3>2, WritingShape DEF Writing
  <2>3. CASE UNCHANGED data /\ Set(f, [progress |-> Len(file)])
    <3>1. /\ Keeps(f, {"progress"})
          /\ DOMAIN fetch' = Fetches /\ \A g \in Fetches \ {f} : fetch'[g] = fetch[g]
      BY <1>1, <2>3, SetFacts DEF Fields, Keeps
    <3> QED
      BY <1>1, <2>1, <2>3, <3>1, QuietShape DEF Keeps, Fields, Writing, Filling, diskVars
  <2> QED
    BY <1>5, <2>2, <2>3 DEF Stream
<1>6. CASE Discard(f)
  <2>1. UNCHANGED <<part, cache, live>>
    BY <1>6 DEF Discard, others
  <2>2. CASE Restart(f, "truncate", fetch[f].turn) /\ UNCHANGED data /\ fetch[f].phase = "reset"
    <3>1. /\ Keeps(f, {"phase", "progress", "chunked", "chunkOK", "turn"}) /\ fetch'[f].phase = "truncate"
          /\ DOMAIN fetch' = Fetches /\ \A g \in Fetches \ {f} : fetch'[g] = fetch[g]
      BY <1>1, <2>2, SetFacts DEF Restart, Fields, Keeps
    <3> QED
      BY <1>1, <2>1, <2>2, <3>1, QuietShape DEF Keeps, Fields, Writing, Filling, diskVars
  <2>3. CASE /\ Set(f, [phase |-> "whole"]) /\ fetch[f].phase = "truncate"
             /\ data' = IF part = None THEN data ELSE [data EXCEPT ![part] = <<>>]
    <3>1. /\ Keeps(f, {"phase"}) /\ fetch'[f].phase = "whole"
          /\ DOMAIN fetch' = Fetches /\ \A g \in Fetches \ {f} : fetch'[g] = fetch[g]
      BY <1>1, <2>3, SetFacts DEF Fields, Keeps
    <3>2. CASE part = None
      BY <1>1, <2>1, <2>3, <3>1, <3>2, QuietShape DEF Keeps, Fields, Writing, Filling, diskVars
    <3>3. CASE part # None
      <4>1. part = fetch[f].fd /\ <<>> \in Seq(Chunk) /\ DOMAIN <<>> = {}
        BY <1>1, <2>3, <3>3 DEF Fetching, OwnFile, Writing
      <4>2. Keeps(f, {"phase", "received", "spec", "progress"})
        BY <3>1 DEF Keeps
      <4> QED
        BY <2>1, <2>3, <3>1, <3>3, <4>1, <4>2, WritingShape DEF Writing
    <3> QED
      BY <3>2, <3>3
  <2> QED
    BY <1>6, <2>2, <2>3 DEF Discard, Go
<1> QED
  BY <1>4, <1>5, <1>6

(* Steps that change a name: a part file is opened, renamed or removed.     *)
LEMMA NamingStepsHaveShape ==
  ASSUME FilesInv, NEW f \in Fetches, fetch[f].phase = "open" => part = None,
         OpenSwarm(f) \/ FetchFrom(f) \/ Rename(f) \/ RemovePart(f)
  PROVE  Shape(f)
<1>1. Typed /\ Names /\ Fetching(f)
  BY DEF FilesInv
<1>2. CASE OpenSwarm(f)
  <2>1. /\ fetch[f].phase = "open" /\ UNCHANGED live /\ OpenPart(fetch[f].size)
        /\ fetch[f].size \in Nat
        /\ Set(f, [phase |-> "swarm", fd |-> PartFile, chunked |-> TRUE, chunkOK |-> {}])
    BY <1>1, <1>2 DEF OpenSwarm, others, Typed, FetchTyped
  <2>2. /\ Keeps(f, {"phase", "fd", "chunked", "chunkOK"}) /\ fetch'[f].phase = "swarm"
        /\ fetch'[f].fd = PartFile
        /\ DOMAIN fetch' = Fetches /\ \A g \in Fetches \ {f} : fetch'[g] = fetch[g]
    BY <1>1, <2>1, SetFacts DEF Fields, Keeps
  <2>3. Moves(f)
    BY <2>1, <2>2 DEF Moves, Keeps, Fields
  <2>4. PartMoves(f)
    BY <1>1, <2>1, <2>2, OpenFacts DEF PartMoves
  <2>5. NoNewHoles
    <3>1. PartFile \notin DOMAIN data
      BY <1>1, <2>1 DEF PartFile, Typed
    <3>2. DOMAIN data \subseteq DOMAIN data' /\ \A i \in DOMAIN data : data'[i] = data[i]
      BY <1>1, <2>1, <3>1, OpenFacts
    <3> QED
      BY <3>2 DEF NoNewHoles
  <2>6. LeavesClean(f)
    BY <2>1 DEF LeavesClean, Filling
  <2> QED
    BY <2>3, <2>4, <2>5, <2>6 DEF Shape
<1>3. CASE FetchFrom(f)
  <2>1. fetch[f].phase = "whole" /\ UNCHANGED live
    BY <1>3 DEF FetchFrom, others
  <2>2. CASE UNCHANGED diskVars /\ Set(f, [phase |-> "remove"])
    <3>1. /\ Keeps(f, {"phase"}) /\ fetch'[f].phase = "remove"
          /\ DOMAIN fetch' = Fetches /\ \A g \in Fetches \ {f} : fetch'[g] = fetch[g]
      BY <1>1, <2>2, SetFacts DEF Fields, Keeps
    <3> QED
      BY <1>1, <2>1, <2>2, <3>1, QuietShape DEF Keeps, Fields, Writing, Filling
  <2>3. CASE /\ UNCHANGED diskVars /\ fetch[f].cancelled
             /\ Set(f, [phase |-> "finish", failed |-> TRUE])
    <3>1. /\ Keeps(f, {"phase", "failed"}) /\ fetch'[f].phase = "finish"
          /\ DOMAIN fetch' = Fetches /\ \A g \in Fetches \ {f} : fetch'[g] = fetch[g]
      BY <1>1, <2>3, SetFacts DEF Fields, Keeps
    <3> QED
      BY <1>1, <2>1, <2>3, <3>1, QuietShape DEF Keeps, Fields, Writing, Filling
  <2>4. CASE UNCHANGED diskVars /\ Restart(f, "whole", fetch[f].turn + 1)
    <3>1. /\ Keeps(f, {"phase", "progress", "chunked", "chunkOK", "turn"}) /\ fetch'[f].phase = "whole"
          /\ DOMAIN fetch' = Fetches /\ \A g \in Fetches \ {f} : fetch'[g] = fetch[g]
      BY <1>1, <2>4, SetFacts DEF Restart, Fields, Keeps
    <3> QED
      BY <1>1, <2>1, <2>4, <3>1, QuietShape DEF Keeps, Fields, Writing, Filling
  <2>5. ASSUME NEW n \in Nat, NEW from, NEW w, OpenPart(0),
               Set(f, [phase |-> "stream", fd |-> PartFile, size |-> n, from |-> from,
                       withheld |-> w])
        PROVE  Shape(f)
    <3>1. /\ Keeps(f, {"phase", "fd", "size", "from", "withheld"}) /\ fetch'[f].phase = "stream"
          /\ fetch'[f].fd = PartFile
          /\ DOMAIN fetch' = Fetches /\ \A g \in Fetches \ {f} : fetch'[g] = fetch[g]
      BY <1>1, <2>5, SetFacts DEF Fields, Keeps
    <3>2. /\ part' = PartFile /\ DOMAIN data \subseteq DOMAIN data'
          /\ DOMAIN data'[PartFile] = {} /\ \A i \in DOMAIN data : i # PartFile => data'[i] = data[i]
      <4>1. data'[PartFile] = Holes(0)
        BY <1>1, <2>5, OpenFacts
      <4>2. DOMAIN Holes(0) = {}
        BY DEF Holes
      <4> QED
        BY <1>1, <2>5, <4>1, <4>2, OpenFacts
    <3>3. Moves(f)
      BY <2>1, <3>1 DEF Moves, Keeps, Fields
    <3>4. PartMoves(f)
      BY <2>1, <3>1, <3>2 DEF PartMoves, Clean
    <3>5. NoNewHoles
      BY <3>2 DEF NoNewHoles
    <3>6. LeavesClean(f)
      BY <2>1 DEF LeavesClean, Filling
    <3> QED
      BY <3>3, <3>4, <3>5, <3>6 DEF Shape
  <2>6. fetch[f].turn \in Nat \ {0} /\ Offers \in Seq(SUBSET [size : Nat \ {0}, good : BOOLEAN])
    BY <1>1, TransferAssumption DEF Typed, FetchTyped
  <2>7. CASE fetch[f].turn > Len(Offers)
    BY <1>3, <2>2, <2>7 DEF FetchFrom, Go
  <2>8. CASE fetch[f].turn \in DOMAIN Offers
    <3>1. \A o \in Offers[fetch[f].turn] : o.size \in Nat
      BY <2>6, <2>8
    <3> QED
      BY <1>3, <2>2, <2>3, <2>4, <2>5, <3>1 DEF FetchFrom, Go
  <2> QED
    BY <2>6, <2>7, <2>8
<1>4. CASE Rename(f)
  <2>1. fetch[f].phase = "rename" /\ UNCHANGED <<data, live>>
    BY <1>4 DEF Rename, others
  <2>2. /\ Keeps(f, {"phase"})
        /\ \/ fetch'[f].phase = "finish" /\ part' = None
           \/ fetch'[f].phase = "remove" /\ part' = part
        /\ DOMAIN fetch' = Fetches /\ \A g \in Fetches \ {f} : fetch'[g] = fetch[g]
    BY <1>1, <1>4, SetFacts DEF Rename, Go, Fields, Keeps
  <2> QED
    BY <2>1, <2>2 DEF Shape, Moves, PartMoves, NoNewHoles, LeavesClean, Filling, Keeps, Fields, Writing
<1>5. CASE RemovePart(f)
  <2>1. fetch[f].phase = "remove" /\ UNCHANGED <<data, live>> /\ part' = None
    BY <1>5 DEF RemovePart, others
  <2>2. /\ Keeps(f, {"phase", "failed"}) /\ fetch'[f].phase = "finish"
        /\ DOMAIN fetch' = Fetches /\ \A g \in Fetches \ {f} : fetch'[g] = fetch[g]
    BY <1>1, <1>5, SetFacts DEF RemovePart, Fields, Keeps
  <2> QED
    BY <2>1, <2>2 DEF Shape, Moves, PartMoves, NoNewHoles, LeavesClean, Filling, Keeps, Fields, Writing
<1> QED
  BY <1>2, <1>3, <1>4, <1>5

(* So every step of a fetch whose swarm starts on a new file has the shape. *)
LEMMA RunHasShape ==
  ASSUME FilesInv, NEW f \in Fetches, fetch[f].phase = "open" => part = None, Run(f)
  PROVE  Shape(f)
BY QuietStepsHaveShape, WritingStepsHaveShape, NamingStepsHaveShape DEF Run

-----------------------------------------------------------------------------
(* How fetches end.                                                        *)

(* The speculative fetch of a chunk changes its fetch's counters only. *)
LEMMA SpeculateFacts ==
  ASSUME Typed, NEW f \in Fetches, Speculate(f)
  PROVE  /\ UNCHANGED <<live, data, part, cache, reader, peer, reaper>>
         /\ DOMAIN fetch' = Fetches /\ \A g \in Fetches \ {f} : fetch'[g] = fetch[g]
         /\ Keeps(f, {"received", "spec"})
<1>1. CASE Set(f, [spec |-> "landed", received |-> fetch[f].received + 1])
  BY <1>1, SetFacts DEF Speculate, diskVars, others, Fields, Keeps
<1>2. CASE Set(f, [spec |-> "failed"])
  BY <1>2, SetFacts DEF Speculate, diskVars, others, Fields, Keeps
<1> QED
  BY <1>1, <1>2 DEF Speculate

(* A relay starts at most one fetch, and touches no file. *)
LEMMA RelayFacts ==
  ASSUME Typed, NEW r \in Readers, Relay(r)
  PROVE  /\ UNCHANGED diskVars
         /\ \/ UNCHANGED <<fetch, live>>
            \/ /\ live = None /\ reader[r].pc = "lock"
               /\ \E f \in Fetches :
                    /\ fetch[f].phase = "idle" /\ live' = f /\ fetch'[f] = Started
                    /\ DOMAIN fetch' = Fetches /\ \A g \in Fetches \ {f} : fetch'[g] = fetch[g]
                    /\ reader' = [reader EXCEPT ![r] = With(@, [pc |-> "first", of |-> f])]
<1>1. CASE Join(r)
  <2>1. CASE Start(r) /\ live = None
    BY <1>1, <2>1 DEF Join, Start, Typed, Now
  <2> QED
    BY <1>1, <2>1 DEF Join, NoHolder
<1>2. CASE Ask(r) \/ Respond(r) \/ OpenFile(r) \/ Follow(r) \/ ReadFile(r)
  BY <1>2 DEF Ask, Respond, OpenFile, Follow, ReadFile
<1> QED
  BY <1>1, <1>2 DEF Relay

(* Only the listed fetch moves the part file. *)
LEMMA TidyStep ==
  ASSUME "abandon" \notin Events, FilesInv, TidyInv, [Next]_vars
  PROVE  TidyInv'
<1>1. Typed /\ Alone /\ \A f \in Fetches : Fetching(f)
  BY DEF FilesInv
<1>2. ASSUME NEW f \in Fetches, Run(f) PROVE TidyInv'
  <2>1. Moves(f) /\ PartMoves(f)
    BY <1>2, RunHasShape DEF Shape, TidyInv
  <2>2. \A g \in Fetches : ~fetch'[g].cancelled
    BY <2>1 DEF Moves, TidyInv
  <2>3. fetch'[f].phase \in {"manifest", "open", "finish", "unlist"} => part' = None
    BY <2>1 DEF PartMoves, TidyInv
  <2>4. CASE Running(f)
    <3>1. ASSUME NEW g \in Fetches \ {f}
          PROVE  fetch'[g].phase \notin {"manifest", "open", "finish", "unlist"}
      BY <1>1, <2>1, <2>4 DEF Alone, OneFetchPerHash, Running, Moves
    <3>2. live # None
      BY <1>1, <2>4, TransferAssumption DEF Alone, OneFetchPerHash
    <3>3. live' = None => part' = None
      BY <2>1, <3>2 DEF Moves, PartMoves, TidyInv
    <3> QED
      BY <2>2, <2>3, <3>1, <3>3 DEF TidyInv
  <2>5. CASE ~Running(f)
    <3>1. part' = part /\ live' = live
      BY <2>1, <2>5 DEF Moves, PartMoves, Running
    <3> QED
      BY <2>1, <2>2, <2>3, <3>1 DEF TidyInv, Moves
  <2> QED
    BY <2>4, <2>5
<1>3. ASSUME NEW f \in Fetches, Speculate(f) PROVE TidyInv'
  <2>1. fetch'[f].phase = fetch[f].phase /\ fetch'[f].cancelled = fetch[f].cancelled
    BY <1>1, <1>3, SpeculateFacts DEF Keeps, Fields
  <2> QED
    BY <1>1, <1>3, <2>1, SpeculateFacts DEF TidyInv
<1>4. ASSUME NEW r \in Readers, Relay(r) PROVE TidyInv'
  BY <1>1, <1>4, RelayFacts, ZenonT(60) DEF TidyInv, diskVars, Started, Unstarted
<1>5. CASE Crash
  BY <1>5 DEF Crash, TidyInv, Unstarted
<1>6. CASE UNCHANGED <<fetch, live>> /\ part' \in {part, None}
  BY <1>6 DEF TidyInv
<1>7. ASSUME NEW q \in Peers, CheckPartial(q) \/ SendPartial(q) PROVE UNCHANGED <<fetch, live, part>>
  BY <1>7 DEF CheckPartial, SendPartial, diskVars
<1>8. CASE Evict \/ Reap \/ UNCHANGED vars
  BY <1>6, <1>8 DEF Evict, Reap, vars
<1> QED
  BY <1>2, <1>3, <1>4, <1>5, <1>6, <1>7, <1>8 DEF Next, Over, Abandon

(* Where no fetch can be abandoned, a fetch that has ended has left no part *)
(* file, whatever crashed, failed to rename or was reaped, and the waste it *)
(* booked counts its speculative fetch's last bytes.                       *)
THEOREM FetchesAreTidy ==
  ASSUME "abandon" \notin Events
  PROVE  Spec => []FetchesEndClean
<1>1. Init => TidyInv
  BY DEF Init, TidyInv, Unstarted
<1>2. FilesInv /\ TidyInv /\ [Next]_vars => TidyInv'
  BY TidyStep
<1>3. FilesInv /\ TidyInv => FetchesEndClean
  <2> SUFFICES ASSUME FilesInv, TidyInv PROVE FetchesEndClean
    OBVIOUS
  <2>1. Typed /\ \A f \in Fetches : Fetching(f)
    BY DEF FilesInv
  <2>2. TypeOK
    <3>1. ASSUME NEW f \in Fetches
          PROVE  /\ DOMAIN fetch[f] = DOMAIN Unstarted
                 /\ fetch[f].chunkOK \subseteq 0 .. fetch[f].size - 1
                 /\ fetch[f].phase \in {"swarm", "stream"} => fetch[f].fd \in DOMAIN data
      BY <2>1 DEF Typed, FetchTyped, Fields, Unstarted, Fetching, Swarming, OwnFile, Writing
    <3>2. \A i \in DOMAIN data : \A j \in DOMAIN data[i] : data[i][j] \in {"good", "bad", "hole"}
      BY <2>1 DEF Typed, Chunk
    <3> QED
      BY <2>1, <3>1, <3>2 DEF Typed, TypeOK
  <2>3. WasteIsFinal
    BY <2>1 DEF Fetching, Ending, WasteIsFinal
  <2> QED
    BY <2>2, <2>3 DEF FetchesEndClean, FailedFetchCleansUp, TidyInv
<1> QED
  BY <1>1, <1>2, <1>3, FilesHold, PTL DEF Spec

-----------------------------------------------------------------------------
(* What relays send.                                                       *)

(* No partial is reaped, and a fetch told to stop is not followed by a next. *)
Undisturbed ==
  /\ "reap" \notin Events
  /\ "abandon" \in Events => \A f, g \in Fetches : f = g

(* Now changes the named fields of one relay. *)
LEMMA NowFacts ==
  ASSUME RelayInv, NEW r \in Readers, NEW c, Now(r, c)
  PROVE  /\ DOMAIN reader' = Readers /\ DOMAIN reader'[r] = RelayFields
         /\ \A s \in Readers \ {r} : reader'[s] = reader[s]
         /\ \A k \in RelayFields : reader'[r][k] = IF k \in DOMAIN c THEN c[k] ELSE reader[r][k]
BY DEF RelayInv, Follows, Now, With

(* A file without holes stays so. *)
LEMMA CleanStays ==
  ASSUME NoNewHoles, NEW i \in DOMAIN data, Clean(i)
  PROVE  Clean(i)'
BY DEF NoNewHoles, Clean

(* A fetch's step and the file it fills. *)
LEMMA FillingStep ==
  ASSUME Undisturbed, FilesInv, HolesAreFilled, NEW f \in Fetches, Run(f)
  PROVE  HolesAreFilled'
<1>1. Shape(f) /\ Typed /\ Alone
  BY RunHasShape DEF HolesAreFilled, FilesInv
<1>2. Moves(f) /\ PartMoves(f) /\ NoNewHoles /\ LeavesClean(f)
  BY <1>1 DEF Shape
<1>3. \A g \in Fetches \ {f} : fetch'[g] = fetch[g]
  BY <1>2 DEF Moves
<1>4. ~Running(f) => part' = part /\ live' = live
  BY <1>2 DEF Running, Moves, PartMoves
<1>5. Running(f) => live = f /\ \A g \in Fetches \ {f} : ~Running(g)
  BY <1>1 DEF Alone, OneFetchPerHash
<1>6. ASSUME NEW g \in Fetches
      PROVE  /\ fetch'[g].phase \in {"manifest", "open"} => part' = None
             /\ fetch'[g].phase \in Writing => part' = fetch'[g].fd
             /\ fetch'[g].phase \in {"finish", "unlist"} => part' = None \/ fetch'[g].cancelled
             /\ fetch'[g].cancelled => "abandon" \in Events
  <2>1. CASE g = f
    <3>1. fetch'[f].cancelled = fetch[f].cancelled
      BY <1>2 DEF Moves
    <3> QED
      BY <1>2, <2>1, <3>1 DEF PartMoves, HolesAreFilled
  <2>2. CASE g # f /\ Running(f)
    BY <1>3, <1>5, <2>2 DEF Running, Writing, HolesAreFilled
  <2>3. CASE g # f /\ ~Running(f)
    BY <1>3, <1>4, <2>3 DEF HolesAreFilled
  <2> QED
    BY <2>1, <2>2, <2>3
<1>7. live' = None /\ (\E g \in Fetches : fetch'[g].phase = "idle") => part' = None
  <2> SUFFICES ASSUME live' = None, NEW g \in Fetches, fetch'[g].phase = "idle"
               PROVE  part' = None
    OBVIOUS
  <2>1. g # f /\ fetch[g].phase = "idle"
    BY <1>2 DEF Moves
  <2>2. CASE ~Running(f)
    BY <1>4, <2>1, <2>2 DEF HolesAreFilled
  <2>3. CASE Running(f)
    <3>1. fetch[f].phase = "unlist" /\ part' = part
      BY <1>2, <1>5, <2>3, TransferAssumption DEF Moves, PartMoves
    <3>2. part = None \/ "abandon" \in Events
      BY <3>1 DEF HolesAreFilled
    <3> QED
      BY <2>1, <3>1, <3>2 DEF Undisturbed
  <2> QED
    BY <2>2, <2>3
<1>8. part' # None => Clean(part)' \/ \E g \in Fetches : Filling(g)'
  <2>1. CASE fetch'[f].phase = "stream" /\ Clean(part)'
    BY <2>1
  <2>2. CASE fetch'[f].phase = "swarm"
    BY <2>2 DEF Filling
  <2>3. CASE part' = part /\ part # None
    <3>1. part \in DOMAIN data
      BY <1>1, <2>3 DEF Typed
    <3>2. CASE Clean(part)
      BY <1>2, <2>3, <3>1, <3>2 DEF NoNewHoles, Clean
    <3>3. ASSUME NEW g \in Fetches, Filling(g), g # f PROVE Filling(g)'
      BY <1>3, <3>3 DEF Filling
    <3>4. CASE Filling(f)
      <4>1. fetch[f].fd = part
        BY <3>4 DEF HolesAreFilled, Filling, Writing
      <4> QED
        BY <1>2, <2>3, <3>4, <4>1 DEF LeavesClean, Clean
    <3> QED
      BY <2>3, <3>2, <3>3, <3>4 DEF HolesAreFilled
  <2> QED
    BY <1>2, <2>1, <2>2, <2>3 DEF PartMoves
<1> QED
  BY <1>6, <1>7, <1>8 DEF HolesAreFilled

(* The other steps leave the file with nobody who would fill it, or alone. *)
LEMMA FillingRest ==
  ASSUME Undisturbed, FilesInv, HolesAreFilled, [Next]_vars,
         \A f \in Fetches : ~Run(f)
  PROVE  HolesAreFilled'
<1>1. Typed /\ Alone
  BY DEF FilesInv
<1>2. ASSUME NEW f \in Fetches, UNCHANGED <<live, data, part>>,
             DOMAIN fetch' = Fetches, \A g \in Fetches \ {f} : fetch'[g] = fetch[g],
             Keeps(f, {"received", "spec", "cancelled"}),
             fetch[f].cancelled => fetch'[f].cancelled,
             fetch'[f].cancelled => fetch[f].cancelled \/ "abandon" \in Events
      PROVE  HolesAreFilled'
  <2>1. fetch'[f].phase = fetch[f].phase /\ fetch'[f].fd = fetch[f].fd
    BY <1>2 DEF Keeps, Fields
  <2>2. \A g \in Fetches : Filling(g)' <=> Filling(g)
    BY <1>2, <2>1 DEF Filling
  <2>3. Clean(part)' <=> Clean(part)
    BY <1>2 DEF Clean
  <2>4. ASSUME NEW g \in Fetches
        PROVE  /\ fetch'[g].phase \in {"manifest", "open"} => part' = None
               /\ fetch'[g].phase \in Writing => part' = fetch'[g].fd
               /\ fetch'[g].phase \in {"finish", "unlist"} => part' = None \/ fetch'[g].cancelled
               /\ fetch'[g].cancelled => "abandon" \in Events
    BY <1>2, <2>1 DEF HolesAreFilled
  <2>5. live' = None /\ (\E g \in Fetches : fetch'[g].phase = "idle") => part' = None
    BY <1>2, <2>1 DEF HolesAreFilled
  <2>6. part' # None => Clean(part)' \/ \E g \in Fetches : Filling(g)'
    BY <1>2, <2>2, <2>3 DEF HolesAreFilled
  <2> QED
    BY <2>4, <2>5, <2>6 DEF HolesAreFilled
<1>3. ASSUME NEW f \in Fetches, Speculate(f) PROVE HolesAreFilled'
  <2>1. Keeps(f, {"received", "spec", "cancelled"}) /\ fetch'[f].cancelled = fetch[f].cancelled
    BY <1>1, <1>3, SpeculateFacts DEF Keeps, Fields
  <2> QED
    BY <1>1, <1>2, <1>3, <2>1, SpeculateFacts
<1>4. ASSUME NEW f \in Fetches, Abandon(f) PROVE HolesAreFilled'
  <2>1. /\ Set(f, [cancelled |-> TRUE]) /\ "abandon" \in Events
        /\ UNCHANGED <<live, data, part>>
    BY <1>4 DEF Abandon, diskVars, others
  <2>2. /\ Keeps(f, {"received", "spec", "cancelled"}) /\ fetch'[f].cancelled
        /\ DOMAIN fetch' = Fetches /\ \A g \in Fetches \ {f} : fetch'[g] = fetch[g]
    BY <1>1, <2>1, SetFacts DEF Keeps, Fields
  <2> QED
    BY <1>2, <2>1, <2>2
<1>5. CASE UNCHANGED <<fetch, live, data, part>>
  <2>1. (Clean(part)' <=> Clean(part)) /\ \A g \in Fetches : Filling(g)' <=> Filling(g)
    BY <1>5 DEF Clean, Filling
  <2> QED
    BY <1>5, <2>1 DEF HolesAreFilled
<1>6. ASSUME NEW r \in Readers, Relay(r) PROVE HolesAreFilled'
  <2>1. CASE UNCHANGED <<fetch, live>>
    BY <1>1, <1>5, <1>6, <2>1, RelayFacts DEF diskVars
  <2>2. ASSUME NEW f \in Fetches, live = None, fetch[f].phase = "idle", live' = f,
               fetch'[f] = Started, \A g \in Fetches \ {f} : fetch'[g] = fetch[g]
        PROVE  HolesAreFilled'
    <3>1. part' = None /\ f # None
      BY <1>1, <1>6, <2>2, RelayFacts, TransferAssumption DEF diskVars, HolesAreFilled
    <3> QED
      BY <2>2, <3>1, ZenonT(60) DEF HolesAreFilled, Started, Unstarted, Writing
  <2> QED
    BY <1>1, <1>6, <2>1, <2>2, RelayFacts
<1>7. CASE Crash
  BY <1>7 DEF Crash, HolesAreFilled, Unstarted, Writing
<1>8. ASSUME NEW q \in Peers, CheckPartial(q) \/ SendPartial(q)
      PROVE  UNCHANGED <<fetch, live, data, part>>
  BY <1>8 DEF CheckPartial, SendPartial, diskVars
<1>9. CASE Evict \/ UNCHANGED vars
  BY <1>5, <1>9 DEF Evict, vars
<1> QED
  BY <1>3, <1>4, <1>5, <1>6, <1>7, <1>8, <1>9 DEF Next, Over, Reap, Undisturbed

(* Where a fetch is, of a relay that does not move. *)
LEMMA WatchingStep ==
  ASSUME FilesInv, HolesAreFilled, NEW f \in Fetches, Run(f), NEW r \in Readers, Follows(r),
         reader'[r] = reader[r]
  PROVE  Follows(r)'
<1> DEFINE x == reader[r]
<1>1. Shape(f) /\ Typed /\ Alone
  BY RunHasShape DEF HolesAreFilled, FilesInv
<1>2. Moves(f) /\ PartMoves(f) /\ NoNewHoles /\ LeavesClean(f)
  BY <1>1 DEF Shape
<1>3. ASSUME x.pc \in Following
      PROVE  x.of \in Fetches /\ fetch'[x.of].phase # "idle" /\ (fetch'[x.of].finished \/ x.of = live')
  <2>1. x.of \in Fetches /\ fetch[x.of].phase # "idle" /\ (fetch[x.of].finished \/ x.of = live)
    BY <1>3 DEF Follows
  <2>2. CASE x.of = f
    <3>1. live' = live \/ fetch'[f].finished
      BY <1>2 DEF Moves
    <3> QED
      BY <1>2, <2>1, <2>2, <3>1 DEF Moves
  <2>3. CASE x.of # f
    <3>1. x.of = live => live' = live
      BY <1>1, <1>2, <2>3 DEF Moves, Alone, OneFetchPerHash, Running
    <3> QED
      BY <1>2, <2>1, <2>3, <3>1 DEF Moves
  <2> QED
    BY <2>2, <2>3
<1>4. ASSUME x.pc \in {"wait", "read"}
      PROVE  /\ x.fd \in DOMAIN data'
             /\ Clean(x.fd)' \/ (x.of = live' /\ Filling(x.of)' /\ fetch'[x.of].fd = x.fd)
  <2>1. /\ x.fd \in DOMAIN data /\ x.of \in Fetches
        /\ Clean(x.fd) \/ (x.of = live /\ Filling(x.of) /\ fetch[x.of].fd = x.fd)
    BY <1>4 DEF Follows, Following
  <2>2. CASE Clean(x.fd)
    BY <1>2, <2>1, <2>2, CleanStays DEF NoNewHoles, Clean
  <2>3. CASE x.of = live /\ Filling(x.of) /\ fetch[x.of].fd = x.fd
    <3>1. live' = live
      BY <1>1, <1>2, <2>1, <2>3 DEF Moves, Alone, OneFetchPerHash, Running, Filling
    <3>2. CASE x.of = f
      <4>1. part = fetch[f].fd /\ part # None
        BY <1>1, <2>1, <2>3, <3>2, TransferAssumption DEF HolesAreFilled, Filling, Writing, Typed
      <4>2. fetch'[f].fd = fetch[f].fd /\ (Filling(f)' \/ Clean(fetch[f].fd)')
        BY <1>2, <2>3, <3>2, <4>1 DEF LeavesClean
      <4> QED
        BY <1>2, <2>1, <2>3, <3>1, <3>2, <4>2 DEF NoNewHoles, Clean
    <3>3. CASE x.of # f
      BY <1>2, <2>1, <2>3, <3>1, <3>3 DEF Moves, Filling, NoNewHoles
    <3> QED
      BY <3>2, <3>3
  <2> QED
    BY <2>1, <2>2, <2>3
<1>5. ASSUME x.pc = "read", x.off + 1 \in DOMAIN data'[x.fd]
      PROVE  data'[x.fd][x.off + 1] # "hole"
  <2>1. /\ x.fd \in DOMAIN data
        /\ x.off + 1 \in DOMAIN data[x.fd] => data[x.fd][x.off + 1] # "hole"
    BY <1>5 DEF Follows
  <2> QED
    BY <1>2, <1>5, <2>1 DEF NoNewHoles
<1> QED
  BY <1>3, <1>4, <1>5 DEF Follows

(* What a relay is offered of a swarm's file has landed. *)
LEMMA OfferedIsLanded ==
  ASSUME FilesInv, NEW f \in Fetches, Filling(f), NEW off \in Nat, Avail(f, off) > 0
  PROVE  off + 1 \in DOMAIN data[fetch[f].fd] /\ data[fetch[f].fd][off + 1] # "hole"
<1>1. Fetching(f) /\ Size \in Nat \ {0}
  BY TransferAssumption DEF FilesInv
<1>2. ~fetch[f].finished
  BY <1>1 DEF Filling, Fetching, Ending
<1> DEFINE run == {n \in 1 .. Size : off .. off + n - 1 \subseteq fetch[f].chunkOK}
<1>3. CASE fetch[f].chunked
  <2>1. Cardinality(run) > 0
    BY <1>2, <1>3 DEF Avail
  <2>2. run # {}
    BY <2>1, FS_EmptySet, SMTT(60)
  <2>3. off \in fetch[f].chunkOK
    BY <2>2
  <2>4. fetch[f].phase # "truncate"
    BY <1>1, <2>3 DEF Fetching, Streaming
  <2> QED
    BY <1>1, <2>3, <2>4 DEF Fetching, Swarming, Filling
<1>4. CASE ~fetch[f].chunked
  <2>1. fetch[f].progress = 0
    BY <1>1, <1>4 DEF Fetching, Swarming, Streaming, Filling
  <2> QED
    BY <1>2, <1>4, <2>1 DEF Avail
<1> QED
  BY <1>3, <1>4

(* The file a relay opens is the running fetch's, or the verified blob. *)
LEMMA OpenedFile ==
  ASSUME FilesInv, HolesAreFilled, NEW f \in Fetches, fetch[f].finished \/ f = live,
         NEW fd, fd = (IF ~fetch[f].finished /\ part # None THEN part ELSE cache), fd # None
  PROVE  fd \in DOMAIN data /\ (Clean(fd) \/ (f = live /\ Filling(f) /\ fetch[f].fd = fd))
<1>1. Typed /\ Names /\ Alone
  BY DEF FilesInv
<1>2. CASE fd = cache
  BY <1>1, <1>2, BlobIsClean DEF Typed, Names, Clean
<1>3. CASE fd = part /\ ~fetch[f].finished
  <2>1. \A g \in Fetches : Filling(g) => g = f
    BY <1>1, <1>3 DEF Alone, OneFetchPerHash, Filling, Running
  <2>2. Filling(f) => part = fetch[f].fd
    BY DEF HolesAreFilled, Filling, Writing
  <2> QED
    BY <1>1, <1>3, <2>1, <2>2 DEF HolesAreFilled, Typed
<1> QED
  BY <1>2, <1>3

(* A relay's own step. *)
LEMMA FollowingStep ==
  ASSUME FilesInv, HolesAreFilled, RelayInv, NEW r \in Readers, Relay(r)
  PROVE  Follows(r)'
<1> DEFINE x == reader[r]
<1>1. /\ Typed /\ Names /\ Alone /\ Follows(r)
      /\ DOMAIN x = RelayFields /\ x.off \in Nat /\ x.got \in Seq(Chunk \ {"hole"})
  BY DEF FilesInv, RelayInv, Follows
<1>2. ASSUME x.pc \in Following
      PROVE  x.of \in Fetches /\ fetch[x.of].phase # "idle" /\ (fetch[x.of].finished \/ x.of = live)
  BY <1>1, <1>2 DEF Follows
<1>3. ASSUME NEW w, w \notin Following, Now(r, [pc |-> w]) PROVE Follows(r)'
  BY <1>1, <1>3, NowFacts DEF Follows, Following, RelayFields
<1>4. ASSUME NEW c, UNCHANGED <<fetch, live>>, Now(r, c), x.pc \in Following,
             DOMAIN c \in {{"pc"}, {"pc", "total"}}, c.pc \in {"head", "open"}
      PROVE  Follows(r)'
  <2>1. /\ DOMAIN reader'[r] = RelayFields /\ reader'[r].off = x.off /\ reader'[r].got = x.got
        /\ reader'[r].of = x.of /\ reader'[r].pc \in {"head", "open"}
    BY <1>4, NowFacts DEF RelayFields
  <2> QED
    BY <1>1, <1>2, <1>4, <2>1 DEF Follows, Following
<1>5. CASE Ask(r)
  BY <1>3, <1>5 DEF Ask, Following
<1>6. CASE Join(r)
  <2>1. CASE NoHolder(r)
    BY <1>3, <2>1 DEF NoHolder, Following
  <2>2. ASSUME NEW f \in Fetches, Now(r, [pc |-> "first", of |-> f]), live' = f,
               fetch'[f].phase # "idle"
        PROVE  Follows(r)'
    <3>1. /\ DOMAIN reader'[r] = RelayFields /\ reader'[r].off = x.off /\ reader'[r].got = x.got
          /\ reader'[r].of = f /\ reader'[r].pc = "first"
      BY <2>2, NowFacts DEF RelayFields
    <3> QED
      BY <1>1, <2>2, <3>1 DEF Follows
  <2>3. CASE live # None
    <3>1. live \in Fetches /\ fetch[live].phase # "idle"
      BY <1>1, <2>3 DEF Typed, Alone, Running
    <3> QED
      BY <1>6, <2>2, <2>3, <3>1 DEF Join
  <2>4. CASE Start(r)
    <3>1. PICK f \in Fetches : /\ fetch' = [fetch EXCEPT ![f] = Started] /\ live' = f
                               /\ Now(r, [pc |-> "first", of |-> f])
      BY <2>4 DEF Start
    <3>2. fetch'[f].phase = "manifest"
      BY <1>1, <3>1 DEF Typed, Started, Unstarted
    <3> QED
      BY <2>2, <3>1, <3>2
  <2> QED
    BY <1>6, <2>1, <2>3, <2>4 DEF Join
<1>7. CASE Respond(r)
  BY <1>3, <1>4, <1>7 DEF Respond, Following
<1>8. CASE OpenFile(r)
  <2>1. CASE /\ cache # None
             /\ Now(r, [pc |-> "end", got |-> data[cache], total |-> Len(data[cache])])
    <3>1. data[cache] \in Seq(Chunk \ {"hole"})
      <4>1. data[cache] = Blob /\ \A i \in 1 .. Size : Blob[i] \in Chunk \ {"hole"}
        BY <1>1, <2>1, BlobIsClean DEF Names, Chunk
      <4> QED
        BY <4>1, BlobIsClean DEF Blob
    <3>2. /\ DOMAIN reader'[r] = RelayFields /\ reader'[r].off = x.off /\ reader'[r].pc = "end"
          /\ reader'[r].got = data[cache]
      BY <2>1, NowFacts DEF RelayFields
    <3> QED
      BY <1>1, <3>1, <3>2 DEF Follows, Following
  <2> DEFINE fd == IF ~fetch[x.of].finished /\ part # None THEN part ELSE cache
  <2>2. CASE x.pc = "open" /\ fd # None /\ Now(r, [pc |-> "wait", fd |-> fd])
    <3>1. UNCHANGED <<fetch, live, data>>
      BY <1>8 DEF OpenFile, diskVars
    <3>2. /\ DOMAIN reader'[r] = RelayFields /\ reader'[r].off = x.off /\ reader'[r].pc = "wait"
          /\ reader'[r].got = x.got /\ reader'[r].of = x.of /\ reader'[r].fd = fd
      BY <2>2, NowFacts DEF RelayFields
    <3>3. fd \in DOMAIN data /\ (Clean(fd) \/ (x.of = live /\ Filling(x.of) /\ fetch[x.of].fd = fd))
      BY <1>2, <2>2, OpenedFile DEF Following
    <3>4. x.of \in Fetches /\ fetch[x.of].phase # "idle" /\ (fetch[x.of].finished \/ x.of = live)
      BY <1>2, <2>2 DEF Following
    <3> HIDE DEF fd
    <3> QED
      BY <1>1, <3>1, <3>2, <3>3, <3>4 DEF Follows, Clean, Filling
  <2> QED
    BY <1>3, <1>8, <2>1, <2>2 DEF OpenFile, Following
<1>9. ASSUME x.pc \in {"wait", "read"}
      PROVE  /\ x.fd \in DOMAIN data /\ x.of \in Fetches /\ fetch[x.of].phase # "idle"
             /\ fetch[x.of].finished \/ x.of = live
             /\ Clean(x.fd) \/ (x.of = live /\ Filling(x.of) /\ fetch[x.of].fd = x.fd)
  BY <1>1, <1>2, <1>9 DEF Follows, Following
<1>10. CASE Follow(r)
  <2>1. x.pc = "wait" /\ UNCHANGED <<fetch, live, data>>
    BY <1>10 DEF Follow, diskVars
  <2>2. CASE Avail(x.of, x.off) > 0 /\ Now(r, [pc |-> "read"])
    <3>1. /\ DOMAIN reader'[r] = RelayFields /\ reader'[r].off = x.off /\ reader'[r].pc = "read"
          /\ reader'[r].got = x.got /\ reader'[r].of = x.of /\ reader'[r].fd = x.fd
      BY <2>2, NowFacts DEF RelayFields
    <3>2. x.off + 1 \in DOMAIN data[x.fd] => data[x.fd][x.off + 1] # "hole"
      BY <1>1, <1>9, <2>1, <2>2, OfferedIsLanded DEF Clean
    <3> QED
      BY <1>1, <1>9, <2>1, <3>1, <3>2 DEF Follows, Clean, Filling
  <2> QED
    BY <1>3, <1>10, <2>2 DEF Follow, Following
<1>11. CASE ReadFile(r)
  <2>1. x.pc = "read" /\ UNCHANGED <<fetch, live, data>>
    BY <1>11 DEF ReadFile, diskVars
  <2>2. CASE x.off < Len(data[x.fd])
    <3>1. data[x.fd][x.off + 1] \in Chunk \ {"hole"}
      <4>1. data[x.fd] \in Seq(Chunk) /\ x.off + 1 \in DOMAIN data[x.fd]
        BY <1>1, <1>9, <2>1, <2>2 DEF Typed
      <4> QED
        BY <1>1, <2>1, <4>1 DEF Follows
    <3>2. /\ DOMAIN reader'[r] = RelayFields /\ reader'[r].off = x.off + 1
          /\ reader'[r].got = Append(x.got, data[x.fd][x.off + 1])
          /\ reader'[r].pc \in {"wait", "end"} /\ reader'[r].of = x.of /\ reader'[r].fd = x.fd
      BY <1>11, <2>2, NowFacts, SMTT(60) DEF ReadFile, RelayFields
    <3> QED
      BY <1>1, <1>9, <2>1, <3>1, <3>2 DEF Follows, Clean, Filling
  <2>3. CASE Now(r, [pc |-> "wait"])
    <3>1. /\ DOMAIN reader'[r] = RelayFields /\ reader'[r].off = x.off /\ reader'[r].pc = "wait"
          /\ reader'[r].got = x.got /\ reader'[r].of = x.of /\ reader'[r].fd = x.fd
      BY <2>3, NowFacts DEF RelayFields
    <3> QED
      BY <1>1, <1>9, <2>1, <3>1 DEF Follows, Clean, Filling
  <2> QED
    BY <1>11, <2>2, <2>3 DEF ReadFile
<1> QED
  BY <1>5, <1>6, <1>7, <1>8, <1>10, <1>11 DEF Relay

(* A relay that does not move, while fetches only count, stop or start. *)
LEMMA WatchingRest ==
  ASSUME Alone, NEW r \in Readers, Follows(r), reader'[r] = reader[r], UNCHANGED data,
         live = None \/ UNCHANGED live,
         \A g \in Fetches : fetch[g].phase # "idle" =>
           /\ fetch'[g].phase = fetch[g].phase /\ fetch'[g].fd = fetch[g].fd
           /\ fetch[g].finished => fetch'[g].finished
  PROVE  Follows(r)'
<1> DEFINE x == reader[r]
<1>1. x.pc \in Following =>
        /\ x.of \in Fetches /\ fetch'[x.of].phase # "idle"
        /\ fetch'[x.of].finished \/ x.of = live'
  BY TransferAssumption DEF Follows
<1>2. x.pc \in {"wait", "read"} =>
        /\ x.fd \in DOMAIN data'
        /\ Clean(x.fd)' \/ (x.of = live' /\ Filling(x.of)' /\ fetch'[x.of].fd = x.fd)
  BY <1>1, TransferAssumption DEF Follows, Following, Filling, Clean
<1> QED
  BY <1>1, <1>2 DEF Follows

(* Every step keeps what relays are about to read. *)
LEMMA RelayStep ==
  ASSUME Undisturbed, FilesInv, HolesAreFilled, RelayInv, [Next]_vars
  PROVE  RelayInv'
<1>1. Typed /\ Alone /\ DOMAIN reader = Readers /\ \A r \in Readers : Follows(r)
  BY DEF FilesInv, RelayInv
<1>2. ASSUME NEW f \in Fetches, Run(f) PROVE RelayInv'
  <2>1. UNCHANGED reader
    BY <1>2 DEF Run, GetManifest, OpenSwarm, Land, Publish, SwarmEnds, Verify, Discard, FetchFrom,
                Stream, StreamEnds, Rename, RemovePart, Finish, Unlist, Book, others
  <2> QED
    BY <1>1, <1>2, <2>1, WatchingStep, SMTT(60) DEF RelayInv
<1>3. CASE /\ UNCHANGED <<live, data, reader>>
           /\ \A g \in Fetches : /\ fetch'[g].phase = fetch[g].phase /\ fetch'[g].fd = fetch[g].fd
                                 /\ fetch'[g].finished = fetch[g].finished
  BY <1>1, <1>3, WatchingRest DEF RelayInv
<1>4. ASSUME NEW f \in Fetches, Speculate(f) PROVE RelayInv'
  <2>1. /\ fetch'[f].phase = fetch[f].phase /\ fetch'[f].fd = fetch[f].fd
        /\ fetch'[f].finished = fetch[f].finished
    BY <1>1, <1>4, SpeculateFacts DEF Keeps, Fields
  <2> QED
    BY <1>1, <1>3, <1>4, <2>1, SpeculateFacts
<1>5. ASSUME NEW f \in Fetches, Abandon(f) PROVE RelayInv'
  <2>1. Set(f, [cancelled |-> TRUE]) /\ UNCHANGED <<live, data, reader>>
    BY <1>5 DEF Abandon, diskVars, others
  <2>2. /\ fetch'[f].phase = fetch[f].phase /\ fetch'[f].fd = fetch[f].fd
        /\ fetch'[f].finished = fetch[f].finished
        /\ \A g \in Fetches \ {f} : fetch'[g] = fetch[g]
    BY <1>1, <2>1, SetFacts DEF Fields
  <2> QED
    BY <1>3, <2>1, <2>2
<1>6. ASSUME NEW r \in Readers, Relay(r) PROVE RelayInv'
  <2>1. PICK c : Now(r, c)
    BY <1>6 DEF Relay, Ask, Join, Start, NoHolder, Respond, OpenFile, Follow, ReadFile
  <2>2. DOMAIN reader' = Readers /\ \A s \in Readers \ {r} : reader'[s] = reader[s]
    BY <2>1, NowFacts
  <2>3. ASSUME NEW s \in Readers \ {r} PROVE Follows(s)'
    BY <1>1, <1>6, <2>2, RelayFacts, WatchingRest DEF diskVars
  <2> QED
    BY <1>6, <2>2, <2>3, FollowingStep DEF RelayInv
<1>7. CASE Crash
  <2>1. ASSUME NEW r \in Readers
        PROVE  /\ reader'[r].pc \notin Following /\ DOMAIN reader'[r] = RelayFields
               /\ reader'[r].off = reader[r].off /\ reader'[r].got = reader[r].got
    BY <1>1, <1>7 DEF Crash, Follows, Following, Ended, RelayFields
  <2> QED
    BY <1>1, <1>7, <2>1 DEF Crash, RelayInv, Follows, Following
<1>8. ASSUME NEW q \in Peers, CheckPartial(q) \/ SendPartial(q)
      PROVE  UNCHANGED <<fetch, live, data, reader>>
  BY <1>8 DEF CheckPartial, SendPartial, diskVars
<1>9. CASE Evict \/ UNCHANGED vars
  BY <1>3, <1>9 DEF Evict, vars
<1> QED
  BY <1>2, <1>3, <1>4, <1>5, <1>6, <1>7, <1>8, <1>9 DEF Next, Over, Reap, Undisturbed

(* The invariants of the files and their followers. *)
LEMMA RelaysHold ==
  ASSUME Undisturbed
  PROVE  Spec => [](FilesInv /\ HolesAreFilled /\ RelayInv)
<1>1. Init => HolesAreFilled /\ RelayInv
  <2> SUFFICES ASSUME Init PROVE HolesAreFilled /\ RelayInv
    OBVIOUS
  <2>1. ASSUME NEW r \in Readers PROVE Follows(r)
    <3>1. reader[r] = [pc |-> "ask", of |-> None, off |-> 0, total |-> 0, fd |-> None, got |-> <<>>]
      BY DEF Init
    <3>2. <<>> \in Seq(Chunk \ {"hole"})
      OBVIOUS
    <3> QED
      BY <3>1, <3>2 DEF Follows, Following, RelayFields
  <2>2. DOMAIN reader = Readers
    BY DEF Init
  <2>3. \A f \in Fetches : fetch[f] = Unstarted
    BY DEF Init
  <2>4. HolesAreFilled
    BY <2>3 DEF Init, HolesAreFilled, Unstarted, Writing
  <2> QED
    BY <2>1, <2>2, <2>4 DEF RelayInv
<1>2. FilesInv /\ HolesAreFilled /\ [Next]_vars => HolesAreFilled'
  BY FillingStep, FillingRest DEF Next
<1>3. FilesInv /\ HolesAreFilled /\ RelayInv /\ [Next]_vars => RelayInv'
  BY RelayStep
<1> QED
  BY <1>1, <1>2, <1>3, InitFiles, NextFiles, PTL DEF Spec

(* Whatever a swarm assembles, discards or resumes under it, a relay is     *)
(* never sent the zeros its file is pre-sized with - as long as nobody      *)
(* reaps partials and no fetch follows one that was told to stop.           *)
THEOREM RelaysSendNoHoles ==
  ASSUME Undisturbed
  PROVE  Spec => []NoHolesRelayed
<1>1. RelayInv => NoHolesRelayed
  BY DEF RelayInv, Follows, NoHolesRelayed
<1> QED
  BY <1>1, RelaysHold, PTL

-----------------------------------------------------------------------------
(* What is sent out of a partial.                                          *)

(* A step of the only fetch. *)
LEMMA SeedingStep ==
  ASSUME FilesInv, SeedInv, NEW f \in Fetches, Fetches = {f}, Run(f)
  PROVE  SeedInv'
<1>1. Shape(f) /\ Typed /\ Fetching(f)
  BY RunHasShape DEF SeedInv, Unseeded, FilesInv
<1>2. Moves(f) /\ PartMoves(f) /\ NoNewHoles /\ LeavesClean(f)
  BY <1>1 DEF Shape
<1>3. UNCHANGED peer
  BY DEF Run, GetManifest, OpenSwarm, Land, Publish, SwarmEnds, Verify, Discard, FetchFrom,
         Stream, StreamEnds, Rename, RemovePart, Finish, Unlist, Book, others
<1>4. fetch'[f].phase \in Unseeded => part' = None /\ \A q \in Peers : peer'[q].pc # "open"
  BY <1>2, <1>3 DEF Moves, PartMoves, SeedInv, Unseeded
<1>5. part' # None => Clean(part)' \/ Filling(f)'
  <2>1. CASE part' = part /\ part # None
    <3>1. part \in DOMAIN data
      BY <1>1, <2>1 DEF Typed
    <3>2. CASE Clean(part)
      BY <1>2, <2>1, <3>1, <3>2 DEF NoNewHoles, Clean
    <3>3. CASE Filling(f)
      <4>1. fetch[f].fd = part
        BY <1>1, <2>1, <3>3 DEF Fetching, OwnFile, Filling, Writing
      <4> QED
        BY <1>2, <2>1, <3>3, <4>1 DEF LeavesClean, Clean
    <3> QED
      BY <2>1, <3>2, <3>3 DEF SeedInv
  <2> QED
    BY <1>2, <2>1 DEF PartMoves, Filling
<1>6. ASSUME NEW q \in Peers PROVE Seeds(q)'
  <2>1. Seeds(q)
    BY DEF SeedInv
  <2>2. ASSUME peer[q].pc = "open", part' # None, peer[q].at + 1 \in DOMAIN data'[part']
        PROVE  data'[part'][peer[q].at + 1] # "hole"
    <3>1. CASE part' = part
      <4>1. part \in DOMAIN data
        BY <1>1, <2>2, <3>1 DEF Typed
      <4> QED
        BY <1>2, <2>1, <2>2, <3>1, <4>1 DEF Seeds, NoNewHoles
    <3>2. CASE Clean(part)'
      BY <2>2, <3>2 DEF Clean
    <3>3. CASE fetch[f].phase = "open"
      BY <2>2, <3>3 DEF SeedInv, Unseeded
    <3> QED
      BY <1>2, <2>2, <3>1, <3>2, <3>3 DEF PartMoves
  <2> QED
    BY <1>3, <2>1, <2>2 DEF Seeds
<1> QED
  BY <1>3, <1>4, <1>5, <1>6 DEF SeedInv

(* What a peer is told is complete has landed. *)
LEMMA CompleteIsLanded ==
  ASSUME FilesInv, SeedInv, NEW f \in Fetches, Fetches = {f}, NEW c \in Complete(f),
         part # None, c + 1 \in DOMAIN data[part]
  PROVE  data[part][c + 1] # "hole"
<1>1. Typed /\ Fetching(f)
  BY DEF FilesInv
<1>2. CASE Filling(f)
  <2>1. ~fetch[f].finished
    BY <1>1, <1>2 DEF Filling, Fetching, Ending
  <2>2. c \in fetch[f].chunkOK
    BY <2>1 DEF Complete
  <2>3. fetch[f].phase # "truncate"
    BY <1>1, <2>2 DEF Fetching, Streaming
  <2>4. part = fetch[f].fd
    BY <1>1, <1>2 DEF Fetching, OwnFile, Filling, Writing
  <2> QED
    BY <1>1, <1>2, <2>2, <2>3, <2>4 DEF Fetching, Swarming, Filling
<1>3. CASE ~Filling(f)
  BY <1>3 DEF SeedInv, Clean
<1> QED
  BY <1>2, <1>3

(* The other steps. *)
LEMMA SeedingRest ==
  ASSUME FilesInv, SeedInv, NEW f \in Fetches, Fetches = {f}, [Next]_vars, ~Run(f)
  PROVE  SeedInv'
<1>1. Typed /\ Alone /\ Fetching(f) /\ DOMAIN peer = Peers /\ \A q \in Peers : Seeds(q)
  BY DEF FilesInv, SeedInv
<1>2. CASE /\ UNCHANGED <<data, peer>> /\ part' \in {part, None}
           /\ fetch'[f].phase = fetch[f].phase
  <2>1. part' # None => Clean(part)' \/ Filling(f)'
    BY <1>2 DEF SeedInv, Clean, Filling
  <2>2. \A q \in Peers : Seeds(q)'
    BY <1>1, <1>2 DEF Seeds
  <2> QED
    BY <1>2, <2>1, <2>2 DEF SeedInv
<1>3. CASE Speculate(f)
  BY <1>1, <1>2, <1>3, SpeculateFacts DEF Keeps, Fields
<1>4. CASE Abandon(f)
  <2>1. Set(f, [cancelled |-> TRUE]) /\ UNCHANGED <<data, part, peer>>
    BY <1>4 DEF Abandon, diskVars, others
  <2> QED
    BY <1>1, <1>2, <2>1, SetFacts DEF Fields
<1>5. ASSUME NEW r \in Readers, Relay(r) PROVE SeedInv'
  <2>1. UNCHANGED <<data, part, peer>>
    BY <1>1, <1>5, RelayFacts DEF diskVars, Relay, Ask, Join, Respond, OpenFile, Follow, ReadFile
  <2>2. CASE UNCHANGED fetch
    BY <1>2, <2>1, <2>2
  <2>3. CASE fetch[f].phase = "idle"
    <3>1. part' = None /\ \A q \in Peers : peer'[q].pc # "open"
      BY <2>1, <2>3 DEF SeedInv, Unseeded
    <3>2. \A q \in Peers : Seeds(q)'
      BY <1>1, <2>1, <3>1 DEF Seeds
    <3> QED
      BY <1>1, <2>1, <3>1, <3>2 DEF SeedInv
  <2> QED
    BY <1>1, <1>5, <2>2, <2>3, RelayFacts, SMTT(60)
<1>6. ASSUME NEW q \in Peers, CheckPartial(q) PROVE SeedInv'
  <2>1. PICK c \in Complete(live) :
          peer' = [peer EXCEPT ![q].pc = "open", ![q].at = c]
    BY <1>6 DEF CheckPartial
  <2>2. live = f /\ UNCHANGED <<fetch, data, part>> /\ fetch[f].phase \notin Unseeded
    <3>1. live = f /\ UNCHANGED <<fetch, data, part>>
      BY <1>1, <1>6 DEF CheckPartial, Typed, diskVars
    <3>2. fetch[f].phase \in Unseeded => ~fetch[f].finished /\ fetch[f].chunkOK = {}
      BY <1>1 DEF Fetching, Streaming, Ending, Unseeded
    <3> QED
      BY <2>1, <3>1, <3>2 DEF Complete
  <2>3. c \in Nat
    BY <1>1, <2>1, <2>2 DEF Complete, Typed, FetchTyped
  <2>4. /\ DOMAIN peer' = Peers /\ \A p \in Peers \ {q} : peer'[p] = peer[p]
        /\ DOMAIN peer'[q] = {"pc", "at", "sent"} /\ peer'[q].at = c /\ peer'[q].sent = peer[q].sent
    BY <1>1, <2>1 DEF Seeds
  <2>5. Seeds(q)'
    BY <1>1, <2>1, <2>2, <2>3, <2>4, CompleteIsLanded DEF Seeds
  <2>6. \A p \in Peers : Seeds(p)'
    BY <1>1, <2>2, <2>4, <2>5 DEF Seeds
  <2>7. part' # None => Clean(part)' \/ Filling(f)'
    BY <2>2 DEF SeedInv, Clean, Filling
  <2> QED
    BY <2>2, <2>4, <2>6, <2>7 DEF SeedInv
<1>7. ASSUME NEW q \in Peers, SendPartial(q) PROVE SeedInv'
  <2>1. UNCHANGED <<fetch, data, part>>
    BY <1>7 DEF SendPartial, diskVars
  <2>2. /\ DOMAIN peer' = Peers /\ \A p \in Peers \ {q} : peer'[p] = peer[p]
        /\ DOMAIN peer'[q] = {"pc", "at", "sent"} /\ peer'[q].at = peer[q].at
        /\ peer'[q].pc = "done"
        /\ peer'[q].sent = IF part # None /\ peer[q].at < Len(data[part])
                           THEN Append(peer[q].sent, data[part][peer[q].at + 1])
                           ELSE peer[q].sent
    BY <1>1, <1>7 DEF SendPartial, Seeds
  <2>3. peer'[q].sent \in Seq(Chunk \ {"hole"})
    <3>1. CASE part # None /\ peer[q].at < Len(data[part])
      <4>1. data[part] \in Seq(Chunk) /\ peer[q].at + 1 \in DOMAIN data[part]
        BY <1>1, <3>1 DEF Typed, Seeds
      <4>2. data[part][peer[q].at + 1] \in Chunk \ {"hole"}
        BY <1>1, <1>7, <3>1, <4>1 DEF SendPartial, Seeds
      <4> QED
        BY <1>1, <2>2, <3>1, <4>2 DEF Seeds
    <3> QED
      BY <1>1, <2>2, <3>1 DEF Seeds
  <2>4. \A p \in Peers : Seeds(p)'
    BY <1>1, <2>1, <2>2, <2>3 DEF Seeds
  <2>5. part' # None => Clean(part)' \/ Filling(f)'
    BY <2>1 DEF SeedInv, Clean, Filling
  <2> QED
    BY <2>1, <2>2, <2>4, <2>5 DEF SeedInv
<1>8. CASE Crash
  <2>1. /\ DOMAIN peer' = Peers
        /\ \A q \in Peers : peer'[q] = [peer[q] EXCEPT !.pc = "done"]
        /\ part' = None
    BY <1>8 DEF Crash
  <2>2. \A q \in Peers : Seeds(q)' /\ peer'[q].pc # "open"
    BY <1>1, <2>1 DEF Seeds
  <2> QED
    BY <2>1, <2>2 DEF SeedInv
<1>9. CASE Evict \/ Reap \/ UNCHANGED vars
  BY <1>2, <1>9 DEF Evict, Reap, vars
<1> QED
  BY <1>3, <1>4, <1>5, <1>6, <1>7, <1>8, <1>9 DEF Next, Over

(* While one fetch of the blob is all there is, no peer answered out of its *)
(* partial is sent the zeros of a chunk that has not landed: not even when  *)
(* the partial is reaped, discarded or refilled between look and copy.      *)
THEOREM PartialsSendNoHoles ==
  ASSUME NEW f, Fetches = {f}
  PROVE  Spec => []NoHolesSeeded
<1>1. Init => SeedInv
  <2> SUFFICES ASSUME Init PROVE SeedInv
    OBVIOUS
  <2>1. ASSUME NEW q \in Peers PROVE Seeds(q) /\ peer[q].pc # "open"
    <3>1. peer[q] = [pc |-> "idle", at |-> 0, sent |-> <<>>] /\ <<>> \in Seq(Chunk \ {"hole"})
      BY DEF Init
    <3> QED
      BY <3>1 DEF Seeds
  <2> QED
    BY <2>1 DEF Init, SeedInv
<1>2. FilesInv /\ SeedInv /\ [Next]_vars => SeedInv'
  BY SeedingStep, SeedingRest
<1>3. SeedInv => NoHolesSeeded
  BY DEF SeedInv, Seeds, NoHolesSeeded
<1> QED
  BY <1>1, <1>2, <1>3, FilesHold, PTL DEF Spec

-----------------------------------------------------------------------------
(* What relays send when nobody lies.                                      *)

(* How a step changes the length a fetch knows of. *)
Remeasures(f) ==
  /\ \/ fetch'[f].size = fetch[f].size /\ fetch'[f].from = fetch[f].from
     \/ fetch'[f].size = Size /\ fetch'[f].from.good /\ fetch'[f].from.size = Size
  /\ fetch'[f].size = Size \/ fetch[f].phase \in Sized
       \/ /\ fetch'[f].phase \notin Sized
          /\ fetch'[f].progress \in {0, fetch[f].progress}
          /\ fetch'[f].chunkOK \in {{}, fetch[f].chunkOK}

LEMMA RemeasureFacts ==
  ASSUME NEW f \in Fetches, Measures(f), Remeasures(f)
  PROVE  Measures(f)' /\ (fetch[f].size = Size => fetch'[f].size = Size)
<1>1. Size \in Nat \ {0}
  BY TransferAssumption
<1> QED
  BY <1>1 DEF Measures, Remeasures

(* Every length a fetch takes over is the true one. *)
LEMMA RunMeasures ==
  ASSUME Honest, FilesInv, NEW f \in Fetches, Measures(f), Run(f)
  PROVE  Remeasures(f)
<1>1. Typed /\ Fetching(f) /\ FetchTyped(fetch[f])
  BY DEF FilesInv, Typed
<1>2. CASE GetManifest(f)
  <2>1. fetch[f].phase = "manifest"
    BY <1>2 DEF GetManifest
  <2>2. PICK man \in Manifests :
          \/ Set(f, [phase |-> "whole"])
          \/ Set(f, [phase |-> "whole", withheld |-> TRUE])
          \/ man # NoManifest /\ Set(f, [phase |-> "open", from |-> man, size |-> man.size])
    BY <1>2 DEF GetManifest, Go
  <2>3. CASE man # NoManifest /\ Set(f, [phase |-> "open", from |-> man, size |-> man.size])
    <3>1. man.good /\ man.size = Size
      BY <2>3 DEF Honest
    <3>2. fetch'[f].from = man /\ fetch'[f].size = man.size
      BY <1>1, <2>3, SetFacts DEF Fields
    <3> QED
      BY <3>1, <3>2 DEF Remeasures
  <2>4. CASE Set(f, [phase |-> "whole"])
    BY <1>1, <2>4, SetFacts DEF Fields, Remeasures, Sized
  <2>5. CASE Set(f, [phase |-> "whole", withheld |-> TRUE])
    BY <1>1, <2>5, SetFacts DEF Fields, Remeasures, Sized
  <2> QED
    BY <2>2, <2>3, <2>4, <2>5
<1>3. ASSUME fetch[f].phase \in Sized,
             fetch'[f].size = fetch[f].size, fetch'[f].from = fetch[f].from
      PROVE  Remeasures(f)
  BY <1>3 DEF Remeasures
<1>4. ASSUME fetch'[f].phase \notin Sized,
             fetch'[f].size = fetch[f].size, fetch'[f].from = fetch[f].from,
             fetch'[f].progress = fetch[f].progress, fetch'[f].chunkOK = fetch[f].chunkOK
      PROVE  Remeasures(f)
  BY <1>4 DEF Remeasures
<1>5. CASE OpenSwarm(f)
  BY <1>1, <1>3, <1>5, SetFacts DEF OpenSwarm, Fields, Sized
<1>6. ASSUME NEW c \in 0 .. fetch[f].size - 1, Land(f, c) PROVE Remeasures(f)
  BY <1>1, <1>3, <1>6, SetFacts DEF Land, Fields, Sized
<1>7. ASSUME NEW c \in 0 .. fetch[f].size - 1, Publish(f, c) PROVE Remeasures(f)
  BY <1>1, <1>3, <1>7, SetFacts DEF Publish, Fields, Sized
<1>8. CASE SwarmEnds(f)
  BY <1>1, <1>3, <1>8, SetFacts DEF SwarmEnds, Go, Fields, Sized
<1>9. CASE Verify(f)
  BY <1>1, <1>3, <1>9, SetFacts DEF Verify, Go, Fields, Sized
<1>10. CASE Discard(f)
  BY <1>1, <1>3, <1>10, SetFacts DEF Discard, Restart, Go, Fields, Sized
<1>11. CASE FetchFrom(f)
  <2>1. fetch[f].turn \in Nat \ {0} /\ Offers \in Seq(SUBSET [size : Nat \ {0}, good : BOOLEAN])
    BY <1>1, TransferAssumption DEF FetchTyped
  <2>2. CASE Set(f, [phase |-> "remove"]) \/ Set(f, [phase |-> "finish", failed |-> TRUE])
    BY <1>1, <1>4, <2>2, SetFacts DEF Fields, Sized
  <2>3. CASE Restart(f, "whole", fetch[f].turn + 1)
    BY <1>1, <2>3, SetFacts DEF Restart, Fields, Sized, Remeasures
  <2>4. ASSUME NEW n, NEW from, NEW w, n = Size, from.good, from.size = Size,
               Set(f, [phase |-> "stream", fd |-> PartFile, size |-> n, from |-> from,
                       withheld |-> w])
        PROVE  Remeasures(f)
    <3>1. fetch'[f].size = n /\ fetch'[f].from = from
      BY <1>1, <2>4, SetFacts DEF Fields
    <3> QED
      BY <2>4, <3>1 DEF Remeasures
  <2>5. CASE fetch[f].turn > Len(Offers)
    BY <1>11, <2>2, <2>5 DEF FetchFrom, Go
  <2>6. CASE fetch[f].turn \in DOMAIN Offers
    <3>1. \A o \in Offers[fetch[f].turn] : o.good /\ o.size = Size
      BY <2>6 DEF Honest
    <3>2. ASSUME NEW o \in Offers[fetch[f].turn], NEW w,
                 Set(f, [phase |-> "stream", fd |-> PartFile, size |-> o.size,
                         from |-> [size |-> o.size, good |-> o.good, quorum |-> FALSE],
                         withheld |-> w])
          PROVE  Remeasures(f)
      <4> DEFINE from == [size |-> o.size, good |-> o.good, quorum |-> FALSE]
      <4>1. from.good /\ from.size = Size /\ o.size = Size
        BY <3>1
      <4>2. Set(f, [phase |-> "stream", fd |-> PartFile, size |-> o.size, from |-> from,
                    withheld |-> w])
        BY <3>2
      <4> HIDE DEF from
      <4> QED
        BY <2>4, <4>1, <4>2
    <3> QED
      BY <1>11, <2>2, <2>3, <3>2 DEF FetchFrom, Go
  <2> QED
    BY <2>1, <2>5, <2>6
<1>12. CASE Stream(f)
  BY <1>1, <1>3, <1>12, SetFacts DEF Stream, Fields, Sized
<1>13. CASE StreamEnds(f)
  BY <1>1, <1>3, <1>13, SetFacts DEF StreamEnds, Restart, Go, Fields, Sized
<1>14. CASE Rename(f)
  BY <1>1, <1>3, <1>14, SetFacts DEF Rename, Go, Fields, Sized
<1>15. CASE RemovePart(f)
  BY <1>1, <1>4, <1>15, SetFacts DEF RemovePart, Fields, Sized
<1>16. CASE Finish(f)
  <2>1. (IF fetch[f].failed THEN fetch[f].size ELSE fetch[f].progress) = fetch[f].size
    BY <1>1, <1>16 DEF Finish, Fetching, Ending
  <2> QED
    BY <1>1, <1>4, <1>16, <2>1, SetFacts DEF Finish, Fields, Sized
<1>17. CASE Unlist(f)
  BY <1>1, <1>4, <1>17, SetFacts DEF Unlist, Go, Fields, Sized
<1>18. CASE Book(f)
  BY <1>1, <1>4, <1>18, SetFacts DEF Book, Fields, Sized
<1> QED
  BY <1>2, <1>5, <1>6, <1>7, <1>8, <1>9, <1>10, <1>11, <1>12, <1>13, <1>14, <1>15, <1>16,
     <1>17, <1>18 DEF Run

(* A fetch writes what its manifest or its holder vouched for. *)
LEMMA RunWritesGood ==
  ASSUME FilesInv, NoBad, NEW f \in Fetches, Measures(f), Run(f)
  PROVE  NoBad'
<1>1. Typed /\ Names /\ Fetching(f) /\ FetchTyped(fetch[f])
  BY DEF FilesInv, Typed
<1>2. CASE UNCHANGED data
  BY <1>2 DEF NoBad
<1>3. ASSUME NEW n \in Nat, OpenPart(n) PROVE NoBad'
  <2>1. /\ part' = PartFile /\ data'[PartFile] = Holes(n)
        /\ \A i \in DOMAIN data : i # PartFile => data'[i] = data[i]
    BY <1>1, <1>3, OpenFacts
  <2>2. DOMAIN data' \subseteq DOMAIN data \cup {PartFile}
    BY <1>1, <1>3 DEF OpenPart, PartFile, Typed
  <2>3. \A j \in DOMAIN Holes(n) : Holes(n)[j] # "bad"
    BY DEF Holes
  <2> QED
    BY <2>1, <2>2, <2>3 DEF NoBad
<1>4. ASSUME fetch[f].phase \in {"swarm", "stream"}
      PROVE  /\ Byte(fetch[f].from) = "good" /\ fetch[f].fd \in DOMAIN data
             /\ data[fetch[f].fd] \in Seq(Chunk)
  <2>1. fetch[f].from \in Claims
    BY <1>1, <1>4 DEF Fetching, Swarming, Streaming
  <2> QED
    BY <1>1, <1>4, <2>1, TransferAssumption
       DEF Measures, Byte, Fetching, OwnFile, Writing, Typed
<1>5. ASSUME NEW c \in 0 .. fetch[f].size - 1, Land(f, c) PROVE NoBad'
  <2>1. /\ fetch[f].phase = "swarm"
        /\ data' = [data EXCEPT ![fetch[f].fd][c + 1] = Byte(fetch[f].from)]
    BY <1>5 DEF Land
  <2> QED
    BY <1>1, <1>4, <2>1 DEF NoBad, Typed
<1>6. CASE Stream(f)
  <2>1. CASE data' = [data EXCEPT ![fetch[f].fd] = Append(@, Byte(fetch[f].from))]
    <3>1. fetch[f].phase = "stream"
      BY <1>6 DEF Stream
    <3> QED
      BY <1>1, <1>4, <2>1, <3>1 DEF NoBad, Typed
  <2> QED
    BY <1>2, <1>6, <2>1 DEF Stream
<1>7. CASE Discard(f)
  <2>1. ASSUME part # None, data' = [data EXCEPT ![part] = <<>>] PROVE NoBad'
    <3>1. DOMAIN data' = DOMAIN data /\ \A i \in DOMAIN data : data'[i] = data[i] \/ data'[i] = <<>>
      BY <1>1, <2>1 DEF Typed
    <3>2. DOMAIN <<>> = {}
      OBVIOUS
    <3> QED
      BY <3>1, <3>2 DEF NoBad
  <2> QED
    BY <1>2, <1>7, <2>1 DEF Discard
<1>8. CASE OpenSwarm(f)
  BY <1>1, <1>3, <1>8 DEF OpenSwarm, FetchTyped
<1>9. CASE FetchFrom(f)
  BY <1>2, <1>3, <1>9 DEF FetchFrom, diskVars
<1>10. ASSUME NEW c \in 0 .. fetch[f].size - 1, Publish(f, c) PROVE NoBad'
  BY <1>2, <1>10 DEF Publish, diskVars
<1> QED
  BY <1>2, <1>5, <1>6, <1>7, <1>8, <1>9, <1>10
     DEF Run, GetManifest, SwarmEnds, Verify, StreamEnds, Rename, RemovePart, Finish, Unlist, Book,
         diskVars

(* A relay that does not move, while the lengths that are known stay. *)
LEMMA CopiesStay ==
  ASSUME NEW r \in Readers, Follows(r), Copies(r), reader'[r] = reader[r],
         \A g \in Fetches : fetch[g].phase # "idle" /\ fetch[g].size = Size => fetch'[g].size = Size
  PROVE  Copies(r)'
BY DEF Follows, Following, Copies

(* What a relay is offered comes with its true length. *)
LEMMA OfferedIsMeasured ==
  ASSUME FilesInv, NEW f \in Fetches, Measures(f), Avail(f, 0) > 0
  PROVE  fetch[f].size = Size
<1>1. Fetching(f) /\ FetchTyped(fetch[f])
  BY DEF FilesInv, Typed
<1>2. CASE fetch[f].finished /\ ~fetch[f].failed
  BY <1>1, <1>2 DEF Fetching, Ending
<1>3. CASE ~(fetch[f].finished /\ ~fetch[f].failed)
  <2>1. SUFFICES ASSUME fetch[f].progress = 0, fetch[f].chunkOK = {} PROVE FALSE
    BY DEF Measures
  <2> DEFINE run == {n \in 1 .. Size : 0 .. 0 + n - 1 \subseteq fetch[f].chunkOK}
  <2>2. run = {}
    BY <2>1
  <2>3. Cardinality(run) = 0
    BY <2>2, FS_EmptySet
  <2> QED
    BY <1>3, <2>1, <2>3 DEF Avail
<1> QED
  BY <1>2, <1>3

(* A relay's own step. *)
LEMMA CopyingStep ==
  ASSUME FilesInv, HolesAreFilled, RelayInv, HonestInv, NEW r \in Readers, Relay(r)
  PROVE  Copies(r)'
<1> DEFINE x == reader[r]
<1>1. /\ Typed /\ Names /\ Follows(r) /\ Copies(r) /\ Size \in Nat \ {0} /\ NoBad
      /\ x.off \in Nat /\ x.got \in Seq({"good"}) /\ Len(x.got) \in Nat
  BY TransferAssumption DEF FilesInv, RelayInv, HonestInv, Follows, Copies
<1>2. x.pc \in Following => x.of \in Fetches /\ Measures(x.of) /\ Fetching(x.of)
  BY <1>1 DEF Follows, HonestInv, FilesInv
<1>3. CASE Ask(r)
  BY <1>1, <1>3, NowFacts DEF Ask, Copies, RelayFields
<1>4. CASE Join(r)
  <2>1. ASSUME NEW f, Now(r, [pc |-> "first", of |-> f]) PROVE Copies(r)'
    <3>1. reader'[r].pc = "first" /\ reader'[r].got = x.got /\ reader'[r].off = x.off
      BY <2>1, NowFacts DEF RelayFields
    <3> QED
      BY <1>1, <1>4, <3>1 DEF Join, Copies
  <2>2. CASE Now(r, [pc |-> "failed"])
    BY <1>1, <1>4, <2>2, NowFacts DEF Join, Copies, RelayFields
  <2> QED
    BY <1>4, <2>1, <2>2 DEF Join, Start, NoHolder
<1>5. CASE Respond(r)
  <2>1. UNCHANGED fetch
    BY <1>5 DEF Respond
  <2>2. CASE Avail(x.of, 0) > 0 /\ x.pc = "first" /\ Now(r, [pc |-> "head"])
    BY <1>1, <1>2, <2>1, <2>2, NowFacts, OfferedIsMeasured DEF Copies, RelayFields, Following
  <2>3. CASE x.pc \in {"first", "head"} /\ (Now(r, [pc |-> "failed"]) \/ Now(r, [pc |-> "cached"]))
    BY <1>1, <2>3, NowFacts DEF Copies, RelayFields
  <2>4. CASE x.pc = "head" /\ Now(r, [pc |-> "open", total |-> fetch[x.of].size])
    BY <1>1, <2>4, NowFacts DEF Copies, RelayFields
  <2> QED
    BY <1>5, <2>2, <2>3, <2>4 DEF Respond
<1>6. CASE OpenFile(r)
  <2>1. CASE /\ cache # None
             /\ Now(r, [pc |-> "end", got |-> data[cache], total |-> Len(data[cache])])
    <3>1. data[cache] \in Seq({"good"}) /\ Len(data[cache]) = Size
      BY <1>1, <2>1, BlobIsClean DEF Names, Blob
    <3>2. /\ reader'[r].pc = "end" /\ reader'[r].got = data[cache]
      BY <2>1, NowFacts DEF RelayFields
    <3> QED
      BY <1>1, <3>1, <3>2 DEF Copies
  <2>2. CASE x.pc = "cached" /\ Now(r, [pc |-> "failed"])
    BY <1>1, <2>2, NowFacts DEF Copies, RelayFields
  <2>3. CASE x.pc = "open" /\ Now(r, [pc |-> "cut"])
    BY <1>1, <2>3, NowFacts DEF Copies, RelayFields
  <2>4. ASSUME NEW fd, x.pc = "open", Now(r, [pc |-> "wait", fd |-> fd]) PROVE Copies(r)'
    BY <1>1, <2>4, NowFacts DEF Copies, RelayFields
  <2> QED
    BY <1>6, <2>1, <2>2, <2>3, <2>4 DEF OpenFile
<1>7. CASE Follow(r)
  <2>1. x.pc = "wait"
    BY <1>7 DEF Follow
  <2>2. CASE Now(r, [pc |-> "read"]) \/ Now(r, [pc |-> "cut"])
    BY <1>1, <2>1, <2>2, NowFacts DEF Copies, RelayFields
  <2>3. CASE fetch[x.of].finished /\ ~fetch[x.of].failed /\ Avail(x.of, x.off) <= 0
    <3>1. fetch[x.of].size = Size /\ x.off < Size
      BY <1>1, <1>2, <2>1, <2>3 DEF Fetching, Ending, Following, Copies
    <3>2. Avail(x.of, x.off) = Size - x.off
      BY <2>3, <3>1 DEF Avail
    <3> QED
      BY <1>1, <2>3, <3>1, <3>2
  <2> QED
    BY <1>7, <2>2, <2>3 DEF Follow
<1>8. CASE ReadFile(r)
  <2>1. x.pc = "read" /\ UNCHANGED data /\ x.fd \in DOMAIN data
    BY <1>1, <1>8 DEF ReadFile, diskVars, Follows
  <2>2. CASE x.off < Len(data[x.fd])
    <3>1. data[x.fd][x.off + 1] = "good"
      <4>1. data[x.fd] \in Seq(Chunk) /\ x.off + 1 \in DOMAIN data[x.fd]
        BY <1>1, <2>1, <2>2 DEF Typed
      <4> QED
        BY <1>1, <2>1, <4>1 DEF Follows, NoBad, Chunk
    <3> DEFINE more == Append(x.got, data[x.fd][x.off + 1])
    <3>2. more \in Seq({"good"}) /\ Len(more) = x.off + 1 /\ x.off + 1 <= Size /\ x.total = Size
      BY <1>1, <2>1, <3>1 DEF Copies
    <3> HIDE DEF more
    <3>3. Now(r, [got |-> more, off |-> x.off + 1,
                  pc |-> IF x.off + 1 >= x.total THEN "end" ELSE "wait"])
      BY <1>8, <2>2 DEF ReadFile, more
    <3>4. /\ reader'[r].got = more /\ reader'[r].off = x.off + 1 /\ reader'[r].total = x.total
          /\ reader'[r].pc = IF x.off + 1 >= x.total THEN "end" ELSE "wait"
      BY <3>3, NowFacts DEF RelayFields
    <3> QED
      BY <1>1, <3>2, <3>4 DEF Copies
  <2>3. CASE Now(r, [pc |-> "wait"])
    BY <1>1, <2>1, <2>3, NowFacts DEF Copies, RelayFields
  <2> QED
    BY <1>8, <2>2, <2>3 DEF ReadFile
<1> QED
  BY <1>3, <1>4, <1>5, <1>6, <1>7, <1>8 DEF Relay

(* Every step keeps every length and every copy true. *)
LEMMA HonestStep ==
  ASSUME Honest, Undisturbed, FilesInv, HolesAreFilled, RelayInv, HonestInv, [Next]_vars
  PROVE  HonestInv'
<1>1. /\ Typed /\ NoBad /\ \A f \in Fetches : Measures(f)
      /\ \A r \in Readers : Follows(r) /\ Copies(r)
  BY DEF FilesInv, HonestInv, RelayInv
<1>2. ASSUME NEW f \in Fetches, Run(f) PROVE HonestInv'
  <2>1. UNCHANGED reader
    BY <1>2 DEF Run, GetManifest, OpenSwarm, Land, Publish, SwarmEnds, Verify, Discard, FetchFrom,
                Stream, StreamEnds, Rename, RemovePart, Finish, Unlist, Book, others
  <2>2. Moves(f)
    BY <1>2, RunHasShape DEF HolesAreFilled, Shape
  <2>3. Measures(f)' /\ (fetch[f].size = Size => fetch'[f].size = Size)
    BY <1>1, <1>2, RunMeasures, RemeasureFacts
  <2>4. \A g \in Fetches : Measures(g)' /\ (fetch[g].size = Size => fetch'[g].size = Size)
    BY <1>1, <2>2, <2>3 DEF Moves, Measures
  <2> QED
    BY <1>1, <1>2, <2>1, <2>4, RunWritesGood, CopiesStay DEF HonestInv
<1>3. CASE /\ UNCHANGED <<data, reader>>
           /\ \A g \in Fetches :
                /\ fetch'[g].phase = fetch[g].phase /\ fetch'[g].size = fetch[g].size
                /\ fetch'[g].from = fetch[g].from /\ fetch'[g].progress = fetch[g].progress
                /\ fetch'[g].chunkOK = fetch[g].chunkOK
  <2>1. \A g \in Fetches : Measures(g)'
    BY <1>1, <1>3 DEF Measures
  <2> QED
    BY <1>1, <1>3, <2>1, CopiesStay DEF HonestInv, NoBad
<1>4. ASSUME NEW f \in Fetches, Speculate(f) PROVE HonestInv'
  BY <1>1, <1>3, <1>4, SpeculateFacts DEF Keeps, Fields
<1>5. ASSUME NEW f \in Fetches, Abandon(f) PROVE HonestInv'
  <2>1. Set(f, [cancelled |-> TRUE]) /\ UNCHANGED <<data, reader>>
    BY <1>5 DEF Abandon, diskVars, others
  <2> QED
    BY <1>1, <1>3, <2>1, SetFacts DEF Fields
<1>6. ASSUME NEW r \in Readers, Relay(r) PROVE HonestInv'
  <2>1. PICK c : Now(r, c)
    BY <1>6 DEF Relay, Ask, Join, Start, NoHolder, Respond, OpenFile, Follow, ReadFile
  <2>2. \A s \in Readers \ {r} : reader'[s] = reader[s]
    BY <2>1, NowFacts
  <2>3. UNCHANGED data /\ \A g \in Fetches : fetch'[g] = fetch[g] \/ (fetch[g].phase = "idle" /\ fetch'[g] = Started)
    BY <1>1, <1>6, RelayFacts DEF diskVars
  <2>4. Advertised \in {0, Size}
    BY DEF Honest
  <2>5. ASSUME NEW g \in Fetches PROVE Measures(g)'
    <3>1. CASE fetch'[g] = fetch[g]
      BY <1>1, <3>1 DEF Measures
    <3>2. CASE fetch'[g] = Started
      <4>1. /\ Started.size = Advertised /\ Started.from = NoManifest /\ Started.phase = "manifest"
            /\ Started.progress = 0 /\ Started.chunkOK = {}
        BY DEF Started, Unstarted
      <4> QED
        BY <2>4, <3>2, <4>1 DEF Measures, Sized
    <3> QED
      BY <2>3, <3>1, <3>2
  <2>6. \A s \in Readers \ {r} : Copies(s)'
    BY <1>1, <2>2, <2>3, CopiesStay
  <2> QED
    BY <1>1, <1>6, <2>3, <2>5, <2>6, CopyingStep DEF HonestInv, NoBad
<1>7. CASE Crash
  <2>1. ASSUME NEW r \in Readers PROVE Copies(r)'
    <3>1. \/ reader'[r] = reader[r] /\ reader[r].pc \in Ended \cup {"ask"}
          \/ /\ reader[r].pc \notin Ended
             /\ reader'[r] = [reader[r] EXCEPT !.pc = "cut"]
      BY <1>7 DEF Crash
    <3>2. DOMAIN reader[r] = RelayFields
      BY <1>1 DEF Follows
    <3>3. CASE reader'[r] = reader[r] /\ reader[r].pc \in Ended \cup {"ask"}
      BY <1>1, <3>3 DEF Copies, Ended
    <3>4. CASE /\ reader[r].pc \notin Ended
               /\ reader'[r] = [reader[r] EXCEPT !.pc = "cut"]
      <4>1. /\ reader'[r].pc = "cut" /\ reader'[r].got = reader[r].got
            /\ reader'[r].off = reader[r].off /\ reader[r].pc # "end"
        BY <3>2, <3>4 DEF RelayFields, Ended
      <4> QED
        BY <1>1, <4>1 DEF Copies
    <3> QED
      BY <3>1, <3>3, <3>4
  <2>2. \A f \in Fetches : fetch'[f] = fetch[f] \/ fetch'[f] = [Unstarted EXCEPT !.phase = "over"]
    BY <1>7 DEF Crash
  <2>3. \A f \in Fetches : Measures(f)'
    BY <1>1, <2>2, TransferAssumption DEF Measures, Unstarted, Sized
  <2> QED
    BY <1>1, <1>7, <2>1, <2>3 DEF Crash, HonestInv, NoBad
<1>8. ASSUME NEW q \in Peers, CheckPartial(q) \/ SendPartial(q)
      PROVE  UNCHANGED <<fetch, data, reader>>
  BY <1>8 DEF CheckPartial, SendPartial, diskVars
<1>9. CASE Evict \/ UNCHANGED vars
  BY <1>3, <1>9 DEF Evict, vars
<1> QED
  BY <1>2, <1>3, <1>4, <1>5, <1>6, <1>7, <1>8, <1>9 DEF Next, Over, Reap, Undisturbed

(* If nobody lies, what a relay has sent is a prefix of the blob, and all   *)
(* of it when it ends cleanly: through falls from one holder to the next,   *)
(* discarded swarms, evictions, failed renames and crashes.                 *)
THEOREM RelaysSendTheBlob ==
  ASSUME Honest, Undisturbed
  PROVE  Spec => []RelaysAreExact
<1>1. Init => HonestInv
  <2> SUFFICES ASSUME Init PROVE HonestInv
    OBVIOUS
  <2>1. Size \in Nat \ {0}
    BY TransferAssumption
  <2>2. \A f \in Fetches : Measures(f)
    BY DEF Init, Measures, Unstarted, Sized
  <2>3. ASSUME NEW r \in Readers PROVE Copies(r)
    <3>1. reader[r] = [pc |-> "ask", of |-> None, off |-> 0, total |-> 0, fd |-> None, got |-> <<>>]
      BY DEF Init
    <3>2. <<>> \in Seq({"good"}) /\ Len(<<>>) = 0
      OBVIOUS
    <3> QED
      BY <2>1, <3>1, <3>2 DEF Copies
  <2> QED
    BY <2>2, <2>3 DEF Init, HonestInv, NoBad
<1>2. FilesInv /\ HolesAreFilled /\ RelayInv /\ HonestInv /\ [Next]_vars => HonestInv'
  BY HonestStep
<1>3. HonestInv => RelaysAreExact
  <2> SUFFICES ASSUME HonestInv, NEW r \in Readers
               PROVE  /\ reader[r].got = SubSeq(Blob, 1, Len(reader[r].got))
                      /\ reader[r].pc = "end" => reader[r].got = Blob
    BY DEF RelaysAreExact
  <2> DEFINE got == reader[r].got
             n == Len(got)
  <2>1. /\ got \in Seq({"good"}) /\ n <= Size /\ n \in Nat /\ Size \in Nat
        /\ reader[r].pc = "end" => n = Size
    BY TransferAssumption DEF HonestInv, Copies
  <2>2. got = [i \in 1 .. n |-> "good"]
    BY <2>1
  <2>3. SubSeq(Blob, 1, n) = [i \in 1 .. n |-> "good"]
    BY <2>1 DEF Blob
  <2> QED
    BY <2>1, <2>2, <2>3 DEF Blob
<1> QED
  BY <1>1, <1>2, <1>3, RelaysHold, PTL DEF Spec

=============================================================================
