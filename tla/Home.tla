--------------------------------- MODULE Home ---------------------------------
(***************************************************************************)
(* What an instance keeps for its people, side by side: the library, the   *)
(* download cache and the playlists.  A process that dies takes the        *)
(* requests and the keepers of the cache and of the playlists with it, and *)
(* the start that follows brings both in order before it serves anything   *)
(* (app.go, reconcile).                                                    *)
(***************************************************************************)
EXTENDS Library, Cache, Playlists

CONSTANT MaxStarts  \* bound: restarts of one behaviour

ASSUME HomeAssumption == MaxStarts \in Nat

VARIABLES
  starts,
  wing    \* bound: which of the three a behaviour is about; what they tell each other is an outside event of each

home == <<vars, cache, playlists, starts, wing>>

HomeInit ==
  /\ Init /\ InitCache /\ InitPlaylists
  /\ starts = 0 /\ wing \in {"library", "cache", "playlists"}

HomeRestart ==
  /\ starts < MaxStarts /\ starts' = starts + 1
  /\ \/ wing = "cache" /\ RestartCache /\ UNCHANGED playlists
     \/ wing = "playlists" /\ RestartPlaylists /\ UNCHANGED cache
  /\ UNCHANGED <<vars, wing>>

HomeNext ==
  \/ wing = "library" /\ Next /\ UNCHANGED <<cache, playlists, starts, wing>>
  \/ wing = "cache" /\ CacheNext /\ UNCHANGED <<vars, playlists, starts, wing>>
  \/ wing = "playlists" /\ PlaylistsNext /\ UNCHANGED <<vars, cache, starts, wing>>
  \/ HomeRestart

HomeSpec == HomeInit /\ [][HomeNext]_home

-----------------------------------------------------------------------------
(* The cache.                                                              *)
(***************************************************************************)
(* Every blob of the cache is counted against the ceiling: it has its row, *)
(* or is about to be indexed.  Only a blob that lands just after a keeper  *)
(* has looked for it in vain can lose its row until the next start.        *)
Counted == \A h \in dir : row[h] = NoRow => indexer[h] # NotDue \/ h \in raced

(* The clock of a row never falls behind a read of the blob, whatever      *)
(* order the writes come in: the age rule and the ceiling take the coldest.*)
ClocksHold ==
  \A h \in Rowed : asked[h] # NoRow /\ (\A w \in writing : w[1] # h) => row[h] >= asked[h]

(* After a start the index is the directory, without what the library has. *)
StartsClean == [][starts' # starts /\ wing = "cache" => Rowed' = dir' /\ dir' \cap lib' = {}]_starts

CacheIsTrue == [](Counted /\ ClocksHold) /\ StartsClean

(***************************************************************************)
(* Playlists.                                                              *)
(***************************************************************************)
(* Items have an order: ids and positions are distinct within a list.      *)
Ordered == \A i, j \in items : i # j => i.id # j.id /\ (i.list = j.list => i.pos # j.pos)

(* A user has one favorites list, and nobody but the owner of a list names *)
(* it or puts a track on it, unless the id of a deleted list was given out *)
(* again between a request's check and its step.                           *)
OnlyOwners ==
  /\ \A k, l \in Open : lists[k].user = lists[l].user /\ lists[k].kind = "favorites" /\ lists[l].kind = "favorites" => k = l
  /\ ~reissued => /\ \A l \in Open : lists[l].named = lists[l].user
                  /\ \A i \in items : i.list \in Open /\ i.by = lists[i.list].user

(* No track is on favorites twice, as itself or as the remote track that   *)
(* became it, unless two requests that add were under way at once.         *)
LikedOnce ==
  ~crossed => \A i, j \in items :
    i # j /\ i.list = j.list /\ i.list \in Open /\ lists[i.list].kind = "favorites" => What(i) # What(j)

(* Once a start has swept, no item is remote whose track is here.          *)
StartsSwept ==
  [][\A c \in Clients : ~AtRest(c) /\ client[c].does = "start" /\ client'[c] = Free /\ starts' = starts
       => \A i \in items' : i.at = "remote" => ~Here(i.of)]_<<client, starts>>

(* A reordering that is accepted loses no item that came in meanwhile and  *)
(* brings back none that went, and puts each where it was asked to be.     *)
Kept(l, its) == {[id |-> i.id, what |-> What(i), by |-> i.by] : i \in {j \in its : j.list = l}}
Reorders(c) == client[c].pc = "reorder" /\ client'[c] = Free /\ starts' = starts
Reordered(c) ==
  LET r == client[c]
  IN  /\ Kept(r.list, items') = Kept(r.list, items)
      /\ items' # items => \A i \in items' : i.list = r.list => r.arg[i.pos] = i.id
ReordersExact == [][\A c \in Clients : Reorders(c) => Reordered(c)]_<<client, starts>>

PlaylistsAreKept == [](Ordered /\ OnlyOwners /\ LikedOnce) /\ StartsSwept /\ ReordersExact
=============================================================================
