------------------------------ MODULE Playlists ------------------------------
(***************************************************************************)
(* Playlists and favorites.  A request checks that the list is its user's, *)
(* then acts on the list by its id alone; adding and reordering are one    *)
(* transaction each, a toggle of the Like button and the sweep that turns  *)
(* remote items into local ones are statements that others may come        *)
(* between.  Ids are given out again once the largest is free.             *)
(***************************************************************************)
EXTENDS Integers, FiniteSets, Sequences

CONSTANTS
  Users,
  Tracks,       \* local appearances
  Remotes,      \* remote tracks, by content hash
  Becomes,      \* the appearance a remote track has once its blob is in the library
  Clients,      \* requests that may be under way at once
  Batches,      \* bound: what one request adds
  MaxRequests   \* bound: requests and library changes of one behaviour

ASSUME PlaylistAssumption == 
  /\ Becomes \in [Remotes -> Tracks] /\ MaxRequests \in Nat
  /\ \A b \in Batches : b \in Seq([at : {"local"}, of : Tracks] \cup [at : {"remote"}, of : Remotes])

VARIABLES
  lists,     \* the playlists there are: whose, of which kind, last named by whom
  items,     \* the items of all of them, and who put them there
  track,     \* what has become of each appearance: shown, trashed or purged
  landed,    \* the remote tracks whose blob is live in the library
  client,    \* the requests under way
  requests,
  reissued,  \* history: a list id was given out again under a request
  crossed    \* history: two requests that may add to favorites were under way at once

playlists == <<lists, items, track, landed, client, requests, reissued, crossed>>

Open == DOMAIN lists
Largest(S) == IF S = {} THEN 0 ELSE CHOOSE n \in S : \A m \in S : m <= n
NextListId == Largest(Open) + 1
NextItemId == Largest({i.id : i \in items}) + 1

OnShow(t) == track[t] = "shown"
Local(t) == [at |-> "local", of |-> t]
Remote(h) == [at |-> "remote", of |-> h]
Things == {Local(t) : t \in Tracks} \cup {Remote(h) : h \in Remotes}
What(i) == [at |-> i.at, of |-> i.of]
In(l) == {i \in items : i.list = l}
Has(l, thing) == \E i \in In(l) : What(i) = thing
LastPosition(l) == Largest({i.pos : i \in In(l)})

Free == [pc |-> "free"]
AtRest(c) == client[c] = Free
Rest(c) == client' = [client EXCEPT ![c] = Free]
Then(c, pc) == client' = [client EXCEPT ![c].pc = pc]

(* Requests that read favorites and add to them in separate statements.    *)
Adders == {c \in Clients : client[c].pc \in {"create", "look", "unlike", "like", "add", "read", "hit", "point", "drop"}}
Crossing(c) == crossed' = (crossed \/ Adders \ {c} # {})

(* A client asks while no start is under way.                              *)
Starting == \E c \in Clients : ~AtRest(c) /\ client[c].does = "start"
Asks(c, r) ==
  /\ AtRest(c) /\ ~Starting /\ requests < MaxRequests
  /\ requests' = requests + 1 /\ client' = [client EXCEPT ![c] = r]

-----------------------------------------------------------------------------
(* playlistKind, EnsureFavoritesPlaylist                                   *)
(* Mutant: whose the list is goes unchecked.                               *)
Exists(u, l) == l \in Open
Owns(u, l) == l \in Open /\ lists[l].user = u
Favorites(u) == {l \in Open : lists[l].user = u /\ lists[l].kind = "favorites"}

NewList(u, kind) ==
  /\ lists' = [l \in Open \cup {NextListId} |->
                 IF l = NextListId THEN [user |-> u, kind |-> kind, named |-> u] ELSE lists[l]]
  /\ reissued' = (reissued \/ \E c \in Clients : ~AtRest(c) /\ client[c].does = "edit" /\ client[c].list = NextListId)

(* Those of the things that are kept follow each other at the list's end.  *)
Appended(l, things, kept, u) ==
  LET nth(k) == Cardinality(kept \cap 1..k)
  IN {[id |-> NextItemId + nth(k) - 1, list |-> l, at |-> things[k].at, of |-> things[k].of,
       pos |-> LastPosition(l) + nth(k), by |-> u] : k \in kept}

(* A track that is there, or earlier in the batch, is skipped on favorites.*)
Fresh(l, things) ==
  {k \in DOMAIN things : ~Has(l, things[k]) /\ \A j \in 1..(k - 1) : things[j] # things[k]}

AllVisible(things) == \A k \in DOMAIN things : things[k].at = "local" => OnShow(things[k].of)
AnyRemote(things) == \E k \in DOMAIN things : things[k].at = "remote"

(* createPlaylist: the list and its items in one transaction, then the     *)
(* sweep if something remote is among them.                                *)
CreatePlaylist(c, u, things) ==
  /\ AllVisible(things)
  /\ Asks(c, IF AnyRemote(things) THEN [pc |-> "read", does |-> "sweep"] ELSE Free)
  /\ NewList(u, "regular")
  /\ items' = items \cup Appended(NextListId, things, DOMAIN things, u)
  /\ crossed' = (crossed \/ (AnyRemote(things) /\ Adders # {}))
  /\ UNCHANGED <<track, landed>>

(* The check of every other request; what it found goes with the request.  *)
Edit(c, u, l, pc, arg) ==
  /\ Owns(u, l)
  /\ Asks(c, [pc |-> pc, does |-> "edit", user |-> u, list |-> l, kind |-> lists[l].kind, arg |-> arg])
  /\ UNCHANGED <<lists, items, track, landed, reissued>>

AskRename(c, u, l) == Owns(u, l) /\ lists[l].kind = "regular" /\ Edit(c, u, l, "rename", {}) /\ UNCHANGED crossed
RenamePlaylist(c) ==
  /\ client[c].pc = "rename" /\ Rest(c)
  /\ lists' = IF client[c].list \in Open THEN [lists EXCEPT ![client[c].list].named = client[c].user] ELSE lists
  /\ UNCHANGED <<items, track, landed, requests, reissued, crossed>>

AskDelete(c, u, l) == Owns(u, l) /\ lists[l].kind = "regular" /\ Edit(c, u, l, "delete", {}) /\ UNCHANGED crossed
DeletePlaylist(c) ==
  /\ client[c].pc = "delete" /\ Rest(c)
  /\ lists' = [l \in Open \ {client[c].list} |-> lists[l]]
  /\ items' = items \ In(client[c].list)
  /\ UNCHANGED <<track, landed, requests, reissued, crossed>>

(* AddPlaylistItems: all or nothing.                                       *)
AskAdd(c, u, l, things) == Edit(c, u, l, "add", things) /\ Crossing(c)
AddPlaylistItems(c) ==
  LET r == client[c]
      kept == IF r.kind = "favorites" THEN Fresh(r.list, r.arg) ELSE DOMAIN r.arg
  IN
    /\ r.pc = "add"
    /\ IF AllVisible(r.arg) /\ r.list \in Open
       THEN /\ items' = items \cup Appended(r.list, r.arg, kept, r.user)
            /\ client' = [client EXCEPT ![c] = IF AnyRemote(r.arg) THEN [pc |-> "read", does |-> "sweep"] ELSE Free]
       ELSE UNCHANGED items /\ Rest(c)
    /\ UNCHANGED <<lists, track, landed, requests, reissued, crossed>>

AskRemove(c, u, l, id) == Edit(c, u, l, "remove", id) /\ UNCHANGED crossed
RemovePlaylistItem(c) ==
  /\ client[c].pc = "remove" /\ Rest(c)
  /\ items' = {i \in items : ~(i.id = client[c].arg /\ i.list = client[c].list)}
  /\ UNCHANGED <<lists, track, landed, requests, reissued, crossed>>

(* ReorderPlaylist: the order the client saw and rearranged; refused when  *)
(* the items are no longer those.                                          *)
Orders(S) == {o \in [1..Cardinality(S) -> S] : \A j, k \in DOMAIN o : j # k => o[j] # o[k]}
AskReorder(c, u, l) ==
  \E order \in Orders({i.id : i \in In(l)}) : order # <<>> /\ Edit(c, u, l, "reorder", order) /\ UNCHANGED crossed

SameItems(l, order) == Len(order) = Cardinality(In(l)) /\ {order[k] : k \in DOMAIN order} = {i.id : i \in In(l)}
ReorderPlaylist(c) ==
  LET r == client[c]
      Place(i) == CHOOSE k \in DOMAIN r.arg : r.arg[k] = i.id
  IN
    /\ r.pc = "reorder" /\ Rest(c)
    /\ items' = IF SameItems(r.list, r.arg) THEN (items \ In(r.list)) \cup {[i EXCEPT !.pos = Place(i)] : i \in In(r.list)}
                ELSE items
    /\ UNCHANGED <<lists, track, landed, requests, reissued, crossed>>

-----------------------------------------------------------------------------
(* ToggleFavorite, ToggleRemoteFavorite: the favorites list, the look, the *)
(* delete and, when nothing was deleted, the insert are separate.          *)
AskToggle(c, u, thing) ==
  /\ Asks(c, [pc |-> IF Favorites(u) = {} THEN "create" ELSE IF thing.at = "local" THEN "look" ELSE "unlike",
                 does |-> "toggle", user |-> u, list |-> Largest(Favorites(u)), arg |-> thing])
  /\ Crossing(c)
  /\ UNCHANGED <<lists, items, track, landed, reissued>>

(* The unique index lets one of two creations win.                         *)
EnsureFavorites(c) ==
  LET r == client[c]
  IN
    /\ r.pc = "create"
    /\ IF Favorites(r.user) = {} THEN NewList(r.user, "favorites") ELSE UNCHANGED <<lists, reissued>>
    /\ client' = [client EXCEPT ![c].pc = IF r.arg.at = "local" THEN "look" ELSE "unlike",
                                ![c].list = IF Favorites(r.user) = {} THEN NextListId ELSE Largest(Favorites(r.user))]
    /\ UNCHANGED <<items, track, landed, requests, crossed>>

Look(c) ==
  /\ client[c].pc = "look"
  /\ IF OnShow(client[c].arg.of) THEN Then(c, "unlike") ELSE Rest(c)
  /\ UNCHANGED <<lists, items, track, landed, requests, reissued, crossed>>

Unlike(c) ==
  LET liked == {i \in In(client[c].list) : What(i) = client[c].arg}
  IN
    /\ client[c].pc = "unlike"
    /\ items' = items \ liked
    /\ IF liked = {} THEN Then(c, "like") ELSE Rest(c)
    /\ UNCHANGED <<lists, track, landed, requests, reissued, crossed>>

(* The appearance may have been destroyed meanwhile: the insert fails.     *)
Stands(l, thing) == l \in Open /\ (thing.at = "local" => track[thing.of] # "purged")
Like(c) ==
  LET r == client[c]
  IN
    /\ r.pc = "like"
    /\ IF Stands(r.list, r.arg)
       THEN /\ items' = items \cup Appended(r.list, <<r.arg>>, {1}, r.user)
            /\ client' = [client EXCEPT ![c] = IF r.arg.at = "remote" THEN [pc |-> "read", does |-> "sweep"] ELSE Free]
       ELSE UNCHANGED items /\ Rest(c)
    /\ UNCHANGED <<lists, track, landed, requests, reissued, crossed>>

-----------------------------------------------------------------------------
(* RepointRemotePlaylistItems: the remote items whose track is here now,   *)
(* read once; then each becomes local, or goes when its list has the local *)
(* one already.                                                            *)
Here(h) == h \in landed /\ OnShow(Becomes[h])
Hits == {[id |-> i.id, list |-> i.list, track |-> Becomes[i.of]] : i \in {j \in items : j.at = "remote" /\ Here(j.of)}}

RepointRead(c) ==
  /\ client[c].pc = "read"
  /\ client' = [client EXCEPT ![c] = IF Hits = {} THEN Free ELSE [pc |-> "hit", does |-> @.does, left |-> Hits]]
  /\ UNCHANGED <<lists, items, track, landed, requests, reissued, crossed>>

RepointLook(c) ==
  /\ client[c].pc = "hit"
  /\ \E h \in client[c].left :
       client' = [client EXCEPT ![c] = [pc |-> IF Has(h.list, Local(h.track)) THEN "drop" ELSE "point", does |-> @.does,
                                        left |-> @.left \ {h}, at |-> h]]
  /\ UNCHANGED <<lists, items, track, landed, requests, reissued, crossed>>

RepointNext(c) ==
  client' = [client EXCEPT ![c] = IF @.left = {} THEN Free ELSE [pc |-> "hit", does |-> @.does, left |-> @.left]]

RepointUpdate(c) ==
  LET h == client[c].at
      old == {i \in items : i.id = h.id}
  IN
    /\ client[c].pc = "point"
    /\ IF old = {} \/ track[h.track] # "purged"
       THEN /\ items' = (items \ old) \cup {[i EXCEPT !.at = "local", !.of = h.track] : i \in old}
            /\ RepointNext(c)
       ELSE UNCHANGED items /\ Rest(c)
    /\ UNCHANGED <<lists, track, landed, requests, reissued, crossed>>

RepointDrop(c) ==
  /\ client[c].pc = "drop" /\ RepointNext(c)
  /\ items' = {i \in items : i.id # client[c].at.id}
  /\ UNCHANGED <<lists, track, landed, requests, reissued, crossed>>

-----------------------------------------------------------------------------
(* The library: a blob is approved or downloaded, which ends in a sweep;   *)
(* restored, or its appearance hidden or shown, which does not; or purged. *)
Approve(c, h) ==
  /\ Asks(c, [pc |-> "read", does |-> "sweep"]) /\ Crossing(c)
  /\ landed' = landed \cup {h} /\ track' = [track EXCEPT ![Becomes[h]] = "shown"]
  /\ UNCHANGED <<lists, items, reissued>>

TrackChanges == requests < MaxRequests /\ requests' = requests + 1 /\ UNCHANGED <<lists, client, reissued, crossed>>
HideTrack(t) == OnShow(t) /\ TrackChanges /\ track' = [track EXCEPT ![t] = "trashed"] /\ UNCHANGED <<items, landed>>
ShowTrack(t) == track[t] = "trashed" /\ TrackChanges /\ track' = [track EXCEPT ![t] = "shown"] /\ UNCHANGED <<items, landed>>
PurgeTrack(t) ==
  /\ TrackChanges /\ track' = [track EXCEPT ![t] = "purged"] /\ landed' = {h \in landed : Becomes[h] # t}
  /\ items' = {i \in items : What(i) # Local(t)}

(* A start ends every request, and its own sweep comes before the first.   *)
RestartPlaylists ==
  /\ \E c \in Clients : client' = [d \in Clients |-> IF d = c THEN [pc |-> "read", does |-> "start"] ELSE Free]
  /\ UNCHANGED <<lists, items, track, landed, requests, reissued, crossed>>

InitPlaylists ==
  /\ lists = <<>> /\ items = {}
  /\ track = [t \in Tracks |-> "shown"] /\ landed = {}
  /\ client = [c \in Clients |-> Free] /\ requests = 0
  /\ reissued = FALSE /\ crossed = FALSE

Client(c) ==
  \/ \E u \in Users, things \in Batches : CreatePlaylist(c, u, things)
  \/ \E u \in Users, l \in Open : \/ AskRename(c, u, l) \/ AskDelete(c, u, l) \/ AskReorder(c, u, l)
                                  \/ \E things \in Batches : AskAdd(c, u, l, things)
                                  \/ \E i \in items : AskRemove(c, u, l, i.id)
  \/ \E u \in Users, thing \in Things : AskToggle(c, u, thing)
  \/ RenamePlaylist(c) \/ DeletePlaylist(c) \/ AddPlaylistItems(c) \/ RemovePlaylistItem(c) \/ ReorderPlaylist(c)
  \/ EnsureFavorites(c) \/ Look(c) \/ Unlike(c) \/ Like(c)
  \/ RepointRead(c) \/ RepointLook(c) \/ RepointUpdate(c) \/ RepointDrop(c)
  \/ \E h \in Remotes : Approve(c, h)

PlaylistsNext ==
  \/ \E c \in Clients : Client(c)
  \/ ~Starting /\ \E t \in Tracks : HideTrack(t) \/ ShowTrack(t) \/ PurgeTrack(t)
=============================================================================
