------------------------------ MODULE Playlists ------------------------------
(***************************************************************************)
(* Playlists and their items: playlist.service and what the adapters do    *)
(* for it.  A row of playlist_items is unique in (playlist_id,             *)
(* order_index) on every back end, and the order in which an edit writes   *)
(* the indexes decides whether it meets itself, or another edit, on the    *)
(* way.                                                                    *)
(***************************************************************************)
EXTENDS Requests, SequencesExt

CONSTANTS
  Playlist, Media,
  requireMediaApproval,   \* whether only approved media may get into a playlist
  MaxFirst,       \* rows of playlist_items at first, one after the other in one playlist
  MaxItems,       \* rows of playlist_items ever made
  Indexes         \* order_index values a request may name

ASSUME PlaylistsAssumption ==
  requireMediaApproval \in BOOLEAN /\ MaxFirst \in Nat /\ MaxItems \in Nat /\ Indexes \subseteq Nat

VARIABLES
  playlists,   \* rows of playlists
  media,       \* rows of media_files
  items,       \* rows of playlist_items: [id, pl, media, idx]
  nextItem,    \* the id the next one gets
  approval,    \* approval_status of the media
  logged       \* the action of a medium's latest row of approval_logs
playlistVars == <<playlists, media, items, nextItem>>
approvalVars == <<approval, logged>>

ItemsOf(p) == {i \in items : i.pl = p}
InOrder(rows) == [n \in 1..Cardinality(rows) |->
                    (CHOOSE i \in rows : Cardinality({j \in rows : j.idx < i.idx}) = n - 1).id]
Dense(p) == {i.idx : i \in ItemsOf(p)} = 0..(Cardinality(ItemsOf(p)) - 1)

InitPlaylists ==
  /\ playlists = Playlist /\ media = Media
  /\ \E p \in Playlist, n \in 0..MaxFirst : \E f \in [1..n -> Media] :
       /\ items = {[id |-> k, pl |-> p, media |-> f[k], idx |-> k - 1] : k \in 1..n}
       /\ nextItem = n + 1

\* "pending" in the log: it has no row
InitApprovals(statuses) == approval \in [Media -> statuses] /\ logged = approval

(***************************************************************************)
(* addPlaylistItems                                                        *)
(***************************************************************************)
addPlaylistItems(h, p, ms) ==
  /\ p \in playlists
  /\ Begin(h, "add", "count", p, ms, Dense(p))
  /\ UNCHANGED playlistVars

CountItems(h) ==
  /\ At(h, "add", "count")
  /\ GoOn(h, [req[h] EXCEPT !.k = Cardinality(ItemsOf(req[h].on)), !.at = "media"])
  /\ UNCHANGED playlistVars

assertMediaApproved(m) == requireMediaApproval => approval[m] = "approved"

CheckMedia(h) ==
  LET m == Head(req[h].arg) IN
  /\ At(h, "add", "media")
  /\ GoTo(h, IF m \in media /\ assertMediaApproved(m) THEN "insert" ELSE "error")
  /\ UNCHANGED playlistVars

\* MongoDB has the unique index and no foreign keys
InsertFails(p, m, idx) ==
  \/ \E i \in ItemsOf(p) : i.idx = idx
  \/ backend # "mongodb" /\ (p \notin playlists \/ m \notin media)

addPlaylistItem(h) ==
  LET r == req[h]  m == Head(r.arg) IN
  /\ At(h, "add", "insert") /\ nextItem <= MaxItems
  /\ IF InsertFails(r.on, m, r.k) THEN GoTo(h, "error") /\ UNCHANGED playlistVars
     ELSE /\ items' = items \cup {[id |-> nextItem, pl |-> r.on, media |-> m, idx |-> r.k]}
          /\ nextItem' = nextItem + 1
          /\ GoOn(h, [r EXCEPT !.arg = Tail(@), !.k = @ + 1,
                               !.at = IF Len(r.arg) = 1 THEN "ok" ELSE "media"])
          /\ UNCHANGED <<playlists, media>>

(***************************************************************************)
(* deletePlaylistItem: the others close up                                 *)
(***************************************************************************)
deletePlaylistItem(h, i) ==
  /\ i \in items
  /\ Begin(h, "remove", "delete", i.pl, <<i.id>>, Dense(i.pl))
  /\ UNCHANGED playlistVars

DeleteItemRow(h) ==
  /\ At(h, "remove", "delete")
  /\ items' = {i \in items : i.id # req[h].arg[1]}
  /\ GoTo(h, "remaining")
  /\ UNCHANGED <<playlists, media, nextItem>>

RemainingItems(h) ==
  LET left == InOrder(ItemsOf(req[h].on)) IN
  /\ At(h, "remove", "remaining")
  /\ GoOn(h, [req[h] EXCEPT !.list = left, !.was = Savepoint(items), !.at = IF left = <<>> THEN "ok" ELSE "order"])
  /\ UNCHANGED playlistVars

(***************************************************************************)
(* reorderPlaylistItems: the items named, from index 0.  The web interface *)
(* names all of a playlist's; the service asks only that they are its own. *)
(***************************************************************************)
reorderPlaylistItems(h, p, ids) ==
  /\ p \in playlists
  /\ Begin(h, "reorder", "validate", p, ids, Dense(p))
  /\ UNCHANGED playlistVars

ValidateItems(h) ==
  LET ids == req[h].arg IN
  /\ At(h, "reorder", "validate")
  /\ GoOn(h, IF ToSet(ids) \subseteq {i.id : i \in ItemsOf(req[h].on)}
             THEN [req[h] EXCEPT !.list = ids, !.was = Savepoint(items), !.at = "order"]
             ELSE [req[h] EXCEPT !.at = "error"])
  /\ UNCHANGED playlistVars

\* an UPDATE of one row: nothing if it is gone, refused if the index is taken
Taken(id, idx) ==
  \E i \in items, j \in items : i.id = id /\ j.id # id /\ j.pl = i.pl /\ j.idx = idx
Indexed(id, idx) == {IF i.id = id THEN [i EXCEPT !.idx = idx] ELSE i : i \in items}

\* the statements of a reorder: in SQL by way of negative indexes, in MongoDB
\* straight to the new ones
sqlReorder(ids) ==
  [n \in 1..(2 * Len(ids)) |->
     IF n <= Len(ids) THEN <<ids[n], -n>> ELSE <<ids[n - Len(ids)], n - Len(ids) - 1>>]
mongoReorder(ids) == [n \in 1..Len(ids) |-> <<ids[n], n - 1>>]
\* A variant of Reordering: SQL too writes the new indexes at once
ReorderingAtOnce(ids) == mongoReorder(ids)

Reordering(ids) == IF backend = "mongodb" THEN mongoReorder(ids) ELSE sqlReorder(ids)

Order(h) ==
  LET r == req[h]
      statements == Reordering(r.list)
      s == statements[r.k + 1]
  IN  /\ req[h].op \in {"remove", "reorder"} /\ At(h, r.op, "order")
      /\ IF Taken(s[1], s[2]) THEN items' = Undone(r, items) /\ GoTo(h, "error")
         ELSE /\ items' = Indexed(s[1], s[2])
              /\ GoOn(h, [r EXCEPT !.k = @ + 1, !.at = IF r.k + 1 = Len(statements) THEN "ok" ELSE "order"])
      /\ UNCHANGED <<playlists, media, nextItem>>

(***************************************************************************)
(* updatePlaylistItem, deletePlaylist                                      *)
(***************************************************************************)
updatePlaylistItem(h, i, idx) ==
  /\ i \in items
  /\ Begin(h, "update", "update", i.pl, <<i.id, idx>>, Dense(i.pl))
  /\ UNCHANGED playlistVars

UpdateItemRow(h) ==
  LET id == req[h].arg[1]  idx == req[h].arg[2] IN
  /\ At(h, "update", "update")
  /\ IF Taken(id, idx) \/ id \notin {i.id : i \in items} THEN GoTo(h, "error") /\ UNCHANGED items
     ELSE items' = Indexed(id, idx) /\ GoTo(h, "ok")
  /\ UNCHANGED <<playlists, media, nextItem>>

\* A variant of deletePlaylist: MongoDB is left to cascade
deletePlaylistRowOnly(h, p) ==
  /\ p \in playlists
  /\ Begin(h, "drop", "row", p, <<>>, Dense(p))
  /\ UNCHANGED playlistVars

deletePlaylist(h, p) ==
  /\ p \in playlists
  /\ Begin(h, "drop", IF backend = "mongodb" THEN "items" ELSE "row", p, <<>>, Dense(p))
  /\ UNCHANGED playlistVars

mongoDeleteItems(h) ==
  /\ At(h, "drop", "items")
  /\ items' = items \ ItemsOf(req[h].on)
  /\ GoTo(h, "row")
  /\ UNCHANGED <<playlists, media, nextItem>>

\* ON DELETE CASCADE takes the items along in SQL
DeletePlaylistRow(h) ==
  /\ At(h, "drop", "row")
  /\ playlists' = playlists \ {req[h].on}
  /\ items' = IF backend = "mongodb" THEN items ELSE items \ ItemsOf(req[h].on)
  /\ GoTo(h, "ok")
  /\ UNCHANGED <<media, nextItem>>

(***************************************************************************)
(* POST /media/:id/approve and /media/:id/reject: the status first, then   *)
(* the log                                                                 *)
(***************************************************************************)
decide(h, m, status) ==
  /\ Begin(h, "decide", "status", m, <<status>>, logged[m] = approval[m])
  /\ UNCHANGED <<playlistVars, approvalVars>>

updateMediaApproval(h) ==
  /\ At(h, "decide", "status")
  /\ approval' = [approval EXCEPT ![req[h].on] = req[h].arg[1]]
  /\ GoTo(h, "log")
  /\ UNCHANGED <<playlistVars, logged>>

\* SQL Server makes the row and does not find it again
createApprovalLog(h) ==
  /\ At(h, "decide", "log")
  /\ logged' = [logged EXCEPT ![req[h].on] = req[h].arg[1]]
  /\ GoTo(h, IF backend = "mssql" THEN "error" ELSE "ok")
  /\ UNCHANGED <<playlistVars, approval>>

Arrangements(S) == UNION {{s \in [1..n -> S] : IsInjective(s)} : n \in 1..Cardinality(S)}

Adds(h) == \E p \in Playlist, ms \in UNION {[1..n -> Media] : n \in 1..2} : addPlaylistItems(h, p, ms)
Decides(h) == \E m \in Media, status \in {"approved", "rejected"} : decide(h, m, status)
BeginPlaylists(h) ==
  \/ Adds(h)
  \/ \E i \in items : deletePlaylistItem(h, i) \/ \E x \in Indexes : updatePlaylistItem(h, i, x)
  \/ \E p \in Playlist :
       \/ deletePlaylist(h, p)
       \/ \E ids \in Arrangements({i.id : i \in ItemsOf(p)}) : reorderPlaylistItems(h, p, ids)

StepPlaylists(h) ==
  \/ CountItems(h) \/ CheckMedia(h) \/ addPlaylistItem(h)
  \/ DeleteItemRow(h) \/ RemainingItems(h) \/ ValidateItems(h) \/ Order(h)
  \/ UpdateItemRow(h) \/ mongoDeleteItems(h) \/ DeletePlaylistRow(h)
StepApprovals(h) == updateMediaApproval(h) \/ createApprovalLog(h)
=============================================================================
