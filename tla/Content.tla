-------------------------------- MODULE Content --------------------------------
(***************************************************************************)
(* What editors do to the library at the same time: playlists, folders and *)
(* subtitle tracks, with the deletion of media that concerns them all, on  *)
(* every back end, and a server that may die between two statements; and   *)
(* the uploads of their page. A behaviour is about one part.               *)
(***************************************************************************)
EXTENDS Subtitles, Folders, UploadPage

CONSTANTS
  Studied      \* <<part of the library, back end>>: what the requests of a behaviour are about

ASSUME ContentAssumption ==
  Studied \subseteq {"playlists", "approvals", "folders", "subtitles", "uploads"} \X Backends

VARIABLES
  part         \* the part they are about
vars == <<requestVars, playlistVars, approvalVars, subtitleVars, folderVars, pageVars, part>>

NoPlaylists == playlists = {} /\ media = {} /\ items = {} /\ nextItem = 1
NoSubtitles == tracks = {} /\ files = {} /\ probed = {} /\ nextTrack = 1
NoFolders == folders = {} /\ nextFolder = 1 /\ placed = [m \in Filed |-> Root]

Init ==
  /\ InitRequests
  /\ \E s \in Studied : part = s[1] /\ backend = s[2]
  /\ InitPage
  /\ InitApprovals(IF part = "approvals" THEN {"pending", "approved"} ELSE {"approved"})
  /\ IF part = "folders" THEN InitFolders /\ NoPlaylists /\ NoSubtitles
     ELSE IF part = "subtitles"
     THEN /\ playlists = {} /\ media = Media /\ items = {} /\ nextItem = 1
          /\ InitSubtitles /\ NoFolders
     ELSE IF part = "playlists" THEN InitPlaylists /\ NoSubtitles /\ NoFolders
     ELSE IF part = "approvals"
     THEN /\ playlists = Playlist /\ media = Media /\ items = {} /\ nextItem = 1
          /\ NoSubtitles /\ NoFolders
     ELSE NoPlaylists /\ NoSubtitles /\ NoFolders

InPlaylists(h) ==
  /\ \/ part = "playlists" /\ MayBegin(h) /\ BeginPlaylists(h)
     \/ part = "approvals" /\ MayBegin(h) /\ Adds(h)
     \/ StepPlaylists(h)
  /\ UNCHANGED approvalVars
InApprovals(h) == (part = "approvals" /\ MayBegin(h) /\ Decides(h)) \/ StepApprovals(h)
InSubtitles(h) == (part = "subtitles" /\ MayBegin(h) /\ BeginSubtitles(h)) \/ StepSubtitles(h)
InFolders(h) == (part = "folders" /\ MayBegin(h) /\ BeginFolders(h)) \/ StepFolders(h)
DeletesMedia(h) ==
  \/ part \in {"playlists", "subtitles"} /\ \E m \in Media : deleteMedia(h, m)
  \/ mongoDeleteRefs(h) \/ DeleteMediaRow(h)

\* SQLite undoes the transaction a dead process was in
RolledBack(ops, rows) ==
  LET dead == {h \in Handlers : Open(h) /\ req[h].op \in ops /\ req[h].was # <<>>} IN
  IF dead = {} THEN rows ELSE req[CHOOSE h \in dead : TRUE].was[1]
Crash ==
  /\ CrashRequests
  /\ items' = RolledBack({"remove", "reorder"}, items)
  /\ folders' = RolledBack({"edit"}, folders)
  /\ UNCHANGED <<playlists, media, nextItem, approvalVars, subtitleVars, placed, nextFolder, pageVars, part>>

Next ==
  \/ \E h \in Handlers :
       /\ \/ (InPlaylists(h) \/ InApprovals(h)) /\ UNCHANGED <<subtitleVars, folderVars>>
          \/ InSubtitles(h) /\ UNCHANGED <<playlistVars, approvalVars, folderVars>>
          \/ DeletesMedia(h) /\ UNCHANGED <<approvalVars, folderVars>>
          \/ InFolders(h) /\ UNCHANGED <<playlistVars, approvalVars, subtitleVars>>
       /\ UNCHANGED <<pageVars, part>>
  \/ Crash
  \/ part = "uploads" /\ StepPage
     /\ UNCHANGED <<requestVars, playlistVars, approvalVars, subtitleVars, folderVars, part>>

Spec == Init /\ [][Next]_vars

(***************************************************************************)
(* Properties                                                              *)
(***************************************************************************)

\* Every row, request and counter is of its type.
TypeOK ==
  /\ <<part, backend>> \in Studied /\ begun \in 0..MaxRequests /\ crashes \in 0..MaxCrashes
  /\ playlists \subseteq Playlist /\ media \subseteq Media
  /\ \A i \in items : i.id \in 1..(nextItem - 1) /\ i.pl \in Playlist /\ i.media \in Media /\ i.idx \in Int
  /\ \A t \in tracks : t.id \in 1..(nextTrack - 1) /\ t.media \in Media /\ t.def \in BOOLEAN
  /\ \A f \in folders : f.id \in 1..(nextFolder - 1) /\ f.parent \in 0..MaxFolders
  /\ approval \in [Media -> {"pending", "approved", "rejected"}] /\ logged \in [Media -> {"pending", "approved", "rejected"}]
  /\ \A h \in Handlers : req[h].alone \in BOOLEAN /\ req[h].sound \in BOOLEAN

\* the request named all the items of its playlist
Whole(r) == r.op = "reorder" => ToSet(r.arg) = {i.id : i \in ItemsOf(r.on)}

\* Whatever an addition, a removal or a whole reorder answers, a playlist whose
\* indexes ran from 0 without a gap as it began, and that nobody else edited
\* meanwhile, has them so when it ends: the index of the next addition is free.
AloneKeepsOrder ==
  [][\A h \in Handlers, p \in Playlist :
       Ends(h) /\ Isolated(h) /\ req[h].sound /\ req[h].op \in {"add", "remove", "reorder"} /\ req[h].on = p
         /\ Whole(req[h]) => Dense(p)']_vars

\* A reorder of all items of a playlist puts them in the order asked for, for
\* all that two rows may not share an index on the way. (SQL only: MongoDB's
\* writes run into each other.)
ReorderTakes ==
  [][\A h \in Handlers :
       LET r == req[h] IN
       Ends(h) /\ Isolated(h) /\ r.sound /\ r.op = "reorder" /\ Whole(r) /\ backend # "mongodb"
         => req'[h].at = "ok" /\ \A i \in {j \in items' : j.pl = r.on} : r.arg[i.idx + 1] = i.id]_vars

\* An editor alone leaves a playlist in the order asked for.
OrderKept == AloneKeepsOrder /\ ReorderTakes

\* what refers to a row that is not there
Dangling ==
  {<<"item", i.id>> : i \in {j \in items : j.pl \notin playlists \/ j.media \notin media}}
  \cup {<<"track", t.id>> : t \in {u \in tracks : u.media \notin media}}
  \cup {<<"media", m>> : m \in {n \in Filed : placed[n] # Root /\ placed[n] \notin Ids}}
  \cup {<<"folder", f.id>> : f \in {g \in folders : g.parent # Root /\ ~IsFolder(g.parent)}}

\* No statement of any handler, and no crash, leaves a row that refers to one
\* that is gone: in MongoDB, which has no foreign keys, none of a handler that
\* was alone, and that found true paths if it goes by them (deleteFolder).
ReferencesHold ==
  [][\/ Dangling' \subseteq Dangling
     \/ /\ backend = "mongodb"
        /\ \E h \in Handlers :
             Open(h) /\ ~(req[h].alone /\ (req[h].op = "delete" => req[h].sound))]_vars

\* A request that found the folders a tree with true paths, and was the only
\* one, leaves a tree, refused or not; and true paths too unless it is refused.
FolderAlone ==
  [][\A h \in Handlers :
       Ends(h) /\ Isolated(h) /\ req[h].sound /\ req[h].op \in {"create", "edit", "delete"}
         => Tree' /\ (req'[h].at = "ok" => PathsTrue')]_vars

\* Of the tracks of a kind at most one is the default after a request that
\* found it so and was the only one.
OneDefaultLeft ==
  [][\A h \in Handlers, m \in Media :
       Ends(h) /\ Isolated(h) /\ req[h].sound /\ req[h].op \in {"attach", "embed", "patch"} /\ m = MediaOf(req[h])
         => OneDefault(m)']_vars

\* The status of a medium is what the last entry of its log says, once the
\* decision is through and if it was the only request.
DecisionLogged ==
  [][\A h \in Handlers :
       Ends(h) /\ Isolated(h) /\ req[h].sound /\ req[h].op = "decide"
         => logged'[req[h].on] = approval'[req[h].on]]_vars

\* Of what is added in one request every medium is approved as its item is
\* made, those as well that are looked at after others have been added.
OnlyApproved ==
  [][\A i \in items' \ items :
       requireMediaApproval /\ i.id = nextItem =>
         approval[i.media] = "approved" \/ \E h \in Handlers : Open(h) /\ ~Isolated(h)]_vars

\* An editor alone leaves folders, tracks and approvals in order.
AloneKeeps == FolderAlone /\ OneDefaultLeft /\ DecisionLogged /\ OnlyApproved

\* The row of an external track has its file, but while its deletion runs:
\* a download of a listed track finds it. (Until a crash: the file goes first.)
RowsHaveFiles ==
  crashes = 0 =>
    \A t \in tracks :
      t.kind = "external" => t.file \in files \/ \E h \in Handlers : req[h].op = "detach" /\ At(h, "detach", "row")
                                                                 /\ req[h].on = t.id

\* The rows are of their types, and name files that are there.
LibrarySound == TypeOK /\ RowsHaveFiles
=============================================================================
