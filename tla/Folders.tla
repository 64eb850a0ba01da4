------------------------------- MODULE Folders -------------------------------
(***************************************************************************)
(* The tree of media folders: folder.service, the routes that move media,  *)
(* and what the adapters do for them.  A folder's row holds its parent and *)
(* its path, the ids from the root down to itself; moving a folder rewrites*)
(* the paths below it one by one.                                          *)
(***************************************************************************)
EXTENDS Requests

CONSTANTS
  Filed,        \* media that may be put into folders
  Names,        \* folder names
  MaxFolders    \* rows of media_folders ever made

\* Up to two folders are there at first (InitFolders).
ASSUME FoldersAssumption == MaxFolders \in Nat /\ MaxFolders >= 2

VARIABLES
  folders,      \* rows of media_folders: [id, name, parent, path]
  placed,       \* folder_id of media_files
  nextFolder
folderVars == <<folders, placed, nextFolder>>

Root == 0       \* a parent_id or folder_id of NULL
None == -1      \* parent_id or name of an update when it is not given
NoName == "none"

Folder(f) == CHOOSE r \in folders : r.id = f
IsFolder(f) == \E r \in folders : r.id = f
Found(f) == IF IsFolder(f) THEN "ok" ELSE "error"     \* the row is read once more for the answer
Below(path) == {r \in folders : Len(r.path) > Len(path) /\ SubSeq(r.path, 1, Len(path)) = path}
Children(f) == {r \in folders : r.parent = f}

\* two NULLs are distinct to a unique index of SQLite and MySQL
NameTaken(f, parent, name) ==
  /\ parent = Root => backend \in {"mssql", "mongodb"}
  /\ \E r \in Children(parent) : r.name = name /\ r.id # f
Set(f, field, value) == {IF r.id = f THEN [r EXCEPT ![field] = value] ELSE r : r \in folders}

(***************************************************************************)
(* What a tree is, and what a true path.                                   *)
(***************************************************************************)
Ids == {r.id : r \in folders}
\* what a row's parent leads to: it is in every set that has the parent, and with a
\* folder its parent
Closed(S) == \A g \in S \cap Ids : Folder(g).parent \in S
Above(f) ==
  LET up == {S \in SUBSET (0..MaxFolders) : Closed(S) /\ Folder(f).parent \in S}
  IN  {g \in 0..MaxFolders : \A S \in up : g \in S}
Tree == \A f \in Ids : f \notin Above(f) /\ Above(f) \subseteq Ids \cup {Root}
PathsTrue ==
  \A r \in folders :
    /\ r.path \in Seq(Nat)
    /\ r.path = IF IsFolder(r.parent) THEN Append(Folder(r.parent).path, r.id) ELSE <<r.id>>

\* no folder, or one below the other, with or without a namesake beside them
InitFolders ==
  /\ \E n \in 0..2, a \in Names, b \in Names :
       /\ folders = {[id |-> k, name |-> IF k = 1 THEN a ELSE b, parent |-> k - 1, path |-> [i \in 1..k |-> i]] : k \in 1..n}
       /\ nextFolder = n + 1
       /\ \E f \in [Filed -> 0..n] : placed = f

(***************************************************************************)
(* createFolder.  SQL learns the id from the insert, and the path after it.*)
(***************************************************************************)
createFolder(h, parent, name) ==
  /\ parent = Root \/ IsFolder(parent)
  /\ Begin(h, "create", "parent", parent, <<name>>, Tree /\ PathsTrue)
  /\ UNCHANGED folderVars

ReadParent(h) ==
  LET p == req[h].on IN
  /\ At(h, "create", "parent")
  /\ GoOn(h, IF p = Root THEN [req[h] EXCEPT !.at = "insert"]
             ELSE IF IsFolder(p) THEN [req[h] EXCEPT !.list = Folder(p).path, !.at = "insert"]
             ELSE [req[h] EXCEPT !.at = "error"])
  /\ UNCHANGED folderVars

InsertFolder(h) ==
  LET p == req[h].on
      row(path) == [id |-> nextFolder, name |-> req[h].arg[1], parent |-> p, path |-> path]
      mongodb == backend = "mongodb"
  IN  /\ At(h, "create", "insert") /\ nextFolder <= MaxFolders
      /\ IF NameTaken(None, p, req[h].arg[1]) \/ (~mongodb /\ p # Root /\ ~IsFolder(p))
         THEN GoTo(h, "error") /\ UNCHANGED folderVars
         ELSE /\ folders' = folders \cup {row(IF mongodb THEN Append(req[h].list, nextFolder) ELSE <<>>)}
              /\ nextFolder' = nextFolder + 1
              /\ GoOn(h, [req[h] EXCEPT !.k = nextFolder, !.at = IF mongodb THEN "ok" ELSE "path"])
              /\ UNCHANGED placed

WritePath(h) ==
  LET r == req[h] IN
  /\ At(h, "create", "path")
  /\ folders' = Set(r.k, "path", Append(r.list, r.k))
  /\ GoTo(h, Found(r.k))
  /\ UNCHANGED <<placed, nextFolder>>

(***************************************************************************)
(* updateFolder: a new name, a new parent, or both.                        *)
(***************************************************************************)
updateFolder(h, f, name, parent) ==
  /\ IsFolder(f)
  /\ Begin(h, "edit", "read", f, <<name, parent>>, Tree /\ PathsTrue)
  /\ UNCHANGED folderVars

Name(r) == r.arg[1]
Parent(r) == r.arg[2]
\* list[1] is the row as it was read, list[2] the path it is to have
WasParent(r) == r.list[1].parent
OldPath(r) == r.list[1].path
NewPath(r) == r.list[2]

ReadFolder(h) ==
  LET r == req[h] IN
  /\ At(h, "edit", "read")
  /\ GoOn(h, IF IsFolder(r.on)
             THEN [r EXCEPT !.list = <<Folder(r.on)>>, !.was = Savepoint(folders),
                            !.at = IF backend = "mongodb" \/ Name(r) = NoName THEN "parent" ELSE "name"]
             ELSE [r EXCEPT !.at = "error"])
  /\ UNCHANGED folderVars

Rename(h) ==
  LET r == req[h] IN
  /\ At(h, "edit", "name")
  /\ IF IsFolder(r.on) /\ NameTaken(r.on, Folder(r.on).parent, Name(r))
     THEN folders' = Undone(r, folders) /\ GoTo(h, "error")
     ELSE folders' = Set(r.on, "name", Name(r)) /\ GoTo(h, "parent")
  /\ UNCHANGED <<placed, nextFolder>>

\* A variant of Refused: only the folder itself is not to be its parent
RefusedItself(r) == Parent(r) # Root /\ (Parent(r) = r.on \/ ~IsFolder(Parent(r)))

\* the cycle check: by the paths of two rows read at two times
Refused(r) ==
  LET p == Parent(r)  old == OldPath(r) IN
  p # Root /\ (p = r.on \/ ~IsFolder(p) \/ Folder(p).path = old \/ Folder(p) \in Below(old))

NewParent(h) ==
  LET r == req[h]
      path == Append(IF Parent(r) = Root THEN <<>> ELSE Folder(Parent(r)).path, r.on)
      mongodb == backend = "mongodb"
  IN  /\ At(h, "edit", "parent")
      /\ IF Parent(r) \in {None, WasParent(r)}
         THEN GoTo(h, IF mongodb THEN "own" ELSE Found(r.on)) /\ UNCHANGED folders
         ELSE IF Refused(r) THEN folders' = Undone(r, folders) /\ GoTo(h, "error")
         ELSE /\ GoOn(h, [r EXCEPT !.list = <<@[1], path>>, !.at = IF mongodb THEN "below" ELSE "move"])
              /\ UNCHANGED folders
      /\ UNCHANGED <<placed, nextFolder>>

Move(h) ==
  LET r == req[h] IN
  /\ At(h, "edit", "move")
  /\ IF \/ IsFolder(r.on) /\ NameTaken(r.on, Parent(r), Folder(r.on).name)
        \/ IsFolder(r.on) /\ Parent(r) # Root /\ ~IsFolder(Parent(r))
     THEN folders' = Undone(r, folders) /\ GoTo(h, "error")
     ELSE /\ folders' = {IF x.id = r.on THEN [x EXCEPT !.parent = Parent(r), !.path = NewPath(r)] ELSE x : x \in folders}
          /\ GoTo(h, "below")
  /\ UNCHANGED <<placed, nextFolder>>

\* the rows below the old path, each with the path it is to have
Descendants(h) ==
  LET r == req[h]
      old == Len(OldPath(r))
      moved == {<<x.id, NewPath(r) \o SubSeq(x.path, old + 1, Len(x.path))>> : x \in Below(OldPath(r))}
  IN  /\ At(h, "edit", "below")
      /\ GoOn(h, [r EXCEPT !.list = Append(@, moved), !.at = "paths"])
      /\ UNCHANGED folderVars

\* in any order: it is the database's
MovePath(h) ==
  LET r == req[h] IN
  /\ At(h, "edit", "paths")
  /\ IF r.list[3] = {}
     THEN GoTo(h, IF backend = "mongodb" THEN "own" ELSE Found(r.on)) /\ UNCHANGED folders
     ELSE \E d \in r.list[3] :
            /\ folders' = Set(d[1], "path", d[2])
            /\ GoOn(h, [r EXCEPT !.list[3] = @ \ {d}])
  /\ UNCHANGED <<placed, nextFolder>>

\* MongoDB writes the folder itself last, name and place at once
mongoOwn(h) ==
  LET r == req[h]
      moves == Len(r.list) > 1
      parent == IF moves THEN Parent(r) ELSE WasParent(r)
      new(x) == [x EXCEPT !.name = IF Name(r) = NoName THEN @ ELSE Name(r),
                          !.parent = IF moves THEN Parent(r) ELSE @,
                          !.path = IF moves THEN NewPath(r) ELSE @]
  IN  /\ At(h, "edit", "own")
      /\ IF \E x \in folders : x.id = r.on /\ NameTaken(r.on, new(x).parent, new(x).name)
         THEN GoTo(h, "error") /\ UNCHANGED folders
         ELSE folders' = {IF x.id = r.on THEN new(x) ELSE x : x \in folders} /\ GoTo(h, Found(r.on))
      /\ UNCHANGED <<placed, nextFolder>>

(***************************************************************************)
(* deleteFolder                                                            *)
(***************************************************************************)
deleteFolder(h, f, recursive) ==
  /\ IsFolder(f)
  /\ Begin(h, "delete", "counts", f, <<recursive>>, Tree /\ PathsTrue)
  /\ UNCHANGED folderVars

Counts(h) ==
  LET r == req[h]
      empty == Children(r.on) = {} /\ \A m \in Filed : placed[m] # r.on
  IN  /\ At(h, "delete", "counts")
      /\ GoTo(h, IF r.arg[1] THEN "below" ELSE IF empty THEN "row" ELSE "error")
      /\ UNCHANGED folderVars

\* getMediaFolderDescendants, and the media in all of these, folder by folder
CollectMedia(h) ==
  LET r == req[h]
      all == {r.on} \cup IF IsFolder(r.on) THEN {x.id : x \in Below(Folder(r.on).path)} ELSE {}
  IN  /\ At(h, "delete", "below")
      /\ GoOn(h, [r EXCEPT !.list = <<{m \in Filed : placed[m] \in all}>>, !.at = "detach"])
      /\ UNCHANGED folderVars

Detach(h) ==
  /\ At(h, "delete", "detach")
  /\ placed' = [m \in Filed |-> IF m \in req[h].list[1] THEN Root ELSE placed[m]]
  /\ GoTo(h, "row")
  /\ UNCHANGED <<folders, nextFolder>>

\* the foreign keys: ON DELETE CASCADE for the folders below and SET NULL for
\* media in SQLite and MySQL, a refusal in SQL Server
Cascade(f) == {x \in Ids : x = f \/ f \in Above(x)}

DeleteRow(h) ==
  LET f == req[h].on
      gone == IF IsFolder(f) THEN Cascade(f) ELSE {}
  IN  /\ backend # "mongodb" /\ At(h, "delete", "row")
      /\ IF backend = "mssql" /\ (gone \ {f} # {} \/ \E m \in Filed : placed[m] = f)
         THEN GoTo(h, "error") /\ UNCHANGED <<folders, placed>>
         ELSE /\ folders' = {r \in folders : r.id \notin gone}
              /\ placed' = [m \in Filed |-> IF placed[m] \in gone THEN Root ELSE placed[m]]
              /\ GoTo(h, "ok")
      /\ UNCHANGED nextFolder

\* in MongoDB by hand: the ids below its path, their media, then the rows
mongoBelow(h) ==
  LET r == req[h] IN
  /\ backend = "mongodb" /\ At(h, "delete", "row")
  /\ GoOn(h, IF IsFolder(r.on)
             THEN [r EXCEPT !.list = <<{r.on} \cup {x.id : x \in Below(Folder(r.on).path)}>>, !.at = "media"]
             ELSE [r EXCEPT !.at = "ok"])
  /\ UNCHANGED folderVars

mongoDetach(h) ==
  /\ At(h, "delete", "media")
  /\ placed' = [m \in Filed |-> IF placed[m] \in req[h].list[1] THEN Root ELSE placed[m]]
  /\ GoTo(h, "rows")
  /\ UNCHANGED <<folders, nextFolder>>

mongoDeleteRows(h) ==
  /\ At(h, "delete", "rows")
  /\ folders' = {r \in folders : r.id \notin req[h].list[1]}
  /\ GoTo(h, "ok")
  /\ UNCHANGED <<placed, nextFolder>>

(***************************************************************************)
(* POST /bulk/move and PATCH with a folder_id                              *)
(***************************************************************************)
moveMedia(h, ms, f) ==
  /\ f = Root \/ IsFolder(f)
  /\ Begin(h, "file", "move", f, <<ms>>, Tree /\ PathsTrue)
  /\ UNCHANGED folderVars

moveMediaToFolder(h) ==
  LET f == req[h].on IN
  /\ At(h, "file", "move")
  /\ IF backend # "mongodb" /\ f # Root /\ ~IsFolder(f) THEN GoTo(h, "error") /\ UNCHANGED placed
     ELSE /\ placed' = [m \in Filed |-> IF m \in req[h].arg[1] THEN f ELSE placed[m]]
          /\ GoTo(h, "ok")
  /\ UNCHANGED <<folders, nextFolder>>

BeginFolders(h) ==
  \/ \E p \in Ids \cup {Root}, n \in Names : createFolder(h, p, n)
  \/ \E f \in Ids, n \in Names \cup {NoName}, p \in Ids \cup {Root, None} :
       (n # NoName \/ p # None) /\ updateFolder(h, f, n, p)
  \/ \E f \in Ids, r \in BOOLEAN : deleteFolder(h, f, r)
  \/ \E ms \in SUBSET Filed \ {{}}, f \in Ids \cup {Root} : moveMedia(h, ms, f)

StepFolders(h) ==
  \/ ReadParent(h) \/ InsertFolder(h) \/ WritePath(h)
  \/ ReadFolder(h) \/ Rename(h) \/ NewParent(h) \/ Move(h) \/ Descendants(h) \/ MovePath(h) \/ mongoOwn(h)
  \/ Counts(h) \/ CollectMedia(h) \/ Detach(h) \/ DeleteRow(h)
  \/ mongoBelow(h) \/ mongoDetach(h) \/ mongoDeleteRows(h)
  \/ moveMediaToFolder(h)
=============================================================================
