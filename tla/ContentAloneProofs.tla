-------------------------- MODULE ContentAloneProofs --------------------------
(***************************************************************************)
(* What an editor alone may rely on, proved for every number of requests,  *)
(* media, tracks and folders: a request that no other came between leaves  *)
(* approvals as their log says, one default track of a kind, a tree of     *)
(* folders with true paths, and a playlist in the order asked for.         *)
(*                                                                         *)
(* None of that can be seen from one statement.  ApprovalKnown,            *)
(* DefaultKnown, TreeKnown and OrderKnown say of each statement a request  *)
(* comes to what those before it have established, and the proofs that the *)
(* next one finds it so.                                                   *)
(***************************************************************************)
EXTENDS ContentProofs

(***************************************************************************)
(* What an editor alone leaves                                             *)
(***************************************************************************)
\* What has been looked up is as it was found.
ApprovalKnown(r) ==
  /\ r.op = "decide" => r.at \in {"status", "log"} /\ (r.at = "log" => approval[r.on] = r.arg[1])
  /\ r.op = "add" => /\ r.at \in {"count", "media", "insert"}
                     /\ r.at = "insert" => assertMediaApproved(Head(r.arg))
ApprovalInv == \A h \in Handlers : Open(h) /\ Isolated(h) => ApprovalKnown(req[h])

\* Two defaults of a medium and a kind are one; or none but one row is a default.
Single(m) == \A t, u \in tracks : t.media = m /\ u.media = m /\ t.kind = u.kind /\ t.def /\ u.def => t = u
NoneBut(m, kind, id) == \A t \in tracks : t.media = m /\ t.kind = kind /\ t.def => t.id = id
TracksApart ==
  /\ IsFiniteSet(tracks) /\ \A t, u \in tracks : t.id = u.id => t = u
  /\ \A t \in tracks : t.kind \in {"external", "embedded"}

\* A row is made the default, or inserted as one, when no other is.
DefaultKnown(r) ==
  /\ r.op = "attach" =>
       /\ r.at \in {"parent", "file", "clear", "insert", "made", "unlink"}
       /\ backend # "sqlite" => Single(r.on)
       /\ r.at = "insert" /\ r.arg[1] => NoneBut(r.on, "external", 0)
  /\ r.op = "embed" =>
       /\ r.at \in {"find", "clear", "insert", "set", "made", "prune"}
       /\ backend # "sqlite" => Single(r.on)
       /\ r.at = "insert" => r.k = 0
       /\ r.at \in {"insert", "set"} /\ Head(r.arg).def => NoneBut(r.on, "embedded", r.k)
       /\ r.at \in {"clear", "set"} => \A t \in tracks : t.id = r.k => t.media = r.on /\ t.kind = "embedded"
  /\ r.op = "patch" =>
       /\ r.at \in {"read", "clear", "set"}
       /\ r.at = "read" => \E t \in tracks : t.id = r.on /\ (backend # "sqlite" => Single(t.media))
       /\ r.at \in {"clear", "set"} =>
            /\ \E t \in tracks : t.id = r.k /\ t.media = r.list[1].media /\ t.kind = r.list[1].kind
            /\ backend # "sqlite" => Single(r.list[1].media)
       /\ r.at = "set" /\ r.arg[1] => NoneBut(r.list[1].media, r.list[1].kind, r.k)
DefaultInv ==
  /\ TracksApart
  /\ backend = "sqlite" => \A m \in Media : Single(m)
  /\ \A h \in Handlers : Open(h) /\ Isolated(h) /\ (req[h].sound \/ backend = "sqlite") => DefaultKnown(req[h])

\* True paths, from the root on.
PathsIn(rows) ==
  \A x \in rows :
    /\ x.path \in Seq(Nat)
    /\ \/ x.parent = Root /\ x.path = <<x.id>>
       \/ \E y \in rows : y.id = x.parent /\ x.path = Append(y.path, x.id)
Extends(path, old) == Len(path) >= Len(old) /\ SubSeq(path, 1, Len(old)) = old
\* while a folder moves: true paths, if its own is taken as it was read
PathsBut(r) ==
  \A x \in folders : x.id # r.on =>
    /\ x.path \in Seq(Nat)
    /\ \/ x.parent = Root /\ x.path = <<x.id>>
       \/ \E y \in folders : y.id = x.parent /\ x.path = Append(IF y.id = r.on THEN OldPath(r) ELSE y.path, x.id)
\* to where it moves: not below itself
Leads(r) ==
  /\ OldPath(r) \in Seq(Nat) /\ OldPath(r) # <<>> /\ OldPath(r)[Len(OldPath(r))] = r.on
  /\ \/ Parent(r) = Root /\ NewPath(r) = <<r.on>>
     \/ \E y \in folders : /\ y.id = Parent(r) /\ y.id # r.on /\ NewPath(r) = Append(y.path, r.on)
                           /\ ~Extends(y.path, OldPath(r))
\* what the paths will be
Becomes(r, F) ==
  /\ F[r.on] = NewPath(r)
  /\ \A x \in folders :
       LET p == IF x.id = r.on THEN Parent(r) ELSE x.parent IN
       /\ F[x.id] \in Seq(Nat)
       /\ \/ p = Root /\ F[x.id] = <<x.id>>
          \/ p \in Ids /\ F[x.id] = Append(F[p], x.id)
       /\ x.id # r.on => x.path = F[x.id] \/ <<x.id, F[x.id]>> \in r.list[3]
       /\ x.id = r.on /\ backend # "mongodb" => x.parent = Parent(r) /\ x.path = NewPath(r)
  /\ \A d \in r.list[3] : d[1] \in Ids \ {r.on} /\ d[2] = F[d[1]]
WillBe(r) ==
  \E F \in [Ids -> {x.path : x \in folders} \cup {d[2] : d \in r.list[3]} \cup {NewPath(r)}] : Becomes(r, F)
AsRead(r) == \A x \in folders : x.id = r.on => x.parent = WasParent(r) /\ x.path = OldPath(r)
CreateKnown(r) ==
  /\ r.at \in {"parent", "insert", "path"}
  /\ r.at = "parent" => PathsIn(folders) /\ r.list = <<>>
  /\ r.at = "insert" => /\ PathsIn(folders)
                        /\ IF r.on = Root THEN r.list = <<>> ELSE \E y \in folders : y.id = r.on /\ r.list = y.path
  /\ r.at = "path" => \E x \in folders :
       /\ x.id = r.k /\ x.parent = r.on /\ PathsIn(folders \ {x})
       /\ IF r.on = Root THEN r.list = <<>> ELSE \E y \in folders \ {x} : y.id = r.on /\ r.list = y.path
EditKnown(r) ==
  /\ r.on \in Ids /\ (backend = "mongodb" => Tree)
  /\ r.was # <<>> => PathsIn(r.was[1])
  /\ \/ r.at = "read" /\ PathsIn(folders)
     \/ r.at \in {"name", "parent"} /\ r.list = <<r.list[1]>> /\ PathsIn(folders) /\ AsRead(r)
     \/ r.at = "own" /\ r.list = <<r.list[1]>> /\ PathsIn(folders)
     \/ r.at = "move" /\ r.list = <<r.list[1], r.list[2]>> /\ PathsIn(folders) /\ PathsBut(r) /\ Leads(r)
     \/ /\ r.at = "below" /\ r.list = <<r.list[1], r.list[2]>> /\ PathsBut(r) /\ Leads(r)
        /\ \A x \in folders : x.id = r.on => IF backend = "mongodb" THEN x.path = OldPath(r)
                                             ELSE x.parent = Parent(r) /\ x.path = NewPath(r)
     \/ /\ r.at \in {"paths", "own"} /\ r.list = <<r.list[1], r.list[2], r.list[3]>> /\ (r.at = "own" => r.list[3] = {})
        /\ WillBe(r)
TreeKnown(r) ==
  /\ r.op = "create" => CreateKnown(r)
  /\ r.op = "edit" => EditKnown(r)
  /\ r.op = "delete" => r.at \in {"counts", "below", "detach", "row", "media", "rows"} /\ PathsIn(folders)
TreeInv == \A h \in Handlers : Open(h) /\ Isolated(h) /\ req[h].sound => TreeKnown(req[h])

\* While a request is open that nothing comes between, another takes a step only in SQLite, and
\* only where the first waits for a file.
LEMMA Undisturbed ==
  ASSUME LibInv, RefInv, NEW h \in Handlers, NEW r, GoOn(h, r), Open(h), Turn(h),
         NEW g \in Handlers \ {h}, Open(g)', Isolated(g)'
  PROVE  /\ Open(g) /\ Isolated(g) /\ backend = "sqlite" /\ req[g].at \in Away /\ req'[g] = req[g]
<1>1. req'[g] = req[g] /\ UNCHANGED backend
  BY AfterGoOn
<1>2. Open(g) /\ ~req[g].alone
  BY <1>1 DEF RefInv, OneAlone, Open
<1>3. QED
  BY <1>1, <1>2 DEF Isolated, Turn, Others

\* Nor does another begin meanwhile, but in SQLite and while it waits for a file.
LEMMA UndisturbedAtFirst ==
  ASSUME LibInv, NEW h \in Handlers, NEW op, NEW at, NEW on, NEW arg, NEW sound, Begin(h, op, at, on, arg, sound),
         NEW g \in Handlers \ {h}, Open(g)', Isolated(g)'
  PROVE  /\ Open(g) /\ Isolated(g) /\ backend = "sqlite" /\ req[g].at \in Away
         /\ req'[g].op = req[g].op /\ req'[g].at = req[g].at /\ req'[g].on = req[g].on
         /\ req'[g].sound = req[g].sound /\ req'[g].was = req[g].was
<1>1. Turn(h) /\ UNCHANGED backend /\ req'[g] = IF Open(g) THEN [req[g] EXCEPT !.alone = FALSE] ELSE req[g]
  BY DEF Begin, MayBegin, Others
<1>2. PICK p, q : p = req[g] /\ q = req'[g]
  OBVIOUS
<1>3. Open(g) /\ DOMAIN p = RequestFields /\ q = [p EXCEPT !.alone = FALSE]
  BY <1>1, <1>2, Knows DEF Open
<1>4. /\ q.op = p.op /\ q.at = p.at /\ q.on = p.on /\ q.sound = p.sound /\ q.was = p.was
      /\ ~q.alone
  BY <1>3 DEF RequestFields
<1>5. QED
  BY <1>1, <1>2, <1>3, <1>4 DEF Isolated, Turn, Others

\* A request that begins knows what it was asked.
LEMMA AtFirst ==
  ASSUME NEW h \in Handlers, NEW op, NEW at, NEW on, NEW arg, NEW sound, Begin(h, op, at, on, arg, sound)
  PROVE  /\ req'[h].op = op /\ req'[h].at = at /\ req'[h].on = on /\ req'[h].arg = arg /\ req'[h].sound = sound
         /\ req'[h].list = <<>> /\ req'[h].k = 0 /\ req'[h].was = <<>>
         /\ UNCHANGED <<backend, crashes>> /\ ~Open(h)
<1>1. PICK q : q = [NoRequest EXCEPT !.op = op, !.at = at, !.on = on, !.arg = arg, !.sound = sound,
                                     !.alone = (Others(h) = {})]
  OBVIOUS
<1>2. req'[h] = q
  BY <1>1 DEF Begin
<1>3. QED
  BY <1>1, <1>2 DEF NoRequest, Begin, MayBegin

\* Nobody but a request that is open answers it.
LEMMA AnswersItself ==
  ASSUME LibInv, NEW g \in Handlers, NEW h \in Handlers, Ends(g), NEW r, GoOn(h, r)
  PROVE  g = h /\ r.at \in Answered /\ req'[h].at = r.at
<1>1. CASE g # h
  <2>1. req'[g] = req[g]
    BY <1>1, AfterGoOn
  <2>2. QED
    BY <2>1 DEF Ends, Open
<1>2. CASE g = h /\ r.at \notin Answered
  BY <1>2, AfterGoOn DEF Ends
<1>3. CASE g = h /\ r.at \in Answered
  BY <1>3, AfterGoOn
<1>4. QED
  BY <1>1, <1>2, <1>3

\* No request ends as another begins.
LEMMA NobodyEnds ==
  ASSUME LibInv, NEW g \in Handlers, NEW h \in Handlers, NEW op, NEW at, NEW on, NEW arg, NEW sound,
         Begin(h, op, at, on, arg, sound), at \notin Answered
  PROVE  ~Ends(g)
<1>1. CASE g = h
  BY <1>1, AtFirst DEF Ends
<1>2. CASE g # h
  <2>1. req'[g] = IF Open(g) THEN [req[g] EXCEPT !.alone = FALSE] ELSE req[g]
    BY <1>2 DEF Begin, Others
  <2>2. Open(g) => req'[g].at = req[g].at
    <3> SUFFICES ASSUME Open(g) PROVE req'[g].at = req[g].at
      OBVIOUS
    <3>1. PICK p, q : p = req[g] /\ q = req'[g]
      OBVIOUS
    <3>2. DOMAIN p = RequestFields /\ q = [p EXCEPT !.alone = FALSE]
      BY <2>1, <3>1, Knows
    <3>3. q.at = p.at
      BY <3>2 DEF RequestFields
    <3>4. QED
      BY <3>1, <3>3
  <2>3. QED
    BY <2>2 DEF Ends, Open
<1>3. QED
  BY <1>1, <1>2

\* A crash answers nothing.
LEMMA CrashAnswersNone ==
  ASSUME Crash, NEW g \in Handlers
  PROVE  ~Open(g)' /\ ~(Ends(g) /\ req[g].op # "none") /\ UNCHANGED backend
  BY DEF Crash, CrashRequests, NoRequest, Open, Ends, Answered

PlaylistOps == {"add", "remove", "reorder", "update", "drop"}
SubtitleOps == {"attach", "embed", "patch", "detach"}
FolderOps == {"create", "edit", "delete", "file"}
Steps(h, ops) == Open(h) /\ Turn(h) /\ req[h].op \in ops /\ \E r : GoOn(h, r) /\ r.op = req[h].op
Begins(h, ops, ats) == \E op \in ops, at \in ats : \E on, arg, sound : Begin(h, op, at, on, arg, sound)

\* A step is one of a request of its kind, and answers for itself.
LEMMA GoesSteps ==
  ASSUME LibInv, NEW h \in Handlers, Open(h), Turn(h), NEW ops, req[h].op \in ops,
         \/ \E at : GoTo(h, at)
         \/ \E r : GoOn(h, r) /\ r.op = req[h].op
  PROVE  Steps(h, ops)
<1>1. CASE \E at : GoTo(h, at)
  <2>1. PICK at : GoTo(h, at)
    BY <1>1
  <2>2. PICK r : r = [req[h] EXCEPT !.at = at]
    OBVIOUS
  <2>3. GoOn(h, r) /\ r.op = req[h].op
    BY <2>1, <2>2, GoesTo
  <2>4. QED
    BY <2>3 DEF Steps
<1>2. QED
  BY <1>1 DEF Steps

\* The statements of each kind of request go on with that request.
LEMMA PlaylistSteps ==
  ASSUME LibInv, NEW h \in Handlers, StepPlaylists(h)
  PROVE  Steps(h, PlaylistOps)
<1>1. Open(h) /\ Turn(h) /\ req[h].op \in PlaylistOps
  BY DEF StepPlaylists, CountItems, CheckMedia, addPlaylistItem, DeleteItemRow, RemainingItems,
     ValidateItems, Order, UpdateItemRow, mongoDeleteItems, DeletePlaylistRow, At, Open, Answered, PlaylistOps
<1>2. DOMAIN req[h] = RequestFields
  BY <1>1, Knows
<1>3. ASSUME CheckMedia(h) \/ DeleteItemRow(h) \/ UpdateItemRow(h) \/ mongoDeleteItems(h) \/ DeletePlaylistRow(h)
      PROVE  \E at : GoTo(h, at)
  BY <1>3 DEF CheckMedia, DeleteItemRow, UpdateItemRow, mongoDeleteItems, DeletePlaylistRow
<1>4. \A k, at : [req[h] EXCEPT !.k = k, !.at = at].op = req[h].op
  BY <1>2 DEF RequestFields
<1>5. \A k, at, arg : [req[h] EXCEPT !.arg = arg, !.k = k, !.at = at].op = req[h].op
  BY <1>2 DEF RequestFields
<1>6. \A list, was, at : [req[h] EXCEPT !.list = list, !.was = was, !.at = at].op = req[h].op
  BY <1>2 DEF RequestFields
<1>7. \A at : [req[h] EXCEPT !.at = at].op = req[h].op
  BY <1>2 DEF RequestFields
<1>8. CountItems(h) => \E r : GoOn(h, r) /\ r.op = req[h].op
  BY <1>4 DEF CountItems
<1>9. addPlaylistItem(h) => (\E at : GoTo(h, at)) \/ \E r : GoOn(h, r) /\ r.op = req[h].op
  <2>1. PICK arg : arg = Tail(req[h].arg)
    OBVIOUS
  <2>2. PICK k : k = req[h].k + 1
    OBVIOUS
  <2>3. PICK r : r = [req[h] EXCEPT !.arg = Tail(@), !.k = @ + 1,
                                    !.at = IF Len(req[h].arg) = 1 THEN "ok" ELSE "media"]
    OBVIOUS
  <2>4. r.op = req[h].op
    BY <1>2, <2>3 DEF RequestFields
  <2>5. QED
    BY <2>3, <2>4 DEF addPlaylistItem
<1>10. ASSUME RemainingItems(h) PROVE \E r : GoOn(h, r) /\ r.op = req[h].op
  <2>1. PICK list, was, at : GoOn(h, [req[h] EXCEPT !.list = list, !.was = was, !.at = at])
    BY <1>10 DEF RemainingItems
  <2>2. PICK r : r = [req[h] EXCEPT !.list = list, !.was = was, !.at = at]
    OBVIOUS
  <2>3. GoOn(h, r)
    BY <2>1, <2>2
  <2>4. r.op = req[h].op
    BY <1>6, <2>2
  <2>5. QED
    BY <2>3, <2>4
<1>11. ASSUME ValidateItems(h) PROVE \E r : GoOn(h, r) /\ r.op = req[h].op
  <2>1. PICK ids, was, r : /\ ids = req[h].arg /\ was = Savepoint(items)
                           /\ r = IF ToSet(ids) \subseteq {i.id : i \in ItemsOf(req[h].on)}
                                  THEN [req[h] EXCEPT !.list = ids, !.was = was, !.at = "order"]
                                  ELSE [req[h] EXCEPT !.at = "error"]
    OBVIOUS
  <2>2. GoOn(h, r)
    BY <1>11, <2>1 DEF ValidateItems
  <2>3. r.op = req[h].op
    BY <1>6, <1>7, <2>1
  <2>4. QED
    BY <2>2, <2>3
<1>12. Order(h) => (\E at : GoTo(h, at)) \/ \E r : GoOn(h, r) /\ r.op = req[h].op
  <2> SUFFICES ASSUME Order(h) PROVE (\E at : GoTo(h, at)) \/ \E r : GoOn(h, r) /\ r.op = req[h].op
    OBVIOUS
  <2>1. \/ GoTo(h, "error")
        \/ \E len : GoOn(h, [req[h] EXCEPT !.k = @ + 1, !.at = IF req[h].k + 1 = len THEN "ok" ELSE "order"])
    BY DEF Order
  <2>2. \A len : [req[h] EXCEPT !.k = @ + 1, !.at = IF req[h].k + 1 = len THEN "ok" ELSE "order"].op = req[h].op
    BY <1>2 DEF RequestFields
  <2>3. QED
    BY <2>1, <2>2
<1>13. QED
  BY <1>1, <1>3, <1>8, <1>9, <1>10, <1>11, <1>12, GoesSteps DEF StepPlaylists

\* How each kind of request begins.
LEMMA PlaylistAsks ==
  ASSUME NEW h \in Handlers, BeginPlaylists(h) \/ Adds(h)
  PROVE  Begins(h, PlaylistOps, {"count", "delete", "update", "items", "row", "validate"}) /\ UNCHANGED playlistVars
  BY DEF BeginPlaylists, Adds, addPlaylistItems, deletePlaylistItem, updatePlaylistItem, deletePlaylist,
     reorderPlaylistItems, Begins, PlaylistOps

\* Those of a decision.
LEMMA ApprovalSteps ==
  ASSUME LibInv, NEW h \in Handlers, StepApprovals(h)
  PROVE  Steps(h, {"decide"}) /\ UNCHANGED playlistVars
<1>1. Open(h) /\ Turn(h) /\ req[h].op \in {"decide"} /\ (\E at : GoTo(h, at)) /\ UNCHANGED playlistVars
  BY DEF StepApprovals, updateMediaApproval, createApprovalLog, At, Open, Answered
<1>2. QED
  BY <1>1, GoesSteps

\* Those of the deletion of a medium.
LEMMA MediaSteps ==
  ASSUME LibInv, NEW h \in Handlers, mongoDeleteRefs(h) \/ DeleteMediaRow(h)
  PROVE  Steps(h, {"purge"}) /\ items' \subseteq items /\ tracks' \subseteq tracks
<1>1. /\ Open(h) /\ Turn(h) /\ req[h].op \in {"purge"} /\ (\E at : GoTo(h, at))
      /\ items' \subseteq items /\ tracks' \subseteq tracks
  BY DEF mongoDeleteRefs, DeleteMediaRow, At, Open, Answered
<1>2. QED
  BY <1>1, GoesSteps

\* How a request about tracks begins.
LEMMA SubtitleAsks ==
  ASSUME NEW h \in Handlers, BeginSubtitles(h)
  PROVE  Begins(h, SubtitleOps, {"parent", "find", "read"}) /\ UNCHANGED <<tracks, files, nextTrack>>
  BY DEF BeginSubtitles, attachExternal, persistEmbeddedSubtitles, delete, update, Begins, SubtitleOps, subtitleVars

\* How one about folders begins.
LEMMA FolderAsks ==
  ASSUME NEW h \in Handlers, BeginFolders(h)
  PROVE  Begins(h, FolderOps, {"parent", "read", "counts", "move"}) /\ UNCHANGED folderVars
  BY DEF BeginFolders, createFolder, updateFolder, deleteFolder, moveMedia, Begins, FolderOps

\* How the deletion of a medium begins.
LEMMA MediaAsks ==
  ASSUME NEW h \in Handlers, NEW m, deleteMedia(h, m)
  PROVE  Begins(h, {"purge"}, {"items", "row"}) /\ UNCHANGED <<playlistVars, subtitleVars>>
  BY DEF deleteMedia, Begins

\* How a decision begins.
LEMMA ApprovalAsks ==
  ASSUME NEW h \in Handlers, Decides(h)
  PROVE  Begins(h, {"decide"}, {"status"}) /\ UNCHANGED <<playlistVars, approvalVars>>
  BY DEF Decides, decide, Begins

\* The statements of a request about tracks.
LEMMA SubtitleSteps ==
  ASSUME LibInv, NEW h \in Handlers, StepSubtitles(h)
  PROVE  Steps(h, SubtitleOps)
<1>1. Open(h) /\ Turn(h) /\ req[h].op \in SubtitleOps
  BY DEF StepSubtitles, CheckParent, saveSubtitle, clearDefaultFlagSiblings, createExternalSubtitle, ReadBack,
     FindStream, createEmbeddedSubtitle, pruneEmbeddedSubtitles, ReadTrack, updateSubtitle, deleteFile,
     deleteSubtitle, At, Open, Answered, SubtitleOps
<1>2. PICK q : q = req[h] /\ DOMAIN q = RequestFields
  BY <1>1, Knows
<1>3. Failed(q).op = q.op /\ Done(q).op = q.op
  BY <1>2 DEF Failed, Done, RequestFields
<1>4. \A k, at : [q EXCEPT !.k = k, !.at = at].op = q.op
  BY <1>2 DEF RequestFields
<1>5. \A list, k, at : [q EXCEPT !.list = list, !.k = k, !.at = at].op = q.op
  BY <1>2 DEF RequestFields
<1>6. CheckParent(h) \/ clearDefaultFlagSiblings(h) \/ pruneEmbeddedSubtitles(h) \/ deleteFile(h) \/ deleteSubtitle(h)
        => \E at : GoTo(h, at)
  BY DEF CheckParent, clearDefaultFlagSiblings, pruneEmbeddedSubtitles, deleteFile, deleteSubtitle
<1>7. ASSUME saveSubtitle(h) \/ FindStream(h) PROVE \E r : GoOn(h, r) /\ r.op = q.op
  <2>1. PICK k, at : GoOn(h, [q EXCEPT !.k = k, !.at = at])
    BY <1>2, <1>7 DEF saveSubtitle, FindStream
  <2>2. PICK r : r = [q EXCEPT !.k = k, !.at = at]
    OBVIOUS
  <2>3. GoOn(h, r) /\ r.op = q.op
    BY <1>4, <2>1, <2>2
  <2>4. QED
    BY <2>3, SMTT(30)
<1>8. ASSUME createExternalSubtitle(h) PROVE (\E at : GoTo(h, at)) \/ \E r : GoOn(h, r) /\ r.op = q.op
  BY <1>2, <1>3, <1>8 DEF createExternalSubtitle
<1>9. ASSUME ReadBack(h) \/ updateSubtitle(h) PROVE \E r : GoOn(h, r) /\ r.op = q.op
  <2>1. GoOn(h, Done(q)) \/ GoOn(h, Failed(q))
    BY <1>2, <1>9 DEF ReadBack, updateSubtitle
  <2>2. QED
    BY <1>3, <2>1
<1>10. ASSUME createEmbeddedSubtitle(h) PROVE \E r : GoOn(h, r) /\ r.op = q.op
  <2>1. GoOn(h, Done(q)) \/ GoOn(h, Failed(q)) \/ GoOn(h, [q EXCEPT !.k = nextTrack, !.at = "made"])
    BY <1>2, <1>10 DEF createEmbeddedSubtitle
  <2>2. PICK r : r = [q EXCEPT !.k = nextTrack, !.at = "made"]
    OBVIOUS
  <2>3. r.op = q.op
    BY <1>4, <2>2
  <2>4. QED
    BY <1>3, <2>1, <2>2, <2>3
<1>11. ASSUME ReadTrack(h) PROVE (\E at : GoTo(h, at)) \/ \E r : GoOn(h, r) /\ r.op = q.op
  <2>1. (\E at : GoTo(h, at)) \/ \E list, k, at : GoOn(h, [q EXCEPT !.list = list, !.k = k, !.at = at])
    BY <1>2, <1>11 DEF ReadTrack
  <2>2. ASSUME NEW list, NEW k, NEW at, GoOn(h, [q EXCEPT !.list = list, !.k = k, !.at = at])
        PROVE  \E r : GoOn(h, r) /\ r.op = q.op
    <3>1. PICK r : r = [q EXCEPT !.list = list, !.k = k, !.at = at]
      OBVIOUS
    <3>2. GoOn(h, r)
      BY <2>2, <3>1
    <3>3. r.op = q.op
      BY <1>5, <3>1
    <3>4. QED
      BY <3>2, <3>3
  <2>3. QED
    BY <2>1, <2>2
<1>12. QED
  BY <1>1, <1>2, <1>6, <1>7, <1>8, <1>9, <1>10, <1>11, GoesSteps DEF StepSubtitles

\* The statements of a request about folders.
LEMMA FolderSteps ==
  ASSUME LibInv, NEW h \in Handlers, StepFolders(h)
  PROVE  Steps(h, FolderOps)
<1>1. Open(h) /\ Turn(h) /\ req[h].op \in FolderOps
  BY ZenonT(60) DEF StepFolders, ReadParent, InsertFolder, WritePath, ReadFolder, Rename, NewParent, Move,
     Descendants, MovePath, mongoOwn, Counts, CollectMedia, Detach, DeleteRow, mongoBelow, mongoDetach,
     mongoDeleteRows, moveMediaToFolder, At, Open, Answered, FolderOps
<1>2. PICK q : q = req[h] /\ DOMAIN q = RequestFields
  BY <1>1, Knows
<1>3. \A at : [q EXCEPT !.at = at].op = q.op
  BY <1>2 DEF RequestFields
<1>4. \A list, at : [q EXCEPT !.list = list, !.at = at].op = q.op
  BY <1>2, SMTT(30) DEF RequestFields
<1>5. ASSUME \/ WritePath(h) \/ Rename(h) \/ Move(h) \/ mongoOwn(h) \/ Counts(h) \/ Detach(h) \/ DeleteRow(h)
             \/ mongoDetach(h) \/ mongoDeleteRows(h) \/ moveMediaToFolder(h)
      PROVE  \E at : GoTo(h, at)
  BY <1>5 DEF WritePath, Rename, Move, mongoOwn, Counts, Detach, DeleteRow, mongoDetach, mongoDeleteRows,
     moveMediaToFolder
<1>6. ASSUME Descendants(h) \/ CollectMedia(h) PROVE \E r : GoOn(h, r) /\ r.op = q.op
  <2>1. CASE Descendants(h)
    <3>1. PICK moved : GoOn(h, [q EXCEPT !.list = Append(@, moved), !.at = "paths"])
      BY <1>2, <2>1 DEF Descendants
    <3>2. PICK r : r = [q EXCEPT !.list = Append(@, moved), !.at = "paths"]
      OBVIOUS
    <3>3. GoOn(h, r)
      BY <3>1, <3>2
    <3>4. r.op = q.op
      BY <1>2, <3>2 DEF RequestFields
    <3>5. QED
      BY <3>3, <3>4
  <2>2. CASE CollectMedia(h)
    <3>1. PICK list : GoOn(h, [q EXCEPT !.list = list, !.at = "detach"])
      BY <1>2, <2>2 DEF CollectMedia
    <3>2. PICK r : r = [q EXCEPT !.list = list, !.at = "detach"]
      OBVIOUS
    <3>3. GoOn(h, r) /\ r.op = q.op
      BY <1>4, <3>1, <3>2, SMTT(30)
    <3>4. QED
      BY <3>3
  <2>3. QED
    BY <1>6, <2>1, <2>2
<1>7. ASSUME ReadParent(h) \/ mongoBelow(h) \/ ReadFolder(h)
      PROVE  \E r : GoOn(h, r) /\ r.op = q.op
  <2>1. \A list, was, at : [q EXCEPT !.list = list, !.was = was, !.at = at].op = q.op
    BY <1>2, SMTT(30) DEF RequestFields
  <2>2. PICK r : /\ GoOn(h, r)
                 /\ \/ \E list, was, at : r = [q EXCEPT !.list = list, !.was = was, !.at = at]
                    \/ \E list : r = [q EXCEPT !.list = list, !.at = "insert"] \/ r = [q EXCEPT !.list = list, !.at = "media"]
                    \/ \E at : r = [q EXCEPT !.at = at]
    <3>1. CASE ReadParent(h)
      <4>1. PICK r : /\ GoOn(h, r)
                     /\ \/ r = [req[h] EXCEPT !.at = "insert"]
                        \/ \E list : r = [req[h] EXCEPT !.list = list, !.at = "insert"]
                        \/ r = [req[h] EXCEPT !.at = "error"]
        BY <3>1 DEF ReadParent
      <4>2. QED
        BY <1>2, <4>1
    <3>2. CASE mongoBelow(h)
      <4>1. PICK r : /\ GoOn(h, r)
                     /\ \/ \E list : r = [req[h] EXCEPT !.list = list, !.at = "media"]
                        \/ r = [req[h] EXCEPT !.at = "ok"]
        BY <3>2, ZenonT(60) DEF mongoBelow
      <4>2. QED
        BY <1>2, <4>1
    <3>3. CASE ReadFolder(h)
      <4>1. CASE IsFolder(q.on)
        <5>1. PICK at : GoOn(h, [q EXCEPT !.list = <<Folder(q.on)>>, !.was = Savepoint(folders), !.at = at])
          BY <1>2, <3>3, <4>1 DEF ReadFolder
        <5>2. PICK r : r = [q EXCEPT !.list = <<Folder(q.on)>>, !.was = Savepoint(folders), !.at = at]
          OBVIOUS
        <5>3. GoOn(h, r)
          BY <5>1, <5>2
        <5>4. \E list, was, a : r = [q EXCEPT !.list = list, !.was = was, !.at = a]
          BY <5>2
        <5>5. QED
          BY <5>3, <5>4
      <4>2. CASE ~IsFolder(q.on)
        BY <1>2, <3>3, <4>2 DEF ReadFolder
      <4>3. QED
        BY <4>1, <4>2
    <3>4. QED
      BY <1>7, <3>1, <3>2, <3>3, ZenonT(60)
  <2>3. CASE \E list, was, at : r = [q EXCEPT !.list = list, !.was = was, !.at = at]
    <3>1. PICK list, was, at : r = [q EXCEPT !.list = list, !.was = was, !.at = at]
      BY <2>3
    <3>2. r.op = q.op
      BY <2>1, <3>1
    <3>3. QED
      BY <2>2, <3>2
  <2>4. CASE \E list : r = [q EXCEPT !.list = list, !.at = "insert"] \/ r = [q EXCEPT !.list = list, !.at = "media"]
    <3>1. PICK list : r = [q EXCEPT !.list = list, !.at = "insert"] \/ r = [q EXCEPT !.list = list, !.at = "media"]
      BY <2>4
    <3>2. r.op = q.op
      BY <1>2, <3>1 DEF RequestFields
    <3>3. QED
      BY <2>2, <3>2
  <2>5. CASE \E at : r = [q EXCEPT !.at = at]
    <3>1. r.op = q.op
      BY <1>3, <2>5
    <3>2. QED
      BY <2>2, <3>1
  <2>6. QED
    BY <2>2, <2>3, <2>4, <2>5
<1>8. ASSUME NewParent(h)
      PROVE  (\E at : GoTo(h, at)) \/ \E r : GoOn(h, r) /\ r.op = q.op
  <2>1. \/ \E at : GoTo(h, at)
        \/ \E path, at : GoOn(h, [q EXCEPT !.list = <<@[1], path>>, !.at = at])
    BY <1>2, <1>8 DEF NewParent
  <2>2. ASSUME NEW path, NEW at, GoOn(h, [q EXCEPT !.list = <<@[1], path>>, !.at = at])
        PROVE  \E r : GoOn(h, r) /\ r.op = q.op
    <3>1. PICK r : r = [q EXCEPT !.list = <<@[1], path>>, !.at = at]
      OBVIOUS
    <3>2. GoOn(h, r)
      BY <2>2, <3>1
    <3>3. r.op = q.op
      BY <1>2, <3>1 DEF RequestFields
    <3>4. QED
      BY <3>2, <3>3
  <2>3. QED
    BY <2>1, <2>2
<1>9. ASSUME MovePath(h)
      PROVE  (\E at : GoTo(h, at)) \/ \E r : GoOn(h, r) /\ r.op = q.op
  <2>1. \/ \E at : GoTo(h, at)
        \/ \E d : GoOn(h, [q EXCEPT !.list[3] = @ \ {d}])
    BY <1>2, <1>9 DEF MovePath
  <2>2. ASSUME NEW d, GoOn(h, [q EXCEPT !.list[3] = @ \ {d}])
        PROVE  \E r : GoOn(h, r) /\ r.op = q.op
    <3>1. PICK r : r = [q EXCEPT !.list[3] = @ \ {d}]
      OBVIOUS
    <3>2. GoOn(h, r)
      BY <2>2, <3>1
    <3>3. r.op = q.op
      BY <1>2, <3>1 DEF RequestFields
    <3>4. QED
      BY <3>2, <3>3
  <2>3. QED
    BY <2>1, <2>2
<1>10. ASSUME InsertFolder(h)
       PROVE  (\E at : GoTo(h, at)) \/ \E r : GoOn(h, r) /\ r.op = q.op
  <2>1. \/ \E at : GoTo(h, at)
        \/ \E at : GoOn(h, [q EXCEPT !.k = nextFolder, !.at = at])
    BY <1>2, <1>10 DEF InsertFolder
  <2>2. ASSUME NEW at, GoOn(h, [q EXCEPT !.k = nextFolder, !.at = at])
        PROVE  \E r : GoOn(h, r) /\ r.op = q.op
    <3>1. PICK r : r = [q EXCEPT !.k = nextFolder, !.at = at]
      OBVIOUS
    <3>2. GoOn(h, r) /\ r.op = q.op
      BY <1>2, <2>2, <3>1 DEF RequestFields
    <3>3. QED
      BY <3>2
  <2>3. QED
    BY <2>1, <2>2
<1>11. (\E at : GoTo(h, at)) \/ \E r : GoOn(h, r) /\ r.op = q.op
  BY <1>5, <1>6, <1>7, <1>8, <1>9, <1>10 DEF StepFolders
<1>12. QED
  BY <1>1, <1>2, <1>11, GoesSteps, SMTT(30)

(***************************************************************************)
(* Approvals                                                               *)
(***************************************************************************)
DecisionLogs ==
  \A h \in Handlers :
    Ends(h) /\ Isolated(h) /\ req[h].sound /\ req[h].op = "decide"
      => logged'[req[h].on] = approval'[req[h].on]
AddsApproved ==
  \A i \in items' \ items :
    requireMediaApproval /\ i.id = nextItem =>
      approval[i.media] = "approved" \/ \E h \in Handlers : Open(h) /\ ~Isolated(h)

\* Nobody decides on a medium between an isolated request's statements, or adds to what it has
\* counted.
LEMMA ApprovalStep ==
  ASSUME LibInv, RefInv, ApprovalInv, NEW h \in Handlers, NEW r, GoOn(h, r), Open(h), Turn(h),
         r.at \notin Answered /\ Isolated(h)' => ApprovalKnown(r)'
  PROVE  ApprovalInv'
<1> SUFFICES ASSUME NEW g \in Handlers, Open(g)', Isolated(g)'
             PROVE  ApprovalKnown(req[g])'
  BY DEF ApprovalInv
<1>1. CASE g = h
  <2>1. r.at \notin Answered /\ req'[h] = r
    BY <1>1, AfterGoOn DEF Open
  <2>2. QED
    BY <1>1, <2>1
<1>2. CASE g # h
  <2>1. PICK q : q = req[g] /\ q = req'[g]
    BY <1>2, Undisturbed
  <2>2. ApprovalKnown(q) /\ q.at \in Away
    BY <1>2, <2>1, Undisturbed DEF ApprovalInv
  <2>3. ApprovalKnown(q)'
    BY <2>2 DEF ApprovalKnown, Away
  <2>4. QED
    BY <2>1, <2>3
<1>3. QED
  BY <1>1, <1>2

\* What a request knows of approvals as it begins.
LEMMA ApprovalAtFirst ==
  ASSUME LibInv, ApprovalInv, NEW h \in Handlers, NEW op, NEW at, NEW on, NEW arg, NEW sound,
         Begin(h, op, at, on, arg, sound), op = "decide" => at = "status", op = "add" => at = "count"
  PROVE  ApprovalInv'
<1> SUFFICES ASSUME NEW g \in Handlers, Open(g)', Isolated(g)'
             PROVE  ApprovalKnown(req[g])'
  BY DEF ApprovalInv
<1>1. PICK q : q = req'[g]
  OBVIOUS
<1>2. CASE g = h
  <2>1. q.op = op /\ q.at = at
    BY <1>1, <1>2, AtFirst
  <2>2. QED
    BY <1>1, <2>1 DEF ApprovalKnown
<1>3. CASE g # h
  <2>1. ApprovalKnown(req[g]) /\ q.at = req[g].at /\ q.op = req[g].op /\ q.at \in Away
    BY <1>1, <1>3, UndisturbedAtFirst DEF ApprovalInv
  <2>2. QED
    BY <1>1, <2>1 DEF ApprovalKnown, Away
<1>4. QED
  BY <1>2, <1>3

\* What is not about approvals or additions.
LEMMA ApprovalAside ==
  ASSUME LibInv, RefInv, ApprovalInv, NEW h \in Handlers, NEW ops, Steps(h, ops), ops \cap {"add", "decide"} = {}
  PROVE  ApprovalInv' /\ DecisionLogs
<1>1. PICK r : /\ GoOn(h, r) /\ Open(h) /\ Turn(h) /\ r.op = req[h].op
               /\ r.op \notin {"add", "decide"}
  BY DEF Steps
<1>2. ApprovalInv'
  BY <1>1, ApprovalStep DEF ApprovalKnown
<1>3. DecisionLogs
  BY <1>1, AnswersItself DEF DecisionLogs
<1>4. QED
  BY <1>2, <1>3

\* A request that is not about approvals begins.
LEMMA ApprovalAsideAtFirst ==
  ASSUME LibInv, ApprovalInv, NEW h \in Handlers, NEW ops, NEW ats, Begins(h, ops, ats),
         ats \cap Answered = {}, "add" \in ops => ats = {"count"}, "decide" \in ops => ats = {"status"}
  PROVE  ApprovalInv' /\ DecisionLogs
<1>1. PICK op \in ops, at \in ats : \E on, arg, sound : Begin(h, op, at, on, arg, sound)
  BY DEF Begins
<1>2. PICK on, arg, sound : Begin(h, op, at, on, arg, sound)
  BY <1>1
<1>3. ApprovalInv'
  BY <1>2, ApprovalAtFirst
<1>4. DecisionLogs
  BY <1>2, NobodyEnds DEF DecisionLogs
<1>5. QED
  BY <1>3, <1>4

\* Only an item that is made has a new id.
LEMMA NothingAdded ==
  ASSUME LibInv', UNCHANGED nextItem
  PROVE  AddsApproved
<1>1. nextItem \in Int /\ \A i \in items' : i.id \in 1..(nextItem - 1)
  BY DEF LibInv, CountersOK, ItemsOK
<1>2. QED
  BY <1>1 DEF AddsApproved

\* Playlists: the status is looked up right before the item is made.
LEMMA PlaylistApproves ==
  ASSUME LibInv, LibInv', RefInv, ApprovalInv, NEW h \in Handlers, StepPlaylists(h), UNCHANGED approvalVars
  PROVE  ApprovalInv' /\ DecisionLogs /\ AddsApproved
<1>1. Steps(h, PlaylistOps) /\ UNCHANGED approval
  BY PlaylistSteps DEF approvalVars
<1>2. Open(h) /\ Turn(h) /\ DOMAIN req[h] = RequestFields
  BY <1>1, Knows DEF Steps
<1>3. DecisionLogs
  <2>1. PICK r : GoOn(h, r) /\ req[h].op \in PlaylistOps
    BY <1>1 DEF Steps
  <2>2. QED
    BY <2>1, AnswersItself DEF DecisionLogs, PlaylistOps
<1>4. CASE CountItems(h)
  <2>1. PICK r : r = [req[h] EXCEPT !.k = Cardinality(ItemsOf(req[h].on)), !.at = "media"]
    OBVIOUS
  <2>2. GoOn(h, r) /\ UNCHANGED nextItem
    BY <1>4, <2>1 DEF CountItems, playlistVars
  <2>3. r.at = "media" /\ r.op = "add"
    BY <1>2, <1>4, <2>1 DEF RequestFields, CountItems, At
  <2>4. ApprovalInv'
    BY <1>2, <2>2, <2>3, ApprovalStep DEF ApprovalKnown
  <2>5. QED
    BY <1>3, <2>2, <2>4, NothingAdded
<1>5. CASE CheckMedia(h)
  <2>1. PICK at : GoTo(h, at) /\ at \in {"insert", "error"} /\ (at = "insert" => assertMediaApproved(Head(req[h].arg)))
    BY <1>5 DEF CheckMedia
  <2>2. PICK r : r = [req[h] EXCEPT !.at = at]
    OBVIOUS
  <2>3. GoOn(h, r) /\ r.at = at /\ r.op = "add" /\ r.arg = req[h].arg /\ UNCHANGED nextItem
    BY <1>2, <1>5, <2>1, <2>2, GoesTo DEF CheckMedia, At, playlistVars
  <2>4. r.at \notin Answered => ApprovalKnown(r)'
    BY <1>1, <2>1, <2>3 DEF ApprovalKnown, assertMediaApproved, Answered
  <2>5. ApprovalInv'
    BY <1>2, <2>3, <2>4, ApprovalStep
  <2>6. QED
    BY <1>3, <2>3, <2>5, NothingAdded
<1>6. CASE addPlaylistItem(h)
  <2>1. CASE GoTo(h, "error") /\ UNCHANGED playlistVars
    <3>1. PICK r : r = [req[h] EXCEPT !.at = "error"]
      OBVIOUS
    <3>2. GoOn(h, r) /\ r.at = "error" /\ UNCHANGED nextItem
      BY <1>2, <2>1, <3>1, GoesTo DEF playlistVars
    <3>3. ApprovalInv'
      BY <1>2, <3>2, ApprovalStep DEF Answered
    <3>4. QED
      BY <1>3, <3>2, <3>3, NothingAdded
  <2>2. CASE ~(GoTo(h, "error") /\ UNCHANGED playlistVars)
    <3>1. PICK r : r = [req[h] EXCEPT !.arg = Tail(@), !.k = @ + 1,
                                      !.at = IF Len(req[h].arg) = 1 THEN "ok" ELSE "media"]
      OBVIOUS
    <3>2. /\ GoOn(h, r)
          /\ items' = items \cup {[id |-> nextItem, pl |-> req[h].on, media |-> Head(req[h].arg), idx |-> req[h].k]}
      BY <1>6, <2>2, <3>1 DEF addPlaylistItem
    <3>3. r.at \in {"ok", "media"} /\ r.op = "add"
      BY <1>2, <1>6, <3>1 DEF RequestFields, addPlaylistItem, At
    <3>4. ApprovalInv'
      BY <1>2, <3>2, <3>3, ApprovalStep DEF ApprovalKnown, Answered
    <3>5. AddsApproved
      <4> SUFFICES ASSUME NEW i \in items' \ items, requireMediaApproval, Isolated(h)
                   PROVE  approval[i.media] = "approved"
        BY <1>2 DEF AddsApproved
      <4>1. i.media = Head(req[h].arg)
        BY <3>2
      <4>2. ApprovalKnown(req[h]) /\ req[h].op = "add" /\ req[h].at = "insert"
        BY <1>2, <1>6 DEF ApprovalInv, addPlaylistItem, At
      <4>3. QED
        BY <4>1, <4>2 DEF ApprovalKnown, assertMediaApproved
    <3>6. QED
      BY <1>3, <3>4, <3>5
  <2>3. QED
    BY <2>1, <2>2
<1>7. CASE \/ DeleteItemRow(h) \/ RemainingItems(h) \/ ValidateItems(h) \/ Order(h)
           \/ UpdateItemRow(h) \/ mongoDeleteItems(h) \/ DeletePlaylistRow(h)
  <2>1. req[h].op \in PlaylistOps \ {"add"} /\ UNCHANGED nextItem
    BY <1>7 DEF DeleteItemRow, RemainingItems, ValidateItems, Order, UpdateItemRow, mongoDeleteItems,
       DeletePlaylistRow, At, PlaylistOps, playlistVars
  <2>2. Steps(h, PlaylistOps \ {"add"})
    BY <1>1, <2>1 DEF Steps
  <2>3. ApprovalInv'
    BY <2>2, ApprovalAside DEF PlaylistOps
  <2>4. QED
    BY <1>3, <2>1, <2>3, NothingAdded
<1>8. QED
  BY <1>4, <1>5, <1>6, <1>7 DEF StepPlaylists

\* approve and reject: the log says what the status has become.
LEMMA ApprovalApproves ==
  ASSUME LibInv, RefInv, ApprovalInv, NEW h \in Handlers, StepApprovals(h)
  PROVE  ApprovalInv' /\ DecisionLogs
<1>1. Open(h) /\ Turn(h) /\ req[h].op = "decide"
  BY DEF StepApprovals, updateMediaApproval, createApprovalLog, At, Open, Answered
<1>2. DOMAIN req[h] = RequestFields /\ PlaylistRequestOK(req[h])
  BY <1>1, Knows
<1>3. req[h].on \in Media
  BY <1>1, <1>2 DEF PlaylistRequestOK
<1>4. CASE updateMediaApproval(h)
  <2>1. PICK r : r = [req[h] EXCEPT !.at = "log"]
    OBVIOUS
  <2>2. GoOn(h, r) /\ r.at = "log" /\ r.op = "decide" /\ r.on = req[h].on /\ r.arg = req[h].arg
    BY <1>1, <1>4, <2>1, GoesTo DEF updateMediaApproval
  <2>3. approval' = [approval EXCEPT ![r.on] = r.arg[1]]
    BY <1>4, <2>2 DEF updateMediaApproval
  <2>4. approval'[r.on] = r.arg[1]
    BY <1>3, <2>2, <2>3 DEF LibInv, CountersOK
  <2>5. ApprovalInv'
    BY <1>1, <2>2, <2>4, ApprovalStep DEF ApprovalKnown
  <2>6. DecisionLogs
    BY <2>2, AnswersItself DEF DecisionLogs, Answered
  <2>7. QED
    BY <2>5, <2>6
<1>5. CASE createApprovalLog(h)
  <2>1. PICK at \in {"ok", "error"} : GoTo(h, at)
    BY <1>5 DEF createApprovalLog
  <2>2. PICK r : r = [req[h] EXCEPT !.at = at]
    OBVIOUS
  <2>3. GoOn(h, r) /\ r.at \in Answered
    BY <1>1, <2>1, <2>2, GoesTo DEF Answered
  <2>4. ApprovalInv'
    BY <1>1, <2>3, ApprovalStep
  <2>5. Isolated(h) => approval[req[h].on] = req[h].arg[1]
    BY <1>1, <1>5 DEF ApprovalInv, ApprovalKnown, createApprovalLog, At
  <2>6. logged'[req[h].on] = req[h].arg[1] /\ UNCHANGED approval
    BY <1>3, <1>5 DEF createApprovalLog, LibInv, CountersOK
  <2>7. DecisionLogs
    BY <2>3, <2>5, <2>6, AnswersItself DEF DecisionLogs
  <2>8. QED
    BY <2>4, <2>7
<1>6. QED
  BY <1>4, <1>5 DEF StepApprovals

\* Every step keeps what is known of approvals, and answers for it.
LEMMA ApprovalsKept ==
  ASSUME LibInv, LibInv', RefInv, ApprovalInv, [Next]_vars
  PROVE  ApprovalInv' /\ DecisionLogs /\ AddsApproved
<1>1. ASSUME NEW h \in Handlers, InPlaylists(h) PROVE ApprovalInv' /\ DecisionLogs /\ AddsApproved
  <2>1. CASE Adds(h)
    <3>1. Begins(h, {"add"}, {"count"}) /\ UNCHANGED nextItem
      BY <2>1 DEF Adds, addPlaylistItems, Begins, playlistVars
    <3>2. QED
      BY <3>1, ApprovalAsideAtFirst, NothingAdded DEF Answered
  <2>2. CASE BeginPlaylists(h) /\ ~Adds(h)
    <3>1. Begins(h, PlaylistOps \ {"add"}, {"delete", "update", "items", "row", "validate"}) /\ UNCHANGED nextItem
      BY <2>2 DEF BeginPlaylists, deletePlaylistItem, updatePlaylistItem, deletePlaylist, reorderPlaylistItems,
         Begins, PlaylistOps, playlistVars
    <3>2. QED
      BY <3>1, ApprovalAsideAtFirst, NothingAdded DEF Answered, PlaylistOps
  <2>3. CASE StepPlaylists(h)
    BY <1>1, <2>3, PlaylistApproves DEF InPlaylists
  <2>4. QED
    BY <1>1, <2>1, <2>2, <2>3 DEF InPlaylists
<1>2. ASSUME NEW h \in Handlers, InApprovals(h) PROVE ApprovalInv' /\ DecisionLogs /\ AddsApproved
  <2>1. UNCHANGED nextItem
    BY <1>2, ApprovalAsks, ApprovalSteps DEF InApprovals, playlistVars
  <2>2. Decides(h) => ApprovalInv' /\ DecisionLogs
    BY ApprovalAsks, ApprovalAsideAtFirst DEF Answered
  <2>3. QED
    BY <1>2, <2>1, <2>2, ApprovalApproves, NothingAdded DEF InApprovals
<1>3. ASSUME NEW h \in Handlers, InSubtitles(h), UNCHANGED playlistVars
      PROVE  ApprovalInv' /\ DecisionLogs /\ AddsApproved
  <2>1. UNCHANGED nextItem
    BY <1>3 DEF playlistVars
  <2>2. BeginSubtitles(h) => ApprovalInv' /\ DecisionLogs
    BY SubtitleAsks, ApprovalAsideAtFirst DEF Answered, SubtitleOps
  <2>3. StepSubtitles(h) => ApprovalInv' /\ DecisionLogs
    BY SubtitleSteps, ApprovalAside DEF SubtitleOps
  <2>4. QED
    BY <1>3, <2>1, <2>2, <2>3, NothingAdded DEF InSubtitles
<1>4. ASSUME NEW h \in Handlers, DeletesMedia(h) PROVE ApprovalInv' /\ DecisionLogs /\ AddsApproved
  <2>1. UNCHANGED nextItem
    BY <1>4 DEF DeletesMedia, deleteMedia, mongoDeleteRefs, DeleteMediaRow, playlistVars
  <2>2. (\E m \in Media : deleteMedia(h, m)) => ApprovalInv' /\ DecisionLogs
    BY MediaAsks, ApprovalAsideAtFirst DEF Answered
  <2>3. mongoDeleteRefs(h) \/ DeleteMediaRow(h) => ApprovalInv' /\ DecisionLogs
    BY MediaSteps, ApprovalAside
  <2>4. QED
    BY <1>4, <2>1, <2>2, <2>3, NothingAdded DEF DeletesMedia
<1>5. ASSUME NEW h \in Handlers, InFolders(h), UNCHANGED playlistVars
      PROVE  ApprovalInv' /\ DecisionLogs /\ AddsApproved
  <2>1. UNCHANGED nextItem
    BY <1>5 DEF playlistVars
  <2>2. BeginFolders(h) => ApprovalInv' /\ DecisionLogs
    BY FolderAsks, ApprovalAsideAtFirst DEF Answered, FolderOps
  <2>3. StepFolders(h) => ApprovalInv' /\ DecisionLogs
    BY FolderSteps, ApprovalAside DEF FolderOps
  <2>4. QED
    BY <1>5, <2>1, <2>2, <2>3, NothingAdded DEF InFolders
<1>6. CASE Crash
  <2>1. UNCHANGED nextItem
    BY <1>6 DEF Crash
  <2>2. QED
    BY <1>6, <2>1, CrashAnswersNone, NothingAdded DEF ApprovalInv, DecisionLogs
<1>7. CASE UNCHANGED <<requestVars, playlistVars, approvalVars>>
  <2>1. UNCHANGED <<req, backend, items, nextItem, approval>>
    BY <1>7 DEF requestVars, playlistVars, approvalVars
  <2>2. ApprovalInv'
    BY <2>1 DEF ApprovalInv, ApprovalKnown, assertMediaApproved, Open, Isolated
  <2>3. QED
    BY <2>1, <2>2 DEF DecisionLogs, AddsApproved, Ends, Open
<1>8. QED
  BY <1>1, <1>2, <1>3, <1>4, <1>5, <1>6, <1>7 DEF Next, vars

(***************************************************************************)
(* The default tracks                                                      *)
(***************************************************************************)
Trusted(h) == Isolated(h) /\ (req[h].sound \/ backend = "sqlite")
DefaultsLeft ==
  \A h \in Handlers, m \in Media :
    Ends(h) /\ Isolated(h) /\ req[h].sound /\ req[h].op \in {"attach", "embed", "patch"} /\ m = MediaOf(req[h])
      => OneDefault(m)'
DefaultsKept == DefaultInv' /\ DefaultsLeft

\* To have one element at most.
LEMMA AtMostOne ==
  ASSUME NEW S, IsFiniteSet(S)
  PROVE  Cardinality(S) <= 1 <=> \A x, y \in S : x = y
<1>1. ASSUME NEW x \in S, NEW y \in S, x # y PROVE ~(Cardinality(S) <= 1)
  <2>1. Cardinality({x}) = 1 /\ IsFiniteSet({x})
    BY FS_Singleton
  <2>2. Cardinality({x} \cup {y}) = 2 /\ IsFiniteSet({x} \cup {y})
    BY <1>1, <2>1, FS_AddElement
  <2>3. {x} \cup {y} \subseteq S /\ Cardinality(S) \in Nat
    BY FS_CardinalityType
  <2>4. Cardinality({x} \cup {y}) <= Cardinality(S)
    BY <2>3, FS_Subset
  <2>5. QED
    BY <2>2, <2>3, <2>4
<1>2. ASSUME \A x, y \in S : x = y PROVE Cardinality(S) <= 1
  <2>1. CASE S = {}
    BY <2>1, FS_EmptySet
  <2>2. CASE S # {}
    <3>1. PICK x \in S : S = {x}
      BY <1>2, <2>2
    <3>2. QED
      BY <3>1, FS_Singleton
  <2>3. QED
    BY <2>1, <2>2
<1>3. QED
  BY <1>1, <1>2

\* One default of each kind is what no two rows that are defaults contradict.
LEMMA OneIsSingle ==
  ASSUME TracksApart, NEW m, OneDefault(m)
  PROVE  Single(m)
<1> SUFFICES ASSUME NEW t \in tracks, NEW u \in tracks, t.media = m, u.media = m, t.kind = u.kind, t.def, u.def
             PROVE  t = u
  BY DEF Single
<1>1. PICK kind \in {"external", "embedded"} : kind = t.kind
  BY DEF TracksApart
<1>2. IsFiniteSet(Defaults(m, kind)) /\ t \in Defaults(m, kind) /\ u \in Defaults(m, kind)
  BY <1>1, FS_Subset DEF TracksApart, Defaults, TracksOf
<1>3. Cardinality(Defaults(m, kind)) <= 1
  BY DEF OneDefault
<1>4. QED
  BY <1>2, <1>3, AtMostOne

\* Two defaults are one, so that there is one at most.
LEMMA SingleIsOne ==
  ASSUME TracksApart', NEW m, Single(m)'
  PROVE  OneDefault(m)'
<1> SUFFICES ASSUME NEW kind \in {"external", "embedded"} PROVE Cardinality(Defaults(m, kind)') <= 1
  BY DEF OneDefault
<1>1. PICK S : S = Defaults(m, kind)'
  OBVIOUS
<1>2. \A t \in S : t \in tracks' /\ t.media = m /\ t.kind = kind /\ t.def
  BY <1>1 DEF Defaults, TracksOf
<1>3. IsFiniteSet(S)
  BY <1>2, FS_Subset DEF TracksApart
<1>4. \A t, u \in S : t = u
  BY <1>2 DEF Single
<1>5. QED
  BY <1>1, <1>3, <1>4, AtMostOne

\* What a statement of a request about tracks has to show.
LEMMA DefaultStep ==
  ASSUME LibInv, RefInv, DefaultInv, NEW h \in Handlers, NEW r, GoOn(h, r), Open(h), Turn(h),
         TracksApart', Trusted(h) => \A m : Single(m) => Single(m)',
         Trusted(h) /\ req[h].op = "patch" /\ req[h].at = "read" => r.at \notin Answered,
         r.at \notin Answered => /\ r.alone = req[h].alone /\ r.sound = req[h].sound
                                 /\ Trusted(h) => DefaultKnown(r)'
  PROVE  DefaultsKept
<1>1. UNCHANGED backend /\ (backend = "sqlite" => Trusted(h))
  BY AfterGoOn DEF Trusted, Isolated
<1>2. (backend = "sqlite" => \A m \in Media : Single(m))'
  BY <1>1 DEF DefaultInv
<1>3. ASSUME NEW g \in Handlers, Open(g)', Trusted(g)'
      PROVE  DefaultKnown(req[g])'
  <2>1. CASE g = h
    <3>1. r.at \notin Answered /\ req'[h] = r
      BY <1>3, <2>1, AfterGoOn DEF Open
    <3>2. Trusted(h)
      BY <1>1, <1>3, <2>1, <3>1 DEF Trusted, Isolated
    <3>3. QED
      BY <2>1, <3>1, <3>2
  <2>2. CASE g # h
    <3>1. PICK q : q = req[g] /\ q = req'[g]
      BY <1>3, <2>2, Undisturbed DEF Trusted
    <3>2. DefaultKnown(q) /\ q.at \in Away /\ backend = "sqlite"
      BY <1>3, <2>2, <3>1, Undisturbed DEF Trusted, DefaultInv
    <3>3. DefaultKnown(q)'
      BY <1>1, <3>2 DEF DefaultKnown, Away
    <3>4. QED
      BY <3>1, <3>3
  <2>3. QED
    BY <2>1, <2>2
<1>4. DefaultInv'
  BY <1>2, <1>3 DEF DefaultInv, Trusted
<1>5. DefaultsLeft
  <2> SUFFICES ASSUME NEW g \in Handlers, NEW m \in Media, Ends(g), Isolated(g), req[g].sound,
                      req[g].op \in {"attach", "embed", "patch"}, m = MediaOf(req[g])
               PROVE  OneDefault(m)'
    BY DEF DefaultsLeft
  <2>1. g = h /\ r.at \in Answered /\ Trusted(h)
    BY AnswersItself DEF Trusted
  <2>2. Single(m)
    <3>1. CASE backend = "sqlite"
      BY <3>1 DEF DefaultInv
    <3>2. CASE backend # "sqlite"
      BY <2>1, <3>2 DEF DefaultInv, DefaultKnown, MediaOf, Trusted
    <3>3. QED
      BY <3>1, <3>2
  <2>3. QED
    BY <2>1, <2>2, SingleIsOne
<1>6. QED
  BY <1>4, <1>5 DEF DefaultsKept

\* What its beginning has to show.
LEMMA DefaultAtFirst ==
  ASSUME LibInv, DefaultInv, NEW h \in Handlers, NEW op, NEW at, NEW on, NEW arg, NEW sound \in BOOLEAN,
         Begin(h, op, at, on, arg, sound), at \notin Answered, UNCHANGED tracks,
         op = "attach" => at = "parent" /\ (sound => Single(on)),
         op = "embed" => at = "find" /\ (sound => Single(on)),
         op = "patch" => at = "read" /\ \E t \in tracks : t.id = on /\ (sound => Single(t.media))
  PROVE  DefaultsKept
<1>1. UNCHANGED backend /\ \A m : Single(m)' <=> Single(m)
  BY AtFirst DEF Single
<1>2. TracksApart' /\ (backend = "sqlite" => \A m \in Media : Single(m))'
  BY <1>1 DEF DefaultInv, TracksApart
<1>3. ASSUME NEW g \in Handlers, Open(g)', Trusted(g)'
      PROVE  DefaultKnown(req[g])'
  <2>1. PICK q : q = req'[g]
    OBVIOUS
  <2>2. CASE g = h
    <3>1. q.op = op /\ q.at = at /\ q.on = on /\ q.sound = sound
      BY <2>1, <2>2, AtFirst
    <3>2. backend # "sqlite" => sound
      BY <1>1, <1>3, <2>1, <2>2, <3>1 DEF Trusted
    <3>3. DefaultKnown(q)'
      BY <1>1, <3>1, <3>2 DEF DefaultKnown
    <3>4. QED
      BY <2>1, <3>3
  <2>3. CASE g # h
    <3>1. /\ Open(g) /\ Isolated(g) /\ backend = "sqlite" /\ q.at \in Away
          /\ q.op = req[g].op /\ q.at = req[g].at
      BY <1>3, <2>1, <2>3, UndisturbedAtFirst DEF Trusted
    <3>2. DefaultKnown(req[g])
      BY <3>1 DEF DefaultInv
    <3>3. DefaultKnown(q)'
      BY <1>1, <3>1, <3>2 DEF DefaultKnown, Away
    <3>4. QED
      BY <2>1, <3>3
  <2>4. QED
    BY <2>2, <2>3
<1>4. DefaultInv'
  BY <1>2, <1>3 DEF DefaultInv, Trusted
<1>5. DefaultsLeft
  BY NobodyEnds DEF DefaultsLeft
<1>6. QED
  BY <1>4, <1>5 DEF DefaultsKept

\* What is not about tracks, or takes some away.
LEMMA DefaultAside ==
  ASSUME LibInv, RefInv, DefaultInv, NEW h \in Handlers, NEW ops, Steps(h, ops),
         ops \cap {"attach", "embed", "patch"} = {}, tracks' \subseteq tracks
  PROVE  DefaultsKept
<1>1. PICK r : /\ GoOn(h, r) /\ Open(h) /\ Turn(h) /\ r.op = req[h].op
               /\ r.op \notin {"attach", "embed", "patch"}
  BY DEF Steps
<1>2. TracksApart' /\ \A m : Single(m) => Single(m)'
  BY FS_Subset DEF DefaultInv, TracksApart, Single
<1>3. UNCHANGED backend /\ (backend = "sqlite" => \A m \in Media : Single(m))'
  BY <1>1, <1>2, AfterGoOn DEF DefaultInv
<1>4. ASSUME NEW g \in Handlers, Open(g)', Trusted(g)'
      PROVE  DefaultKnown(req[g])'
  <2>1. CASE g = h
    <3>1. req'[h] = r
      BY <1>1, <1>4, <2>1, AfterGoOn DEF Open
    <3>2. DefaultKnown(r)'
      BY <1>1 DEF DefaultKnown
    <3>3. QED
      BY <2>1, <3>1, <3>2
  <2>2. CASE g # h
    <3>1. PICK q : q = req[g] /\ q = req'[g]
      BY <1>1, <1>4, <2>2, Undisturbed DEF Trusted
    <3>2. DefaultKnown(q) /\ q.at \in Away /\ backend = "sqlite"
      BY <1>1, <1>4, <2>2, <3>1, Undisturbed DEF Trusted, DefaultInv
    <3>3. DefaultKnown(q)'
      BY <1>3, <3>2 DEF DefaultKnown, Away
    <3>4. QED
      BY <3>1, <3>3
  <2>3. QED
    BY <2>1, <2>2
<1>5. DefaultInv'
  BY <1>2, <1>3, <1>4 DEF DefaultInv, Trusted
<1>6. DefaultsLeft
  BY <1>1, AnswersItself DEF DefaultsLeft
<1>7. QED
  BY <1>5, <1>6 DEF DefaultsKept

\* A request that is not about tracks begins.
LEMMA DefaultAsideAtFirst ==
  ASSUME LibInv, DefaultInv, NEW h \in Handlers, NEW ops, NEW ats, Begins(h, ops, ats),
         ats \cap Answered = {}, ops \cap {"attach", "embed", "patch"} = {}, UNCHANGED tracks
  PROVE  DefaultsKept
<1>1. PICK op \in ops, at \in ats : \E on, arg, sound : Begin(h, op, at, on, arg, sound)
  BY DEF Begins
<1>2. PICK on, arg, sound : Begin(h, op, at, on, arg, sound)
  BY <1>1
<1>4. TracksApart' /\ (backend = "sqlite" => \A m \in Media : Single(m))' /\ UNCHANGED backend
  BY <1>2, AtFirst DEF DefaultInv, TracksApart, Single
<1>5. ASSUME NEW g \in Handlers, Open(g)', Trusted(g)'
      PROVE  DefaultKnown(req[g])'
  <2>1. PICK q : q = req'[g]
    OBVIOUS
  <2>2. CASE g = h
    <3>1. q.op = op
      BY <1>2, <2>1, <2>2, AtFirst
    <3>2. DefaultKnown(q)'
      BY <1>1, <3>1 DEF DefaultKnown
    <3>3. QED
      BY <2>1, <3>2
  <2>3. CASE g # h
    <3>1. /\ Open(g) /\ Isolated(g) /\ backend = "sqlite" /\ q.at \in Away
          /\ q.op = req[g].op /\ q.at = req[g].at
      BY <1>2, <1>5, <2>1, <2>3, UndisturbedAtFirst DEF Trusted
    <3>2. DefaultKnown(req[g])
      BY <3>1 DEF DefaultInv
    <3>3. DefaultKnown(q)'
      BY <1>4, <3>1, <3>2 DEF DefaultKnown, Away
    <3>4. QED
      BY <2>1, <3>3
  <2>4. QED
    BY <2>2, <2>3
<1>6. DefaultInv'
  BY <1>4, <1>5 DEF DefaultInv, Trusted
<1>7. DefaultsLeft
  BY <1>1, <1>2, NobodyEnds DEF DefaultsLeft
<1>8. QED
  BY <1>6, <1>7 DEF DefaultsKept

\* Rows whose flags have been set anew, where S holds.
LEMMA FlagsAnew ==
  ASSUME TracksApart, TracksOK, NEW def \in BOOLEAN, NEW S,
         tracks' = {IF t \in S THEN [t EXCEPT !.def = def] ELSE t : t \in tracks}
  PROVE  /\ TracksApart'
         /\ \A u \in tracks' : \E t \in tracks :
              /\ u.id = t.id /\ u.media = t.media /\ u.kind = t.kind
              /\ t \in S => u.def = def
              /\ t \notin S => u = t
         /\ \A t \in tracks : \E u \in tracks' : u.id = t.id /\ u.media = t.media /\ u.kind = t.kind
<1>1. PICK new : new = [t \in tracks |-> IF t \in S THEN [t EXCEPT !.def = def] ELSE t]
  OBVIOUS
<1>2. tracks' = {new[t] : t \in tracks}
  BY <1>1
<1>3. ASSUME NEW t \in tracks
      PROVE  /\ new[t].id = t.id /\ new[t].media = t.media /\ new[t].kind = t.kind
             /\ t \in S => new[t].def = def
             /\ t \notin S => new[t] = t
  <2>1. DOMAIN t = TrackFields
    BY DEF TracksOK
  <2>2. QED
    BY <1>1, <2>1 DEF TrackFields
<1>4. IsFiniteSet(tracks')
  <2>1. new \in Surjection(tracks, tracks')
    BY <1>1, <1>2 DEF Surjection
  <2>2. QED
    BY <2>1, FS_Surjection DEF TracksApart
<1>5. \A u, v \in tracks' : u.id = v.id => u = v
  <2> SUFFICES ASSUME NEW t \in tracks, NEW s \in tracks, new[t].id = new[s].id PROVE new[t] = new[s]
    BY <1>2
  <2>1. t = s
    BY <1>3 DEF TracksApart
  <2>2. QED
    BY <2>1
<1>6. \A u \in tracks' : u.kind \in {"external", "embedded"}
  BY <1>2, <1>3 DEF TracksApart
<1>7. TracksApart'
  BY <1>4, <1>5, <1>6 DEF TracksApart
<1>8. QED
  BY <1>2, <1>3, <1>7

\* Of the tracks of this kind of a medium none but one row is left a default.
Cleared(m, kind, id) ==
  tracks' = {IF t \in TracksOf(m, kind) /\ t.id # id THEN [t EXCEPT !.def = FALSE] ELSE t : t \in tracks}
\* After clearDefaultFlagSiblings no row but the one excepted is a default of its kind.
LEMMA Clears ==
  ASSUME TracksApart, TracksOK, NEW m, NEW kind, NEW id, Cleared(m, kind, id)
  PROVE  /\ TracksApart' /\ NoneBut(m, kind, id)'
         /\ \A n : Single(n) => Single(n)'
         /\ \A u \in tracks' : \E t \in tracks : u.id = t.id /\ u.media = t.media /\ u.kind = t.kind
         /\ \A t \in tracks : \E u \in tracks' : u.id = t.id /\ u.media = t.media /\ u.kind = t.kind
<1>1. PICK S : S = {t \in tracks : t.media = m /\ t.kind = kind /\ t.id # id}
  OBVIOUS
<1>2. tracks' = {IF t \in S THEN [t EXCEPT !.def = FALSE] ELSE t : t \in tracks}
  BY <1>1 DEF Cleared, TracksOf
<1>3. /\ TracksApart'
      /\ \A u \in tracks' : \E t \in tracks :
           /\ u.id = t.id /\ u.media = t.media /\ u.kind = t.kind
           /\ t \in S => u.def = FALSE
           /\ t \notin S => u = t
      /\ \A t \in tracks : \E u \in tracks' : u.id = t.id /\ u.media = t.media /\ u.kind = t.kind
  BY <1>2, FlagsAnew
<1>4. ASSUME NEW u \in tracks', u.def PROVE u \in tracks /\ u \notin S
  BY <1>3, <1>4
<1>5. NoneBut(m, kind, id)'
  BY <1>1, <1>4 DEF NoneBut
<1>6. \A n : Single(n) => Single(n)'
  BY <1>4 DEF Single
<1>7. QED
  BY <1>3, <1>5, <1>6

\* The flag of one row is set: it becomes a default only if no other is one.
FlagSet(id, def) == tracks' = {IF t.id = id THEN [t EXCEPT !.def = def] ELSE t : t \in tracks}
\* Where a row gets the flag no other has, one has it at most.
LEMMA Sets ==
  ASSUME TracksApart, TracksOK, NEW m, NEW kind, NEW id, NEW def \in BOOLEAN, FlagSet(id, def),
         \A t \in tracks : t.id = id => t.media = m /\ t.kind = kind,
         def => NoneBut(m, kind, id)
  PROVE  TracksApart' /\ \A n : Single(n) => Single(n)'
<1>1. PICK S : S = {t \in tracks : t.id = id}
  OBVIOUS
<1>2. tracks' = {IF t \in S THEN [t EXCEPT !.def = def] ELSE t : t \in tracks}
  BY <1>1 DEF FlagSet
<1>3. /\ TracksApart'
      /\ \A u \in tracks' : \E t \in tracks :
           /\ u.id = t.id /\ u.media = t.media /\ u.kind = t.kind
           /\ t \in S => u.def = def
           /\ t \notin S => u = t
  BY <1>2, FlagsAnew
<1>4. ASSUME NEW n, Single(n), NEW u \in tracks', NEW v \in tracks', u.media = n, v.media = n, u.kind = v.kind, u.def, v.def
      PROVE  u = v
  <2>1. PICK t \in tracks : /\ u.id = t.id /\ u.media = t.media /\ u.kind = t.kind
                            /\ t \in S => u.def = def
                            /\ t \notin S => u = t
    BY <1>3
  <2>2. PICK s \in tracks : /\ v.id = s.id /\ v.media = s.media /\ v.kind = s.kind
                            /\ s \in S => v.def = def
                            /\ s \notin S => v = s
    BY <1>3
  <2>3. CASE t \notin S /\ s \notin S
    BY <1>4, <2>1, <2>2, <2>3 DEF Single
  <2>4. CASE t \in S \/ s \in S
    <3>1. def /\ n = m /\ u.kind = kind
      BY <1>1, <1>4, <2>1, <2>2, <2>4
    <3>2. t \notin S => t.id = id
      BY <1>4, <2>1, <3>1 DEF NoneBut
    <3>3. s \notin S => s.id = id
      BY <1>4, <2>2, <3>1 DEF NoneBut
    <3>4. u.id = v.id
      BY <1>1, <2>1, <2>2, <3>2, <3>3
    <3>5. QED
      BY <1>3, <3>4 DEF TracksApart
  <2>5. QED
    BY <2>3, <2>4
<1>5. QED
  BY <1>3, <1>4 DEF Single

\* A row is added: as a default only if there is none.
LEMMA Inserts ==
  ASSUME TracksApart, TracksOK, NEW new, tracks' = tracks \cup {new},
         \A t \in tracks : t.id # new.id, new.kind \in {"external", "embedded"},
         new.def => NoneBut(new.media, new.kind, 0)
  PROVE  TracksApart' /\ \A n : Single(n) => Single(n)'
<1>1. IsFiniteSet(tracks')
  BY FS_AddElement DEF TracksApart
<1>2. TracksApart'
  BY <1>1 DEF TracksApart
<1>3. \A t \in tracks : t.id # 0
  BY DEF TracksOK
<1>4. ASSUME NEW n, Single(n), NEW u \in tracks', NEW v \in tracks', u.media = n, v.media = n, u.kind = v.kind, u.def, v.def
      PROVE  u = v
  <2>1. CASE u = new /\ v \in tracks
    BY <1>3, <1>4, <2>1 DEF NoneBut
  <2>2. CASE v = new /\ u \in tracks
    BY <1>3, <1>4, <2>2 DEF NoneBut
  <2>3. CASE u \in tracks /\ v \in tracks
    BY <1>4, <2>3 DEF Single
  <2>4. QED
    BY <1>4, <2>1, <2>2, <2>3
<1>5. QED
  BY <1>2, <1>4 DEF Single

\* Rows that go leave one default at most.
LEMMA Fewer ==
  ASSUME TracksApart, tracks' \subseteq tracks
  PROVE  TracksApart' /\ \A n : Single(n) => Single(n)'
  BY FS_Subset DEF TracksApart, Single

\* External tracks, by attachExternal.
LEMMA AttachDefaults ==
  ASSUME LibInv, RefInv, DefaultInv, NEW h \in Handlers, StepSubtitles(h), req[h].op = "attach"
  PROVE  DefaultsKept
<1>1. /\ Open(h) /\ Turn(h) /\ DOMAIN req[h] = RequestFields /\ SubtitleRequestOK(req[h])
      /\ req[h].alone \in BOOLEAN /\ req[h].sound \in BOOLEAN /\ TracksOK /\ TracksApart
  BY SubtitleKnows DEF DefaultInv
<1>2. PICK q : q = req[h]
  OBVIOUS
<1>3. q.op = "attach" /\ DOMAIN q = RequestFields /\ q.arg[1] \in BOOLEAN
  BY <1>1, <1>2 DEF SubtitleRequestOK
<1>4. Trusted(h) => (backend # "sqlite" => Single(q.on)) /\ (q.at = "insert" /\ q.arg[1] => NoneBut(q.on, "external", 0))
  BY <1>1, <1>2, <1>3 DEF DefaultInv, Trusted, DefaultKnown
\* where it goes on, it asks that the rows be so
<1>5. ASSUME NEW r, GoOn(h, r), TracksApart', \A m : Single(m) => Single(m)',
             r.at \notin Answered =>
               /\ r.op = "attach" /\ r.on = q.on /\ r.arg = q.arg /\ r.alone = q.alone /\ r.sound = q.sound
               /\ r.at \in {"file", "clear", "insert", "made", "unlink"}
               /\ r.at = "insert" /\ r.arg[1] => NoneBut(r.on, "external", 0)'
      PROVE  DefaultsKept
  <2>1. UNCHANGED backend
    BY <1>5, AfterGoOn
  <2>2. ASSUME r.at \notin Answered, Trusted(h) PROVE DefaultKnown(r)'
    BY <1>4, <1>5, <2>1, <2>2 DEF DefaultKnown
  <2>3. QED
    BY <1>1, <1>2, <1>3, <1>5, <2>2, DefaultStep
<1>6. ASSUME NEW at, GoTo(h, at), TracksApart', \A m : Single(m) => Single(m)',
             at \notin Answered => /\ at \in {"file", "clear", "insert", "made", "unlink"}
                                   /\ at = "insert" /\ q.arg[1] => NoneBut(q.on, "external", 0)'
      PROVE  DefaultsKept
  <2>1. PICK r : r = [req[h] EXCEPT !.at = at]
    OBVIOUS
  <2>2. /\ GoOn(h, r) /\ r.at = at /\ r.op = q.op /\ r.on = q.on /\ r.arg = q.arg
        /\ r.alone = q.alone /\ r.sound = q.sound
    BY <1>1, <1>2, <1>6, <2>1, GoesTo
  <2>3. QED
    BY <1>3, <1>5, <1>6, <2>2
<1>7. ASSUME NEW r, r = Done(q) \/ r = Failed(q), GoOn(h, r), TracksApart', \A m : Single(m) => Single(m)'
      PROVE  DefaultsKept
  <2>1. r.at \notin Answered =>
          /\ r.op = "attach" /\ r.on = q.on /\ r.arg = q.arg /\ r.alone = q.alone /\ r.sound = q.sound
          /\ r.at = "unlink"
    BY <1>3, <1>7 DEF Done, Failed, RequestFields, Answered
  <2>2. QED
    BY <1>5, <1>7, <2>1
<1>8. UNCHANGED tracks => TracksApart' /\ \A m : Single(m) => Single(m)'
  BY <1>1, Fewer
<1>9. CASE CheckParent(h)
  BY <1>6, <1>8, <1>9 DEF CheckParent, subtitleVars, Answered
<1>10. CASE saveSubtitle(h)
  <2>1. PICK k, at : /\ GoOn(h, [q EXCEPT !.k = k, !.at = at])
                     /\ at = IF WantsDefault(q) THEN "clear" ELSE "insert"
    BY <1>2, <1>10 DEF saveSubtitle
  <2>2. PICK r : r = [q EXCEPT !.k = k, !.at = at]
    OBVIOUS
  <2>3. GoOn(h, r)
    BY <2>1, <2>2
  <2>4. r.op = "attach" /\ r.on = q.on /\ r.arg = q.arg /\ r.alone = q.alone /\ r.sound = q.sound /\ r.at = at
    BY <1>3, <2>2 DEF RequestFields
  <2>5. at \in {"clear", "insert"} /\ (at = "insert" => ~q.arg[1])
    BY <1>3, <2>1 DEF WantsDefault
  <2>6. QED
    BY <1>5, <1>8, <1>10, <2>3, <2>4, <2>5 DEF saveSubtitle
<1>11. CASE clearDefaultFlagSiblings(h)
  <2>1. Cleared(q.on, "external", 0) /\ GoTo(h, "insert")
    BY <1>2, <1>3, <1>11 DEF clearDefaultFlagSiblings, MediaOf, KindOf, Existing, Cleared
  <2>2. TracksApart' /\ NoneBut(q.on, "external", 0)' /\ \A n : Single(n) => Single(n)'
    BY <1>1, <2>1, Clears
  <2>3. QED
    BY <1>6, <2>1, <2>2
<1>12. CASE createExternalSubtitle(h)
  <2>1. q.at = "insert"
    BY <1>2, <1>12 DEF createExternalSubtitle, At
  <2>2. CASE GoOn(h, Failed(q)) /\ UNCHANGED tracks
    BY <1>7, <1>8, <2>2
  <2>3. CASE ~(GoOn(h, Failed(q)) /\ UNCHANGED tracks)
    <3>1. PICK new : new = ExternalTrack(q)
      OBVIOUS
    <3>2. tracks' = tracks \cup {new} /\ (GoOn(h, Done(q)) \/ GoTo(h, "made"))
      BY <1>2, <1>12, <2>3, <3>1 DEF createExternalSubtitle
    <3>3. new.id = q.k /\ new.media = q.on /\ new.kind = "external" /\ new.def = q.arg[1]
      BY <1>3, <3>1 DEF ExternalTrack, WantsDefault
    <3>4. \A t \in tracks : t.id # new.id
      BY <1>2, <1>3, <2>1, <3>3 DEF LibInv, FilesOK, NotYetRows, Handles
    <3>5. UNCHANGED backend
      BY <3>2, AfterGoOn DEF GoTo
    \* whoever is not trusted is not on SQLite, and asks for nothing but rows with ids of their own
    <3>6. TracksApart' /\ (Trusted(h) => \A n : Single(n) => Single(n)')
      <4>1. TracksApart'
        <5>1. IsFiniteSet(tracks')
          BY <1>1, <3>2, FS_AddElement DEF TracksApart
        <5>2. QED
          BY <1>1, <3>2, <3>3, <3>4, <5>1 DEF TracksApart
      <4>2. ASSUME Trusted(h) PROVE \A n : Single(n) => Single(n)'
        BY <1>1, <1>4, <2>1, <3>2, <3>3, <3>4, <4>2, Inserts
      <4>3. QED
        BY <4>1, <4>2
    <3>7. ASSUME NEW r, GoOn(h, r),
                 r.at \notin Answered =>
                   /\ r.op = "attach" /\ r.on = q.on /\ r.alone = q.alone /\ r.sound = q.sound
                   /\ r.at \in {"made", "unlink"}
          PROVE  DefaultsKept
      <4>1. ASSUME r.at \notin Answered, Trusted(h) PROVE DefaultKnown(r)'
        BY <1>4, <3>5, <3>6, <3>7, <4>1 DEF DefaultKnown
      <4>2. QED
        BY <1>1, <1>2, <1>3, <3>6, <3>7, <4>1, DefaultStep
    <3>8. CASE GoTo(h, "made")
      <4>1. PICK r : r = [req[h] EXCEPT !.at = "made"]
        OBVIOUS
      <4>2. /\ GoOn(h, r) /\ r.at = "made" /\ r.op = q.op /\ r.on = q.on
            /\ r.alone = q.alone /\ r.sound = q.sound
        BY <1>1, <1>2, <3>8, <4>1, GoesTo
      <4>3. QED
        BY <1>3, <3>7, <4>2
    <3>9. CASE GoOn(h, Done(q))
      <4>1. Done(q).at \in Answered
        BY <1>3 DEF Done, RequestFields, Answered
      <4>2. QED
        BY <3>7, <3>9, <4>1
    <3>10. QED
      BY <3>2, <3>8, <3>9
  <2>4. QED
    BY <2>2, <2>3
<1>13. CASE ReadBack(h)
  BY <1>2, <1>7, <1>8, <1>13 DEF ReadBack, subtitleVars
<1>14. CASE deleteFile(h)
  BY <1>2, <1>3, <1>6, <1>8, <1>14 DEF deleteFile, Answered
<1>15. QED
  BY <1>9, <1>10, <1>11, <1>12, <1>13, <1>14 DEF StepSubtitles, FindStream, createEmbeddedSubtitle,
     pruneEmbeddedSubtitles, ReadTrack, updateSubtitle, deleteSubtitle, At

\* The deletion of a track.
LEMMA DetachDefaults ==
  ASSUME LibInv, RefInv, DefaultInv, NEW h \in Handlers, StepSubtitles(h), req[h].op = "detach"
  PROVE  DefaultsKept
<1>1. /\ Open(h) /\ Turn(h) /\ DOMAIN req[h] = RequestFields /\ TracksApart
  BY SubtitleKnows DEF DefaultInv
<1>2. PICK r : /\ GoOn(h, r) /\ r.op = "detach" /\ tracks' \subseteq tracks
               /\ r.alone = req[h].alone /\ r.sound = req[h].sound
  <2>1. CASE (\E at : GoTo(h, at)) /\ tracks' \subseteq tracks
    <3>1. PICK at : GoTo(h, at)
      BY <2>1
    <3>2. PICK r : r = [req[h] EXCEPT !.at = at]
      OBVIOUS
    <3>3. GoOn(h, r) /\ r.op = req[h].op /\ r.alone = req[h].alone /\ r.sound = req[h].sound
      BY <1>1, <3>1, <3>2, GoesTo
    <3>4. QED
      BY <2>1, <3>3
  <2>2. CASE ReadTrack(h) /\ ~\E at : GoTo(h, at)
    <3>1. PICK list, k, at : GoOn(h, [req[h] EXCEPT !.list = list, !.k = k, !.at = at])
      BY <2>2 DEF ReadTrack
    <3>2. PICK r : r = [req[h] EXCEPT !.list = list, !.k = k, !.at = at]
      OBVIOUS
    <3>3. GoOn(h, r)
      BY <3>1, <3>2
    <3>4. r.op = req[h].op /\ r.alone = req[h].alone /\ r.sound = req[h].sound
      BY <1>1, <3>2 DEF RequestFields
    <3>5. tracks' \subseteq tracks
      BY <2>2 DEF ReadTrack, subtitleVars
    <3>6. QED
      BY <3>3, <3>4, <3>5
  <2>3. deleteFile(h) \/ deleteSubtitle(h) => (\E at : GoTo(h, at)) /\ tracks' \subseteq tracks
    BY DEF deleteFile, deleteSubtitle
  <2>4. ReadTrack(h) => tracks' \subseteq tracks
    BY DEF ReadTrack, subtitleVars
  <2>5. ReadTrack(h) \/ deleteFile(h) \/ deleteSubtitle(h)
    BY DEF StepSubtitles, CheckParent, saveSubtitle, clearDefaultFlagSiblings, createExternalSubtitle, ReadBack,
       FindStream, createEmbeddedSubtitle, pruneEmbeddedSubtitles, updateSubtitle, At
  <2>6. QED
    BY <2>1, <2>2, <2>3, <2>4, <2>5
<1>3. TracksApart' /\ \A m : Single(m) => Single(m)'
  BY <1>1, <1>2, Fewer
<1>4. DefaultKnown(r)'
  BY <1>2 DEF DefaultKnown
<1>5. QED
  BY <1>1, <1>2, <1>3, <1>4, DefaultStep

\* Embedded tracks, by persistEmbeddedSubtitles.
LEMMA EmbedDefaults ==
  ASSUME LibInv, RefInv, DefaultInv, NEW h \in Handlers, StepSubtitles(h), req[h].op = "embed"
  PROVE  DefaultsKept
<1>1. /\ Open(h) /\ Turn(h) /\ DOMAIN req[h] = RequestFields /\ SubtitleRequestOK(req[h])
      /\ req[h].alone \in BOOLEAN /\ req[h].sound \in BOOLEAN /\ TracksOK /\ TracksApart /\ nextTrack \in Nat \ {0}
  BY SubtitleKnows DEF DefaultInv
<1>2. PICK q : q = req[h]
  OBVIOUS
<1>3. /\ q.op = "embed" /\ DOMAIN q = RequestFields
      /\ q.at # "prune" => q.arg \in Seq([stream : Int, def : BOOLEAN]) /\ q.arg # <<>>
  BY <1>1, <1>2 DEF SubtitleRequestOK
<1>4. Trusted(h) =>
        /\ backend # "sqlite" => Single(q.on)
        /\ q.at \in {"insert", "set"} /\ Head(q.arg).def => NoneBut(q.on, "embedded", q.k)
        /\ q.at = "insert" => q.k = 0
        /\ q.at \in {"clear", "set"} => \A t \in tracks : t.id = q.k => t.media = q.on /\ t.kind = "embedded"
  BY <1>1, <1>2, <1>3 DEF DefaultInv, Trusted, DefaultKnown
<1>5. q.at # "prune" => Head(q.arg).def \in BOOLEAN
  <2>1. q.at # "prune" => Head(q.arg) \in [stream : Int, def : BOOLEAN]
    BY <1>3, HeadTailProperties
  <2>2. QED
    BY <2>1
\* where it goes on, it asks that the rows be so
<1>6. ASSUME NEW r, GoOn(h, r), TracksApart', Trusted(h) => \A m : Single(m) => Single(m)',
             r.at \notin Answered =>
               /\ r.op = "embed" /\ r.on = q.on /\ r.alone = q.alone /\ r.sound = q.sound
               /\ r.at \in {"find", "clear", "insert", "set", "made", "prune"}
               /\ Trusted(h) =>
                    /\ r.at \in {"insert", "set"} /\ Head(r.arg).def => NoneBut(r.on, "embedded", r.k)'
                    /\ r.at = "insert" => r.k = 0
                    /\ r.at \in {"clear", "set"} => \A t \in tracks' : t.id = r.k => t.media = r.on /\ t.kind = "embedded"
      PROVE  DefaultsKept
  <2>1. UNCHANGED backend
    BY <1>6, AfterGoOn
  <2>2. ASSUME r.at \notin Answered, Trusted(h) PROVE DefaultKnown(r)'
    BY <1>4, <1>6, <2>1, <2>2 DEF DefaultKnown
  <2>3. QED
    BY <1>1, <1>2, <1>3, <1>6, <2>2, DefaultStep
<1>7. ASSUME NEW r, r = Done(q) \/ r = Failed(q), GoOn(h, r), TracksApart', Trusted(h) => \A m : Single(m) => Single(m)'
      PROVE  DefaultsKept
  <2>1. r.at \notin Answered =>
          /\ r.op = "embed" /\ r.on = q.on /\ r.alone = q.alone /\ r.sound = q.sound
          /\ r.at \in {"find", "prune"}
    BY <1>3, <1>7 DEF Done, Failed, RequestFields, Answered
  <2>2. QED
    BY <1>6, <1>7, <2>1
<1>8. UNCHANGED tracks => TracksApart' /\ \A m : Single(m) => Single(m)'
  BY <1>1, Fewer
<1>9. CASE clearDefaultFlagSiblings(h)
  <2>1. /\ Cleared(q.on, "embedded", q.k) /\ GoTo(h, IF q.k = 0 THEN "insert" ELSE "set")
        /\ q.at = "clear"
    BY <1>2, <1>3, <1>9 DEF clearDefaultFlagSiblings, MediaOf, KindOf, Existing, Cleared, At
  <2>2. PICK at : GoTo(h, at) /\ at = IF q.k = 0 THEN "insert" ELSE "set"
    BY <2>1
  <2>3. /\ TracksApart' /\ NoneBut(q.on, "embedded", q.k)' /\ \A n : Single(n) => Single(n)'
        /\ \A u \in tracks' : \E t \in tracks : u.id = t.id /\ u.media = t.media /\ u.kind = t.kind
    BY <1>1, <2>1, Clears
  <2>4. PICK r : r = [req[h] EXCEPT !.at = at]
    OBVIOUS
  <2>5. /\ GoOn(h, r) /\ r.at = at /\ r.op = q.op /\ r.on = q.on /\ r.k = q.k
        /\ r.alone = q.alone /\ r.sound = q.sound
    BY <1>1, <1>2, <2>2, <2>4, GoesTo
  <2>6. Trusted(h) => \A t \in tracks' : t.id = q.k => t.media = q.on /\ t.kind = "embedded"
    BY <1>4, <2>1, <2>3
  <2>7. QED
    BY <1>3, <1>6, <2>2, <2>3, <2>5, <2>6
<1>10. CASE ReadBack(h)
  BY <1>2, <1>7, <1>8, <1>10 DEF ReadBack, subtitleVars
<1>11. CASE FindStream(h)
  <2>1. q.at = "find" /\ UNCHANGED tracks
    BY <1>2, <1>11 DEF FindStream, At, subtitleVars
  <2>2. PICK k, at :
          /\ GoOn(h, [q EXCEPT !.k = k, !.at = at])
          /\ at \in {"clear", "insert", "set"} /\ (WantsDefault(q) => at = "clear")
          /\ \/ k = 0 /\ at # "set"
             \/ at # "insert" /\ \E t \in tracks : t.id = k /\ t.media = q.on /\ t.kind = "embedded"
    <3>1. PICK rows, next :
            /\ rows = {t \in TracksOf(q.on, "embedded") : t.stream = Head(q.arg).stream}
            /\ next = IF WantsDefault(q) THEN "clear" ELSE IF rows = {} THEN "insert" ELSE "set"
      OBVIOUS
    <3>2. \/ rows = {} /\ GoOn(h, [q EXCEPT !.k = 0, !.at = next])
          \/ \E t \in rows : GoOn(h, [q EXCEPT !.k = t.id, !.at = next])
      BY <1>2, <1>11, <3>1, ZenonT(60) DEF FindStream
    <3>3. ASSUME rows = {} /\ GoOn(h, [q EXCEPT !.k = 0, !.at = next])
          PROVE  \E k, at :
                   /\ GoOn(h, [q EXCEPT !.k = k, !.at = at])
                   /\ at \in {"clear", "insert", "set"} /\ (WantsDefault(q) => at = "clear")
                   /\ \/ k = 0 /\ at # "set"
                      \/ at # "insert" /\ \E s \in tracks : s.id = k /\ s.media = q.on /\ s.kind = "embedded"
      <4>1. PICK k : k = 0
        OBVIOUS
      <4>2. next \in {"clear", "insert", "set"} /\ (WantsDefault(q) => next = "clear") /\ next # "set"
        BY <3>1, <3>3
      <4>3. GoOn(h, [q EXCEPT !.k = k, !.at = next])
        BY <3>3, <4>1
      <4>4. QED
        BY <4>1, <4>2, <4>3
    <3>4. ASSUME NEW t \in rows, GoOn(h, [q EXCEPT !.k = t.id, !.at = next])
          PROVE  \E k, at :
                   /\ GoOn(h, [q EXCEPT !.k = k, !.at = at])
                   /\ at \in {"clear", "insert", "set"} /\ (WantsDefault(q) => at = "clear")
                   /\ \/ k = 0 /\ at # "set"
                      \/ at # "insert" /\ \E s \in tracks : s.id = k /\ s.media = q.on /\ s.kind = "embedded"
      <4>1. t \in tracks /\ t.media = q.on /\ t.kind = "embedded"
        BY <3>1 DEF TracksOf
      <4>2. next \in {"clear", "insert", "set"} /\ (WantsDefault(q) => next = "clear") /\ next # "insert"
        BY <3>1
      <4>3. PICK k : k = t.id
        OBVIOUS
      <4>4. \E s \in tracks : s.id = k /\ s.media = q.on /\ s.kind = "embedded"
        BY <4>1, <4>3
      <4>5. QED
        BY <3>4, <4>2, <4>3, <4>4
    <3>5. QED
      BY <3>2, <3>3, <3>4
  <2>3. PICK r : r = [q EXCEPT !.k = k, !.at = at]
    OBVIOUS
  <2>4. GoOn(h, r)
    BY <2>2, <2>3
  <2>5. r.op = "embed" /\ r.on = q.on /\ r.arg = q.arg /\ r.alone = q.alone /\ r.sound = q.sound /\ r.at = at /\ r.k = k
    BY <1>3, <2>3 DEF RequestFields
  <2>6. Head(q.arg).def => at = "clear"
    BY <1>3, <2>2 DEF WantsDefault
  <2>7. \A t \in tracks : t.id = k => at # "insert" /\ t.media = q.on /\ t.kind = "embedded"
    BY <1>1, <2>2 DEF TracksApart, TracksOK
  <2>8. at = "insert" => k = 0
    BY <2>2
  <2>9. QED
    BY <1>6, <1>8, <2>1, <2>2, <2>4, <2>5, <2>6, <2>7, <2>8, SMTT(30)
<1>12. CASE createEmbeddedSubtitle(h)
  <2>1. q.at = "insert"
    BY <1>2, <1>12 DEF createEmbeddedSubtitle, At
  <2>2. CASE GoOn(h, Failed(q)) /\ UNCHANGED tracks
    BY <1>7, <1>8, <2>2
  <2>3. CASE ~(GoOn(h, Failed(q)) /\ UNCHANGED tracks)
    <3>1. PICK new :
            /\ new = [id |-> nextTrack, media |-> q.on, kind |-> "embedded", stream |-> Head(q.arg).stream,
                      def |-> Head(q.arg).def, file |-> 0]
            /\ tracks' = tracks \cup {new}
            /\ GoOn(h, Done(q)) \/ GoOn(h, [q EXCEPT !.k = nextTrack, !.at = "made"])
      BY <1>2, <1>12, <2>3 DEF createEmbeddedSubtitle
    <3>2. new.id = nextTrack /\ new.media = q.on /\ new.kind = "embedded" /\ new.def = Head(q.arg).def
      BY <3>1
    <3>3. \A t \in tracks : t.id # new.id
      BY <1>1, <3>2 DEF TracksOK
    <3>4. TracksApart'
      <4>1. IsFiniteSet(tracks')
        BY <1>1, <3>1, FS_AddElement DEF TracksApart
      <4>2. QED
        BY <1>1, <3>1, <3>2, <3>3, <4>1 DEF TracksApart
    <3>5. ASSUME Trusted(h) PROVE \A n : Single(n) => Single(n)'
      BY <1>1, <1>4, <2>1, <3>1, <3>2, <3>3, <3>5, Inserts
    <3>6. CASE GoOn(h, Done(q))
      BY <1>7, <3>4, <3>5, <3>6
    <3>7. CASE GoOn(h, [q EXCEPT !.k = nextTrack, !.at = "made"])
      <4>1. PICK r : r = [q EXCEPT !.k = nextTrack, !.at = "made"]
        OBVIOUS
      <4>2. GoOn(h, r)
        BY <3>7, <4>1
      <4>3. r.op = "embed" /\ r.on = q.on /\ r.alone = q.alone /\ r.sound = q.sound /\ r.at = "made"
        BY <1>3, <4>1 DEF RequestFields
      <4>4. QED
        BY <1>6, <3>4, <3>5, <4>2, <4>3
    <3>8. QED
      BY <3>1, <3>6, <3>7
  <2>4. QED
    BY <2>2, <2>3
<1>13. CASE pruneEmbeddedSubtitles(h)
  <2>1. PICK r : r = [req[h] EXCEPT !.at = "ok"]
    OBVIOUS
  <2>2. GoOn(h, r) /\ r.at = "ok" /\ tracks' \subseteq tracks
    BY <1>1, <1>13, <2>1, GoesTo DEF pruneEmbeddedSubtitles
  <2>3. QED
    BY <1>1, <1>6, <2>2, Fewer DEF Answered
<1>14. CASE updateSubtitle(h)
  <2>1. PICK def : def = Head(q.arg).def
    OBVIOUS
  <2>2. FlagSet(q.k, def) /\ q.at = "set"
    BY <1>2, <1>3, <1>14, <2>1 DEF updateSubtitle, WantsDefault, FlagSet, At
  <2>3. def \in BOOLEAN
    BY <1>5, <2>1, <2>2
  <2>4. PICK S : S = {t \in tracks : t.id = q.k}
    OBVIOUS
  <2>5. tracks' = {IF t \in S THEN [t EXCEPT !.def = def] ELSE t : t \in tracks}
    BY <2>2, <2>4 DEF FlagSet
  <2>6. TracksApart'
    BY <1>1, <2>3, <2>5, FlagsAnew, ZenonT(60)
  <2>7. ASSUME Trusted(h) PROVE \A n : Single(n) => Single(n)'
    <3>1. PICK m, kind : m = q.on /\ kind = "embedded"
      OBVIOUS
    <3>2. \A t \in tracks : t.id = q.k => t.media = m /\ t.kind = kind
      BY <1>4, <2>2, <2>7, <3>1
    <3>3. def => NoneBut(m, kind, q.k)
      BY <1>4, <2>1, <2>2, <2>7, <3>1
    <3>4. TracksApart /\ TracksOK /\ FlagSet(q.k, def)
      BY <1>1, <2>2
    <3>5. QED
      BY <2>3, <3>2, <3>3, <3>4, Sets, Z3T(60)
  <2>8. GoOn(h, Done(q)) \/ GoOn(h, Failed(q))
    BY <1>2, <1>14 DEF updateSubtitle
  <2>9. QED
    BY <1>7, <2>6, <2>7, <2>8
<1>15. QED
  BY <1>9, <1>10, <1>11, <1>12, <1>13, <1>14 DEF StepSubtitles, CheckParent, saveSubtitle,
     createExternalSubtitle, ReadTrack, deleteFile, deleteSubtitle, At

\* A flag set by hand, by update.
LEMMA PatchDefaults ==
  ASSUME LibInv, RefInv, DefaultInv, NEW h \in Handlers, StepSubtitles(h), req[h].op = "patch"
  PROVE  DefaultsKept
<1>1. /\ Open(h) /\ Turn(h) /\ DOMAIN req[h] = RequestFields /\ SubtitleRequestOK(req[h])
      /\ TracksOK /\ TracksApart
  BY SubtitleKnows DEF DefaultInv
<1>2. PICK q : q = req[h]
  OBVIOUS
<1>3. q.op = "patch" /\ DOMAIN q = RequestFields /\ q.arg[1] \in BOOLEAN
  BY <1>1, <1>2 DEF SubtitleRequestOK
<1>4. PICK m, kind : m = q.list[1].media /\ kind = q.list[1].kind
  OBVIOUS
<1>5. Trusted(h) =>
        /\ q.at = "read" => \E t \in tracks : t.id = q.on /\ (backend # "sqlite" => Single(t.media))
        /\ q.at \in {"clear", "set"} => /\ \E t \in tracks : t.id = q.k /\ t.media = m /\ t.kind = kind
                                        /\ backend # "sqlite" => Single(m)
        /\ q.at = "set" /\ q.arg[1] => NoneBut(m, kind, q.k)
  BY <1>1, <1>2, <1>3, <1>4 DEF DefaultInv, Trusted, DefaultKnown
<1>6. CASE ReadTrack(h)
  <2>1. q.at = "read" /\ UNCHANGED tracks
    BY <1>2, <1>3, <1>6 DEF ReadTrack, At, subtitleVars
  <2>2. TracksApart' /\ \A n : Single(n) => Single(n)'
    BY <1>1, <2>1, Fewer
  <2>3. CASE ~IsTrack(q.on)
    <3>1. PICK r : r = [req[h] EXCEPT !.at = "error"]
      OBVIOUS
    <3>2. GoOn(h, r) /\ r.at = "error"
      BY <1>1, <1>2, <1>6, <2>3, <3>1, GoesTo DEF ReadTrack
    <3>3. ~Trusted(h)
      BY <1>5, <2>1, <2>3 DEF IsTrack
    <3>4. QED
      BY <1>1, <2>2, <3>2, <3>3, DefaultStep DEF Answered
  <2>4. CASE IsTrack(q.on)
    <3>1. PICK t : t = Track(q.on)
      OBVIOUS
    <3>2. t \in tracks /\ t.id = q.on
      BY <2>4, <3>1 DEF IsTrack, Track
    <3>3. PICK at : /\ GoOn(h, [q EXCEPT !.list = <<t>>, !.k = t.id, !.at = at])
                    /\ at = IF WantsDefault(q) THEN "clear" ELSE "set"
      BY <1>2, <1>3, <1>6, <2>4, <3>1 DEF ReadTrack
    <3>4. PICK id : id = t.id
      OBVIOUS
    <3>5. PICK r : r = [q EXCEPT !.list = <<t>>, !.k = id, !.at = at]
      OBVIOUS
    <3>6. GoOn(h, r)
      BY <3>3, <3>4, <3>5
    <3>7. /\ r.op = "patch" /\ r.arg = q.arg /\ r.alone = q.alone /\ r.sound = q.sound
          /\ r.at = at /\ r.k = id /\ r.list[1] = t
      BY <1>3, <3>5 DEF RequestFields
    <3>8. at \in {"clear", "set"} /\ (at = "set" => ~q.arg[1])
      BY <1>3, <3>3 DEF WantsDefault
    <3>9. Trusted(h) => (backend # "sqlite" => Single(t.media))
      BY <1>1, <1>5, <2>1, <3>2 DEF TracksApart
    <3>10. UNCHANGED backend
      BY <3>6, AfterGoOn
    <3>11. Trusted(h) => DefaultKnown(r)'
      BY <2>1, <2>2, <3>2, <3>4, <3>7, <3>8, <3>9, <3>10 DEF DefaultKnown
    <3>12. r.at \notin Answered
      BY <3>7, <3>8 DEF Answered
    <3>13. QED
      BY <1>1, <1>2, <2>2, <3>6, <3>7, <3>11, <3>12, DefaultStep
  <2>5. QED
    BY <2>3, <2>4
<1>7. CASE clearDefaultFlagSiblings(h)
  <2>1. q.at = "clear" /\ Cleared(m, kind, q.k) /\ \E at \in {"insert", "set"} : GoTo(h, at) /\ (Trusted(h) => at = "set")
    <3>1. q.at = "clear" /\ Cleared(m, kind, q.k) /\ GoTo(h, IF q.k = 0 THEN "insert" ELSE "set")
      BY <1>2, <1>3, <1>4, <1>7 DEF clearDefaultFlagSiblings, MediaOf, KindOf, Existing, Cleared, At
    <3>2. Trusted(h) => q.k # 0
      BY <1>1, <1>5, <3>1 DEF TracksOK
    <3>3. QED
      BY <3>1, <3>2
  <2>2. PICK at \in {"insert", "set"} : GoTo(h, at) /\ (Trusted(h) => at = "set")
    BY <2>1
  <2>3. /\ TracksApart' /\ NoneBut(m, kind, q.k)' /\ \A n : Single(n) => Single(n)'
        /\ \A t \in tracks : \E u \in tracks' : u.id = t.id /\ u.media = t.media /\ u.kind = t.kind
    BY <1>1, <2>1, Clears
  <2>4. PICK r : r = [req[h] EXCEPT !.at = at]
    OBVIOUS
  <2>5. /\ GoOn(h, r) /\ r.at = at /\ r.op = q.op /\ r.on = q.on /\ r.k = q.k /\ r.list = q.list /\ r.arg = q.arg
        /\ r.alone = q.alone /\ r.sound = q.sound
    BY <1>1, <1>2, <2>2, <2>4, GoesTo
  <2>6. UNCHANGED backend
    BY <2>5, AfterGoOn
  <2>7. ASSUME Trusted(h) PROVE DefaultKnown(r)'
    <3>1. /\ \E u \in tracks' : u.id = r.k /\ u.media = m /\ u.kind = kind
          /\ backend # "sqlite" => Single(m)'
      BY <1>5, <2>1, <2>3, <2>5, <2>7
    <3>2. r.at = "set" /\ r.op = "patch" /\ r.list[1].media = m /\ r.list[1].kind = kind
      BY <1>3, <1>4, <2>2, <2>5, <2>7
    <3>3. QED
      BY <2>3, <2>5, <2>6, <3>1, <3>2 DEF DefaultKnown
  <2>8. QED
    BY <1>1, <1>2, <2>1, <2>3, <2>5, <2>7, DefaultStep
<1>8. CASE updateSubtitle(h)
  <2>1. PICK def : def = q.arg[1]
    OBVIOUS
  <2>2. FlagSet(q.k, def) /\ q.at = "set" /\ def \in BOOLEAN
    BY <1>2, <1>3, <1>8, <2>1 DEF updateSubtitle, WantsDefault, FlagSet, At
  <2>3. PICK S : S = {t \in tracks : t.id = q.k}
    OBVIOUS
  <2>4. tracks' = {IF t \in S THEN [t EXCEPT !.def = def] ELSE t : t \in tracks}
    BY <2>2, <2>3 DEF FlagSet
  <2>5. TracksApart'
    BY <1>1, <2>2, <2>4, FlagsAnew
  <2>6. ASSUME Trusted(h) PROVE \A n : Single(n) => Single(n)'
    <3>1. \A t \in tracks : t.id = q.k => t.media = m /\ t.kind = kind
      BY <1>1, <1>5, <2>2, <2>6 DEF TracksApart
    <3>2. def => NoneBut(m, kind, q.k)
      BY <1>5, <2>1, <2>2, <2>6
    <3>3. QED
      BY <1>1, <2>2, <3>1, <3>2, Sets
  <2>7. PICK r : GoOn(h, r) /\ (r = Done(q) \/ r = Failed(q))
    BY <1>2, <1>8 DEF updateSubtitle
  <2>8. r.at \in Answered
    BY <1>3, <2>7 DEF Done, Failed, RequestFields, Answered
  <2>9. QED
    BY <1>1, <1>2, <2>2, <2>5, <2>6, <2>7, <2>8, DefaultStep
<1>9. QED
  BY <1>6, <1>7, <1>8 DEF StepSubtitles, CheckParent, saveSubtitle, createExternalSubtitle, ReadBack, FindStream,
     createEmbeddedSubtitle, pruneEmbeddedSubtitles, deleteFile, deleteSubtitle, At

\* What a request about tracks begins with.
LEMMA SubtitleDefaultsAtFirst ==
  ASSUME LibInv, DefaultInv, NEW h \in Handlers, BeginSubtitles(h)
  PROVE  DefaultsKept
<1>1. UNCHANGED tracks /\ TracksApart
  BY SubtitleAsks DEF DefaultInv
<1>2. \A m : OneDefault(m) \in BOOLEAN /\ (OneDefault(m) => Single(m))
  BY <1>1, OneIsSingle DEF OneDefault
<1>3. ASSUME NEW op, NEW at, NEW on, NEW arg, NEW sound \in BOOLEAN, Begin(h, op, at, on, arg, sound),
             \/ op = "attach" /\ at = "parent" /\ (sound => Single(on))
             \/ op = "embed" /\ at = "find" /\ (sound => Single(on))
             \/ op = "patch" /\ at = "read" /\ \E t \in tracks : t.id = on /\ (sound => Single(t.media))
             \/ op = "detach" /\ at = "read"
      PROVE  DefaultsKept
  <2>1. /\ at \notin Answered
        /\ op = "attach" => at = "parent" /\ (sound => Single(on))
        /\ op = "embed" => at = "find" /\ (sound => Single(on))
        /\ op = "patch" => at = "read" /\ \E t \in tracks : t.id = on /\ (sound => Single(t.media))
    BY <1>3 DEF Answered
  <2>2. QED
    BY <1>1, <1>3, <2>1, DefaultAtFirst
<1>4. ASSUME NEW m, NEW d, attachExternal(h, m, d) PROVE DefaultsKept
  <2>1. PICK op, at, arg, sound : /\ Begin(h, op, at, m, arg, sound) /\ op = "attach" /\ at = "parent"
                                  /\ sound = OneDefault(m)
    BY <1>4 DEF attachExternal
  <2>2. sound \in BOOLEAN /\ (sound => Single(m))
    BY <1>2, <2>1
  <2>3. QED
    BY <1>3, <2>1, <2>2
<1>5. ASSUME NEW m, NEW s, persistEmbeddedSubtitles(h, m, s) PROVE DefaultsKept
  <2>1. PICK op, at, arg, sound : /\ Begin(h, op, at, m, arg, sound) /\ op = "embed" /\ at = "find"
                                  /\ sound = OneDefault(m)
    BY <1>5 DEF persistEmbeddedSubtitles
  <2>2. sound \in BOOLEAN /\ (sound => Single(m))
    BY <1>2, <2>1
  <2>3. QED
    BY <1>3, <2>1, <2>2
<1>6. ASSUME NEW t, delete(h, t) PROVE DefaultsKept
  <2>1. PICK op, at, id, arg, sound : /\ Begin(h, op, at, id, arg, sound) /\ op = "detach" /\ at = "read"
                                      /\ sound = OneDefault(t.media)
    BY <1>6 DEF delete
  <2>2. sound \in BOOLEAN
    BY <1>2, <2>1
  <2>3. QED
    BY <1>3, <2>1, <2>2
<1>7. ASSUME NEW t \in tracks, NEW d, update(h, t, d) PROVE DefaultsKept
  <2>1. PICK op, at, id, arg, sound : /\ Begin(h, op, at, id, arg, sound) /\ op = "patch" /\ at = "read"
                                      /\ id = t.id /\ sound = OneDefault(t.media)
    BY <1>7 DEF update
  <2>2. sound \in BOOLEAN /\ (sound => Single(t.media))
    BY <1>2, <2>1
  <2>3. \E u \in tracks : u.id = id /\ (sound => Single(u.media))
    BY <2>1, <2>2
  <2>4. QED
    BY <1>3, <2>1, <2>2, <2>3
<1>8. QED
  BY <1>4, <1>5, <1>6, <1>7 DEF BeginSubtitles

\* The defaults are kept by every step.
LEMMA DefaultsAllKept ==
  ASSUME LibInv, RefInv, DefaultInv, [Next]_vars
  PROVE  DefaultsKept
<1>1. ASSUME NEW h \in Handlers, InPlaylists(h) \/ InApprovals(h), UNCHANGED <<subtitleVars, folderVars>>
      PROVE  DefaultsKept
  <2>1. UNCHANGED tracks
    BY <1>1 DEF subtitleVars
  <2>2. CASE StepPlaylists(h) \/ StepApprovals(h)
    <3>1. Steps(h, PlaylistOps) \/ Steps(h, {"decide"})
      BY <2>2, PlaylistSteps, ApprovalSteps
    <3>2. QED
      BY <2>1, <3>1, DefaultAside DEF PlaylistOps
  <2>3. CASE BeginPlaylists(h) \/ Adds(h) \/ Decides(h)
    <3>1. \/ Begins(h, PlaylistOps, {"count", "delete", "update", "items", "row", "validate"})
          \/ Begins(h, {"decide"}, {"status"})
      BY <2>3, PlaylistAsks, ApprovalAsks
    <3>2. QED
      BY <2>1, <3>1, DefaultAsideAtFirst DEF PlaylistOps, Answered
  <2>4. QED
    BY <1>1, <2>2, <2>3 DEF InPlaylists, InApprovals
<1>2. ASSUME NEW h \in Handlers, InSubtitles(h) PROVE DefaultsKept
  <2>1. CASE StepSubtitles(h)
    <3>1. req[h].op \in {"attach", "embed", "patch", "detach"}
      BY <2>1, SubtitleKnows
    <3>2. QED
      BY <2>1, <3>1, AttachDefaults, EmbedDefaults, PatchDefaults, DetachDefaults
  <2>2. QED
    BY <1>2, <2>1, SubtitleDefaultsAtFirst DEF InSubtitles
<1>3. ASSUME NEW h \in Handlers, DeletesMedia(h) PROVE DefaultsKept
  <2>1. CASE mongoDeleteRefs(h) \/ DeleteMediaRow(h)
    <3>1. Steps(h, {"purge"}) /\ tracks' \subseteq tracks
      BY <2>1, MediaSteps
    <3>2. QED
      BY <3>1, DefaultAside
  <2>2. ASSUME NEW m, deleteMedia(h, m) PROVE DefaultsKept
    <3>1. Begins(h, {"purge"}, {"items", "row"}) /\ UNCHANGED tracks
      BY <2>2, MediaAsks DEF subtitleVars
    <3>2. QED
      BY <3>1, DefaultAsideAtFirst DEF Answered
  <2>3. QED
    BY <1>3, <2>1, <2>2 DEF DeletesMedia
<1>4. ASSUME NEW h \in Handlers, InFolders(h), UNCHANGED subtitleVars PROVE DefaultsKept
  <2>1. UNCHANGED tracks
    BY <1>4 DEF subtitleVars
  <2>2. CASE StepFolders(h)
    BY <2>1, <2>2, FolderSteps, DefaultAside DEF FolderOps
  <2>3. CASE BeginFolders(h)
    BY <2>1, <2>3, FolderAsks, DefaultAsideAtFirst DEF FolderOps, Answered
  <2>4. QED
    BY <1>4, <2>2, <2>3 DEF InFolders
<1>5. CASE Crash
  <2>1. UNCHANGED <<tracks, backend>> /\ \A g \in Handlers : ~Open(g)'
    BY <1>5, CrashAnswersNone DEF Crash, CrashRequests, subtitleVars
  <2>2. DefaultInv'
    <3>1. TracksApart' /\ (backend = "sqlite" => \A m \in Media : Single(m))'
      BY <2>1 DEF DefaultInv, TracksApart, Single
    <3>2. QED
      BY <2>1, <3>1 DEF DefaultInv
  <2>3. DefaultsLeft
    BY <1>5, CrashAnswersNone DEF DefaultsLeft
  <2>4. QED
    BY <2>2, <2>3 DEF DefaultsKept
<1>6. CASE UNCHANGED <<requestVars, playlistVars, approvalVars, subtitleVars, folderVars, part>>
  <2>1. UNCHANGED <<tracks, backend, req>>
    BY <1>6 DEF requestVars, subtitleVars
  <2>2. TracksApart' /\ (backend = "sqlite" => \A m \in Media : Single(m))'
    BY <2>1 DEF DefaultInv, TracksApart, Single
  <2>3. ASSUME NEW g \in Handlers, Open(g)', Trusted(g)' PROVE DefaultKnown(req[g])'
    <3>1. PICK q : q = req[g] /\ q = req'[g]
      BY <2>1
    <3>2. DefaultKnown(q)
      BY <2>1, <2>3, <3>1 DEF DefaultInv, Open, Trusted, Isolated
    <3>3. DefaultKnown(q)'
      BY <2>1, <3>2 DEF DefaultKnown, Single, NoneBut
    <3>4. QED
      BY <3>1, <3>3
  <2>4. DefaultsLeft
    BY <2>1 DEF DefaultsLeft, Ends, Open
  <2>5. QED
    BY <2>2, <2>3, <2>4 DEF DefaultsKept, DefaultInv, Trusted
<1>7. QED
  BY <1>1, <1>2, <1>3, <1>4, <1>5, <1>6 DEF Next, vars

(***************************************************************************)
(* The tree                                                                *)
(***************************************************************************)
Relied(h) == Isolated(h) /\ req[h].sound
TreeOps == {"create", "edit", "delete"}
TreesLeft ==
  \A h \in Handlers :
    Ends(h) /\ Isolated(h) /\ req[h].sound /\ req[h].op \in {"create", "edit", "delete"}
      => Tree' /\ (req'[h].at = "ok" => PathsTrue')
TreeKept == TreeInv' /\ TreesLeft

\* A tree with true paths has every path spelled out, from the root on.
LEMMA PathsOfTree ==
  ASSUME LibInv, IdsDiffer(folders), Tree, PathsTrue
  PROVE  PathsIn(folders)
<1> SUFFICES ASSUME NEW x \in folders
             PROVE  /\ x.path \in Seq(Nat)
                    /\ \/ x.parent = Root /\ x.path = <<x.id>>
                       \/ \E y \in folders : y.id = x.parent /\ x.path = Append(y.path, x.id)
  BY DEF PathsIn
<1>1. x.id \in Ids /\ Folder(x.id) = x /\ x.parent \in 0..MaxFolders
  BY DEF Ids, Folder, IdsDiffer, LibInv, FoldersOK
<1>2. x.parent \in Above(x.id)
  BY <1>1 DEF Above
<1>3. x.parent \in Ids \/ x.parent = Root
  BY <1>1, <1>2 DEF Tree
<1>4. CASE IsFolder(x.parent)
  <2>1. Folder(x.parent) \in folders /\ Folder(x.parent).id = x.parent
    BY <1>4 DEF IsFolder, Folder
  <2>2. QED
    BY <1>4, <2>1 DEF PathsTrue
<1>5. CASE ~IsFolder(x.parent)
  BY <1>3, <1>5 DEF PathsTrue, IsFolder, Ids
<1>6. QED
  BY <1>4, <1>5

\* Where every path is spelled out from the root on, nothing is above itself: the path of
\* what is above a folder is shorter.
LEMMA TreeOfPaths ==
  ASSUME LibInv', RefInv', PathsIn(folders')
  PROVE  Tree' /\ PathsTrue'
<1>1. /\ \A x \in folders' : x.id \in 1..MaxFolders /\ x.parent \in 0..MaxFolders
      /\ \A x, y \in folders' : x.id = y.id => x = y
      /\ MaxFolders \in Nat
  <2>1. nextFolder' \in 1..(MaxFolders + 1) /\ MaxFolders \in Nat
    BY FoldersAssumption DEF LibInv, CountersOK
  <2>2. \A x \in folders' : x.id \in 1..(nextFolder' - 1) /\ x.parent \in 0..MaxFolders
    BY DEF LibInv, FoldersOK
  <2>3. \A x, y \in folders' : x.id = y.id => x = y
    BY DEF RefInv, IdsDiffer
  <2>4. QED
    BY <2>1, <2>2, <2>3
<1>2. \A x \in folders' : x.id \in Ids' /\ Folder(x.id)' = x
  BY <1>1 DEF Ids, Folder
<1>3. \A f \in Ids' : Folder(f)' \in folders' /\ Folder(f)'.id = f
  BY DEF Ids, Folder
<1>4. \A x \in folders' :
        /\ x.path \in Seq(Nat)
        /\ \/ x.parent = Root /\ x.path = <<x.id>>
           \/ \E y \in folders' : y.id = x.parent /\ x.path = Append(y.path, x.id)
  BY DEF PathsIn
<1>5. ASSUME NEW x \in folders', x.parent # Root
      PROVE  \E y \in folders' : y.id = x.parent /\ x.path = Append(y.path, x.id) /\ Len(y.path) < Len(x.path)
  <2>1. PICK y \in folders' : y.id = x.parent /\ x.path = Append(y.path, x.id)
    BY <1>4, <1>5
  <2>2. PICK path, id : path = y.path /\ id = x.id /\ path \in Seq(Nat) /\ id \in Nat
    BY <1>1, <1>4
  <2>3. Len(Append(path, id)) = Len(path) + 1 /\ Len(path) \in Nat
    BY <2>2
  <2>4. QED
    BY <2>1, <2>2, <2>3
<1>6. ASSUME NEW f \in Ids' PROVE f \notin Above(f)' /\ Above(f)' \subseteq Ids' \cup {Root}
  <2>1. PICK x \in folders' : x = Folder(f)' /\ x.id = f
    BY <1>3
  <2>2. PICK S : S = {g \in 0..MaxFolders : g = Root \/ (g \in Ids' /\ Len(Folder(g)'.path) < Len(x.path))}
    OBVIOUS
  <2>3. \A y \in folders' : y.parent = Root \/ \E z \in folders' : z.id = y.parent /\ Len(z.path) < Len(y.path)
    BY <1>5
  <2>4. \A y \in folders' : Len(y.path) \in Nat
    BY <1>4
  <2>5. ASSUME NEW y \in folders', Len(y.path) <= Len(x.path) PROVE y.parent \in S
    <3>1. CASE y.parent = Root
      BY <1>1, <2>2, <3>1
    <3>2. CASE y.parent # Root
      <4>1. PICK z \in folders' : z.id = y.parent /\ Len(z.path) < Len(y.path)
        BY <2>3, <3>2
      <4>2. Folder(y.parent)' = z /\ y.parent \in Ids'
        BY <1>2, <4>1
      <4>3. Len(z.path) < Len(x.path)
        BY <2>4, <2>5, <4>1
      <4>4. QED
        BY <1>1, <2>2, <4>2, <4>3
    <3>3. QED
      BY <3>1, <3>2
  <2>6. ASSUME NEW g \in S, g \in Ids' PROVE Folder(g)'.parent \in S
    <3>1. PICK y \in folders' : y = Folder(g)' /\ y.id = g
      BY <1>3, <2>6
    <3>2. Len(y.path) <= Len(x.path)
      BY <1>1, <2>2, <2>4, <3>1 DEF Root
    <3>3. QED
      BY <2>5, <3>1, <3>2
  <2>7. Closed(S)'
    BY <2>6 DEF Closed
  <2>8. Folder(f)'.parent \in S /\ S \in SUBSET (0..MaxFolders)
    BY <2>1, <2>2, <2>4, <2>5
  <2>9. Above(f)' \subseteq S
    BY <2>7, <2>8 DEF Above
  <2>10. f \notin S
    BY <1>1, <2>1, <2>2, <2>4 DEF Root
  <2>11. QED
    BY <2>2, <2>9, <2>10
<1>7. ASSUME NEW x \in folders'
      PROVE  /\ x.path \in Seq(Nat)
             /\ x.path = IF IsFolder(x.parent)' THEN Append(Folder(x.parent)'.path, x.id) ELSE <<x.id>>
  <2>1. CASE x.parent = Root
    <3>1. ~IsFolder(x.parent)' /\ ~\E y \in folders' : y.id = x.parent
      BY <1>1, <2>1 DEF IsFolder, Root
    <3>2. QED
      BY <1>4, <3>1
  <2>2. CASE x.parent # Root
    <3>1. PICK y \in folders' : y.id = x.parent /\ x.path = Append(y.path, x.id)
      BY <1>5, <2>2
    <3>2. Folder(x.parent)' = y /\ IsFolder(x.parent)'
      BY <1>2, <3>1 DEF IsFolder
    <3>3. QED
      BY <1>4, <3>1, <3>2
  <2>3. QED
    BY <2>1, <2>2
<1>8. QED
  BY <1>6, <1>7 DEF Tree, PathsTrue

\* A tree stays one when every folder keeps its parent.
LEMMA TreeStays ==
  ASSUME IdsDiffer(folders), NEW new, folders' = {new[x] : x \in folders},
         \A x \in folders : new[x].id = x.id /\ new[x].parent = x.parent
  PROVE  Ids' = Ids /\ (Tree => Tree')
<1>1. Ids' = Ids
  BY DEF Ids
<1>2. \A f \in Ids : Folder(f) \in folders /\ Folder(f).id = f
  BY DEF Ids, Folder
<1>3. \A x, y \in folders : x.id = y.id => x = y
  BY DEF IdsDiffer
<1>4. ASSUME NEW f \in Ids PROVE Folder(f)'.parent = Folder(f).parent
  <2>1. PICK x \in folders : x = Folder(f) /\ x.id = f
    BY <1>2
  <2>2. \A z \in folders' : z.id = f => z = new[x]
    BY <1>3, <2>1
  <2>3. new[x] \in folders' /\ new[x].id = f
    BY <2>1
  <2>4. Folder(f)' = new[x]
    BY <2>2, <2>3 DEF Folder
  <2>5. QED
    BY <2>1, <2>4
<1>5. \A S : Closed(S)' <=> Closed(S)
  BY <1>1, <1>4 DEF Closed
<1>6. \A f \in Ids : Above(f)' = Above(f)
  BY <1>4, <1>5 DEF Above
<1>7. QED
  BY <1>1, <1>6 DEF Tree

\* So do the paths, when every folder keeps its parent and its path.
LEMMA PathsStay ==
  ASSUME NEW new, folders' = {new[x] : x \in folders}, PathsIn(folders),
         \A x \in folders : new[x].id = x.id /\ new[x].parent = x.parent /\ new[x].path = x.path
  PROVE  PathsIn(folders')
<1>1. ASSUME NEW x \in folders, NEW z, z = new[x]
      PROVE  /\ z.path \in Seq(Nat)
             /\ \/ z.parent = Root /\ z.path = <<z.id>>
                \/ \E y \in folders' : y.id = z.parent /\ z.path = Append(y.path, z.id)
  <2>1. z.id = x.id /\ z.parent = x.parent /\ z.path = x.path /\ x.path \in Seq(Nat)
    BY <1>1 DEF PathsIn
  <2>2. CASE x.parent = Root /\ x.path = <<x.id>>
    BY <2>1, <2>2
  <2>3. CASE \E y \in folders : y.id = x.parent /\ x.path = Append(y.path, x.id)
    <3>1. PICK y \in folders : y.id = x.parent /\ x.path = Append(y.path, x.id)
      BY <2>3
    <3>2. new[y] \in folders' /\ new[y].id = z.parent /\ z.path = Append(new[y].path, z.id)
      BY <2>1, <3>1
    <3>3. QED
      BY <2>1, <3>2
  <2>4. QED
    BY <2>2, <2>3 DEF PathsIn
<1>2. ASSUME NEW z \in folders'
      PROVE  /\ z.path \in Seq(Nat)
             /\ \/ z.parent = Root /\ z.path = <<z.id>>
                \/ \E y \in folders' : y.id = z.parent /\ z.path = Append(y.path, z.id)
  <2>1. PICK x \in folders : z = new[x]
    BY <1>2
  <2>2. QED
    BY <1>1, <2>1
<1>3. PICK rows : rows = folders'
  OBVIOUS
<1>4. PathsIn(rows)
  BY <1>2, <1>3 DEF PathsIn
<1>5. QED
  BY <1>3, <1>4

\* What a statement of a request about folders has to show.
LEMMA TreeStep ==
  ASSUME LibInv, RefInv, TreeInv, NEW h \in Handlers, NEW r, GoOn(h, r), Open(h), Turn(h),
         r.at \notin Answered => /\ r.alone = req[h].alone /\ r.sound = req[h].sound
                                 /\ Relied(h) => TreeKnown(r)',
         r.at \in Answered /\ Relied(h) /\ req[h].op \in TreeOps => Tree' /\ (r.at = "ok" => PathsTrue')
  PROVE  TreeKept
<1>1. UNCHANGED backend
  BY AfterGoOn
<1>2. ASSUME NEW g \in Handlers, Open(g)', Relied(g)'
      PROVE  TreeKnown(req[g])'
  <2>1. CASE g = h
    <3>1. r.at \notin Answered /\ req'[h] = r
      BY <1>2, <2>1, AfterGoOn DEF Open
    <3>2. Relied(h)
      BY <1>1, <1>2, <2>1, <3>1 DEF Relied, Isolated
    <3>3. QED
      BY <2>1, <3>1, <3>2
  <2>2. CASE g # h
    <3>1. PICK q : q = req[g] /\ q = req'[g]
      BY <1>2, <2>2, Undisturbed DEF Relied
    <3>2. TreeKnown(q) /\ q.at \in Away
      BY <1>2, <2>2, <3>1, Undisturbed DEF Relied, TreeInv
    <3>3. q.op \notin TreeOps
      BY <3>2 DEF TreeKnown, CreateKnown, EditKnown, Away, TreeOps
    <3>4. TreeKnown(q)'
      BY <3>3 DEF TreeKnown, TreeOps
    <3>5. QED
      BY <3>1, <3>4
  <2>3. QED
    BY <2>1, <2>2
<1>3. TreeInv'
  BY <1>2 DEF TreeInv, Relied
<1>4. TreesLeft
  <2> SUFFICES ASSUME NEW g \in Handlers, Ends(g), Isolated(g), req[g].sound, req[g].op \in {"create", "edit", "delete"}
               PROVE  Tree' /\ (req'[g].at = "ok" => PathsTrue')
    BY DEF TreesLeft
  <2>1. g = h /\ r.at \in Answered /\ req'[h].at = r.at
    BY AnswersItself
  <2>2. QED
    BY <2>1 DEF Relied, TreeOps
<1>5. QED
  BY <1>3, <1>4 DEF TreeKept

\* What its beginning has to show.
LEMMA TreeAtFirst ==
  ASSUME LibInv, TreeInv, NEW h \in Handlers, NEW op, NEW at, NEW on, NEW arg, NEW sound,
         Begin(h, op, at, on, arg, sound), at \notin Answered,
         \A r : (/\ r.op = op /\ r.at = at /\ r.on = on /\ r.arg = arg /\ r.list = <<>> /\ r.k = 0 /\ r.was = <<>>)
                  => (sound => TreeKnown(r)')
  PROVE  TreeKept
<1>1. ASSUME NEW g \in Handlers, Open(g)', Relied(g)'
      PROVE  TreeKnown(req[g])'
  <2>1. PICK q : q = req'[g]
    OBVIOUS
  <2>2. CASE g = h
    <3>1. /\ q.op = op /\ q.at = at /\ q.on = on /\ q.arg = arg /\ q.sound = sound
          /\ q.list = <<>> /\ q.k = 0 /\ q.was = <<>>
      BY <2>1, <2>2, AtFirst
    <3>2. sound
      BY <1>1, <2>1, <2>2, <3>1 DEF Relied
    <3>3. TreeKnown(q)'
      BY <3>1, <3>2
    <3>4. QED
      BY <2>1, <3>3
  <2>3. CASE g # h
    <3>1. /\ Open(g) /\ Isolated(g) /\ q.at \in Away /\ req[g].sound
          /\ q.op = req[g].op /\ q.at = req[g].at
      BY <1>1, <2>1, <2>3, UndisturbedAtFirst DEF Relied
    <3>2. TreeKnown(req[g])
      BY <3>1 DEF TreeInv
    <3>3. q.op \notin TreeOps
      BY <3>1, <3>2 DEF TreeKnown, CreateKnown, EditKnown, Away, TreeOps
    <3>4. TreeKnown(q)'
      BY <3>3 DEF TreeKnown, TreeOps
    <3>5. QED
      BY <2>1, <3>4
  <2>4. QED
    BY <2>2, <2>3
<1>2. TreeInv'
  BY <1>1 DEF TreeInv, Relied
<1>3. TreesLeft
  BY NobodyEnds DEF TreesLeft
<1>4. QED
  BY <1>2, <1>3 DEF TreeKept

\* What has nothing to do with folders.
LEMMA TreeAside ==
  ASSUME LibInv, RefInv, TreeInv, NEW h \in Handlers, NEW ops, Steps(h, ops), ops \cap TreeOps = {}
  PROVE  TreeKept
<1>1. PICK r : /\ GoOn(h, r) /\ Open(h) /\ Turn(h) /\ r.op = req[h].op
               /\ r.op \notin TreeOps
  BY DEF Steps
<1>2. ASSUME NEW g \in Handlers, Open(g)', Relied(g)'
      PROVE  TreeKnown(req[g])'
  <2>1. PICK q : q = req'[g]
    OBVIOUS
  <2>2. CASE g = h
    <3>1. q = r
      BY <1>1, <1>2, <2>1, <2>2, AfterGoOn DEF Open
    <3>2. TreeKnown(q)'
      BY <1>1, <3>1 DEF TreeKnown, TreeOps
    <3>3. QED
      BY <2>1, <3>2
  <2>3. CASE g # h
    <3>1. Open(g) /\ Isolated(g) /\ req[g].at \in Away /\ q = req[g]
      BY <1>1, <1>2, <2>1, <2>3, Undisturbed DEF Relied
    <3>2. TreeKnown(q) /\ q.at \in Away
      BY <1>2, <2>1, <3>1 DEF Relied, TreeInv
    <3>3. q.op \notin TreeOps
      BY <3>2 DEF TreeKnown, CreateKnown, EditKnown, Away, TreeOps
    <3>4. TreeKnown(q)'
      BY <3>3 DEF TreeKnown, TreeOps
    <3>5. QED
      BY <2>1, <3>4
  <2>4. QED
    BY <2>2, <2>3
<1>3. TreeInv'
  BY <1>2 DEF TreeInv, Relied
<1>4. TreesLeft
  BY <1>1, AnswersItself DEF TreesLeft, TreeOps
<1>5. QED
  BY <1>3, <1>4 DEF TreeKept

\* What begins without being about folders.
LEMMA TreeAsideAtFirst ==
  ASSUME LibInv, TreeInv, NEW h \in Handlers, NEW ops, NEW ats, Begins(h, ops, ats),
         ats \cap Answered = {}, ops \cap TreeOps = {}
  PROVE  TreeKept
<1>1. PICK op \in ops, at \in ats : \E on, arg, sound : Begin(h, op, at, on, arg, sound)
  BY DEF Begins
<1>2. PICK on, arg, sound : Begin(h, op, at, on, arg, sound)
  BY <1>1
<1>3. \A r : r.op = op => TreeKnown(r)'
  BY <1>1 DEF TreeKnown, TreeOps
<1>4. QED
  BY <1>1, <1>2, <1>3, TreeAtFirst

\* An answer after which every path is spelled out.
LEMMA TreeAnswers ==
  ASSUME LibInv, RefInv, TreeInv, LibInv', RefInv', NEW h \in Handlers, Open(h), Turn(h), NEW r, GoOn(h, r),
         r.at \in Answered, Relied(h) => PathsIn(folders')
  PROVE  TreeKept
  BY TreeStep, TreeOfPaths

\* A folder whose path is its parent's and its own id is added.
LEMMA PathsMore ==
  ASSUME NEW rows, PathsIn(rows), NEW f, NEW list, f.path = Append(list, f.id), f.id \in Nat,
         IF f.parent = Root THEN list = <<>> ELSE \E y \in rows : y.id = f.parent /\ list = y.path
  PROVE  PathsIn(rows \cup {f})
<1>1. f.path \in Seq(Nat) /\ (f.parent = Root => f.path = <<f.id>>)
  <2>1. CASE f.parent = Root
    <3>1. PICK e : e = f.id /\ e \in Nat
      OBVIOUS
    <3>2. f.path = Append(<<>>, e)
      BY <2>1, <3>1
    <3>3. Append(<<>>, e) = <<e>> /\ <<e>> \in Seq(Nat)
      BY <3>1
    <3>4. QED
      BY <3>1, <3>2, <3>3
  <2>2. CASE f.parent # Root
    <3>1. PICK e : e = f.id /\ e \in Nat
      OBVIOUS
    <3>2. list \in Seq(Nat)
      BY <2>2 DEF PathsIn
    <3>3. Append(list, e) \in Seq(Nat)
      BY <3>1, <3>2
    <3>4. QED
      BY <2>2, <3>1, <3>3
  <2>3. QED
    BY <2>1, <2>2
<1>2. PICK all : all = rows \cup {f}
  OBVIOUS
<1>3. ASSUME NEW x \in all
      PROVE  /\ x.path \in Seq(Nat)
             /\ \/ x.parent = Root /\ x.path = <<x.id>>
                \/ \E y \in all : y.id = x.parent /\ x.path = Append(y.path, x.id)
  <2>1. CASE x = f
    BY <1>1, <1>2, <2>1
  <2>2. CASE x \in rows
    BY <1>2, <2>2 DEF PathsIn
  <2>3. QED
    BY <1>2, <2>1, <2>2
<1>4. PathsIn(all)
  BY <1>3 DEF PathsIn
<1>5. QED
  BY <1>2, <1>4

\* The same request at another place.
LEMMA GoesOn ==
  ASSUME LibInv, NEW h \in Handlers, Open(h), NEW at, GoTo(h, at)
  PROVE  \E r : /\ GoOn(h, r) /\ r.at = at /\ r.op = req[h].op /\ r.on = req[h].on /\ r.arg = req[h].arg
                /\ r.list = req[h].list /\ r.k = req[h].k /\ r.was = req[h].was
                /\ r.alone = req[h].alone /\ r.sound = req[h].sound
<1>1. PICK r : r = [req[h] EXCEPT !.at = at]
  OBVIOUS
<1>2. DOMAIN req[h] = RequestFields
  BY Knows
<1>3. QED
  BY <1>1, <1>2, GoesTo DEF RequestFields

\* What a creation leaves.
LEMMA CreateTrees ==
  ASSUME LibInv, RefInv, TreeInv, LibInv', RefInv', NEW h \in Handlers,
         ReadParent(h) \/ InsertFolder(h) \/ WritePath(h)
  PROVE  TreeKept
<1>1. Open(h) /\ Turn(h) /\ req[h].op = "create"
  BY DEF ReadParent, InsertFolder, WritePath, At, Open, Answered
<1>2. Relied(h) => CreateKnown(req[h])
  BY <1>1 DEF TreeInv, TreeKnown, Relied
<1>3. DOMAIN req[h] = RequestFields
  BY <1>1, Knows
<1>4. \A x, y \in folders : x.id = y.id => x = y
  BY DEF RefInv, IdsDiffer
<1>5. nextFolder \in Nat /\ \A x \in folders : x.id \in 1..(nextFolder - 1) /\ DOMAIN x = FolderFields
  <2>1. nextFolder \in Nat
    BY FoldersAssumption DEF LibInv, CountersOK
  <2>2. QED
    BY <2>1 DEF LibInv, FoldersOK
<1>6. CASE ReadParent(h)
  <2>1. req[h].at = "parent" /\ UNCHANGED folders
    BY <1>6 DEF ReadParent, At, folderVars
  <2>2. Relied(h) => PathsIn(folders) /\ req[h].list = <<>>
    BY <1>2, <2>1 DEF CreateKnown
  <2>3. CASE req[h].on # Root /\ ~IsFolder(req[h].on)
    <3>1. PICK r : r = [req[h] EXCEPT !.at = "error"]
      OBVIOUS
    <3>2. GoOn(h, r) /\ r.at = "error"
      BY <1>3, <1>6, <2>3, <3>1 DEF ReadParent, RequestFields
    <3>3. QED
      BY <1>1, <2>1, <2>2, <3>2, TreeAnswers DEF Answered
  <2>4. CASE req[h].on = Root
    <3>1. PICK r : r = [req[h] EXCEPT !.at = "insert"]
      OBVIOUS
    <3>2. GoOn(h, r)
      BY <1>6, <2>4, <3>1 DEF ReadParent
    <3>3. /\ r.at = "insert" /\ r.op = "create" /\ r.on = req[h].on /\ r.list = req[h].list
          /\ r.alone = req[h].alone /\ r.sound = req[h].sound
      BY <1>1, <1>3, <3>1 DEF RequestFields
    <3>4. Relied(h) => TreeKnown(r)'
      BY <2>1, <2>2, <2>4, <3>3 DEF TreeKnown, CreateKnown
    <3>5. QED
      BY <1>1, <3>2, <3>3, <3>4, TreeStep DEF Answered
  <2>5. CASE req[h].on # Root /\ IsFolder(req[h].on)
    <3>1. PICK y : y = Folder(req[h].on) /\ y \in folders /\ y.id = req[h].on
      BY <2>5 DEF IsFolder, Folder
    <3>2. PICK r : r = [req[h] EXCEPT !.list = y.path, !.at = "insert"]
      OBVIOUS
    <3>3. GoOn(h, r)
      BY <1>6, <2>5, <3>1, <3>2 DEF ReadParent
    <3>4. /\ r.at = "insert" /\ r.op = "create" /\ r.on = req[h].on /\ r.list = y.path
          /\ r.alone = req[h].alone /\ r.sound = req[h].sound
      BY <1>1, <1>3, <3>2 DEF RequestFields
    <3>5. Relied(h) => TreeKnown(r)'
      BY <2>1, <2>2, <2>5, <3>1, <3>4 DEF TreeKnown, CreateKnown
    <3>6. QED
      BY <1>1, <3>3, <3>4, <3>5, TreeStep DEF Answered
  <2>6. QED
    BY <2>3, <2>4, <2>5
<1>7. CASE InsertFolder(h)
  <2>1. req[h].at = "insert"
    BY <1>7 DEF InsertFolder, At
  <2>2. Relied(h) => /\ PathsIn(folders)
                     /\ IF req[h].on = Root THEN req[h].list = <<>>
                        ELSE \E y \in folders : y.id = req[h].on /\ req[h].list = y.path
    BY <1>2, <2>1 DEF CreateKnown
  <2>3. CASE GoTo(h, "error") /\ UNCHANGED folderVars
    <3>1. PICK r : GoOn(h, r) /\ r.at = "error"
      BY <1>1, <2>3, GoesOn
    <3>2. UNCHANGED folders
      BY <2>3 DEF folderVars
    <3>3. QED
      BY <1>1, <2>2, <3>1, <3>2, TreeAnswers DEF Answered
  <2>4. CASE ~(GoTo(h, "error") /\ UNCHANGED folderVars)
    <3>1. PICK path, at : path = (IF backend = "mongodb" THEN Append(req[h].list, nextFolder) ELSE <<>>)
                          /\ at = (IF backend = "mongodb" THEN "ok" ELSE "path")
      OBVIOUS
    <3>2. PICK f, r : /\ f = [id |-> nextFolder, name |-> req[h].arg[1], parent |-> req[h].on, path |-> path]
                      /\ r = [req[h] EXCEPT !.k = nextFolder, !.at = at]
      OBVIOUS
    <3>3. folders' = folders \cup {f} /\ GoOn(h, r)
      BY <1>7, <2>4, <3>1, <3>2 DEF InsertFolder
    <3>4. f.id = nextFolder /\ f.parent = req[h].on /\ f.path = path /\ f \notin folders
      <4>1. f.id = nextFolder /\ f.parent = req[h].on /\ f.path = path
        BY <3>2
      <4>2. QED
        BY <1>5, <4>1
    <3>5. /\ r.at = at /\ r.op = "create" /\ r.on = req[h].on /\ r.list = req[h].list /\ r.k = nextFolder
          /\ r.alone = req[h].alone /\ r.sound = req[h].sound
      BY <1>1, <1>3, <3>2 DEF RequestFields
    <3>6. CASE backend = "mongodb"
      <4>1. ASSUME Relied(h) PROVE PathsIn(folders')
        <5>1. PICK list, e : list = req[h].list /\ e = nextFolder
          OBVIOUS
        <5>2. f.path = Append(list, f.id) /\ f.id \in Nat
          BY <1>5, <3>1, <3>4, <3>6, <5>1
        <5>3. IF f.parent = Root THEN list = <<>> ELSE \E y \in folders : y.id = f.parent /\ list = y.path
          BY <2>2, <3>4, <4>1, <5>1
        <5>4. PathsIn(folders \cup {f})
          BY <2>2, <4>1, <5>2, <5>3, PathsMore
        <5>5. QED
          BY <3>3, <5>4
      <4>2. r.at \in Answered
        BY <3>1, <3>5, <3>6 DEF Answered
      <4>3. QED
        BY <1>1, <3>3, <4>1, <4>2, TreeAnswers
    <3>7. CASE backend # "mongodb"
      <4>1. r.at = "path"
        BY <3>1, <3>5, <3>7
      <4>2. folders' \ {f} = folders /\ f \in folders'
        BY <3>3, <3>4
      <4>3. Relied(h) => TreeKnown(r)'
        BY <2>2, <3>4, <3>5, <4>1, <4>2 DEF TreeKnown, CreateKnown
      <4>4. QED
        BY <1>1, <3>3, <3>5, <4>1, <4>3, TreeStep DEF Answered
    <3>8. QED
      BY <3>6, <3>7
  <2>5. QED
    BY <2>3, <2>4
<1>8. CASE WritePath(h)
  <2>1. PICK id, list, path : id = req[h].k /\ list = req[h].list /\ path = Append(list, id)
    OBVIOUS
  <2>2. req[h].at = "path" /\ folders' = Set(id, "path", path) /\ GoTo(h, Found(id))
    BY <1>8, <2>1 DEF WritePath, At
  <2>3. PICK at \in Answered : GoTo(h, at)
    BY <2>2 DEF Found, Answered
  <2>4. PICK r : GoOn(h, r) /\ r.at = at
    BY <1>1, <2>3, GoesOn
  <2>5. ASSUME Relied(h) PROVE PathsIn(folders')
    <3>1. PICK x \in folders :
            /\ x.id = id /\ x.parent = req[h].on /\ PathsIn(folders \ {x})
            /\ IF req[h].on = Root THEN list = <<>> ELSE \E y \in folders \ {x} : y.id = req[h].on /\ list = y.path
      BY <1>2, <2>1, <2>2, <2>5 DEF CreateKnown
    <3>2. PICK z : z = [x EXCEPT !["path"] = path]
      OBVIOUS
    <3>3. z.id = id /\ z.parent = x.parent /\ z.path = path /\ id \in Nat
      BY <1>5, <3>1, <3>2 DEF FolderFields
    <3>4. folders' = (folders \ {x}) \cup {z}
      <4>1. \A y \in folders : y.id = id <=> y = x
        BY <1>4, <3>1
      <4>2. QED
        BY <2>2, <3>2, <4>1 DEF Set
    <3>5. PathsIn((folders \ {x}) \cup {z})
      BY <2>1, <3>1, <3>3, PathsMore
    <3>6. QED
      BY <3>4, <3>5
  <2>6. QED
    BY <1>1, <2>4, <2>5, TreeAnswers
<1>9. QED
  BY <1>6, <1>7, <1>8

\* Rows go, with all that lead to them.
LEMMA PathsFewer ==
  ASSUME NEW rows, PathsIn(rows), NEW gone, \A x \in rows : x.parent \in gone => x.id \in gone
  PROVE  PathsIn({x \in rows : x.id \notin gone})
<1>1. PICK left : left = {x \in rows : x.id \notin gone}
  OBVIOUS
<1>2. ASSUME NEW x \in left
      PROVE  /\ x.path \in Seq(Nat)
             /\ \/ x.parent = Root /\ x.path = <<x.id>>
                \/ \E y \in left : y.id = x.parent /\ x.path = Append(y.path, x.id)
  BY <1>1, <1>2 DEF PathsIn
<1>3. PathsIn(left)
  BY <1>2 DEF PathsIn
<1>4. QED
  BY <1>1, <1>3

\* What a deletion leaves.
LEMMA DeleteTrees ==
  ASSUME LibInv, RefInv, TreeInv, LibInv', RefInv', NEW h \in Handlers,
         \/ Counts(h) \/ CollectMedia(h) \/ Detach(h) \/ DeleteRow(h)
         \/ mongoBelow(h) \/ mongoDetach(h) \/ mongoDeleteRows(h)
  PROVE  TreeKept
<1>1. Open(h) /\ Turn(h) /\ req[h].op = "delete"
  BY DEF Counts, CollectMedia, Detach, DeleteRow, mongoBelow, mongoDetach, mongoDeleteRows, At, Open, Answered
<1>2. Relied(h) => PathsIn(folders)
  BY <1>1 DEF TreeInv, TreeKnown, Relied
<1>3. DOMAIN req[h] = RequestFields /\ ByBackend(req[h])
      /\ (backend = "mongodb" /\ req[h].alone => KnowsFolders(req[h]))
  BY <1>1, Knows, RefersKnown DEF KnowsRows
<1>4. ASSUME NEW r, GoOn(h, r), r.op = "delete", r.alone = req[h].alone, r.sound = req[h].sound, UNCHANGED folders,
             r.at \in {"below", "detach", "row", "media", "rows"}
      PROVE  TreeKept
  <2>1. Relied(h) => TreeKnown(r)'
    BY <1>2, <1>4 DEF TreeKnown
  <2>2. QED
    BY <1>1, <1>4, <2>1, TreeStep DEF Answered
<1>5. ASSUME NEW at \in {"below", "detach", "row", "media", "rows"} \cup Answered, GoTo(h, at), UNCHANGED folders
      PROVE  TreeKept
  <2>1. PICK r : /\ GoOn(h, r) /\ r.at = at /\ r.op = req[h].op
                 /\ r.alone = req[h].alone /\ r.sound = req[h].sound
    BY <1>1, <1>5, GoesOn
  <2>2. CASE at \in Answered
    BY <1>1, <1>2, <1>5, <2>1, <2>2, TreeAnswers
  <2>3. CASE at \notin Answered
    BY <1>1, <1>4, <1>5, <2>1, <2>3
  <2>4. QED
    BY <2>2, <2>3
<1>6. ASSUME NEW list, NEW at \in {"detach", "media"}, GoOn(h, [req[h] EXCEPT !.list = list, !.at = at]), UNCHANGED folders
      PROVE  TreeKept
  <2>1. PICK r : r = [req[h] EXCEPT !.list = list, !.at = at]
    OBVIOUS
  <2>2. r.at = at /\ r.op = "delete" /\ r.alone = req[h].alone /\ r.sound = req[h].sound
    BY <1>1, <1>3, <2>1 DEF RequestFields
  <2>3. QED
    BY <1>4, <1>6, <2>1, <2>2
<1>7. ASSUME NEW gone, folders' = {x \in folders : x.id \notin gone}, GoTo(h, "ok"),
             Relied(h) => \A x \in folders : x.parent \in gone => x.id \in gone
      PROVE  TreeKept
  <2>1. PICK r : GoOn(h, r) /\ r.at = "ok"
    BY <1>1, <1>7, GoesOn
  <2>2. Relied(h) => PathsIn(folders')
    BY <1>2, <1>7, PathsFewer
  <2>3. QED
    BY <1>1, <2>1, <2>2, TreeAnswers DEF Answered
<1>8. CASE Counts(h)
  <2>1. PICK at \in {"below", "row", "error"} : GoTo(h, at) /\ UNCHANGED folders
    BY <1>8 DEF Counts, folderVars
  <2>2. QED
    BY <1>5, <2>1 DEF Answered
<1>9. CASE CollectMedia(h)
  <2>1. PICK list : GoOn(h, [req[h] EXCEPT !.list = list, !.at = "detach"]) /\ UNCHANGED folders
    BY <1>9 DEF CollectMedia, folderVars
  <2>2. QED
    BY <1>6, <2>1
<1>10. CASE Detach(h)
  BY <1>5, <1>10 DEF Detach
<1>11. CASE DeleteRow(h)
  <2>1. CASE GoTo(h, "error") /\ UNCHANGED <<folders, placed>>
    BY <1>5, <2>1 DEF Answered
  <2>2. CASE ~(GoTo(h, "error") /\ UNCHANGED <<folders, placed>>)
    <3>1. PICK gone : gone = IF IsFolder(req[h].on) THEN Cascade(req[h].on) ELSE {}
      OBVIOUS
    <3>2. folders' = {x \in folders : x.id \notin gone} /\ GoTo(h, "ok")
      BY <1>11, <2>2, <3>1 DEF DeleteRow
    <3>3. \A x \in folders : x.parent \in gone => x.id \in gone
      BY <3>1, CascadeClosed DEF RefInv
    <3>4. QED
      BY <1>7, <3>2, <3>3
  <2>3. QED
    BY <2>1, <2>2
<1>12. CASE mongoBelow(h)
  <2>1. UNCHANGED folders
    BY <1>12 DEF mongoBelow, folderVars
  <2>2. CASE GoTo(h, "ok")
    BY <1>5, <2>1, <2>2 DEF Answered
  <2>3. CASE ~GoTo(h, "ok")
    <3>1. PICK list : GoOn(h, [req[h] EXCEPT !.list = list, !.at = "media"])
      BY <1>12, <2>3 DEF mongoBelow, GoTo
    <3>2. QED
      BY <1>6, <2>1, <3>1
  <2>4. QED
    BY <2>2, <2>3
<1>13. CASE mongoDetach(h)
  BY <1>5, <1>13 DEF mongoDetach
<1>14. CASE mongoDeleteRows(h)
  <2>1. PICK gone : gone = req[h].list[1]
    OBVIOUS
  <2>2. req[h].at = "rows" /\ folders' = {x \in folders : x.id \notin gone} /\ GoTo(h, "ok")
    BY <1>14, <2>1 DEF mongoDeleteRows, At
  <2>3. backend = "mongodb"
    BY <1>1, <1>3, <2>2 DEF ByBackend
  <2>4. Relied(h) => KnowsFolders(req[h]) /\ req[h].sound
    BY <1>3, <2>3 DEF Relied, Isolated
  <2>5. Relied(h) => \A x \in folders : x.parent \in gone => x.id \in gone
    BY <1>1, <2>1, <2>2, <2>4 DEF KnowsFolders
  <2>6. QED
    BY <1>7, <2>2, <2>5
<1>15. QED
  BY <1>8, <1>9, <1>10, <1>11, <1>12, <1>13, <1>14

\* What is behind the first n numbers of a path, with one more number at its end.
LEMMA TailExtended ==
  ASSUME NEW s \in Seq(Nat), NEW e \in Nat, NEW n \in 0..Len(s), NEW q \in Seq(Nat)
  PROVE  q \o SubSeq(Append(s, e), n + 1, Len(Append(s, e))) = Append(q \o SubSeq(s, n + 1, Len(s)), e)
<1>1. PICK t, L, u : t = Append(s, e) /\ L = Len(s) /\ u = SubSeq(s, n + 1, L)
  OBVIOUS
<1>2. <<e>> \in Seq(Nat) /\ L \in Nat /\ t = s \o <<e>>
  <2>1. <<e>> \in Seq(Nat)
    OBVIOUS
  <2>2. L \in Nat
    BY <1>1, LenProperties
  <2>3. t = s \o <<e>>
    BY <1>1, AppendIsConcat, Zenon
  <2>4. QED
    BY <2>1, <2>2, <2>3
<1>3. t \in Seq(Nat) /\ Len(t) = L + 1 /\ t[L + 1] = e
  BY <1>1, AppendProperties
<1>4. SubSeq(t, n + 1, L) = u
  <2>1. CASE n = L
    <3>1. L < n + 1 /\ n + 1 \in Int /\ L \in Int
      BY <1>2, <2>1
    <3>2. QED
      BY <1>1, <3>1, SubSeqEmpty
  <2>2. CASE n # L
    <3>1. n + 1 \in 1..Len(s) /\ L \in 1..Len(s)
      BY <1>1, <1>2, <2>2
    <3>2. SubSeq(s \o <<e>>, n + 1, L) = SubSeq(s, n + 1, L)
      BY <1>2, <3>1, SubSeqOfConcat1
    <3>3. QED
      BY <1>1, <1>2, <3>2
  <2>3. QED
    BY <2>1, <2>2
<1>5. SubSeq(t, n + 1, L + 1) = u \o <<e>>
  <2>1. PICK m, k : m = n + 1 /\ k = L + 1 /\ m \in 1..Len(t) /\ k \in m..Len(t) /\ k - 1 = L
    BY <1>1, <1>2, <1>3
  <2>2. SubSeq(t, m, k) = SubSeq(t, m, k - 1) \o <<t[k]>>
    BY <1>3, <2>1, SubSeqRecursiveSecond, Zenon
  <2>3. QED
    BY <1>3, <1>4, <2>1, <2>2, Zenon
<1>6. u \in Seq(Nat)
  <2>1. \A i \in (n + 1)..L : s[i] \in Nat
    BY <1>1
  <2>2. n + 1 \in Int /\ L \in Int
    BY <1>2
  <2>3. QED
    BY <1>1, <2>1, <2>2, SubSeqProperties
<1>7. (q \o u) \o <<e>> = q \o (u \o <<e>>) /\ q \o u \in Seq(Nat)
  <2>1. q \in Seq(Nat) /\ <<e>> \in Seq(Nat) /\ u \in Seq(Nat)
    BY <1>2, <1>6
  <2>2. (q \o u) \o <<e>> = q \o (u \o <<e>>)
    BY ONLY <2>1, ConcatAssociative, SMTT(60)
  <2>3. q \o u \in Seq(Nat)
    BY ONLY <2>1, ConcatProperties, Zenon
  <2>4. QED
    BY <2>2, <2>3
<1>8. Append(q \o u, e) = (q \o u) \o <<e>>
  BY <1>7, AppendIsConcat
<1>9. QED
  BY <1>1, <1>3, <1>5, <1>7, <1>8

\* As long as the rows are, a tree is.
LEMMA TreeSame ==
  ASSUME UNCHANGED folders
  PROVE  Ids' = Ids /\ (Tree' <=> Tree)
<1>1. Ids' = Ids /\ \A f : Folder(f)' = Folder(f)
  BY DEF Ids, Folder
<1>2. \A S : Closed(S)' <=> Closed(S)
  BY <1>1 DEF Closed
<1>3. \A f : Above(f)' = Above(f)
  BY <1>1, <1>2 DEF Above
<1>4. QED
  BY <1>1, <1>3 DEF Tree

\* The new paths, with the folders where they are to be, are the paths of a tree.
LEMMA BecomesPaths ==
  ASSUME NEW r, NEW F, Becomes(r, F), NEW new, folders' = {new[x] : x \in folders},
         \A x \in folders : /\ new[x].id = x.id /\ new[x].path = F[x.id]
                            /\ new[x].parent = IF x.id = r.on THEN Parent(r) ELSE x.parent
  PROVE  PathsIn(folders')
<1>1. ASSUME NEW x \in folders, NEW z, z = new[x]
      PROVE  /\ z.path \in Seq(Nat)
             /\ \/ z.parent = Root /\ z.path = <<z.id>>
                \/ \E y \in folders' : y.id = z.parent /\ z.path = Append(y.path, z.id)
  <2>1. PICK p : p = IF x.id = r.on THEN Parent(r) ELSE x.parent
    OBVIOUS
  <2>2. z.id = x.id /\ z.parent = p /\ z.path = F[x.id]
    BY <1>1, <2>1
  <2>3. /\ F[x.id] \in Seq(Nat)
        /\ \/ p = Root /\ F[x.id] = <<x.id>>
           \/ p \in Ids /\ F[x.id] = Append(F[p], x.id)
    BY <2>1 DEF Becomes
  <2>4. CASE p = Root /\ F[x.id] = <<x.id>>
    BY <2>2, <2>3, <2>4
  <2>5. CASE p \in Ids /\ F[x.id] = Append(F[p], x.id)
    <3>1. PICK y \in folders : y.id = p
      BY <2>5 DEF Ids
    <3>2. new[y] \in folders' /\ new[y].id = p /\ new[y].path = F[p]
      BY <3>1
    <3>3. z.path = Append(new[y].path, z.id)
      BY <2>2, <2>5, <3>2
    <3>4. QED
      BY <2>2, <2>3, <3>2, <3>3
  <2>6. QED
    BY <2>3, <2>4, <2>5
<1>2. ASSUME NEW z \in folders'
      PROVE  /\ z.path \in Seq(Nat)
             /\ \/ z.parent = Root /\ z.path = <<z.id>>
                \/ \E y \in folders' : y.id = z.parent /\ z.path = Append(y.path, z.id)
  <2>1. PICK x \in folders : z = new[x]
    BY <1>2
  <2>2. QED
    BY <1>1, <2>1
<1>3. PICK rows : rows = folders'
  OBVIOUS
<1>4. PathsIn(rows)
  BY <1>2, <1>3 DEF PathsIn
<1>5. QED
  BY <1>3, <1>4

\* What a move of a folder refers to is true while nobody else writes.
LEMMA EditRelies ==
  ASSUME LibInv, RefInv, TreeInv, NEW h \in Handlers, Open(h), req[h].op = "edit"
  PROVE  /\ Relied(h) => EditKnown(req[h])
         /\ DOMAIN req[h] = RequestFields /\ ByBackend(req[h]) /\ FolderRequestOK(req[h])
         /\ \A x, y \in folders : x.id = y.id => x = y
         /\ \A x \in folders : x.id \in Nat \ {0} /\ DOMAIN x = FolderFields
<1>1. Relied(h) => EditKnown(req[h])
  BY DEF TreeInv, TreeKnown, Relied
<1>2. \A x \in folders : x.id \in Nat \ {0} /\ DOMAIN x = FolderFields
  BY FoldersAssumption DEF LibInv, CountersOK, FoldersOK
<1>3. \A x, y \in folders : x.id = y.id => x = y
  BY DEF RefInv, IdsDiffer
<1>4. QED
  BY <1>1, <1>2, <1>3, Knows, RefersKnown

\* A refusal: SQLite restores the rows as they were read.
LEMMA EditRefused ==
  ASSUME LibInv, RefInv, TreeInv, LibInv', RefInv', NEW h \in Handlers, Open(h), Turn(h), req[h].op = "edit",
         GoTo(h, "error"), folders' = Undone(req[h], folders), Relied(h) => PathsIn(folders)
  PROVE  TreeKept
<1>1. PICK r : GoOn(h, r) /\ r.at = "error"
  BY GoesOn
<1>2. Relied(h) => (req[h].was # <<>> => PathsIn(req[h].was[1]))
  BY EditRelies DEF EditKnown
<1>3. Relied(h) => PathsIn(folders')
  BY <1>2 DEF Undone
<1>4. QED
  BY <1>1, <1>3, TreeAnswers DEF Answered

\* updateFolder has read its folder.
LEMMA ReadFolderTrees ==
  ASSUME LibInv, RefInv, TreeInv, LibInv', RefInv', NEW h \in Handlers, ReadFolder(h)
  PROVE  TreeKept
<1>1. Open(h) /\ Turn(h) /\ req[h].op = "edit" /\ req[h].at = "read" /\ UNCHANGED folders
  BY DEF ReadFolder, At, Open, Answered, folderVars
<1>2. Relied(h) => /\ PathsIn(folders) /\ req[h].on \in Ids /\ (backend = "mongodb" => Tree)
  BY <1>1, EditRelies DEF EditKnown
<1>3. DOMAIN req[h] = RequestFields /\ \A x, y \in folders : x.id = y.id => x = y
  BY <1>1, EditRelies
<1>4. CASE ~IsFolder(req[h].on)
  <2>1. PICK r : r = [req[h] EXCEPT !.at = "error"]
    OBVIOUS
  <2>2. GoOn(h, r) /\ r.at = "error"
    BY <1>3, <1>4, <2>1 DEF ReadFolder, RequestFields
  <2>3. QED
    BY <1>1, <1>2, <2>2, TreeAnswers DEF Answered
<1>5. CASE IsFolder(req[h].on)
  <2>1. PICK y : y = Folder(req[h].on) /\ y \in folders /\ y.id = req[h].on
    BY <1>5 DEF IsFolder, Folder
  <2>2. PICK at \in {"parent", "name"} :
          GoOn(h, [req[h] EXCEPT !.list = <<y>>, !.was = Savepoint(folders), !.at = at])
    BY <1>5, <2>1 DEF ReadFolder
  <2>3. PICK r : r = [req[h] EXCEPT !.list = <<y>>, !.was = Savepoint(folders), !.at = at]
    OBVIOUS
  <2>4. /\ r.op = "edit" /\ r.at = at /\ r.on = req[h].on /\ r.list = <<y>> /\ r.was = Savepoint(folders)
        /\ r.alone = req[h].alone /\ r.sound = req[h].sound
    BY <1>1, <1>3, <2>3 DEF RequestFields
  <2>5. Relied(h) => (r.was # <<>> => PathsIn(r.was[1]))
    BY <1>2, <2>4 DEF Savepoint
  <2>6. r.list = <<r.list[1]>> /\ r.list[1] = y
    BY <2>4
  <2>7. AsRead(r)'
    BY <1>1, <1>3, <2>1, <2>4, <2>6 DEF AsRead, WasParent, OldPath
  <2>8. Relied(h) => TreeKnown(r)'
    <3>1. Ids' = Ids /\ (Tree' <=> Tree) /\ UNCHANGED backend
      BY <1>1, <2>2, TreeSame DEF GoOn
    <3>2. Relied(h) => EditKnown(r)'
      BY <1>1, <1>2, <2>2, <2>4, <2>5, <2>6, <2>7, <3>1 DEF EditKnown
    <3>3. QED
      BY <2>4, <3>2 DEF TreeKnown
  <2>9. r.at \notin Answered
    BY <2>2, <2>4 DEF Answered
  <2>10. GoOn(h, r)
    BY <2>2, <2>3
  <2>11. QED
    BY <1>1, <2>4, <2>8, <2>9, <2>10, TreeStep
<1>6. QED
  BY <1>4, <1>5

\* It is given its name: no path depends on it.
LEMMA RenameTrees ==
  ASSUME LibInv, RefInv, TreeInv, LibInv', RefInv', NEW h \in Handlers, Rename(h)
  PROVE  TreeKept
<1>1. Open(h) /\ Turn(h) /\ req[h].op = "edit" /\ req[h].at = "name"
  BY DEF Rename, At, Open, Answered
<1>2. Relied(h) => /\ PathsIn(folders) /\ req[h].on \in Ids /\ (backend = "mongodb" => Tree)
                   /\ req[h].was # <<>> => PathsIn(req[h].was[1])
                   /\ req[h].list = <<req[h].list[1]>> /\ AsRead(req[h])
  BY <1>1, EditRelies DEF EditKnown
<1>3. /\ DOMAIN req[h] = RequestFields /\ \A x, y \in folders : x.id = y.id => x = y
      /\ \A x \in folders : DOMAIN x = FolderFields
  BY <1>1, EditRelies
<1>4. CASE folders' = Undone(req[h], folders) /\ GoTo(h, "error")
  BY <1>1, <1>2, <1>4, EditRefused
<1>5. CASE folders' = Set(req[h].on, "name", Name(req[h])) /\ GoTo(h, "parent")
  <2>1. PICK r : /\ GoOn(h, r) /\ r.at = "parent" /\ r.op = req[h].op /\ r.on = req[h].on /\ r.arg = req[h].arg
                 /\ r.list = req[h].list /\ r.was = req[h].was
                 /\ r.alone = req[h].alone /\ r.sound = req[h].sound
    BY <1>1, <1>5, GoesOn
  <2>2. PICK name : name = Name(req[h])
    OBVIOUS
  <2>3. ASSUME NEW x \in folders, NEW z, z = [x EXCEPT !["name"] = name]
        PROVE  z.id = x.id /\ z.parent = x.parent /\ z.path = x.path
    BY <1>3, <2>3 DEF FolderFields
  <2>4. PICK new : new = [x \in folders |-> IF x.id = req[h].on THEN [x EXCEPT !["name"] = name] ELSE x]
    OBVIOUS
  <2>5. \A x \in folders : new[x].id = x.id /\ new[x].parent = x.parent /\ new[x].path = x.path
    BY <2>3, <2>4
  <2>6. folders' = {new[x] : x \in folders}
    BY <1>5, <2>2, <2>4 DEF Set
  <2>7. Ids' = Ids /\ (Tree => Tree')
    BY <1>3, <2>5, <2>6, TreeStays DEF IdsDiffer
  <2>8. PathsIn(folders) => PathsIn(folders')
    BY <2>5, <2>6, PathsStay
  <2>9. AsRead(req[h]) => AsRead(r)'
    <3>1. WasParent(r) = WasParent(req[h]) /\ OldPath(r) = OldPath(req[h])
      BY <2>1 DEF WasParent, OldPath
    <3>2. ASSUME AsRead(req[h]), NEW x \in folders, new[x].id = r.on
          PROVE  new[x].parent = WasParent(r) /\ new[x].path = OldPath(r)
      BY <2>1, <2>5, <3>1, <3>2 DEF AsRead
    <3>3. \A z \in folders' : \E x \in folders : z = new[x]
      BY <2>6
    <3>4. AsRead(req[h]) => \A z \in folders' : z.id = r.on => z.parent = WasParent(r) /\ z.path = OldPath(r)
      BY <3>2, <3>3
    <3>5. WasParent(r)' = WasParent(r) /\ OldPath(r)' = OldPath(r)
      BY DEF WasParent, OldPath
    <3>6. QED
      BY <3>4, <3>5 DEF AsRead
  <2>10. Relied(h) => EditKnown(r)'
    <3>1. UNCHANGED backend
      BY <2>1 DEF GoOn
    <3>2. r.list[1] = req[h].list[1]
      BY <2>1
    <3>3. QED
      BY <1>2, <2>1, <2>7, <2>8, <2>9, <3>1, <3>2 DEF EditKnown
  <2>11. Relied(h) => TreeKnown(r)'
    BY <1>1, <2>1, <2>10 DEF TreeKnown
  <2>12. QED
    BY <1>1, <2>1, <2>11, TreeStep DEF Answered
<1>6. QED
  BY <1>4, <1>5 DEF Rename

\* What the cycle check lets through does not lead below the folder.
LEMMA NotBelow ==
  ASSUME NEW r, NEW old \in Seq(Nat), old = OldPath(r), Parent(r) # Root, ~Refused(r)
  PROVE  \E y \in folders : y = Folder(Parent(r)) /\ y.id = Parent(r) /\ y.id # r.on
                            /\ (y.path \in Seq(Nat) => ~Extends(y.path, old))
<1>1. Parent(r) # r.on /\ IsFolder(Parent(r)) /\ Folder(Parent(r)).path # old /\ Folder(Parent(r)) \notin Below(old)
  BY DEF Refused
<1>2. PICK y \in folders : y = Folder(Parent(r)) /\ y.id = Parent(r)
  BY <1>1 DEF IsFolder, Folder
<1>3. ASSUME y.path \in Seq(Nat), Extends(y.path, old) PROVE FALSE
  <2>1. Len(y.path) >= Len(old) /\ SubSeq(y.path, 1, Len(old)) = old
    BY <1>3 DEF Extends
  <2>2. Len(y.path) \in Nat /\ Len(old) \in Nat
    BY <1>3
  <2>3. CASE Len(y.path) > Len(old)
    BY <1>1, <1>2, <2>1, <2>3 DEF Below
  <2>4. CASE Len(y.path) = Len(old)
    <3>1. SubSeq(y.path, 1, Len(old)) = y.path
      BY <1>3, <2>4, SubSeqFull
    <3>2. QED
      BY <1>1, <1>2, <2>1, <3>1
  <2>5. QED
    BY <2>1, <2>2, <2>3, <2>4
<1>4. QED
  BY <1>1, <1>2, <1>3

\* A true path ends in the folder's own id.
LEMMA EndsInItself ==
  ASSUME NEW path \in Seq(Nat), NEW id \in Nat,
         path = <<id>> \/ \E s \in Seq(Nat) : path = Append(s, id)
  PROVE  path # <<>> /\ path[Len(path)] = id
<1>1. CASE path = <<id>>
  BY <1>1
<1>2. ASSUME NEW s \in Seq(Nat), path = Append(s, id)
      PROVE  path # <<>> /\ path[Len(path)] = id
  BY <1>2, AppendProperties, SMTT(30)
<1>3. QED
  BY <1>1, <1>2

\* The new parent is read and refused if it is the folder itself or below it.
LEMMA NewParentTrees ==
  ASSUME LibInv, RefInv, TreeInv, LibInv', RefInv', NEW h \in Handlers, NewParent(h)
  PROVE  TreeKept
<1>1. Open(h) /\ Turn(h) /\ req[h].op = "edit" /\ req[h].at = "parent"
  BY DEF NewParent, At, Open, Answered
<1>2. Relied(h) => /\ PathsIn(folders) /\ req[h].on \in Ids /\ (backend = "mongodb" => Tree)
                   /\ req[h].was # <<>> => PathsIn(req[h].was[1])
                   /\ req[h].list = <<req[h].list[1]>> /\ AsRead(req[h])
  BY <1>1, EditRelies DEF EditKnown
<1>3. /\ DOMAIN req[h] = RequestFields /\ \A x, y \in folders : x.id = y.id => x = y
      /\ \A x \in folders : x.id \in Nat \ {0}
      /\ Parent(req[h]) \in 0..MaxFolders \cup {None}
  BY <1>1, EditRelies DEF FolderRequestOK
<1>4. CASE folders' = Undone(req[h], folders) /\ GoTo(h, "error")
  BY <1>1, <1>2, <1>4, EditRefused
<1>5. CASE Parent(req[h]) \in {None, WasParent(req[h])}
  <2>1. PICK at : GoTo(h, at) /\ UNCHANGED folders /\ at \in {"own"} \cup Answered
    BY <1>5 DEF NewParent, Found, Answered
  <2>2. PICK r : /\ GoOn(h, r) /\ r.at = at /\ r.op = req[h].op /\ r.on = req[h].on /\ r.arg = req[h].arg
                 /\ r.list = req[h].list /\ r.was = req[h].was
                 /\ r.alone = req[h].alone /\ r.sound = req[h].sound
    BY <1>1, <2>1, GoesOn
  <2>3. CASE at \in Answered
    BY <1>1, <1>2, <2>1, <2>2, <2>3, TreeAnswers
  <2>4. CASE at = "own"
    <3>1. Ids' = Ids /\ (Tree' <=> Tree) /\ UNCHANGED backend
      BY <2>1, <2>2, TreeSame DEF GoOn
    <3>2. Relied(h) => r.list = <<r.list[1]>>
      BY <1>2, <2>2
    <3>3. Relied(h) => EditKnown(r)'
      BY <1>2, <2>1, <2>2, <2>4, <3>1, <3>2 DEF EditKnown
    <3>4. Relied(h) => TreeKnown(r)'
      BY <1>1, <2>2, <3>3 DEF TreeKnown
    <3>5. QED
      BY <1>1, <2>2, <2>4, <3>4, TreeStep DEF Answered
  <2>5. QED
    BY <2>1, <2>3, <2>4
<1>6. CASE /\ Parent(req[h]) \notin {None, WasParent(req[h])}
           /\ ~(folders' = Undone(req[h], folders) /\ GoTo(h, "error"))
  <2>1. PICK path, at, p : /\ p = Parent(req[h])
                           /\ path = Append(IF p = Root THEN <<>> ELSE Folder(p).path, req[h].on)
                           /\ at = (IF backend = "mongodb" THEN "below" ELSE "move")
    OBVIOUS
  <2>2. PICK l : l = req[h].list[1]
    OBVIOUS
  <2>3. PICK r : r = [req[h] EXCEPT !.list = <<l, path>>, !.at = at]
    OBVIOUS
  <2>4. GoOn(h, r) /\ ~Refused(req[h]) /\ UNCHANGED folders
    BY <1>6, <2>1, <2>2, <2>3 DEF NewParent
  <2>5. /\ r.op = "edit" /\ r.at = at /\ r.on = req[h].on /\ r.arg = req[h].arg /\ r.list = <<l, path>>
        /\ r.was = req[h].was /\ r.alone = req[h].alone /\ r.sound = req[h].sound
    BY <1>1, <1>3, <2>3, SMTT(30) DEF RequestFields
  <2>6. /\ r.list[1] = l /\ r.list[2] = path /\ r.list = <<r.list[1], r.list[2]>>
        /\ Parent(r) = p /\ OldPath(r) = l.path /\ NewPath(r) = path /\ OldPath(req[h]) = l.path
        /\ WasParent(req[h]) = l.parent
    <3>1. PICK list : list = r.list /\ list = <<l, path>>
      BY <2>5
    <3>2. list[1] = l /\ list[2] = path /\ list = <<list[1], list[2]>>
      BY <3>1
    <3>3. Parent(r) = p
      BY <2>1, <2>5 DEF Parent
    <3>4. OldPath(r) = l.path /\ NewPath(r) = path
      BY <3>1, <3>2 DEF OldPath, NewPath
    <3>5. OldPath(req[h]) = l.path /\ WasParent(req[h]) = l.parent
      BY <2>2 DEF OldPath, WasParent
    <3>6. QED
      BY <3>1, <3>2, <3>3, <3>4, <3>5
  <2>7. ASSUME Relied(h) PROVE EditKnown(r)'
    <3>1. PICK on : on = req[h].on
      OBVIOUS
    <3>2. PICK x \in folders : x.id = on
      BY <1>2, <2>7, <3>1 DEF Ids
    <3>3. \A y \in folders : y.id = on => y.path = l.path
      BY <1>2, <2>6, <2>7, <3>1 DEF AsRead
    <3>4. /\ l.path \in Seq(Nat) /\ on \in Nat
          /\ l.path = <<on>> \/ \E s \in Seq(Nat) : l.path = Append(s, on)
      <4>1. x.path = l.path /\ on \in Nat
        BY <1>3, <3>2, <3>3
      <4>2. PathsIn(folders)
        BY <1>2, <2>7
      <4>3. QED
        BY <3>2, <4>1, <4>2 DEF PathsIn
    <3>5. l.path # <<>> /\ l.path[Len(l.path)] = on
      <4>1. PICK q : q = l.path
        OBVIOUS
      <4>2. q # <<>> /\ q[Len(q)] = on
        BY <3>4, <4>1, EndsInItself
      <4>3. QED
        BY <4>1, <4>2
    <3>6. PathsBut(r)'
      <4>1. ASSUME NEW z \in folders, z.id # on
            PROVE  /\ z.path \in Seq(Nat)
                   /\ \/ z.parent = Root /\ z.path = <<z.id>>
                      \/ \E y \in folders : y.id = z.parent /\ z.path = Append(IF y.id = on THEN l.path ELSE y.path, z.id)
        <5>1. \A y \in folders : (IF y.id = on THEN l.path ELSE y.path) = y.path
          BY <3>3
        <5>2. QED
          BY <1>2, <2>7, <4>1, <5>1 DEF PathsIn
      <4>2. r.on = on /\ OldPath(r)' = l.path
        BY <2>5, <2>6, <3>1 DEF OldPath
      <4>3. QED
        BY <2>4, <4>1, <4>2 DEF PathsBut
    <3>7. Leads(r)'
      <4>1. \/ p = Root /\ path = <<on>>
            \/ \E y \in folders : y.id = p /\ y.id # on /\ path = Append(y.path, on) /\ ~Extends(y.path, l.path)
        <5>1. CASE p = Root
          <6>1. path = Append(<<>>, on)
            BY <2>1, <3>1, <5>1
          <6>2. Append(<<>>, on) = <<on>>
            OBVIOUS
          <6>3. QED
            BY <5>1, <6>1, <6>2
        <5>2. CASE p # Root
          <6>1. PICK q, old : q = req[h] /\ old = l.path
            OBVIOUS
          <6>2. PICK y \in folders : /\ y = Folder(Parent(q)) /\ y.id = Parent(q) /\ y.id # q.on
                                     /\ (y.path \in Seq(Nat) => ~Extends(y.path, old))
            BY <2>1, <2>4, <2>6, <3>4, <5>2, <6>1, NotBelow
          <6>3. y.path \in Seq(Nat)
            BY <1>2, <2>7 DEF PathsIn
          <6>4. path = Append(y.path, on)
            BY <2>1, <3>1, <5>2, <6>1, <6>2
          <6>5. QED
            BY <2>1, <3>1, <6>1, <6>2, <6>3, <6>4
        <5>3. QED
          BY <5>1, <5>2
      <4>2. r.on = on /\ OldPath(r)' = l.path /\ NewPath(r)' = path /\ Parent(r)' = p
        BY <2>5, <2>6, <3>1 DEF OldPath, NewPath, Parent
      <4>3. QED
        BY <2>4, <3>4, <3>5, <4>1, <4>2 DEF Leads
    <3>8. Ids' = Ids /\ (Tree' <=> Tree) /\ UNCHANGED backend
      BY <2>4, TreeSame DEF GoOn
    <3>9. r.on \in Ids' /\ (backend' = "mongodb" => Tree') /\ (r.was # <<>> => PathsIn(r.was[1])) /\ PathsIn(folders')
      BY <1>2, <2>4, <2>5, <2>7, <3>8
    <3>10. CASE backend = "mongodb"
      <4>1. r.at = "below"
        BY <2>1, <2>5, <3>10
      <4>2. \A y \in folders' : y.id = r.on => y.path = OldPath(r)'
        BY <2>4, <2>5, <2>6, <3>1, <3>3 DEF OldPath
      <4>3. QED
        BY <2>6, <3>6, <3>7, <3>8, <3>9, <3>10, <4>1, <4>2 DEF EditKnown
    <3>11. CASE backend # "mongodb"
      <4>1. r.at = "move"
        BY <2>1, <2>5, <3>11
      <4>2. QED
        BY <2>6, <3>6, <3>7, <3>8, <3>9, <3>11, <4>1 DEF EditKnown
    <3>12. QED
      BY <3>10, <3>11
  <2>8. Relied(h) => TreeKnown(r)'
    BY <2>5, <2>7 DEF TreeKnown
  <2>9. r.at \notin Answered
    BY <2>1, <2>5 DEF Answered
  <2>10. QED
    BY <1>1, <2>4, <2>5, <2>8, <2>9, TreeStep
<1>7. QED
  BY <1>4, <1>5, <1>6

\* SQL writes the folder's parent and path: it now ends in itself, below what is not below it.
LEMMA MoveTrees ==
  ASSUME LibInv, RefInv, TreeInv, LibInv', RefInv', NEW h \in Handlers, Move(h)
  PROVE  TreeKept
<1>1. Open(h) /\ Turn(h) /\ req[h].op = "edit" /\ req[h].at = "move" /\ backend # "mongodb"
  <2>1. Open(h) /\ Turn(h) /\ req[h].op = "edit" /\ req[h].at = "move"
    BY DEF Move, At, Open, Answered
  <2>2. QED
    BY <2>1, EditRelies DEF ByBackend
<1>2. Relied(h) => /\ PathsIn(folders) /\ req[h].on \in Ids
                   /\ req[h].was # <<>> => PathsIn(req[h].was[1])
                   /\ req[h].list = <<req[h].list[1], req[h].list[2]>> /\ PathsBut(req[h]) /\ Leads(req[h])
  BY <1>1, EditRelies DEF EditKnown
<1>3. \A x \in folders : DOMAIN x = FolderFields
  BY <1>1, EditRelies
<1>4. CASE folders' = Undone(req[h], folders) /\ GoTo(h, "error")
  BY <1>1, <1>2, <1>4, EditRefused
<1>5. CASE ~(folders' = Undone(req[h], folders) /\ GoTo(h, "error"))
  <2>1. PICK on, p, path, old : /\ on = req[h].on /\ p = Parent(req[h]) /\ path = NewPath(req[h])
                                /\ old = OldPath(req[h])
    OBVIOUS
  <2>2. /\ folders' = {IF x.id = on THEN [x EXCEPT !.parent = p, !.path = path] ELSE x : x \in folders}
        /\ GoTo(h, "below")
    BY <1>5, <2>1 DEF Move
  <2>3. PICK r : /\ GoOn(h, r) /\ r.at = "below" /\ r.op = req[h].op /\ r.on = req[h].on /\ r.arg = req[h].arg
                 /\ r.list = req[h].list /\ r.was = req[h].was
                 /\ r.alone = req[h].alone /\ r.sound = req[h].sound
    <3>1. GoTo(h, "below")
      BY <2>2
    <3>2. QED
      BY <1>1, <3>1, GoesOn
  <2>4. PICK new : new = [x \in folders |-> IF x.id = on THEN [x EXCEPT !.parent = p, !.path = path] ELSE x]
    OBVIOUS
  <2>5. ASSUME NEW x \in folders, NEW z, z = [x EXCEPT !.parent = p, !.path = path]
        PROVE  z.id = x.id /\ z.parent = p /\ z.path = path
    BY <1>3, <2>5 DEF FolderFields
  <2>6. \A x \in folders : /\ new[x].id = x.id
                           /\ x.id = on => new[x].parent = p /\ new[x].path = path
                           /\ x.id # on => new[x] = x
    BY <2>4, <2>5
  <2>7. folders' = {new[x] : x \in folders}
    BY <2>2, <2>4
  <2>8. Ids' = Ids /\ UNCHANGED backend
    BY <2>3, <2>6, <2>7 DEF Ids, GoOn
  <2>9. /\ \A z \in folders' : z.id # on => z \in folders
        /\ \A z \in folders' : z.id = on => z.parent = p /\ z.path = path
        /\ \A y \in folders : y.id # on => y \in folders'
        /\ \A y \in folders : \E z \in folders' : z.id = y.id
    <3>1. \A z \in folders' : \E x \in folders : z = new[x]
      BY <2>7
    <3>2. \A x \in folders : new[x] \in folders'
      BY <2>7
    <3>3. QED
      BY <2>6, <3>1, <3>2
  <2>10. r.on = on /\ Parent(r)' = p /\ NewPath(r)' = path /\ OldPath(r)' = old
    BY <2>1, <2>3 DEF Parent, NewPath, OldPath
  <2>11. ASSUME Relied(h) PROVE PathsBut(r)'
    <3>1. ASSUME NEW z \in folders', z.id # on
          PROVE  /\ z.path \in Seq(Nat)
                 /\ \/ z.parent = Root /\ z.path = <<z.id>>
                    \/ \E y \in folders' : y.id = z.parent /\ z.path = Append(IF y.id = on THEN old ELSE y.path, z.id)
      <4>1. z \in folders
        BY <2>9, <3>1
      <4>2. /\ z.path \in Seq(Nat)
            /\ \/ z.parent = Root /\ z.path = <<z.id>>
               \/ \E y \in folders : y.id = z.parent /\ z.path = Append(IF y.id = on THEN old ELSE y.path, z.id)
        BY <1>2, <2>1, <2>11, <3>1, <4>1 DEF PathsBut
      <4>3. ASSUME NEW y \in folders, y.id = z.parent, z.path = Append(IF y.id = on THEN old ELSE y.path, z.id)
            PROVE  \E w \in folders' : w.id = z.parent /\ z.path = Append(IF w.id = on THEN old ELSE w.path, z.id)
        <5>1. PICK w \in folders' : w.id = y.id /\ (y.id # on => w = y)
          BY <2>9
        <5>2. QED
          BY <4>3, <5>1
      <4>4. QED
        BY <4>2, <4>3
    <3>2. QED
      BY <2>10, <3>1 DEF PathsBut
  <2>12. ASSUME Relied(h) PROVE Leads(r)'
    <3>1. /\ old \in Seq(Nat) /\ old # <<>> /\ old[Len(old)] = on
          /\ \/ p = Root /\ path = <<on>>
             \/ \E y \in folders : y.id = p /\ y.id # on /\ path = Append(y.path, on) /\ ~Extends(y.path, old)
      BY <1>2, <2>1, <2>12 DEF Leads
    <3>2. \/ p = Root /\ path = <<on>>
          \/ \E y \in folders' : y.id = p /\ y.id # on /\ path = Append(y.path, on) /\ ~Extends(y.path, old)
      BY <2>9, <3>1
    <3>3. QED
      BY <2>10, <3>1, <3>2 DEF Leads
  <2>13. Relied(h) => EditKnown(r)'
    <3>1. \A z \in folders' : z.id = r.on => z.parent = Parent(r)' /\ z.path = NewPath(r)'
      BY <2>9, <2>10
    <3>2. Relied(h) => /\ r.on \in Ids' /\ (r.was # <<>> => PathsIn(r.was[1]))
                       /\ r.list = <<r.list[1], r.list[2]>>
      BY <1>2, <2>3, <2>8
    <3>3. QED
      BY <1>1, <2>3, <2>8, <2>11, <2>12, <3>1, <3>2 DEF EditKnown
  <2>14. Relied(h) => TreeKnown(r)'
    BY <1>1, <2>3, <2>13 DEF TreeKnown
  <2>15. QED
    BY <1>1, <2>3, <2>14, TreeStep DEF Answered
<1>6. QED
  BY <1>4, <1>5

\* Whether the path with one more number extends another, that does not end in the number
\* this one ends in.
LEMMA ExtendsOn ==
  ASSUME NEW s \in Seq(Nat), NEW e \in Nat, NEW old \in Seq(Nat), old # <<>>,
         s # <<>> /\ s[Len(s)] # old[Len(old)]
  PROVE  /\ Len(Append(s, e)) > Len(old) /\ SubSeq(Append(s, e), 1, Len(old)) = old
              <=> Len(s) > Len(old) /\ SubSeq(s, 1, Len(old)) = old
         /\ ~(Len(s) = Len(old) /\ SubSeq(s, 1, Len(old)) = old)
<1>1. PICK n, t : n = Len(old) /\ t = Append(s, e) /\ n \in Nat /\ Len(s) \in Nat /\ Len(t) = Len(s) + 1
  <2>1. Len(old) \in Nat /\ Len(s) \in Nat
    BY LenProperties
  <2>2. Len(Append(s, e)) = Len(s) + 1
    BY AppendProperties, SMTT(30)
  <2>3. QED
    BY <2>1, <2>2
<1>2. ~(Len(s) = n /\ SubSeq(s, 1, n) = old)
  <2>1. SubSeq(s, 1, Len(s)) = s
    BY SubSeqFull
  <2>2. QED
    BY <1>1, <2>1
<1>3. n <= Len(s) => SubSeq(t, 1, n) = SubSeq(s, 1, n)
  <2>1. n <= Len(s) => n \in 0..Len(s)
    BY <1>1
  <2>2. QED
    BY <1>1, <2>1, PathExtended
<1>4. Len(t) > n <=> n <= Len(s)
  BY <1>1
<1>5. Len(s) > n <=> n <= Len(s) /\ n # Len(s)
  BY <1>1
<1>6. Len(t) > n /\ SubSeq(t, 1, n) = old <=> Len(s) > n /\ SubSeq(s, 1, n) = old
  BY <1>2, <1>3, <1>4, <1>5
<1>7. QED
  BY <1>1, <1>2, <1>6

\* Of what nothing extends, nothing longer by one does.
LEMMA NotOn ==
  ASSUME NEW s \in Seq(Nat), NEW e \in Nat, NEW old \in Seq(Nat), ~Extends(s, old)
  PROVE  ~(Len(Append(s, e)) > Len(old) /\ SubSeq(Append(s, e), 1, Len(old)) = old)
<1>1. Len(Append(s, e)) = Len(s) + 1 /\ Len(s) \in Nat /\ Len(old) \in Nat
  BY AppendProperties, LenProperties
<1>2. SUFFICES ASSUME Len(Append(s, e)) > Len(old), SubSeq(Append(s, e), 1, Len(old)) = old
               PROVE  FALSE
  OBVIOUS
<1>3. Len(old) \in 0..Len(s)
  BY <1>1, <1>2
<1>4. SubSeq(Append(s, e), 1, Len(old)) = SubSeq(s, 1, Len(old))
  BY <1>3, PathExtended
<1>5. QED
  BY <1>1, <1>2, <1>3, <1>4 DEF Extends

\* The paths that Descendants computes are those of the folders where they are to be.
PathAfter(r, x) ==
  IF x.id = r.on THEN NewPath(r)
  ELSE IF x \in Below(OldPath(r)) THEN NewPath(r) \o SubSeq(x.path, Len(OldPath(r)) + 1, Len(x.path))
  ELSE x.path
PathsAfter(r, rows) == {<<x.id, NewPath(r) \o SubSeq(x.path, Len(OldPath(r)) + 1, Len(x.path))>> : x \in rows}

\* The paths that the rows below a moved folder are to have.
LEMMA MovesBelow ==
  ASSUME NEW r, PathsBut(r), Leads(r),
         \A x, y \in folders : x.id = y.id => x = y,
         \A x \in folders : x.id \in Nat \ {0},
         \A x \in folders : x.id = r.on => x \notin Below(OldPath(r)),
         NEW x \in folders
  PROVE  LET p == IF x.id = r.on THEN Parent(r) ELSE x.parent IN
         /\ PathAfter(r, x) \in Seq(Nat)
         /\ \/ p = Root /\ PathAfter(r, x) = <<x.id>>
            \/ \E y \in folders : y.id = p /\ PathAfter(r, x) = Append(PathAfter(r, y), x.id)
<1>1. PICK on, to, path, old : on = r.on /\ to = Parent(r) /\ path = NewPath(r) /\ old = OldPath(r)
  OBVIOUS
<1>2. /\ old \in Seq(Nat) /\ old # <<>> /\ old[Len(old)] = on
      /\ \/ to = Root /\ path = <<on>>
         \/ \E y \in folders : y.id = to /\ y.id # on /\ path = Append(y.path, on) /\ ~Extends(y.path, old)
  BY <1>1 DEF Leads
<1>3. /\ \A y \in folders : y.id # on =>
           /\ y.path \in Seq(Nat)
           /\ \/ y.parent = Root /\ y.path = <<y.id>>
              \/ \E z \in folders : y.parent = z.id /\ y.path = Append(IF z.id = on THEN old ELSE z.path, y.id)
  BY <1>1 DEF PathsBut
<1>4. /\ \A y \in folders : y.id = on => PathAfter(r, y) = path
      /\ \A y \in folders : y.id # on /\ y \in Below(old)
           => PathAfter(r, y) = path \o SubSeq(y.path, Len(old) + 1, Len(y.path))
      /\ \A y \in folders : y.id # on /\ y \notin Below(old) => PathAfter(r, y) = y.path
  BY <1>1 DEF PathAfter
<1>5. Len(old) \in Nat /\ Len(old) > 0
  BY <1>2
<1>6. \A y \in folders : y \in Below(old) <=> Len(y.path) > Len(old) /\ SubSeq(y.path, 1, Len(old)) = old
  BY DEF Below
\* a path that is not the folder's ends in another id
<1>7. ASSUME NEW y \in folders, y.id # on PROVE y.path # <<>> /\ y.path[Len(y.path)] # old[Len(old)]
  <2>1. PICK q, e : q = y.path /\ e = y.id /\ q \in Seq(Nat) /\ e \in Nat
    BY <1>3, <1>7
  <2>2. q = <<e>> \/ \E s \in Seq(Nat) : q = Append(s, e)
    BY <1>2, <1>3, <1>7, <2>1
  <2>3. q # <<>> /\ q[Len(q)] = e
    BY <2>1, <2>2, EndsInItself
  <2>4. QED
    BY <1>2, <1>7, <2>1, <2>3
<1>8. path \in Seq(Nat) /\ (to = Root => path = <<on>> \/ path \in Seq(Nat))
  <2>1. CASE path = <<on>>
    <3>1. old[Len(old)] \in Nat
      BY <1>2, <1>5
    <3>2. QED
      BY <1>2, <2>1, <3>1
  <2>2. CASE path # <<on>>
    <3>1. PICK y \in folders : y.id # on /\ path = Append(y.path, on)
      BY <1>2, <2>2
    <3>2. y.path \in Seq(Nat) /\ on \in Nat
      BY <1>2, <1>3, <1>5, <3>1
    <3>3. QED
      BY <3>1, <3>2, AppendProperties
  <2>3. QED
    BY <2>1, <2>2
<1>9. CASE x.id = on
  <2>1. PathAfter(r, x) = path
    BY <1>4, <1>9
  <2>2. CASE to = Root /\ path = <<on>>
    BY <1>1, <1>8, <1>9, <2>1, <2>2
  <2>3. ASSUME NEW y \in folders, y.id = to, y.id # on, path = Append(y.path, on), ~Extends(y.path, old)
        PROVE  PathAfter(r, x) = Append(PathAfter(r, y), x.id)
    <3>1. y \notin Below(old)
      BY <1>3, <1>5, <1>6, <2>3 DEF Extends
    <3>2. PathAfter(r, y) = y.path
      BY <1>4, <2>3, <3>1
    <3>3. QED
      BY <1>9, <2>1, <2>3, <3>2
  <2>4. QED
    BY <1>1, <1>2, <1>8, <1>9, <2>1, <2>2, <2>3
<1>10. CASE x.id # on
  <2>1. PICK q, e : q = x.path /\ e = x.id /\ q \in Seq(Nat) /\ e \in Nat
    BY <1>3, <1>10
  <2>2. CASE x.parent = Root /\ q = <<e>>
    <3>1. Len(q) = 1
      BY <2>2
    <3>2. x \notin Below(old)
      BY <1>5, <1>6, <2>1, <3>1
    <3>3. PathAfter(r, x) = q
      BY <1>4, <1>10, <2>1, <3>2
    <3>4. QED
      BY <1>1, <1>10, <2>1, <2>2, <3>3
  <2>3. ASSUME NEW y \in folders, y.id = x.parent, y.id = on, q = Append(old, e)
        PROVE  PathAfter(r, x) \in Seq(Nat) /\ PathAfter(r, x) = Append(PathAfter(r, y), x.id)
    <3>1. PICK n : n = Len(old) /\ n \in 0..Len(old)
      BY <1>5
    <3>2. Len(q) = n + 1 /\ SubSeq(q, 1, n) = SubSeq(old, 1, n)
      BY <1>2, <2>1, <2>3, <3>1, PathExtended
    <3>3. SubSeq(old, 1, n) = old
      BY <1>2, <3>1, SubSeqFull
    <3>4. x \in Below(old)
      BY <1>5, <1>6, <2>1, <3>1, <3>2, <3>3
    <3>5. path \o SubSeq(q, n + 1, Len(q)) = Append(path \o SubSeq(old, n + 1, Len(old)), e)
      BY <1>2, <1>8, <2>1, <2>3, <3>1, TailExtended
    <3>6. SubSeq(old, n + 1, Len(old)) = <<>>
      <4>1. n + 1 \in Int /\ Len(old) \in Int /\ Len(old) < n + 1
        BY <3>1
      <4>2. QED
        BY <4>1, SubSeqEmpty
    <3>7. path \o <<>> = path
      BY <1>8, ConcatEmptySeq
    <3>8. PathAfter(r, x) = Append(path, e)
      BY <1>4, <1>10, <2>1, <3>1, <3>4, <3>5, <3>6, <3>7
    <3>9. PathAfter(r, y) = path
      BY <1>4, <2>3
    <3>10. Append(path, e) \in Seq(Nat)
      BY <1>8, <2>1, AppendProperties
    <3>11. QED
      BY <2>1, <3>8, <3>9, <3>10
  <2>4. ASSUME NEW y \in folders, y.id = x.parent, y.id # on, q = Append(y.path, e)
        PROVE  PathAfter(r, x) \in Seq(Nat) /\ PathAfter(r, x) = Append(PathAfter(r, y), x.id)
    <3>1. PICK s : s = y.path /\ s \in Seq(Nat) /\ s # <<>> /\ s[Len(s)] # old[Len(old)] /\ q = Append(s, e)
      BY <1>3, <1>7, <2>4
    <3>2. Len(q) > Len(old) /\ SubSeq(q, 1, Len(old)) = old <=> Len(s) > Len(old) /\ SubSeq(s, 1, Len(old)) = old
      <4>1. old \in Seq(Nat) /\ old # <<>> /\ e \in Nat /\ s \in Seq(Nat) /\ s # <<>> /\ s[Len(s)] # old[Len(old)]
        BY <1>2, <2>1, <3>1
      <4>2. Len(Append(s, e)) > Len(old) /\ SubSeq(Append(s, e), 1, Len(old)) = old
              <=> Len(s) > Len(old) /\ SubSeq(s, 1, Len(old)) = old
        BY <4>1, ExtendsOn
      <4>3. QED
        BY <3>1, <4>2, Zenon
    <3>3. x \in Below(old) <=> y \in Below(old)
      BY <1>6, <2>1, <3>1, <3>2
    <3>4. CASE y \in Below(old)
      <4>1. PICK n : n = Len(old) /\ n \in 0..Len(s)
        <5>1. Len(s) > Len(old) /\ Len(s) \in Nat
          BY <1>6, <3>1, <3>4
        <5>2. QED
          BY <1>5, <5>1
      <4>2. path \o SubSeq(q, n + 1, Len(q)) = Append(path \o SubSeq(s, n + 1, Len(s)), e)
        <5>1. path \in Seq(Nat) /\ e \in Nat /\ s \in Seq(Nat) /\ n \in 0..Len(s)
          BY <1>8, <2>1, <3>1, <4>1
        <5>2. path \o SubSeq(Append(s, e), n + 1, Len(Append(s, e))) = Append(path \o SubSeq(s, n + 1, Len(s)), e)
          BY <5>1, TailExtended
        <5>3. QED
          BY <3>1, <5>2, Zenon
      <4>3. /\ PathAfter(r, x) = path \o SubSeq(q, n + 1, Len(q))
            /\ PathAfter(r, y) = path \o SubSeq(s, n + 1, Len(s))
        BY <1>4, <1>10, <2>1, <2>4, <3>1, <3>3, <3>4, <4>1
      <4>4. SubSeq(q, n + 1, Len(q)) \in Seq(Nat)
        <5>1. \A i \in (n + 1)..Len(q) : q[i] \in Nat
          BY <2>1, <4>1
        <5>2. n + 1 \in Int /\ Len(q) \in Int
          BY <2>1, <4>1
        <5>3. QED
          BY <5>1, <5>2, SubSeqProperties
      <4>5. path \o SubSeq(q, n + 1, Len(q)) \in Seq(Nat)
        BY <1>8, <4>4, ConcatProperties
      <4>6. QED
        BY <2>1, <4>2, <4>3, <4>5
    <3>5. CASE y \notin Below(old)
      <4>1. PathAfter(r, x) = q /\ PathAfter(r, y) = s
        BY <1>4, <1>10, <2>1, <2>4, <3>1, <3>3, <3>5
      <4>2. QED
        BY <2>1, <2>4, <3>1, <4>1
    <3>6. QED
      BY <3>4, <3>5
  <2>5. \/ x.parent = Root /\ q = <<e>>
        \/ \E y \in folders : y.id = x.parent /\ y.id = on /\ q = Append(old, e)
        \/ \E y \in folders : y.id = x.parent /\ y.id # on /\ q = Append(y.path, e)
    BY <1>3, <1>10, <2>1
  <2>6. QED
    BY <1>1, <1>10, <2>2, <2>3, <2>4, <2>5
<1>11. QED
  BY <1>9, <1>10

\* The new paths are among those that are there or are to be written.
LEMMA BecomesKnown ==
  ASSUME NEW r, NEW F, F = [f \in Ids' |-> F[f]], Becomes(r, F)'
  PROVE  WillBe(r)'
<1>1. PICK S : S = {x.path : x \in folders'} \cup {d[2] : d \in r.list[3]} \cup {NewPath(r)}
  OBVIOUS
<1>2. ASSUME NEW f \in Ids' PROVE F[f] \in S
  <2>1. PICK x \in folders' : x.id = f
    BY DEF Ids
  <2>2. /\ f = r.on => F[f] = NewPath(r)
        /\ f # r.on => x.path = F[f] \/ <<f, F[f]>> \in r.list[3]
    BY <2>1 DEF Becomes, NewPath
  <2>3. ASSUME <<f, F[f]>> \in r.list[3] PROVE F[f] \in {d[2] : d \in r.list[3]}
    <3>1. PICK d : d = <<f, F[f]>>
      OBVIOUS
    <3>2. d[2] = F[f]
      BY <3>1
    <3>3. QED
      BY <2>3, <3>1, <3>2
  <2>4. QED
    BY <1>1, <2>1, <2>2, <2>3
<1>3. F \in [Ids' -> S]
  <2>1. PICK I : I = Ids'
    OBVIOUS
  <2>2. F = [f \in I |-> F[f]] /\ \A f \in I : F[f] \in S
    BY <1>2, <2>1
  <2>3. F \in [I -> S]
    BY <2>2
  <2>4. QED
    BY <2>1, <2>3
<1>4. NewPath(r)' = NewPath(r)
  BY DEF NewPath
<1>5. QED
  BY <1>1, <1>3, <1>4 DEF WillBe

\* A list of two with one more.
LEMMA ThirdAppended ==
  ASSUME NEW a, NEW b, NEW c
  PROVE  Append(<<a, b>>, c) = <<a, b, c>>
<1>1. PICK S : S = {a, b, c}
  OBVIOUS
<1>2. <<a, b>> \in Seq(S) /\ <<a, b, c>> \in Seq(S) /\ c \in S /\ Len(<<a, b>>) = 2
  BY <1>1
<1>3. PICK t, u : t = Append(<<a, b>>, c) /\ u = <<a, b, c>>
  OBVIOUS
<1>4. t \in Seq(S) /\ Len(t) = 3 /\ t[1] = a /\ t[2] = b /\ t[3] = c
  BY <1>2, <1>3, AppendProperties
<1>5. u \in Seq(S) /\ Len(u) = 3 /\ u[1] = a /\ u[2] = b /\ u[3] = c
  BY <1>2, <1>3
<1>6. \A i \in 1..Len(t) : t[i] = u[i]
  BY <1>4, <1>5
<1>7. t = u
  BY <1>4, <1>5, <1>6, SeqEqual
<1>8. QED
  BY <1>3, <1>7

\* A list of three whose third is another.
LEMMA ThirdReplaced ==
  ASSUME NEW a, NEW b, NEW c, NEW d
  PROVE  [<<a, b, c>> EXCEPT ![3] = d] = <<a, b, d>>
  OBVIOUS

\* The rows below the old path are listed, each with its path to be.
LEMMA DescendantsTrees ==
  ASSUME LibInv, RefInv, TreeInv, LibInv', RefInv', NEW h \in Handlers, Descendants(h)
  PROVE  TreeKept
<1>1. Open(h) /\ Turn(h) /\ req[h].op = "edit" /\ req[h].at = "below" /\ UNCHANGED folders
  BY DEF Descendants, At, Open, Answered, folderVars
<1>2. Relied(h) => /\ req[h].on \in Ids /\ (backend = "mongodb" => Tree)
                   /\ req[h].was # <<>> => PathsIn(req[h].was[1])
                   /\ req[h].list = <<req[h].list[1], req[h].list[2]>> /\ PathsBut(req[h]) /\ Leads(req[h])
                   /\ \A x \in folders : x.id = req[h].on => IF backend = "mongodb" THEN x.path = OldPath(req[h])
                                                             ELSE x.parent = Parent(req[h]) /\ x.path = NewPath(req[h])
  BY <1>1, EditRelies DEF EditKnown
<1>3. /\ DOMAIN req[h] = RequestFields /\ \A x, y \in folders : x.id = y.id => x = y
      /\ \A x \in folders : x.id \in Nat \ {0}
  BY <1>1, EditRelies
<1>4. PICK q, moved : q = req[h] /\ moved = PathsAfter(q, Below(OldPath(q)))
  OBVIOUS
<1>5. PICK r : r = [q EXCEPT !.list = Append(q.list, moved), !.at = "paths"]
  OBVIOUS
<1>6. GoOn(h, r)
  BY <1>4, <1>5 DEF Descendants, PathsAfter
<1>7. /\ r.op = "edit" /\ r.at = "paths" /\ r.on = q.on /\ r.arg = q.arg /\ r.list = Append(q.list, moved)
      /\ r.was = q.was /\ r.alone = q.alone /\ r.sound = q.sound
  BY <1>1, <1>3, <1>4, <1>5 DEF RequestFields
<1>8. ASSUME Relied(h) PROVE EditKnown(r)'
  <2>1. PICK a, b : a = q.list[1] /\ b = q.list[2] /\ q.list = <<a, b>>
    BY <1>2, <1>4, <1>8
  <2>2. r.list = <<a, b, moved>>
    BY <1>7, <2>1, ThirdAppended
  <2>3. /\ r.list[1] = a /\ r.list[2] = b /\ r.list[3] = moved /\ r.list = <<r.list[1], r.list[2], r.list[3]>>
    BY <2>2
  <2>4. Parent(r) = Parent(q) /\ NewPath(r) = NewPath(q) /\ OldPath(r) = OldPath(q)
    BY <1>7, <2>1, <2>3 DEF Parent, NewPath, OldPath
  <2>5. PathsBut(q) /\ Leads(q)
    BY <1>2, <1>4, <1>8
  <2>6. ASSUME NEW x \in folders, x.id = q.on PROVE x \notin Below(OldPath(q))
    <3>1. PICK old, path, on : old = OldPath(q) /\ path = NewPath(q) /\ on = q.on
      OBVIOUS
    <3>2. /\ old \in Seq(Nat) /\ old # <<>>
          /\ \/ path = <<on>>
             \/ \E y \in folders : y.id # on /\ path = Append(y.path, on) /\ ~Extends(y.path, old)
      BY <2>5, <3>1 DEF Leads
    <3>3. Len(old) \in Nat /\ Len(old) > 0 /\ on \in Nat
      BY <1>3, <2>6, <3>1, <3>2
    <3>4. x.path = old \/ x.path = path
      BY <1>2, <1>4, <1>8, <2>6, <3>1
    <3>5. ~(Len(path) > Len(old) /\ SubSeq(path, 1, Len(old)) = old)
      <4>1. CASE path = <<on>>
        BY <3>3, <4>1
      <4>2. ASSUME NEW y \in folders, y.id # on, path = Append(y.path, on), ~Extends(y.path, old)
            PROVE  ~(Len(path) > Len(old) /\ SubSeq(path, 1, Len(old)) = old)
        <5>1. PICK s : s = y.path /\ s \in Seq(Nat)
          BY <2>5, <3>1, <4>2 DEF PathsBut
        <5>2. ~(Len(Append(s, on)) > Len(old) /\ SubSeq(Append(s, on), 1, Len(old)) = old)
          BY <3>2, <3>3, <4>2, <5>1, NotOn
        <5>3. QED
          BY <4>2, <5>1, <5>2, Zenon
      <4>3. QED
        BY <3>2, <4>1, <4>2
    <3>6. ~(Len(old) > Len(old))
      BY <3>3
    <3>7. QED
      BY <3>1, <3>4, <3>5, <3>6 DEF Below
  <2>7. PICK F : F = [f \in Ids |-> PathAfter(q, Folder(f))]
    OBVIOUS
  <2>8. \A x \in folders : x.id \in Ids /\ Folder(x.id) = x /\ F[x.id] = PathAfter(q, x)
    BY <1>3, <2>7 DEF Ids, Folder
  <2>9. Becomes(r, F)
    <3>1. F[r.on] = NewPath(r)
      <4>1. PICK x \in folders : x.id = q.on
        BY <1>2, <1>4, <1>8 DEF Ids
      <4>2. QED
        BY <1>7, <2>4, <2>8, <4>1 DEF PathAfter
    <3>2. ASSUME NEW x \in folders, NEW p, p = IF x.id = r.on THEN Parent(r) ELSE x.parent
          PROVE  /\ F[x.id] \in Seq(Nat)
                 /\ \/ p = Root /\ F[x.id] = <<x.id>>
                    \/ p \in Ids /\ F[x.id] = Append(F[p], x.id)
      <4>1. /\ PathAfter(q, x) \in Seq(Nat)
            /\ \/ p = Root /\ PathAfter(q, x) = <<x.id>>
               \/ \E y \in folders : y.id = p /\ PathAfter(q, x) = Append(PathAfter(q, y), x.id)
        BY <1>3, <1>7, <2>4, <2>5, <2>6, <3>2, MovesBelow
      <4>2. QED
        BY <2>8, <4>1
    <3>3. ASSUME NEW x \in folders, x.id # r.on
          PROVE  x.path = F[x.id] \/ <<x.id, F[x.id]>> \in r.list[3]
      <4>1. CASE x \in Below(OldPath(q))
        <5>1. F[x.id] = NewPath(q) \o SubSeq(x.path, Len(OldPath(q)) + 1, Len(x.path))
          BY <1>7, <2>8, <3>3, <4>1 DEF PathAfter
        <5>2. <<x.id, F[x.id]>> \in moved
          BY <1>4, <4>1, <5>1 DEF PathsAfter
        <5>3. QED
          BY <2>3, <5>2
      <4>2. CASE x \notin Below(OldPath(q))
        BY <1>7, <2>8, <3>3, <4>2 DEF PathAfter
      <4>3. QED
        BY <4>1, <4>2
    <3>4. ASSUME NEW x \in folders, x.id = r.on, backend # "mongodb" PROVE x.parent = Parent(r) /\ x.path = NewPath(r)
      BY <1>2, <1>4, <1>7, <1>8, <2>4, <3>4
    <3>5. ASSUME NEW d \in r.list[3] PROVE d[1] \in Ids \ {r.on} /\ d[2] = F[d[1]]
      <4>1. PICK x \in Below(OldPath(q)) :
              d = <<x.id, NewPath(q) \o SubSeq(x.path, Len(OldPath(q)) + 1, Len(x.path))>>
        BY <1>4, <2>3, <3>5, ZenonT(60) DEF PathsAfter
      <4>2. x \in folders /\ x.id # q.on
        BY <2>6, <4>1 DEF Below
      <4>3. d[1] = x.id /\ d[2] = PathAfter(q, x)
        BY <4>1, <4>2 DEF PathAfter
      <4>4. QED
        BY <1>7, <2>8, <4>2, <4>3
    <3>6. QED
      BY <3>1, <3>2, <3>3, <3>4, <3>5 DEF Becomes
  <2>10. Ids' = Ids /\ (Tree' <=> Tree) /\ UNCHANGED backend
    BY <1>1, <1>6, TreeSame DEF GoOn
  <2>11. Becomes(r, F)'
    <3>1. NewPath(r)' = NewPath(r) /\ Parent(r)' = Parent(r)
      BY DEF NewPath, Parent
    <3>2. QED
      BY <1>1, <2>9, <2>10, <3>1 DEF Becomes
  <2>12. WillBe(r)'
    <3>1. F = [f \in Ids' |-> F[f]]
      BY <2>7, <2>10
    <3>2. QED
      BY <2>11, <3>1, BecomesKnown
  <2>13. r.on \in Ids' /\ (backend' = "mongodb" => Tree') /\ (r.was # <<>> => PathsIn(r.was[1]))
    BY <1>2, <1>4, <1>7, <1>8, <2>10
  <2>14. QED
    BY <1>7, <2>3, <2>12, <2>13 DEF EditKnown
<1>9. Relied(h) => TreeKnown(r)'
  BY <1>7, <1>8 DEF TreeKnown
<1>10. QED
  BY <1>1, <1>4, <1>6, <1>7, <1>9, TreeStep DEF Answered

\* When the last path is written the folders are where they are to be.
LEMMA MovePathTrees ==
  ASSUME LibInv, RefInv, TreeInv, LibInv', RefInv', NEW h \in Handlers, MovePath(h)
  PROVE  TreeKept
<1>1. Open(h) /\ Turn(h) /\ req[h].op = "edit" /\ req[h].at = "paths"
  BY DEF MovePath, At, Open, Answered
<1>2. Relied(h) => /\ req[h].on \in Ids /\ (backend = "mongodb" => Tree)
                   /\ req[h].was # <<>> => PathsIn(req[h].was[1])
                   /\ req[h].list = <<req[h].list[1], req[h].list[2], req[h].list[3]>> /\ WillBe(req[h])
  BY <1>1, EditRelies DEF EditKnown
<1>3. /\ DOMAIN req[h] = RequestFields /\ \A x, y \in folders : x.id = y.id => x = y
      /\ \A x \in folders : DOMAIN x = FolderFields
  BY <1>1, EditRelies
<1>4. CASE req[h].list[3] = {}
  <2>1. PICK at : /\ GoTo(h, at) /\ UNCHANGED folders
                  /\ (at = "own" /\ backend = "mongodb") \/ (at \in Answered /\ backend # "mongodb")
    BY <1>4 DEF MovePath, Found, Answered
  <2>2. PICK r : /\ GoOn(h, r) /\ r.at = at /\ r.op = req[h].op /\ r.on = req[h].on /\ r.arg = req[h].arg
                 /\ r.list = req[h].list /\ r.was = req[h].was
                 /\ r.alone = req[h].alone /\ r.sound = req[h].sound
    BY <1>1, <2>1, GoesOn
  <2>3. CASE at = "own" /\ backend = "mongodb"
    <3>1. Ids' = Ids /\ (Tree' <=> Tree) /\ UNCHANGED backend
      BY <2>1, <2>2, TreeSame DEF GoOn
    <3>2. ASSUME WillBe(req[h]) PROVE WillBe(r)'
      <4>1. PICK F \in [Ids -> {x.path : x \in folders} \cup {d[2] : d \in req[h].list[3]} \cup {NewPath(req[h])}] :
              Becomes(req[h], F)
        BY <3>2 DEF WillBe
      <4>2. F = [f \in Ids' |-> F[f]]
        BY <3>1, <4>1
      <4>3. Becomes(r, F)'
        BY <2>1, <2>2, <3>1, <4>1 DEF Becomes, NewPath, Parent
      <4>4. QED
        BY <4>2, <4>3, BecomesKnown
    <3>3. Relied(h) => r.list = <<r.list[1], r.list[2], r.list[3]>> /\ r.list[3] = {}
      BY <1>2, <1>4, <2>2
    <3>4. Relied(h) => EditKnown(r)'
      BY <1>2, <2>2, <2>3, <3>1, <3>2, <3>3 DEF EditKnown
    <3>5. Relied(h) => TreeKnown(r)'
      BY <1>1, <2>2, <3>4 DEF TreeKnown
    <3>6. QED
      BY <1>1, <2>2, <2>3, <3>5, TreeStep DEF Answered
  <2>4. CASE at \in Answered /\ backend # "mongodb"
    <3>1. ASSUME Relied(h) PROVE PathsIn(folders')
      <4>1. PICK q : q = req[h]
        OBVIOUS
      <4>2. PICK F : Becomes(q, F)
        BY <1>2, <3>1, <4>1 DEF WillBe
      <4>3. PICK new : new = [x \in folders |-> x]
        OBVIOUS
      <4>4. folders' = {new[x] : x \in folders}
        BY <2>1, <4>3
      <4>5. ASSUME NEW x \in folders
            PROVE  /\ new[x].id = x.id /\ new[x].path = F[x.id]
                   /\ new[x].parent = IF x.id = q.on THEN Parent(q) ELSE x.parent
        <5>1. q.list[3] = {}
          BY <1>4, <4>1
        <5>2. x.id # q.on => x.path = F[x.id]
          BY <4>2, <5>1 DEF Becomes
        <5>3. x.id = q.on => x.parent = Parent(q) /\ x.path = F[x.id]
          BY <2>4, <4>2 DEF Becomes
        <5>4. QED
          BY <4>3, <5>2, <5>3
      <4>6. QED
        BY <4>2, <4>4, <4>5, BecomesPaths
    <3>2. QED
      BY <1>1, <2>2, <2>4, <3>1, TreeAnswers
  <2>5. QED
    BY <2>1, <2>3, <2>4
<1>5. CASE req[h].list[3] # {}
  <2>1. PICK q : q = req[h]
    OBVIOUS
  <2>2. PICK d, list : /\ d \in q.list[3] /\ folders' = Set(d[1], "path", d[2])
                       /\ list = [q.list EXCEPT ![3] = q.list[3] \ {d}]
                       /\ GoOn(h, [q EXCEPT !.list = list])
    BY <1>5, <2>1 DEF MovePath
  <2>3. PICK r : r = [q EXCEPT !.list = list]
    OBVIOUS
  <2>4. /\ r.op = "edit" /\ r.at = "paths" /\ r.on = q.on /\ r.arg = q.arg /\ r.list = list
        /\ r.was = q.was /\ r.alone = q.alone /\ r.sound = q.sound
    BY <1>1, <1>3, <2>1, <2>3 DEF RequestFields
  <2>5. GoOn(h, r) /\ UNCHANGED backend
    BY <2>2, <2>3 DEF GoOn
  <2>6. PICK e, path : e = d[1] /\ path = d[2]
    OBVIOUS
  <2>7. PICK new : new = [x \in folders |-> IF x.id = e THEN [x EXCEPT !["path"] = path] ELSE x]
    OBVIOUS
  <2>8. ASSUME NEW x \in folders, NEW z, z = [x EXCEPT !["path"] = path]
        PROVE  z.id = x.id /\ z.parent = x.parent /\ z.path = path
    BY <1>3, <2>8 DEF FolderFields
  <2>9. \A x \in folders : /\ new[x].id = x.id /\ new[x].parent = x.parent
                           /\ x.id = e => new[x].path = path
                           /\ x.id # e => new[x] = x
    BY <2>7, <2>8
  <2>10. folders' = {new[x] : x \in folders}
    BY <2>2, <2>6, <2>7 DEF Set
  <2>11. Ids' = Ids /\ (Tree => Tree')
    BY <1>3, <2>9, <2>10, TreeStays DEF IdsDiffer
  <2>12. ASSUME Relied(h) PROVE EditKnown(r)'
    <3>1. PICK a, b, c : a = q.list[1] /\ b = q.list[2] /\ c = q.list[3] /\ q.list = <<a, b, c>>
      BY <1>2, <2>1, <2>12
    <3>2. list = <<a, b, c \ {d}>>
      BY <2>2, <3>1, ThirdReplaced
    <3>3. /\ r.list[1] = a /\ r.list[2] = b /\ r.list[3] = c \ {d} /\ r.list = <<r.list[1], r.list[2], r.list[3]>>
      BY <2>4, <3>2
    <3>4. Parent(r)' = Parent(q) /\ NewPath(r)' = NewPath(q)
      BY <2>4, <3>1, <3>3 DEF Parent, NewPath
    <3>5. PICK F \in [Ids -> {x.path : x \in folders} \cup {g[2] : g \in q.list[3]} \cup {NewPath(q)}] :
            Becomes(q, F)
      BY <1>2, <2>1, <2>12 DEF WillBe
    <3>6. F = [f \in Ids' |-> F[f]]
      BY <2>11, <3>5
    <3>7. e \in Ids /\ e # q.on /\ path = F[e]
      BY <2>2, <2>6, <3>5 DEF Becomes
    <3>8. PICK on, to, top : on = q.on /\ to = Parent(q) /\ top = NewPath(q)
      OBVIOUS
    <3>9. ASSUME NEW x \in folders, NEW z, z = new[x], NEW p, p = IF x.id = on THEN to ELSE x.parent
          PROVE  /\ z.id = x.id /\ z.parent = x.parent
                 /\ F[x.id] \in Seq(Nat)
                 /\ \/ p = Root /\ F[x.id] = <<x.id>>
                    \/ p \in Ids /\ F[x.id] = Append(F[p], x.id)
                 /\ x.id # on => z.path = F[x.id] \/ <<x.id, F[x.id]>> \in c \ {d}
                 /\ x.id = on /\ backend # "mongodb" => x.parent = to /\ z.path = top
      <4>1. /\ F[x.id] \in Seq(Nat)
            /\ \/ p = Root /\ F[x.id] = <<x.id>>
               \/ p \in Ids /\ F[x.id] = Append(F[p], x.id)
        BY <3>5, <3>8, <3>9 DEF Becomes
      <4>2. x.id # on => x.path = F[x.id] \/ <<x.id, F[x.id]>> \in c
        BY <3>1, <3>5, <3>8 DEF Becomes
      <4>3. x.id = on /\ backend # "mongodb" => x.parent = to /\ x.path = top
        BY <3>5, <3>8 DEF Becomes
      <4>4. x.id # on => z.path = F[x.id] \/ <<x.id, F[x.id]>> \in c \ {d}
        <5>1. CASE x.id = e
          BY <2>9, <3>7, <3>9, <5>1
        <5>2. CASE x.id # e
          <6>1. PICK g : g = <<x.id, F[x.id]>>
            OBVIOUS
          <6>2. g # d
            BY <2>6, <5>2, <6>1
          <6>3. z = x
            BY <2>9, <3>9, <5>2
          <6>4. QED
            BY <4>2, <6>1, <6>2, <6>3
        <5>3. QED
          BY <5>1, <5>2
      <4>5. x.id = on => z = x
        BY <2>9, <3>7, <3>8, <3>9
      <4>6. QED
        BY <2>9, <3>9, <4>1, <4>3, <4>4, <4>5
    <3>10. \A z \in folders' : \E x \in folders : z = new[x]
      BY <2>10
    <3>11. ASSUME NEW z \in folders', NEW p, p = IF z.id = on THEN to ELSE z.parent
           PROVE  /\ F[z.id] \in Seq(Nat)
                  /\ \/ p = Root /\ F[z.id] = <<z.id>>
                     \/ p \in Ids /\ F[z.id] = Append(F[p], z.id)
                  /\ z.id # on => z.path = F[z.id] \/ <<z.id, F[z.id]>> \in c \ {d}
                  /\ z.id = on /\ backend # "mongodb" => z.parent = to /\ z.path = top
      <4>1. PICK x \in folders : z = new[x]
        BY <3>10
      <4>2. z.id = x.id /\ z.parent = x.parent
        BY <3>9, <4>1
      <4>3. p = IF x.id = on THEN to ELSE x.parent
        BY <3>11, <4>2
      <4>4. /\ F[x.id] \in Seq(Nat)
            /\ \/ p = Root /\ F[x.id] = <<x.id>>
               \/ p \in Ids /\ F[x.id] = Append(F[p], x.id)
            /\ x.id # on => z.path = F[x.id] \/ <<x.id, F[x.id]>> \in c \ {d}
        BY <3>9, <4>1, <4>3
      <4>5. x.id = on /\ backend # "mongodb" => x.parent = to /\ z.path = top
        BY <3>9, <4>1, <4>3
      <4>6. PICK id : id = x.id
        OBVIOUS
      <4>7. z.id = id
        BY <4>2, <4>6
      <4>8. QED
        BY <4>2, <4>4, <4>5, <4>6, <4>7, Zenon
    <3>12. F[on] = top /\ \A g \in c \ {d} : g[1] \in Ids \ {on} /\ g[2] = F[g[1]]
      BY <3>1, <3>5, <3>8 DEF Becomes
    <3>13. Becomes(r, F)'
      BY <2>4, <2>5, <2>11, <3>3, <3>4, <3>8, <3>11, <3>12 DEF Becomes
    <3>14. WillBe(r)'
      BY <3>6, <3>13, BecomesKnown
    <3>15. r.on \in Ids' /\ (backend' = "mongodb" => Tree') /\ (r.was # <<>> => PathsIn(r.was[1]))
      BY <1>2, <2>1, <2>4, <2>5, <2>11, <2>12
    <3>16. QED
      BY <2>4, <3>3, <3>14, <3>15 DEF EditKnown
  <2>13. Relied(h) => TreeKnown(r)'
    BY <2>4, <2>12 DEF TreeKnown
  <2>14. QED
    BY <1>1, <2>1, <2>4, <2>5, <2>13, TreeStep DEF Answered
<1>6. QED
  BY <1>4, <1>5

\* MongoDB writes the folder itself after all below it.
LEMMA MongoOwnTrees ==
  ASSUME LibInv, RefInv, TreeInv, LibInv', RefInv', NEW h \in Handlers, mongoOwn(h)
  PROVE  TreeKept
<1>1. Open(h) /\ Turn(h) /\ req[h].op = "edit" /\ req[h].at = "own" /\ backend = "mongodb"
  <2>1. Open(h) /\ Turn(h) /\ req[h].op = "edit" /\ req[h].at = "own"
    BY DEF mongoOwn, At, Open, Answered
  <2>2. QED
    BY <2>1, EditRelies DEF ByBackend
<1>2. PICK q : q = req[h]
  OBVIOUS
<1>3. Relied(h) => /\ Tree
                   /\ \/ q.list = <<q.list[1]>> /\ PathsIn(folders)
                      \/ q.list = <<q.list[1], q.list[2], q.list[3]>> /\ q.list[3] = {} /\ WillBe(q)
  BY <1>1, <1>2, EditRelies DEF EditKnown
<1>4. \A x \in folders : DOMAIN x = FolderFields
  BY <1>1, EditRelies
<1>5. CASE GoTo(h, "error") /\ UNCHANGED folders
  <2>1. PICK r : GoOn(h, r) /\ r.at = "error"
    BY <1>1, <1>5, GoesOn
  <2>2. Relied(h) => Tree'
    BY <1>3, <1>5, TreeSame
  <2>3. QED
    BY <1>1, <2>1, <2>2, TreeStep DEF Answered
<1>6. CASE ~(GoTo(h, "error") /\ UNCHANGED folders)
  <2> DEFINE changed(x) == [x EXCEPT !.name = IF Name(q) = NoName THEN @ ELSE Name(q),
                                     !.parent = IF Len(q.list) > 1 THEN Parent(q) ELSE @,
                                     !.path = IF Len(q.list) > 1 THEN NewPath(q) ELSE @]
  <2>1. folders' = {IF x.id = q.on THEN changed(x) ELSE x : x \in folders} /\ GoTo(h, Found(q.on))
    BY <1>2, <1>6 DEF mongoOwn
  <2>2. ASSUME NEW x \in folders
        PROVE  /\ changed(x).id = x.id
               /\ changed(x).parent = IF Len(q.list) > 1 THEN Parent(q) ELSE x.parent
               /\ changed(x).path = IF Len(q.list) > 1 THEN NewPath(q) ELSE x.path
    BY <1>4 DEF FolderFields
  <2>3. PICK new : new = [x \in folders |-> IF x.id = q.on THEN changed(x) ELSE x]
    OBVIOUS
  <2> HIDE DEF changed
  <2>4. folders' = {new[x] : x \in folders}
    BY <2>1, <2>3
  <2>5. PICK at \in Answered : GoTo(h, at)
    BY <2>1 DEF Found, Answered
  <2>6. PICK r : GoOn(h, r) /\ r.at = at
    BY <1>1, <2>5, GoesOn
  <2>7. ASSUME Relied(h), q.list = <<q.list[1]>>, PathsIn(folders) PROVE PathsIn(folders')
    <3>1. PICK a : q.list = <<a>>
      BY <2>7
    <3>2. ~(Len(q.list) > 1)
      BY <3>1
    <3>3. \A x \in folders : new[x].id = x.id /\ new[x].parent = x.parent /\ new[x].path = x.path
      BY <2>2, <2>3, <3>2
    <3>4. QED
      BY <2>4, <2>7, <3>3, PathsStay
  <2>8. ASSUME Relied(h), q.list = <<q.list[1], q.list[2], q.list[3]>>, q.list[3] = {}, WillBe(q) PROVE PathsIn(folders')
    <3>1. PICK a, b, c : q.list = <<a, b, c>>
      BY <2>8
    <3>2. Len(q.list) > 1
      BY <3>1
    <3>3. PICK F : Becomes(q, F)
      BY <2>8 DEF WillBe
    <3>4. ASSUME NEW x \in folders
          PROVE  /\ new[x].id = x.id /\ new[x].path = F[x.id]
                 /\ new[x].parent = IF x.id = q.on THEN Parent(q) ELSE x.parent
      <4>1. CASE x.id = q.on
        BY <2>2, <2>3, <3>2, <3>3, <4>1 DEF Becomes
      <4>2. CASE x.id # q.on
        BY <2>3, <2>8, <3>3, <4>2 DEF Becomes
      <4>3. QED
        BY <4>1, <4>2
    <3>5. QED
      BY <2>4, <3>3, <3>4, BecomesPaths
  <2>9. Relied(h) => PathsIn(folders')
    BY <1>3, <2>7, <2>8
  <2>10. QED
    BY <1>1, <2>6, <2>9, TreeAnswers
<1>7. QED
  BY <1>5, <1>6

\* What an edit leaves.
LEMMA EditTrees ==
  ASSUME LibInv, RefInv, TreeInv, LibInv', RefInv', NEW h \in Handlers,
         \/ ReadFolder(h) \/ Rename(h) \/ NewParent(h) \/ Move(h) \/ Descendants(h) \/ MovePath(h) \/ mongoOwn(h)
  PROVE  TreeKept
  BY ReadFolderTrees, RenameTrees, NewParentTrees, MoveTrees, DescendantsTrees, MovePathTrees, MongoOwnTrees

\* What a request about folders begins with.
LEMMA FolderTreesAtFirst ==
  ASSUME LibInv, RefInv, TreeInv, NEW h \in Handlers, BeginFolders(h)
  PROVE  TreeKept
<1>1. UNCHANGED folders /\ UNCHANGED backend
  BY FolderAsks DEF Begins, Begin, folderVars
<1>2. PICK sound \in BOOLEAN : sound = (Tree /\ PathsTrue)
  OBVIOUS
<1>3. IdsDiffer(folders)
  BY DEF RefInv
<1>4. sound => PathsIn(folders) /\ Tree
  BY <1>2, <1>3, PathsOfTree
<1>5. sound => PathsIn(folders') /\ Tree'
  BY <1>1, <1>4, TreeSame
<1>6. ASSUME NEW op, NEW at, NEW on, NEW arg, Begin(h, op, at, on, arg, sound),
             \/ op = "create" /\ at = "parent"
             \/ op = "edit" /\ at = "read" /\ on \in Ids
             \/ op = "delete" /\ at = "counts"
             \/ op = "file" /\ at = "move"
      PROVE  TreeKept
  <2>1. at \notin Answered
    BY <1>6 DEF Answered
  <2>2. ASSUME NEW r, r.op = op, r.at = at, r.on = on, r.list = <<>>, r.was = <<>>, sound
        PROVE  TreeKnown(r)'
    <3>1. op = "create" => CreateKnown(r)'
      BY <1>5, <1>6, <2>2 DEF CreateKnown
    <3>2. op = "edit" => EditKnown(r)'
      BY <1>1, <1>5, <1>6, <2>2 DEF EditKnown, Ids
    <3>3. QED
      BY <1>5, <1>6, <2>2, <3>1, <3>2 DEF TreeKnown
  <2>3. QED
    BY <1>6, <2>1, <2>2, TreeAtFirst
<1>7. ASSUME NEW p, NEW name, createFolder(h, p, name) PROVE TreeKept
  BY <1>2, <1>6, <1>7 DEF createFolder
<1>8. ASSUME NEW f \in Ids, NEW name, NEW p, updateFolder(h, f, name, p) PROVE TreeKept
  BY <1>2, <1>6, <1>8 DEF updateFolder
<1>9. ASSUME NEW f, NEW recursive, deleteFolder(h, f, recursive) PROVE TreeKept
  BY <1>2, <1>6, <1>9 DEF deleteFolder
<1>10. ASSUME NEW ms, NEW f, moveMedia(h, ms, f) PROVE TreeKept
  BY <1>2, <1>6, <1>10 DEF moveMedia
<1>11. QED
  BY <1>7, <1>8, <1>9, <1>10 DEF BeginFolders

\* What an open request knows of the folders it knows when nothing has changed.
LEMMA TreeKnownStill ==
  ASSUME UNCHANGED <<folders, backend>>, NEW r, TreeKnown(r)
  PROVE  TreeKnown(r)'
<1>1. Ids' = Ids /\ (Tree' <=> Tree)
  BY TreeSame
<1>2. CreateKnown(r) => CreateKnown(r)'
  BY DEF CreateKnown
<1>3. PathsBut(r)' <=> PathsBut(r)
  BY DEF PathsBut, OldPath
<1>4. Leads(r)' <=> Leads(r)
  BY DEF Leads, OldPath, Parent, NewPath
<1>5. AsRead(r)' <=> AsRead(r)
  BY DEF AsRead, OldPath, WasParent
<1>6. ASSUME WillBe(r) PROVE WillBe(r)'
  <2>1. PICK F \in [Ids -> {x.path : x \in folders} \cup {d[2] : d \in r.list[3]} \cup {NewPath(r)}] : Becomes(r, F)
    BY <1>6 DEF WillBe
  <2>2. F \in [Ids -> {x.path : x \in folders} \cup {d[2] : d \in r.list[3]} \cup {NewPath(r)}]'
    BY <1>1 DEF NewPath
  <2>3. Becomes(r, F)'
    BY <1>1, <2>1 DEF Becomes, NewPath, Parent
  <2>4. QED
    BY <2>2, <2>3 DEF WillBe
<1>7. EditKnown(r) => EditKnown(r)'
  BY <1>1, <1>3, <1>4, <1>5, <1>6 DEF EditKnown, OldPath, Parent, NewPath
<1>8. QED
  BY <1>2, <1>7 DEF TreeKnown

\* The tree is kept by every step.
LEMMA TreesAllKept ==
  ASSUME LibInv, RefInv, TreeInv, LibInv', RefInv', [Next]_vars
  PROVE  TreeKept
<1>1. ASSUME NEW h \in Handlers, InPlaylists(h) \/ InApprovals(h)
      PROVE  TreeKept
  <2>2. CASE StepPlaylists(h) \/ StepApprovals(h)
    <3>1. Steps(h, PlaylistOps) \/ Steps(h, {"decide"})
      BY <2>2, PlaylistSteps, ApprovalSteps
    <3>2. QED
      BY <3>1, TreeAside DEF PlaylistOps, TreeOps
  <2>3. CASE BeginPlaylists(h) \/ Adds(h) \/ Decides(h)
    <3>1. \/ Begins(h, PlaylistOps, {"count", "delete", "update", "items", "row", "validate"})
          \/ Begins(h, {"decide"}, {"status"})
      BY <2>3, PlaylistAsks, ApprovalAsks
    <3>2. QED
      BY <3>1, TreeAsideAtFirst DEF PlaylistOps, TreeOps, Answered
  <2>4. QED
    BY <1>1, <2>2, <2>3 DEF InPlaylists, InApprovals
<1>2. ASSUME NEW h \in Handlers, InSubtitles(h) PROVE TreeKept
  <2>1. CASE StepSubtitles(h)
    BY <2>1, SubtitleSteps, TreeAside DEF SubtitleOps, TreeOps
  <2>2. CASE BeginSubtitles(h)
    BY <2>2, SubtitleAsks, TreeAsideAtFirst DEF SubtitleOps, TreeOps, Answered
  <2>3. QED
    BY <1>2, <2>1, <2>2 DEF InSubtitles
<1>3. ASSUME NEW h \in Handlers, DeletesMedia(h) PROVE TreeKept
  <2>1. CASE mongoDeleteRefs(h) \/ DeleteMediaRow(h)
    BY <2>1, MediaSteps, TreeAside DEF TreeOps
  <2>2. ASSUME NEW m, deleteMedia(h, m) PROVE TreeKept
    BY <2>2, MediaAsks, TreeAsideAtFirst DEF TreeOps, Answered
  <2>3. QED
    BY <1>3, <2>1, <2>2 DEF DeletesMedia
<1>4. ASSUME NEW h \in Handlers, InFolders(h) PROVE TreeKept
  <2>1. CASE moveMediaToFolder(h)
    <3>1. /\ Open(h) /\ Turn(h) /\ req[h].op \in {"file"} /\ \E at : GoTo(h, at)
      BY <2>1 DEF moveMediaToFolder, At, Open, Answered
    <3>2. Steps(h, {"file"})
      BY <3>1, GoesSteps
    <3>3. QED
      BY <3>2, TreeAside DEF TreeOps
  <2>2. CASE StepFolders(h) /\ ~moveMediaToFolder(h)
    BY <2>2, CreateTrees, EditTrees, DeleteTrees DEF StepFolders
  <2>3. CASE BeginFolders(h)
    BY <2>3, FolderTreesAtFirst
  <2>4. QED
    BY <1>4, <2>1, <2>2, <2>3 DEF InFolders
<1>5. CASE Crash
  <2>1. \A g \in Handlers : ~Open(g)'
    BY <1>5, CrashAnswersNone
  <2>2. TreeInv'
    BY <2>1 DEF TreeInv
  <2>3. TreesLeft
    BY <1>5, CrashAnswersNone DEF TreesLeft
  <2>4. QED
    BY <2>2, <2>3 DEF TreeKept
<1>6. CASE UNCHANGED <<requestVars, playlistVars, approvalVars, subtitleVars, folderVars, part>>
  <2>1. UNCHANGED <<folders, backend, req>>
    BY <1>6 DEF requestVars, folderVars
  <2>2. ASSUME NEW g \in Handlers, Open(g)', Relied(g)' PROVE TreeKnown(req[g])'
    <3>1. PICK q : q = req[g] /\ q = req'[g]
      BY <2>1
    <3>2. TreeKnown(q)
      BY <2>1, <2>2, <3>1 DEF TreeInv, Open, Relied, Isolated
    <3>3. TreeKnown(q)'
      BY <2>1, <3>2, TreeKnownStill
    <3>4. QED
      BY <3>1, <3>3
  <2>3. TreesLeft
    BY <2>1 DEF TreesLeft, Ends, Open
  <2>4. QED
    BY <2>2, <2>3 DEF TreeKept, TreeInv, Relied
<1>7. QED
  BY <1>1, <1>2, <1>3, <1>4, <1>5, <1>6 DEF Next, vars

\* What an editor alone relies on, to begin with.
LEMMA AloneStart ==
  ASSUME Init
  PROVE  ApprovalInv /\ DefaultInv /\ TreeInv
<1>1. req = [h \in Handlers |-> NoRequest]
  BY DEF Init, InitRequests
<1>2. \A h \in Handlers : ~Open(h)
  BY <1>1 DEF Open, NoRequest, Answered
<1>3. \/ tracks = {}
      \/ \E t : tracks = {t} /\ t.kind = "external"
  <2>1. CASE tracks = {}
    BY <2>1
  <2>2. CASE InitSubtitles /\ tracks # {}
    <3>1. PICK m \in Media, d \in BOOLEAN :
            tracks = {[id |-> 1, media |-> m, kind |-> "external", stream |-> 0, def |-> d, file |-> 1]}
      BY <2>2 DEF InitSubtitles
    <3>2. QED
      BY <3>1
  <2>3. QED
    BY <2>1, <2>2 DEF Init, NoSubtitles
<1>4. TracksApart /\ \A m \in Media : Single(m)
  BY <1>3, FS_EmptySet, FS_Singleton DEF TracksApart, Single
<1>5. QED
  BY <1>2, <1>4 DEF ApprovalInv, DefaultInv, TreeInv

\* An editor alone leaves folders, tracks and approvals in order.
THEOREM AloneCorrect ==
  ASSUME <<"subtitles", "mssql">> \notin Studied
  PROVE  Spec => AloneKeeps
<1> DEFINE Known == LibInv /\ RefInv /\ ApprovalInv /\ DefaultInv /\ TreeInv
<1>1. Init => Known
  BY LibraryStarts, ReferencesStart, AloneStart
<1>2. ASSUME Known, [Next]_vars
      PROVE  Known' /\ DecisionLogs /\ AddsApproved /\ DefaultsLeft /\ TreesLeft
  <2>1. LibInv' /\ RefInv'
    BY <1>2, StepsRefer DEF Told
  <2>2. ApprovalInv' /\ DecisionLogs /\ AddsApproved
    BY <1>2, <2>1, ApprovalsKept
  <2>3. DefaultInv' /\ DefaultsLeft
    BY <1>2, DefaultsAllKept DEF DefaultsKept
  <2>4. TreeInv' /\ TreesLeft
    BY <1>2, <2>1, TreesAllKept DEF TreeKept
  <2>5. QED
    BY <2>1, <2>2, <2>3, <2>4
<1>3. Known /\ [Next]_vars => Known'
  BY <1>2
<1>4. Known /\ [Next]_vars
        => [\A h \in Handlers :
              Ends(h) /\ Isolated(h) /\ req[h].sound /\ req[h].op = "decide"
                => logged'[req[h].on] = approval'[req[h].on]]_vars
  BY <1>2 DEF DecisionLogs
<1>5. Known /\ [Next]_vars
        => [\A i \in items' \ items :
              requireMediaApproval /\ i.id = nextItem =>
                approval[i.media] = "approved" \/ \E h \in Handlers : Open(h) /\ ~Isolated(h)]_vars
  BY <1>2 DEF AddsApproved
<1>6. Known /\ [Next]_vars
        => [\A h \in Handlers, m \in Media :
              Ends(h) /\ Isolated(h) /\ req[h].sound /\ req[h].op \in {"attach", "embed", "patch"} /\ m = MediaOf(req[h])
                => OneDefault(m)']_vars
  BY <1>2 DEF DefaultsLeft
<1>7. Known /\ [Next]_vars
        => [\A h \in Handlers :
              Ends(h) /\ Isolated(h) /\ req[h].sound /\ req[h].op \in {"create", "edit", "delete"}
                => Tree' /\ (req'[h].at = "ok" => PathsTrue')]_vars
  BY <1>2 DEF TreesLeft
<1> HIDE DEF Known
<1>8. QED
  BY <1>1, <1>3, <1>4, <1>5, <1>6, <1>7, PTL
     DEF Spec, AloneKeeps, FolderAlone, OneDefaultLeft, DecisionLogged, OnlyApproved

(***************************************************************************)
(* Orders                                                                  *)
(***************************************************************************)
\* A row is all that has its id, and all that has its place.
ItemsApart(rows) == \A i, j \in rows : i.id = j.id \/ (i.pl = j.pl /\ i.idx = j.idx) => i = j
IndexesOf(p) == {i.idx : i \in ItemsOf(p)}
\* The ids of a playlist's rows, each once.
ListsAll(list, p) ==
  /\ list = [n \in 1..Len(list) |-> list[n]]
  /\ \A n, o \in 1..Len(list) : list[n] = list[o] => n = o
  /\ {list[n] : n \in 1..Len(list)} = {i.id : i \in ItemsOf(p)}

\* The index of the n-th row of a list of this length when k statements are through: each to
\* -n and then to its place, or upwards one after the other.
ByNegative(n, len, k, idx) ==
  IF k <= len THEN IF n <= k THEN idx = -n ELSE idx >= 0
  ELSE IF n <= k - len THEN idx = n - 1 ELSE idx = -n
Upwards(n, k, idx) == IF n <= k THEN idx = n - 1 ELSE idx >= n - 1
Written(r) ==
  \A i \in ItemsOf(r.on), n \in 1..Len(r.list) : r.list[n] = i.id =>
    IF backend # "mongodb" THEN ByNegative(n, Len(r.list), r.k, i.idx) ELSE Upwards(n, r.k, i.idx)

\* What an editor alone knows of the order of a playlist. (A reorder in MongoDB writes the
\* index that a row has, or is refused.)
OrderKnown(r) ==
  /\ r.op = "add" => /\ r.at \in {"count", "media", "insert"}
                     /\ r.at = "count" => Dense(r.on)
                     /\ r.at \in {"media", "insert"} => r.k \in Nat /\ IndexesOf(r.on) = 0..(r.k - 1)
  /\ r.op = "remove" => /\ r.at \in {"delete", "remaining", "order"}
                        /\ r.at # "order" => \A i \in ItemsOf(r.on) : i.idx \in Nat
                        /\ r.at = "order" => ListsAll(r.list, r.on) /\ Written(r)
  /\ r.op = "reorder" =>
       /\ r.at \in {"validate", "order"}
       /\ r.at = "validate" => Dense(r.on)
       /\ r.at = "order" => r.list = r.arg
       /\ r.arg = [n \in 1..Len(r.arg) |-> r.arg[n]]
       /\ \A n, o \in 1..Len(r.arg) : r.arg[n] = r.arg[o] => n = o
       /\ r.at = "order" /\ Whole(r) => /\ ListsAll(r.list, r.on)
                                        /\ IF backend = "mongodb" THEN Dense(r.on) ELSE Written(r)
WasApart(r) == r.op \in {"remove", "reorder"} /\ r.was # <<>> => ItemsApart(r.was[1])
OrderInv ==
  /\ ItemsApart(items)
  /\ \A h \in Handlers : Open(h) => WasApart(req[h]) /\ (Isolated(h) /\ req[h].sound => OrderKnown(req[h]))

\* As many rows as indexes, if each has its own.
LEMMA Counted ==
  ASSUME NEW rows, IsFiniteSet(rows), \A i, j \in rows : i.idx = j.idx => i = j,
         NEW k \in Nat, {i.idx : i \in rows} = 0..(k - 1)
  PROVE  Cardinality(rows) = k
<1> DEFINE f == [i \in rows |-> i.idx]
<1>1. f \in Bijection(rows, 0..(k - 1))
  BY DEF Bijection, Injection, Surjection, IsInjective
<1>2. Cardinality(0..(k - 1)) = k
  BY FS_Interval
<1>3. QED
  BY <1>1, <1>2, FS_Bijection DEF ExistsBijection

\* Rows that are listed, and have the index of their place in the list, have all indexes.
LEMMA Placed ==
  ASSUME NEW rows, NEW list, Len(list) \in Nat,
         {list[n] : n \in 1..Len(list)} = {i.id : i \in rows},
         \A i \in rows, n \in 1..Len(list) : list[n] = i.id => i.idx = n - 1
  PROVE  {i.idx : i \in rows} = 0..(Len(list) - 1)
<1>1. ASSUME NEW i \in rows PROVE i.idx \in 0..(Len(list) - 1)
  <2>1. PICK n \in 1..Len(list) : list[n] = i.id
    OBVIOUS
  <2>2. QED
    BY <2>1
<1>2. ASSUME NEW x \in 0..(Len(list) - 1) PROVE \E i \in rows : i.idx = x
  <2>1. x + 1 \in 1..Len(list)
    OBVIOUS
  <2>2. PICK i \in rows : i.id = list[x + 1]
    BY <2>1
  <2>3. QED
    BY <2>1, <2>2
<1>3. QED
  BY <1>1, <1>2

Under(rows, i) == {j \in rows : j.idx < i.idx}
Rank(rows, i) == Cardinality(Under(rows, i))

\* Rows with indexes of their own are ranked from 0 on, none below its rank.
LEMMA Ranked ==
  ASSUME NEW rows, IsFiniteSet(rows), \A i \in rows : i.idx \in Nat, \A i, j \in rows : i.idx = j.idx => i = j
  PROVE  /\ Cardinality(rows) \in Nat
         /\ \A i \in rows : Rank(rows, i) \in 0..(Cardinality(rows) - 1) /\ Rank(rows, i) <= i.idx
         /\ \A i, j \in rows : Rank(rows, i) = Rank(rows, j) => i = j
         /\ \A x \in 0..(Cardinality(rows) - 1) : \E i \in rows : Rank(rows, i) = x
<1> DEFINE c == Cardinality(rows)
           rank == [i \in rows |-> Rank(rows, i)]
<1>1. c \in Nat
  BY FS_CardinalityType
<1>2. ASSUME NEW i \in rows
      PROVE  IsFiniteSet(Under(rows, i)) /\ Rank(rows, i) \in Nat /\ Rank(rows, i) < c
  <2>1. Under(rows, i) \in SUBSET rows /\ i \notin Under(rows, i)
    BY DEF Under
  <2>2. /\ IsFiniteSet(Under(rows, i)) /\ Cardinality(Under(rows, i)) \in Nat
        /\ Cardinality(Under(rows, i)) <= c /\ Cardinality(Under(rows, i)) # c
    BY <2>1, FS_Subset, FS_CardinalityType
  <2>3. QED
    BY <1>1, <2>2 DEF Rank
<1>3. ASSUME NEW i \in rows PROVE Rank(rows, i) <= i.idx
  <2> DEFINE f == [j \in Under(rows, i) |-> j.idx]
  <2>1. f \in Injection(Under(rows, i), 0..(i.idx - 1))
    BY DEF Injection, IsInjective, Under
  <2>2. IsFiniteSet(0..(i.idx - 1)) /\ Cardinality(0..(i.idx - 1)) = i.idx
    BY FS_Interval
  <2>3. QED
    BY <2>1, <2>2, FS_Injection DEF Rank
<1>4. ASSUME NEW i \in rows, NEW j \in rows, i.idx < j.idx
      PROVE  Rank(rows, i) < Rank(rows, j)
  <2>1. Under(rows, i) \in SUBSET Under(rows, j) /\ i \in Under(rows, j) /\ i \notin Under(rows, i)
    BY <1>4 DEF Under
  <2>2. /\ Cardinality(Under(rows, i)) <= Cardinality(Under(rows, j))
        /\ Cardinality(Under(rows, j)) = Cardinality(Under(rows, i)) => Under(rows, j) = Under(rows, i)
    BY <1>2, <2>1, FS_Subset
  <2>3. QED
    BY <1>2, <2>1, <2>2 DEF Rank
<1>5. ASSUME NEW i \in rows, NEW j \in rows, Rank(rows, i) = Rank(rows, j) PROVE i = j
  BY <1>2, <1>4, <1>5
<1>6. rank \in Injection(rows, 0..(c - 1))
  BY <1>1, <1>2, <1>5 DEF Injection, IsInjective
<1>7. IsFiniteSet(0..(c - 1)) /\ Cardinality(0..(c - 1)) = c
  BY <1>1, FS_Interval, SMTT(30)
<1>8. rank \in Surjection(rows, 0..(c - 1))
  BY <1>6, <1>7, FS_Injection
<1>9. \A x \in 0..(c - 1) : \E i \in rows : Rank(rows, i) = x
  BY <1>8 DEF Surjection
<1>10. QED
  BY <1>1, <1>2, <1>3, <1>5, <1>9

\* The ids in the order of the indexes: each once, and none before its rank.
Sorted(list, rows) ==
  /\ Len(list) = Cardinality(rows) /\ Len(list) \in Nat
  /\ list = [n \in 1..Len(list) |-> list[n]]
  /\ \A n, o \in 1..Len(list) : list[n] = list[o] => n = o
  /\ {list[n] : n \in 1..Len(list)} = {i.id : i \in rows}
  /\ \A i \in rows, n \in 1..Len(list) : list[n] = i.id => i.idx >= n - 1

\* The list in the order of the indexes has each row once, none before its rank.
LEMMA OrderOf ==
  ASSUME NEW rows, IsFiniteSet(rows), \A i \in rows : i.idx \in Nat,
         \A i, j \in rows : i.id = j.id \/ i.idx = j.idx => i = j, NEW list, list = InOrder(rows)
  PROVE  Sorted(list, rows)
<1> DEFINE c == Cardinality(rows)
           at(n) == CHOOSE i \in rows : Rank(rows, i) = n - 1
<1>1. /\ c \in Nat
      /\ \A i \in rows : Rank(rows, i) \in 0..(c - 1) /\ Rank(rows, i) <= i.idx
      /\ \A i, j \in rows : Rank(rows, i) = Rank(rows, j) => i = j
      /\ \A x \in 0..(c - 1) : \E i \in rows : Rank(rows, i) = x
  BY Ranked
<1>2. list = [n \in 1..c |-> at(n).id]
  BY DEF InOrder, Rank, Under
<1>3. list = [n \in 1..c |-> list[n]] /\ \A n \in 1..c : list[n] = at(n).id
  BY <1>2
<1>4. Len(list) = c
  BY <1>1, <1>3, LenOf
<1>5. ASSUME NEW n \in 1..c PROVE at(n) \in rows /\ Rank(rows, at(n)) = n - 1
  <2>1. n - 1 \in 0..(c - 1)
    BY <1>1
  <2>2. \E i \in rows : Rank(rows, i) = n - 1
    BY <1>1, <2>1
  <2>3. QED
    BY <2>2
<1> HIDE DEF at
<1>6. \A n, o \in 1..c : list[n] = list[o] => n = o
  BY <1>1, <1>3, <1>5
<1>7. ASSUME NEW i \in rows PROVE \E n \in 1..c : list[n] = i.id
  <2>1. PICK n : n = Rank(rows, i) + 1
    OBVIOUS
  <2>2. n \in 1..c /\ Rank(rows, i) = n - 1
    BY <1>1, <2>1
  <2>3. at(n) = i
    BY <1>1, <1>5, <2>2
  <2>4. QED
    BY <1>3, <2>2, <2>3
<1>8. {list[n] : n \in 1..c} = {i.id : i \in rows}
  BY <1>3, <1>5, <1>7
<1>9. ASSUME NEW i \in rows, NEW n \in 1..c, list[n] = i.id PROVE i.idx >= n - 1
  <2>1. at(n) = i
    BY <1>3, <1>5, <1>9
  <2>2. QED
    BY <1>1, <1>5, <2>1
<1>10. QED
  BY <1>1, <1>3, <1>4, <1>6, <1>8, <1>9 DEF Sorted

\* What becomes of the rows when one is given another index.
LEMMA IndexedRows ==
  ASSUME ItemsOK(items), NEW id, NEW idx, NEW rows, rows = Indexed(id, idx)
  PROVE  /\ \A z \in rows : \E i \in items :
              /\ z = IF i.id = id THEN [i EXCEPT !.idx = idx] ELSE i
              /\ z.id = i.id /\ z.pl = i.pl /\ z.idx = IF i.id = id THEN idx ELSE i.idx
         /\ \A i \in items : \E z \in rows :
              z.id = i.id /\ z.pl = i.pl /\ z.idx = IF i.id = id THEN idx ELSE i.idx
<1> DEFINE new(i) == IF i.id = id THEN [i EXCEPT !.idx = idx] ELSE i
<1>1. ASSUME NEW i \in items
      PROVE  new(i).id = i.id /\ new(i).pl = i.pl /\ new(i).idx = IF i.id = id THEN idx ELSE i.idx
  BY DEF ItemsOK, ItemFields
<1>2. rows = {new(i) : i \in items}
  BY DEF Indexed
<1>3. QED
  BY <1>1, <1>2

\* They stay apart if the index was free.
LEMMA IndexedApart ==
  ASSUME ItemsOK(items), ItemsApart(items), NEW id, NEW idx, ~Taken(id, idx), NEW rows, rows = Indexed(id, idx)
  PROVE  ItemsApart(rows)
<1> SUFFICES ASSUME NEW y \in rows, NEW z \in rows, y.id = z.id \/ (y.pl = z.pl /\ y.idx = z.idx)
             PROVE  y = z
  BY DEF ItemsApart
<1>1. PICK i \in items : /\ y = IF i.id = id THEN [i EXCEPT !.idx = idx] ELSE i
                         /\ y.id = i.id /\ y.pl = i.pl /\ y.idx = IF i.id = id THEN idx ELSE i.idx
  BY IndexedRows
<1>2. PICK j \in items : /\ z = IF j.id = id THEN [j EXCEPT !.idx = idx] ELSE j
                         /\ z.id = j.id /\ z.pl = j.pl /\ z.idx = IF j.id = id THEN idx ELSE j.idx
  BY IndexedRows
<1>3. i = j
  BY <1>1, <1>2 DEF ItemsApart, Taken
<1>4. QED
  BY <1>1, <1>2, <1>3

\* What the two formulas of OrderKept say of one step, and that the step keeps OrderInv.
OrderOps == {"add", "remove", "reorder"}
LeftDense ==
  \A h \in Handlers, p \in Playlist :
    Ends(h) /\ Isolated(h) /\ req[h].sound /\ req[h].op \in {"add", "remove", "reorder"} /\ req[h].on = p
      /\ Whole(req[h]) => Dense(p)'
LeftAsked ==
  \A h \in Handlers :
    LET r == req[h] IN
    Ends(h) /\ Isolated(h) /\ r.sound /\ r.op = "reorder" /\ Whole(r) /\ backend # "mongodb"
      => req'[h].at = "ok" /\ \A i \in {j \in items' : j.pl = r.on} : r.arg[i.idx + 1] = i.id
OrdersKept == OrderInv' /\ LeftDense /\ LeftAsked

\* What a request of a playlist leaves as it is answered.
LeavesOrder(q, at) ==
  q.op \in OrderOps /\ Whole(q) =>
    /\ \A p \in Playlist : p = q.on => Dense(p)'
    /\ q.op = "reorder" /\ backend # "mongodb"
         => at = "ok" /\ \A i \in {j \in items' : j.pl = q.on} : q.arg[i.idx + 1] = i.id

\* Nobody comes between the statements of an isolated request.
LEMMA OrderStep ==
  ASSUME LibInv, RefInv, OrderInv, NEW h \in Handlers, NEW r, GoOn(h, r), Open(h), Turn(h), ItemsApart(items'),
         r.at \notin Answered /\ r.op \in OrderOps =>
           /\ r.alone = req[h].alone /\ r.sound = req[h].sound /\ WasApart(r)
           /\ Isolated(h) /\ req[h].sound => OrderKnown(r)',
         r.at \in Answered /\ Isolated(h) /\ req[h].sound => LeavesOrder(req[h], r.at)
  PROVE  OrdersKept
<1>1. ItemsApart(items)' /\ UNCHANGED backend
  BY AfterGoOn DEF ItemsApart
<1>2. ASSUME NEW g \in Handlers, Open(g)'
      PROVE  WasApart(req[g])' /\ (Isolated(g)' /\ req'[g].sound => OrderKnown(req[g])')
  <2>1. CASE g = h
    <3>1. r.at \notin Answered /\ req'[h] = r
      BY <1>2, <2>1, AfterGoOn DEF Open
    <3>2. CASE r.op \in OrderOps
      <4>1. Isolated(g)' => Isolated(h)
        BY <1>1, <2>1, <3>1, <3>2 DEF Isolated
      <4>2. WasApart(r)' /\ (Isolated(g)' /\ r.sound => OrderKnown(r)')
        BY <3>1, <3>2, <4>1 DEF WasApart, ItemsApart
      <4>3. QED
        BY <2>1, <3>1, <4>2
    <3>3. CASE r.op \notin OrderOps
      BY <2>1, <3>1, <3>3 DEF WasApart, OrderKnown, OrderOps
    <3>4. QED
      BY <3>2, <3>3
  <2>2. CASE g # h
    <3>1. PICK q : q = req[g] /\ q = req'[g]
      BY <2>2, AfterGoOn
    <3>2. WasApart(q)
      BY <1>2, <3>1 DEF OrderInv, Open
    <3>3. Isolated(g)' /\ q.sound => OrderKnown(q) /\ q.at \in Away
      BY <1>2, <2>2, <3>1, Undisturbed DEF OrderInv
    <3>4. Isolated(g)' /\ q.sound => OrderKnown(q)'
      BY <3>3 DEF OrderKnown, Away
    <3>5. WasApart(q)'
      BY <3>2 DEF WasApart, ItemsApart
    <3>6. QED
      BY <3>1, <3>4, <3>5
  <2>3. QED
    BY <2>1, <2>2
<1>3. LeftDense /\ LeftAsked
  BY AnswersItself DEF LeftDense, LeftAsked, LeavesOrder, OrderOps
<1>4. QED
  BY <1>1, <1>2, <1>3 DEF OrdersKept, OrderInv

\* What a request knows of the order as it begins.
LEMMA OrderAtFirst ==
  ASSUME LibInv, OrderInv, NEW h \in Handlers, NEW op, NEW at, NEW on, NEW arg, NEW sound,
         Begin(h, op, at, on, arg, sound), at \notin Answered, UNCHANGED items,
         op \in OrderOps /\ sound => \A r : r.op = op /\ r.at = at /\ r.on = on /\ r.arg = arg => OrderKnown(r)'
  PROVE  OrdersKept
<1>1. ASSUME NEW g \in Handlers, Open(g)'
      PROVE  WasApart(req[g])' /\ (Isolated(g)' /\ req'[g].sound => OrderKnown(req[g])')
  <2>1. PICK q : q = req'[g]
    OBVIOUS
  <2>2. CASE g = h
    <3>1. q.op = op /\ q.at = at /\ q.on = on /\ q.arg = arg /\ q.sound = sound /\ q.was = <<>>
      BY <2>1, <2>2, AtFirst
    <3>2. op \notin OrderOps => OrderKnown(q)'
      BY <3>1 DEF OrderKnown, OrderOps
    <3>3. QED
      BY <2>1, <3>1, <3>2 DEF WasApart
  <2>3. CASE g # h
    <3>1. PICK p : p = req[g]
      OBVIOUS
    <3>2. Open(g) /\ q.op = p.op /\ q.was = p.was /\ q.at = p.at
      <4>1. q = IF Open(g) THEN [p EXCEPT !.alone = FALSE] ELSE p
        BY <2>1, <2>3, <3>1 DEF Begin, Others
      <4>2. Open(g)
        BY <1>1, <2>1, <3>1, <4>1 DEF Open
      <4>3. DOMAIN p = RequestFields
        BY <3>1, <4>2, Knows
      <4>4. QED
        BY <4>1, <4>2, <4>3 DEF RequestFields
    <3>3. WasApart(p)
      BY <3>1, <3>2 DEF OrderInv
    <3>4. Isolated(g)' /\ q.sound => OrderKnown(p) /\ p.at \in Away
      BY <1>1, <2>1, <2>3, <3>1, UndisturbedAtFirst DEF OrderInv
    <3>5. Isolated(g)' /\ q.sound => OrderKnown(q)'
      BY <3>2, <3>4 DEF OrderKnown, Away
    <3>6. WasApart(q)'
      BY <3>2, <3>3 DEF WasApart, ItemsApart
    <3>7. QED
      BY <2>1, <3>5, <3>6
  <2>4. QED
    BY <2>2, <2>3
<1>2. ItemsApart(items)'
  BY DEF OrderInv, ItemsApart
<1>3. LeftDense /\ LeftAsked
  BY NobodyEnds DEF LeftDense, LeftAsked
<1>4. QED
  BY <1>1, <1>2, <1>3 DEF OrdersKept, OrderInv

\* What is not about the order of a playlist.
LEMMA OrderAside ==
  ASSUME LibInv, RefInv, OrderInv, NEW h \in Handlers, NEW ops, Steps(h, ops), ops \cap OrderOps = {}, ItemsApart(items')
  PROVE  OrdersKept
<1>1. PICK r : GoOn(h, r) /\ Open(h) /\ Turn(h) /\ r.op = req[h].op /\ r.op \notin OrderOps
  BY DEF Steps
<1>2. LeavesOrder(req[h], r.at)
  BY <1>1 DEF LeavesOrder
<1>3. QED
  BY <1>1, <1>2, OrderStep

\* A request that is not about one begins.
LEMMA OrderAsideAtFirst ==
  ASSUME LibInv, OrderInv, NEW h \in Handlers, NEW ops, NEW ats, Begins(h, ops, ats),
         ats \cap Answered = {}, ops \cap OrderOps = {}, UNCHANGED items
  PROVE  OrdersKept
<1>1. PICK op \in ops, at \in ats : \E on, arg, sound : Begin(h, op, at, on, arg, sound)
  BY DEF Begins
<1>2. PICK on, arg, sound : Begin(h, op, at, on, arg, sound)
  BY <1>1
<1>3. QED
  BY <1>2, OrderAtFirst

\* Fewer rows are apart, too.
LEMMA FewerApart ==
  ASSUME NEW rows, ItemsApart(rows), NEW less \in SUBSET rows
  PROVE  ItemsApart(less)
  BY DEF ItemsApart

\* Rows with the indexes from 0 on are as many as those.
LEMMA DenseFrom ==
  ASSUME LibInv, ItemsApart(items), NEW p, NEW k \in Nat, IndexesOf(p) = 0..(k - 1)
  PROVE  Dense(p)
<1>1. PICK rows : rows = ItemsOf(p)
  OBVIOUS
<1>2. IsFiniteSet(rows)
  BY <1>1, FS_Subset DEF LibInv, ItemsOK, ItemsOf
<1>3. \A i, j \in rows : i.idx = j.idx => i = j
  BY <1>1 DEF ItemsOf, ItemsApart
<1>4. {i.idx : i \in rows} = 0..(k - 1)
  BY <1>1 DEF IndexesOf
<1>5. Cardinality(rows) = k
  BY <1>2, <1>3, <1>4, Counted
<1>6. QED
  BY <1>1, <1>4, <1>5 DEF Dense

\* So they are after a step, whatever the rows have become.
LEMMA DenseThen ==
  ASSUME LibInv', ItemsApart(items'), NEW p, NEW k \in Nat, IndexesOf(p)' = 0..(k - 1)
  PROVE  Dense(p)'
<1>1. PICK rows : rows = {i \in items' : i.pl = p}
  OBVIOUS
<1>2. IsFiniteSet(rows)
  BY <1>1, FS_Subset DEF LibInv, ItemsOK
<1>3. \A i, j \in rows : i.idx = j.idx => i = j
  BY <1>1 DEF ItemsApart
<1>4. {i.idx : i \in rows} = 0..(k - 1)
  BY <1>1 DEF IndexesOf, ItemsOf
<1>5. Cardinality(rows) = k
  BY <1>2, <1>3, <1>4, Counted
<1>6. QED
  BY <1>1, <1>4, <1>5 DEF Dense, ItemsOf

\* What an open request knows, and what it knows if nothing comes between.
LEMMA KnowsOrder ==
  ASSUME LibInv, OrderInv, NEW h \in Handlers, Open(h)
  PROVE  /\ DOMAIN req[h] = RequestFields /\ PlaylistRequestOK(req[h]) /\ WasApart(req[h]) /\ ItemsApart(items)
         /\ ItemsOK(items) /\ nextItem \in Nat \ {0}
         /\ Isolated(h) /\ req[h].sound => OrderKnown(req[h])
  BY Knows DEF OrderInv, LibInv, CountersOK

\* An addition counts what there is ...
LEMMA CountOrders ==
  ASSUME LibInv, RefInv, OrderInv, NEW h \in Handlers, CountItems(h)
  PROVE  OrdersKept
<1>1. Open(h) /\ Turn(h) /\ req[h].op = "add" /\ req[h].at = "count" /\ UNCHANGED items
  BY DEF CountItems, At, Open, Answered, playlistVars
<1>2. PICK q, k : q = req[h] /\ k = Cardinality(ItemsOf(q.on))
  OBVIOUS
<1>3. PICK r : r = [q EXCEPT !.k = k, !.at = "media"]
  OBVIOUS
<1>4. DOMAIN q = RequestFields /\ ItemsApart(items) /\ IsFiniteSet(items) /\ (Isolated(h) /\ q.sound => OrderKnown(q))
  BY <1>1, <1>2, KnowsOrder DEF ItemsOK
<1>5. GoOn(h, r)
  BY <1>2, <1>3 DEF CountItems
<1>6. /\ r.op = "add" /\ r.at = "media" /\ r.k = k /\ r.on = q.on
      /\ r.alone = q.alone /\ r.sound = q.sound
  BY <1>1, <1>2, <1>3, <1>4 DEF RequestFields
<1>7. k \in Nat
  BY <1>2, <1>4, FS_Subset, FS_CardinalityType DEF ItemsOf
<1>8. OrderKnown(q) => IndexesOf(q.on)' = 0..(k - 1)
  BY <1>1, <1>2 DEF OrderKnown, Dense, IndexesOf, ItemsOf
<1>9. OrderKnown(q) => OrderKnown(r)'
  BY <1>6, <1>7, <1>8 DEF OrderKnown
<1>10. WasApart(r) /\ r.at \notin Answered
  BY <1>6 DEF WasApart, Answered
<1>11. QED
  BY <1>1, <1>2, <1>4, <1>5, <1>6, <1>9, <1>10, OrderStep

\* ... looks at each medium, and leaves what it has added if that is not to be.
LEMMA CheckOrders ==
  ASSUME LibInv, RefInv, OrderInv, LibInv', NEW h \in Handlers, NEW at \in {"insert", "error"}, NEW was \in {"media", "insert"},
         At(h, "add", was), GoTo(h, at), UNCHANGED items
  PROVE  OrdersKept
<1>1. Open(h) /\ Turn(h) /\ req[h].op = "add" /\ req[h].at = was
  BY DEF At, Open, Answered
<1>2. PICK q : q = req[h]
  OBVIOUS
<1>3. PICK r : r = [req[h] EXCEPT !.at = at]
  OBVIOUS
<1>4. ItemsApart(items) /\ (Isolated(h) /\ q.sound => OrderKnown(q))
  BY <1>1, <1>2, KnowsOrder
<1>5. GoOn(h, r) /\ r.op = "add" /\ r.at = at /\ r.on = q.on /\ r.k = q.k /\ r.alone = q.alone /\ r.sound = q.sound
  BY <1>1, <1>2, <1>3, GoesTo
<1>6. OrderKnown(q) => q.k \in Nat /\ IndexesOf(q.on)' = 0..(q.k - 1)
  BY <1>1, <1>2 DEF OrderKnown, IndexesOf, ItemsOf
<1>7. r.at \notin Answered /\ OrderKnown(q) => OrderKnown(r)'
  BY <1>5, <1>6 DEF OrderKnown, Answered
<1>8. OrderKnown(q) => LeavesOrder(q, r.at)
  BY <1>1, <1>2, <1>4, <1>6, DenseThen DEF LeavesOrder
<1>9. WasApart(r)
  BY <1>5 DEF WasApart
<1>10. QED
  BY <1>1, <1>2, <1>4, <1>5, <1>7, <1>8, <1>9, OrderStep

\* ... and puts a new row after the last, or stops there.
LEMMA AddOrders ==
  ASSUME LibInv, RefInv, OrderInv, LibInv', NEW h \in Handlers, addPlaylistItem(h)
  PROVE  OrdersKept
<1>1. Open(h) /\ Turn(h) /\ req[h].op = "add" /\ req[h].at = "insert" /\ At(h, "add", "insert")
  BY DEF addPlaylistItem, At, Open, Answered
<1>2. CASE GoTo(h, "error") /\ UNCHANGED playlistVars
  BY <1>1, <1>2, CheckOrders DEF playlistVars
<1>3. CASE ~(GoTo(h, "error") /\ UNCHANGED playlistVars)
  <2>1. PICK q, i : q = req[h] /\ i = [id |-> nextItem, pl |-> q.on, media |-> Head(q.arg), idx |-> q.k]
    OBVIOUS
  <2>2. PICK r : r = [q EXCEPT !.arg = Tail(@), !.k = @ + 1, !.at = IF Len(q.arg) = 1 THEN "ok" ELSE "media"]
    OBVIOUS
  <2>3. /\ items' = items \cup {i} /\ GoOn(h, r)
        /\ \A j \in items : j.pl = q.on => j.idx # q.k
    BY <1>3, <2>1, <2>2 DEF addPlaylistItem, InsertFails, ItemsOf
  <2>4. i.id = nextItem /\ i.pl = q.on /\ i.idx = q.k
    BY <2>1
  <2>5. /\ DOMAIN q = RequestFields /\ ItemsApart(items) /\ (Isolated(h) /\ q.sound => OrderKnown(q))
        /\ \A j \in items : j.id # nextItem
    <3>1. ItemsOK(items) /\ nextItem \in Nat
      BY <1>1, KnowsOrder
    <3>2. \A j \in items : j.id # nextItem
      BY <3>1 DEF ItemsOK
    <3>3. QED
      BY <1>1, <2>1, <3>2, KnowsOrder
  <2>6. ItemsApart(items')
    BY <2>3, <2>4, <2>5 DEF ItemsApart
  <2>7. /\ r.op = "add" /\ r.on = q.on /\ r.k = q.k + 1 /\ r.alone = q.alone /\ r.sound = q.sound
        /\ r.at \in {"ok", "media"}
    BY <1>1, <2>1, <2>2, <2>5 DEF RequestFields
  <2>8. PICK p, n, k : p = q.on /\ n = q.k /\ k = q.k + 1
    OBVIOUS
  <2>9. ASSUME OrderKnown(q)
        PROVE  k \in Nat /\ IndexesOf(p)' = 0..(k - 1)
    <3>1. n \in Nat /\ IndexesOf(p) = 0..(n - 1)
      BY <1>1, <2>1, <2>8, <2>9 DEF OrderKnown
    <3>2. IndexesOf(p)' = IndexesOf(p) \cup {n}
      BY <2>3, <2>4, <2>8 DEF IndexesOf, ItemsOf
    <3>3. k = n + 1
      BY <2>8
    <3>4. QED
      BY <3>1, <3>2, <3>3
  <2>10. r.at \notin Answered /\ OrderKnown(q) => OrderKnown(r)'
    BY <2>7, <2>8, <2>9 DEF OrderKnown, Answered
  <2>11. OrderKnown(q) => LeavesOrder(q, r.at)
    <3>1. OrderKnown(q) => Dense(p)'
      BY <2>6, <2>9, DenseThen
    <3>2. QED
      BY <1>1, <2>1, <2>8, <3>1 DEF LeavesOrder
  <2>12. WasApart(r)
    BY <2>7 DEF WasApart
  <2>13. QED
    BY <1>1, <2>1, <2>3, <2>5, <2>6, <2>7, <2>10, <2>11, <2>12, OrderStep
<1>4. QED
  BY <1>2, <1>3

\* A removal leaves a gap, ...
LEMMA DeleteOrders ==
  ASSUME LibInv, RefInv, OrderInv, NEW h \in Handlers, DeleteItemRow(h)
  PROVE  OrdersKept
<1>1. Open(h) /\ Turn(h) /\ req[h].op = "remove" /\ req[h].at = "delete" /\ GoTo(h, "remaining") /\ items' \subseteq items
  BY DEF DeleteItemRow, At, Open, Answered
<1>2. PICK q : q = req[h]
  OBVIOUS
<1>3. PICK r : r = [req[h] EXCEPT !.at = "remaining"]
  OBVIOUS
<1>4. WasApart(q) /\ ItemsApart(items) /\ (Isolated(h) /\ q.sound => OrderKnown(q))
  BY <1>1, <1>2, KnowsOrder
<1>5. /\ GoOn(h, r) /\ r.op = "remove" /\ r.at = "remaining" /\ r.on = q.on /\ r.was = q.was
      /\ r.alone = q.alone /\ r.sound = q.sound
  BY <1>1, <1>2, <1>3, GoesTo
<1>6. ItemsApart(items')
  BY <1>1, <1>4, FewerApart
<1>7. OrderKnown(q) => OrderKnown(r)'
  BY <1>1, <1>2, <1>5 DEF OrderKnown, ItemsOf
<1>8. WasApart(r) /\ r.at \notin Answered
  BY <1>1, <1>2, <1>4, <1>5 DEF WasApart, Answered
<1>9. QED
  BY <1>1, <1>2, <1>4, <1>5, <1>6, <1>7, <1>8, OrderStep

\* ... and lists the others in their order.
LEMMA RemainingOrders ==
  ASSUME LibInv, RefInv, OrderInv, NEW h \in Handlers, RemainingItems(h)
  PROVE  OrdersKept
<1>1. Open(h) /\ Turn(h) /\ req[h].op = "remove" /\ req[h].at = "remaining" /\ UNCHANGED items
  BY DEF RemainingItems, At, Open, Answered, playlistVars
<1>2. PICK q, rows, list, was : q = req[h] /\ rows = ItemsOf(q.on) /\ list = InOrder(rows) /\ was = Savepoint(items)
  OBVIOUS
<1>3. PICK r : r = [q EXCEPT !.list = list, !.was = was, !.at = IF list = <<>> THEN "ok" ELSE "order"]
  OBVIOUS
<1>4. GoOn(h, r) /\ UNCHANGED backend
  BY <1>2, <1>3 DEF RemainingItems, GoOn
<1>5. /\ DOMAIN q = RequestFields /\ PlaylistRequestOK(q) /\ ItemsApart(items) /\ ItemsOK(items)
      /\ Isolated(h) /\ q.sound => OrderKnown(q)
  BY <1>1, <1>2, KnowsOrder
<1>6. /\ r.op = "remove" /\ r.on = q.on /\ r.list = list /\ r.k = q.k /\ r.was = was
      /\ r.alone = q.alone /\ r.sound = q.sound /\ r.at = IF list = <<>> THEN "ok" ELSE "order"
  BY <1>1, <1>2, <1>3, <1>5 DEF RequestFields
<1>7. q.k = 0
  BY <1>1, <1>2, <1>5 DEF PlaylistRequestOK
<1>8. IsFiniteSet(rows) /\ \A i, j \in rows : i.id = j.id \/ i.idx = j.idx => i = j
  BY <1>2, <1>5, FS_Subset DEF ItemsOK, ItemsOf, ItemsApart
<1>9. ASSUME OrderKnown(q)
      PROVE  /\ Len(list) = Cardinality(rows) /\ Len(list) \in Nat
             /\ list = [n \in 1..Len(list) |-> list[n]]
             /\ \A n, o \in 1..Len(list) : list[n] = list[o] => n = o
             /\ {list[n] : n \in 1..Len(list)} = {i.id : i \in rows}
             /\ \A i \in rows, n \in 1..Len(list) : list[n] = i.id => i.idx >= n - 1
             /\ \A i \in rows : i.idx \in Nat
  <2>1. \A i \in rows : i.idx \in Nat
    BY <1>1, <1>2, <1>9 DEF OrderKnown
  <2>2. /\ IsFiniteSet(rows) /\ list = InOrder(rows)
        /\ \A i, j \in rows : i.id = j.id \/ i.idx = j.idx => i = j
    BY <1>2, <1>8
  <2>3. Sorted(list, rows)
    BY ONLY <2>1, <2>2, OrderOf
  <2>4. QED
    BY <2>1, <2>3 DEF Sorted
<1>10. OrderKnown(q) => ListsAll(r.list, r.on)'
  <2>1. PICK p : p = q.on
    OBVIOUS
  <2>2. {i \in items' : i.pl = p} = rows
    BY <1>1, <1>2, <2>1 DEF ItemsOf
  <2>3. OrderKnown(q) => ListsAll(list, p)'
    BY <1>9, <2>2 DEF ListsAll, ItemsOf
  <2>4. QED
    BY <1>6, <2>1, <2>3
<1>11. OrderKnown(q) => Written(r)'
  BY <1>1, <1>2, <1>4, <1>6, <1>7, <1>9 DEF Written, ItemsOf, ByNegative, Upwards
<1>12. r.at \notin Answered /\ OrderKnown(q) => OrderKnown(r)'
  BY <1>6, <1>10, <1>11 DEF OrderKnown, Answered
<1>13. r.at \in Answered /\ OrderKnown(q) => LeavesOrder(q, r.at)
  <2> SUFFICES ASSUME list = <<>>, OrderKnown(q), NEW p, p = q.on PROVE Dense(p)'
    BY <1>1, <1>2, <1>6 DEF LeavesOrder, Answered
  <2>1. Cardinality(rows) = 0
    BY <1>9
  <2>2. rows = {}
    BY <1>8, <2>1, FS_EmptySet
  <2>3. {i \in items' : i.pl = p} = {}
    BY <1>1, <1>2, <2>2 DEF ItemsOf
  <2>4. ItemsOf(p)' = {}
    BY <2>3 DEF ItemsOf
  <2>5. QED
    BY <2>1, <2>2, <2>4 DEF Dense
<1>14. WasApart(r)
  BY <1>2, <1>5, <1>6 DEF WasApart, Savepoint
<1>15. QED
  BY <1>1, <1>2, <1>4, <1>5, <1>6, <1>12, <1>13, <1>14, OrderStep

\* A reorder looks whether it names the playlist's own.
LEMMA ValidateOrders ==
  ASSUME LibInv, RefInv, OrderInv, NEW h \in Handlers, ValidateItems(h)
  PROVE  OrdersKept
<1>1. Open(h) /\ Turn(h) /\ req[h].op = "reorder" /\ req[h].at = "validate" /\ UNCHANGED items
  BY DEF ValidateItems, At, Open, Answered, playlistVars
<1>2. PICK q, was : q = req[h] /\ was = Savepoint(items)
  OBVIOUS
<1>3. /\ DOMAIN q = RequestFields /\ PlaylistRequestOK(q) /\ ItemsApart(items)
      /\ Isolated(h) /\ q.sound => OrderKnown(q)
  BY <1>1, <1>2, KnowsOrder
<1>4. CASE ToSet(q.arg) \subseteq {i.id : i \in ItemsOf(q.on)}
  <2>1. PICK r : r = [q EXCEPT !.list = q.arg, !.was = was, !.at = "order"]
    OBVIOUS
  <2>2. GoOn(h, r) /\ UNCHANGED backend
    BY <1>2, <1>4, <2>1 DEF ValidateItems, GoOn
  <2>3. /\ r.op = "reorder" /\ r.on = q.on /\ r.list = q.arg /\ r.arg = q.arg /\ r.k = q.k /\ r.was = was
        /\ r.alone = q.alone /\ r.sound = q.sound /\ r.at = "order"
    BY <1>1, <1>2, <1>3, <2>1 DEF RequestFields
  <2>4. q.k = 0
    BY <1>1, <1>2, <1>3 DEF PlaylistRequestOK
  <2>5. ASSUME OrderKnown(q)
        PROVE  /\ q.arg = [n \in 1..Len(q.arg) |-> q.arg[n]]
               /\ \A n, o \in 1..Len(q.arg) : q.arg[n] = q.arg[o] => n = o
               /\ Dense(q.on)
    BY <1>1, <1>2, <2>5 DEF OrderKnown
  <2>6. PICK p, arg : p = q.on /\ arg = q.arg
    OBVIOUS
  <2>7. OrderKnown(q) /\ Whole(r)' => ListsAll(r.list, r.on)'
    <3>1. Whole(r)' => ToSet(arg) = {i.id : i \in ItemsOf(p)'}
      BY <2>3, <2>6 DEF Whole
    <3>2. OrderKnown(q) => ToSet(arg) = {arg[n] : n \in 1..Len(arg)}
      BY <2>5, <2>6 DEF ToSet
    <3>3. OrderKnown(q) /\ Whole(r)' => ListsAll(arg, p)'
      BY <2>5, <2>6, <3>1, <3>2 DEF ListsAll
    <3>4. QED
      BY <2>3, <2>6, <3>3
  <2>8. OrderKnown(q) => Dense(r.on)' /\ \A i \in ItemsOf(r.on)' : i.idx >= 0
    <3>1. ItemsOf(p)' = ItemsOf(p)
      BY <1>1 DEF ItemsOf
    <3>2. OrderKnown(q) => Dense(p)'
      BY <2>5, <2>6, <3>1 DEF Dense
    <3>3. OrderKnown(q) => \A i \in ItemsOf(p)' : i.idx >= 0
      BY <2>5, <2>6, <3>1 DEF Dense
    <3>4. QED
      BY <2>3, <2>6, <3>2, <3>3
  <2>9. OrderKnown(q) /\ backend # "mongodb" => Written(r)'
    <3>1. Len(arg) \in Nat
      BY <1>1, <1>2, <1>3, <2>6 DEF PlaylistRequestOK
    <3>2. r.list = arg /\ r.on = p
      BY <2>3, <2>6
    <3>3. QED
      BY <1>1, <2>2, <2>3, <2>4, <2>8, <3>1, <3>2 DEF Written, ByNegative
  <2>10. OrderKnown(q) => OrderKnown(r)'
    BY <2>2, <2>3, <2>5, <2>7, <2>8, <2>9 DEF OrderKnown
  <2>11. WasApart(r) /\ r.at \notin Answered
    BY <1>2, <1>3, <2>3 DEF WasApart, Savepoint, Answered
  <2>12. QED
    BY <1>1, <1>2, <1>3, <2>2, <2>3, <2>10, <2>11, OrderStep
<1>5. CASE ~(ToSet(q.arg) \subseteq {i.id : i \in ItemsOf(q.on)})
  <2>1. PICK r : r = [q EXCEPT !.at = "error"]
    OBVIOUS
  <2>2. GoOn(h, r)
    BY <1>2, <1>5, <2>1 DEF ValidateItems
  <2>3. r.at = "error"
    BY <1>3, <2>1 DEF RequestFields
  <2>4. LeavesOrder(q, r.at)
    BY <1>1, <1>2, <1>5 DEF LeavesOrder, Whole
  <2>5. QED
    BY <1>1, <1>2, <1>3, <2>2, <2>3, <2>4, OrderStep DEF Answered
<1>6. QED
  BY <1>4, <1>5

\* The statement that is next: which row of the list it writes, and which index.
Turned(list, k) == IF backend = "mongodb" \/ k < Len(list) THEN k + 1 ELSE k + 1 - Len(list)
Target(list, k) == IF backend = "mongodb" THEN k ELSE IF k < Len(list) THEN -(k + 1) ELSE k - Len(list)

\* A list has one statement for each row, or two; each of them writes a row of the list.
LEMMA StatementOf ==
  ASSUME NEW list, Len(list) \in Nat, NEW k \in Nat, k < Len(Reordering(list))
  PROVE  /\ Len(Reordering(list)) = IF backend = "mongodb" THEN Len(list) ELSE 2 * Len(list)
         /\ Reordering(list)[k + 1][1] = list[Turned(list, k)] /\ Reordering(list)[k + 1][2] = Target(list, k)
         /\ Turned(list, k) \in 1..Len(list) /\ Target(list, k) \in Int
<1>1. ASSUME NEW n \in Nat, NEW s, s = [i \in 1..n |-> s[i]]
      PROVE  Len(s) = n
  BY <1>1, LenOf
<1>2. CASE backend = "mongodb"
  <2>1. PICK s : s = [n \in 1..Len(list) |-> <<list[n], n - 1>>]
    OBVIOUS
  <2>2. Reordering(list) = s /\ Len(s) = Len(list)
    BY <1>1, <1>2, <2>1 DEF Reordering, mongoReorder
  <2>3. k + 1 \in 1..Len(list) /\ s[k + 1] = <<list[k + 1], k>>
    BY <2>1, <2>2
  <2>4. QED
    BY <1>2, <2>2, <2>3 DEF Turned, Target
<1>3. CASE backend # "mongodb"
  <2>1. PICK s : s = [n \in 1..(2 * Len(list)) |->
                        IF n <= Len(list) THEN <<list[n], -n>> ELSE <<list[n - Len(list)], n - Len(list) - 1>>]
    OBVIOUS
  <2>2. Reordering(list) = s /\ Len(s) = 2 * Len(list)
    BY <1>1, <1>3, <2>1 DEF Reordering, sqlReorder
  <2>3. PICK n : n = k + 1
    OBVIOUS
  <2>4. n \in 1..(2 * Len(list))
    BY <2>2, <2>3
  <2>5. s[n] = IF n <= Len(list) THEN <<list[n], -n>> ELSE <<list[n - Len(list)], n - Len(list) - 1>>
    BY ONLY <2>1, <2>4
  <2>6. PICK t, x : t = Turned(list, k) /\ x = Target(list, k)
    OBVIOUS
  <2>7. ASSUME k < Len(list) PROVE s[n][1] = list[t] /\ s[n][2] = x /\ t \in 1..Len(list) /\ x \in Int
    <3>1. n <= Len(list)
      BY <2>3, <2>7
    <3>2. s[n][1] = list[n] /\ s[n][2] = -n
      BY <2>5, <3>1
    <3>3. t = n /\ x = -n
      BY <1>3, <2>3, <2>6, <2>7 DEF Turned, Target
    <3>4. QED
      BY ONLY <2>4, <3>1, <3>2, <3>3, Len(list) \in Nat
  <2>8. ASSUME ~(k < Len(list)) PROVE s[n][1] = list[t] /\ s[n][2] = x /\ t \in 1..Len(list) /\ x \in Int
    <3>1. ~(n <= Len(list)) /\ n - Len(list) \in 1..Len(list) /\ n - Len(list) - 1 = k - Len(list)
      BY <2>2, <2>3, <2>8
    <3>2. s[n][1] = list[n - Len(list)] /\ s[n][2] = k - Len(list)
      BY <2>5, <3>1
    <3>3. t = n - Len(list) /\ x = k - Len(list)
      BY <1>3, <2>3, <2>6, <2>8 DEF Turned, Target
    <3>4. QED
      BY ONLY <3>1, <3>2, <3>3, Len(list) \in Nat, k \in Nat
  <2>9. QED
    BY <1>3, <2>2, <2>3, <2>6, <2>7, <2>8
<1>4. QED
  BY <1>2, <1>3

\* What writing one row of a list does to the playlist, and what may be in its way.
Rewritten(rows, p, list, m, idx) ==
  /\ {z.id : z \in {y \in rows : y.pl = p}} = {i.id : i \in ItemsOf(p)}
  /\ \A z \in {y \in rows : y.pl = p}, n \in 1..Len(list) : list[n] = z.id =>
       \E i \in ItemsOf(p) : i.id = z.id /\ z.idx = IF n = m THEN idx ELSE i.idx
  /\ Taken(list[m], idx) =>
       \E i \in ItemsOf(p), n \in 1..Len(list) : list[n] = i.id /\ n # m /\ i.idx = idx

\* So it is with the rows of a playlist and their list, whichever row is written.
LEMMA ListWritten ==
  ASSUME ItemsOK(items), ItemsApart(items), NEW p, NEW list, Len(list) \in Nat, ListsAll(list, p),
         NEW m \in 1..Len(list), NEW idx, NEW rows, rows = Indexed(list[m], idx)
  PROVE  Rewritten(rows, p, list, m, idx)
<1>1. /\ \A n, o \in 1..Len(list) : list[n] = list[o] => n = o
      /\ {list[n] : n \in 1..Len(list)} = {i.id : i \in ItemsOf(p)}
  BY DEF ListsAll
<1>2. PICK id : id = list[m]
  OBVIOUS
<1>3. /\ \A z \in rows : \E i \in items :
           z.id = i.id /\ z.pl = i.pl /\ z.idx = IF i.id = id THEN idx ELSE i.idx
      /\ \A i \in items : \E z \in rows :
           z.id = i.id /\ z.pl = i.pl /\ z.idx = IF i.id = id THEN idx ELSE i.idx
  BY <1>2, IndexedRows
<1>4. {z.id : z \in {y \in rows : y.pl = p}} = {i.id : i \in ItemsOf(p)}
  <2>1. ASSUME NEW z \in rows, z.pl = p PROVE \E i \in ItemsOf(p) : i.id = z.id
    BY <1>3, <2>1 DEF ItemsOf
  <2>2. ASSUME NEW i \in ItemsOf(p) PROVE \E z \in rows : z.pl = p /\ z.id = i.id
    BY <1>3, <2>2 DEF ItemsOf
  <2>3. QED
    BY <2>1, <2>2
<1>5. ASSUME NEW z \in rows, z.pl = p, NEW n \in 1..Len(list), list[n] = z.id
      PROVE  \E i \in ItemsOf(p) : i.id = z.id /\ z.idx = IF n = m THEN idx ELSE i.idx
  <2>1. PICK i \in items : z.id = i.id /\ z.pl = i.pl /\ z.idx = IF i.id = id THEN idx ELSE i.idx
    BY <1>3
  <2>2. i \in ItemsOf(p) /\ (i.id = id <=> n = m)
    BY <1>1, <1>2, <1>5, <2>1 DEF ItemsOf
  <2>3. QED
    BY <2>1, <2>2
<1>6. ASSUME Taken(id, idx)
      PROVE  \E i \in ItemsOf(p), n \in 1..Len(list) : list[n] = i.id /\ n # m /\ i.idx = idx
  <2>1. PICK o \in ItemsOf(p) : o.id = id
    BY <1>1, <1>2
  <2>2. PICK i \in items, j \in items : i.id = id /\ j.id # id /\ j.pl = i.pl /\ j.idx = idx
    BY <1>6 DEF Taken
  <2>3. i = o
    BY <2>1, <2>2 DEF ItemsOf, ItemsApart
  <2>4. j \in ItemsOf(p) /\ j.id # list[m]
    BY <1>2, <2>1, <2>2, <2>3 DEF ItemsOf
  <2>5. PICK n \in 1..Len(list) : list[n] = j.id
    BY <1>1, <2>4
  <2>6. QED
    BY <2>2, <2>4, <2>5
<1>7. QED
  BY <1>2, <1>4, <1>5, <1>6 DEF Rewritten

\* As long as the rows are as the statements before have left them no other has the index.
LEMMA OrderFree ==
  ASSUME ItemsOK(items), ItemsApart(items), NEW q, NEW list, list = q.list, Len(list) \in Nat,
         NEW k \in Nat, k = q.k, k < Len(Reordering(list)), ListsAll(list, q.on), Written(q)
  PROVE  ~Taken(list[Turned(list, k)], Target(list, k))
<1> SUFFICES ASSUME Taken(list[Turned(list, k)], Target(list, k)) PROVE FALSE
  OBVIOUS
<1>1. /\ Len(Reordering(list)) = IF backend = "mongodb" THEN Len(list) ELSE 2 * Len(list)
      /\ Turned(list, k) \in 1..Len(list)
  BY StatementOf
<1>2. PICK p, m, x, rows : p = q.on /\ m = Turned(list, k) /\ x = Target(list, k) /\ rows = Indexed(list[m], x)
  OBVIOUS
<1>3. Rewritten(rows, p, list, m, x)
  BY <1>1, <1>2, ListWritten
<1>4. PICK i \in ItemsOf(p), n \in 1..Len(list) : list[n] = i.id /\ n # m /\ i.idx = x
  BY <1>2, <1>3 DEF Rewritten
<1>5. IF backend # "mongodb" THEN ByNegative(n, Len(list), k, x) ELSE Upwards(n, k, x)
  BY <1>2, <1>4 DEF Written
<1>6. CASE backend = "mongodb"
  BY <1>1, <1>2, <1>4, <1>5, <1>6 DEF Upwards, Turned, Target
<1>7. CASE backend # "mongodb"
  BY <1>1, <1>2, <1>4, <1>5, <1>7, SMTT(30) DEF ByNegative, Turned, Target
<1>8. QED
  BY <1>6, <1>7

\* The list names the same rows after a statement.
LEMMA StillListed ==
  ASSUME ItemsOK(items), ItemsApart(items), NEW p, NEW list, Len(list) \in Nat, ListsAll(list, p),
         NEW m \in 1..Len(list), NEW x, items' = Indexed(list[m], x)
  PROVE  ListsAll(list, p)'
<1>1. PICK rows : rows = items'
  OBVIOUS
<1>2. Rewritten(rows, p, list, m, x)
  BY <1>1, ListWritten
<1>3. {z.id : z \in {y \in rows : y.pl = p}} = {i.id : i \in ItemsOf(p)}
  BY <1>2 DEF Rewritten
<1>4. {z.id : z \in ItemsOf(p)'} = {i.id : i \in ItemsOf(p)}
  BY <1>1, <1>3 DEF ItemsOf
<1>5. /\ list = [n \in 1..Len(list) |-> list[n]]
      /\ \A n, o \in 1..Len(list) : list[n] = list[o] => n = o
      /\ {list[n] : n \in 1..Len(list)} = {i.id : i \in ItemsOf(p)}
  BY DEF ListsAll
<1>6. QED
  BY <1>4, <1>5 DEF ListsAll

\* The rows are as this statement leaves them, and in their places after the last.
LEMMA OrderWritten ==
  ASSUME ItemsOK(items), ItemsApart(items), NEW q, NEW list, list = q.list, Len(list) \in Nat,
         NEW k \in Nat, k = q.k, k < Len(Reordering(list)), ListsAll(list, q.on), Written(q),
         items' = Indexed(list[Turned(list, k)], Target(list, k)), UNCHANGED backend,
         NEW r, r.on = q.on, r.list = list, r.k = k + 1
  PROVE  /\ Written(r)'
         /\ k + 1 = Len(Reordering(list)) => \A z \in ItemsOf(q.on)', n \in 1..Len(list) : list[n] = z.id => z.idx = n - 1
<1>1. /\ Len(Reordering(list)) = IF backend = "mongodb" THEN Len(list) ELSE 2 * Len(list)
      /\ Turned(list, k) \in 1..Len(list)
  BY StatementOf
<1>2. PICK p, m, x, rows : p = q.on /\ m = Turned(list, k) /\ x = Target(list, k) /\ rows = items'
  OBVIOUS
<1>3. ASSUME NEW z \in ItemsOf(p)', NEW n \in 1..Len(list), list[n] = z.id
      PROVE  /\ IF backend # "mongodb" THEN ByNegative(n, Len(list), k + 1, z.idx) ELSE Upwards(n, k + 1, z.idx)
             /\ k + 1 = Len(Reordering(list)) => z.idx = n - 1
  <2>1. z \in {y \in rows : y.pl = p}
    BY <1>2 DEF ItemsOf
  <2>2. PICK i \in ItemsOf(p) : i.id = z.id /\ z.idx = IF n = m THEN x ELSE i.idx
    <3>1. Rewritten(rows, p, list, m, x)
      BY <1>1, <1>2, ListWritten
    <3>2. QED
      BY <1>3, <2>1, <3>1 DEF Rewritten
  <2>3. IF backend # "mongodb" THEN ByNegative(n, Len(list), k, i.idx) ELSE Upwards(n, k, i.idx)
    BY <1>2, <1>3, <2>2 DEF Written
  <2>4. i.idx \in Int
    BY <2>2 DEF ItemsOf, ItemsOK
  <2>5. CASE backend = "mongodb"
    BY <1>1, <1>2, <2>2, <2>3, <2>4, <2>5 DEF Upwards, Turned, Target
  <2>6. CASE backend # "mongodb"
    <3>1. PICK j, L : j = i.idx /\ L = Len(list)
      OBVIOUS
    <3>2. /\ L \in Nat /\ j \in Int /\ k < 2 * L /\ Len(Reordering(list)) = 2 * L /\ n \in 1..L
          /\ m = IF k < L THEN k + 1 ELSE k + 1 - L
          /\ x = IF k < L THEN -(k + 1) ELSE k - L
      BY <1>1, <1>2, <2>4, <2>6, <3>1 DEF Turned, Target
    <3>3. IF k <= L THEN IF n <= k THEN j = -n ELSE j >= 0
          ELSE IF n <= k - L THEN j = n - 1 ELSE j = -n
      BY <2>3, <2>6, <3>1 DEF ByNegative
    <3>4. z.idx = IF n = m THEN x ELSE j
      BY <2>2, <3>1
    <3>5. IF k + 1 <= L THEN IF n <= k + 1 THEN z.idx = -n ELSE z.idx >= 0
          ELSE IF n <= k + 1 - L THEN z.idx = n - 1 ELSE z.idx = -n
      BY <3>2, <3>3, <3>4, SMTT(30)
    <3>6. k + 1 = 2 * L => z.idx = n - 1
      BY <3>2, <3>5, SMTT(30)
    <3>7. QED
      BY <2>6, <3>1, <3>2, <3>5, <3>6, SMTT(30) DEF ByNegative
  <2>7. QED
    BY <2>5, <2>6
<1>4. Written(r)'
  BY <1>2, <1>3 DEF Written
<1>5. QED
  BY <1>2, <1>3, <1>4

\* As many rows as the list names.
LEMMA AsListed ==
  ASSUME LibInv, ItemsApart(items), NEW p, NEW list, Len(list) \in Nat, ListsAll(list, p)
  PROVE  Cardinality(ItemsOf(p)) = Len(list)
<1>1. PICK rows, S, f, g : /\ rows = ItemsOf(p) /\ S = {i.id : i \in rows}
                           /\ f = [n \in 1..Len(list) |-> list[n]] /\ g = [i \in rows |-> i.id]
  OBVIOUS
<1>2. IsFiniteSet(rows)
  BY <1>1, FS_Subset DEF LibInv, ItemsOK, ItemsOf
<1>3. f \in Bijection(1..Len(list), S)
  BY <1>1, ZenonT(60) DEF ListsAll, Bijection, Injection, Surjection, IsInjective
<1>4. g \in Bijection(rows, S)
  BY <1>1 DEF ItemsApart, ItemsOf, Bijection, Injection, Surjection, IsInjective
<1>5. Cardinality(S) = Cardinality(rows)
  BY <1>2, <1>4, FS_Bijection DEF ExistsBijection
<1>6. IsFiniteSet(1..Len(list)) /\ Cardinality(1..Len(list)) = Len(list)
  BY FS_Interval, SMTT(30)
<1>7. Cardinality(S) = Len(list)
  BY <1>3, <1>6, FS_Bijection DEF ExistsBijection
<1>8. QED
  BY <1>1, <1>5, <1>7

\* A reorder in MongoDB that has met nothing has written what was there.
LEMMA OrderWroteSame ==
  ASSUME LibInv, ItemsApart(items), NEW p, Dense(p), NEW list, Len(list) \in Nat, ListsAll(list, p),
         NEW k \in Nat, k < Len(list), ~Taken(list[k + 1], k), items' = Indexed(list[k + 1], k)
  PROVE  IndexesOf(p)' = 0..(Len(list) - 1)
<1>1. PICK m, id : m = k + 1 /\ id = list[m]
  OBVIOUS
<1>2. m \in 1..Len(list)
  BY <1>1
<1>3. {list[n] : n \in 1..Len(list)} = {i.id : i \in ItemsOf(p)}
  BY DEF ListsAll
<1>4. IndexesOf(p) = 0..(Len(list) - 1)
  BY AsListed DEF Dense, IndexesOf
<1>5. PICK i \in ItemsOf(p) : i.id = id
  BY <1>1, <1>2, <1>3
<1>6. PICK j \in ItemsOf(p) : j.idx = k
  BY <1>4 DEF IndexesOf
<1>7. i = j
  BY <1>1, <1>5, <1>6 DEF Taken, ItemsOf, ItemsApart
<1>8. \A o \in items : o.id = id => o.idx = k
  BY <1>5, <1>6, <1>7 DEF ItemsOf, ItemsApart
<1>9. PICK rows : rows = items' /\ rows = Indexed(id, k)
  BY <1>1
<1>10. /\ \A z \in rows : \E o \in items : z.id = o.id /\ z.pl = o.pl /\ z.idx = o.idx
      /\ \A o \in items : \E z \in rows : z.id = o.id /\ z.pl = o.pl /\ z.idx = o.idx
  <2>1. ItemsOK(items)
    BY DEF LibInv
  <2>2. /\ \A z \in rows : \E o \in items : z.id = o.id /\ z.pl = o.pl /\ z.idx = IF o.id = id THEN k ELSE o.idx
        /\ \A o \in items : \E z \in rows : z.id = o.id /\ z.pl = o.pl /\ z.idx = IF o.id = id THEN k ELSE o.idx
    BY <1>9, <2>1, IndexedRows
  <2>3. QED
    BY <1>8, <2>2
<1>11. {z.idx : z \in {y \in rows : y.pl = p}} = {o.idx : o \in ItemsOf(p)}
  BY <1>10 DEF ItemsOf
<1>12. QED
  BY <1>4, <1>9, <1>11 DEF IndexesOf, ItemsOf

\* A statement of a reorder: refused only where it leaves the order as it was.
LEMMA OrderRefused ==
  ASSUME LibInv, RefInv, OrderInv, LibInv', NEW h \in Handlers, Order(h),
         NEW q, q = req[h], NEW list, list = q.list, NEW k, k = q.k, Open(h), Turn(h),
         Taken(list[Turned(list, k)], Target(list, k)), items' = Undone(q, items), GoTo(h, "error"),
         Len(list) \in Nat, k \in Nat, k < Len(Reordering(list))
  PROVE  OrdersKept
<1>1. /\ q.op \in {"remove", "reorder"} /\ q.at = "order" /\ WasApart(q) /\ ItemsApart(items) /\ ItemsOK(items)
      /\ Isolated(h) /\ q.sound => OrderKnown(q)
  BY KnowsOrder DEF Order, At
<1>2. ItemsApart(items')
  BY <1>1 DEF Undone, WasApart
<1>3. PICK r : r = [req[h] EXCEPT !.at = "error"]
  OBVIOUS
<1>4. GoOn(h, r) /\ r.at = "error" /\ r.op = q.op
  BY <1>3, GoesTo
<1>5. ASSUME OrderKnown(q), Whole(q)
      PROVE  q.op = "reorder" /\ backend = "mongodb" /\ Dense(q.on)
  <2>1. ListsAll(list, q.on) /\ (~(q.op = "reorder" /\ backend = "mongodb") => Written(q))
        /\ (q.op = "reorder" /\ backend = "mongodb" => Dense(q.on))
    BY <1>1, <1>5 DEF OrderKnown
  <2>2. ~Written(q)
    BY <1>1, <2>1, OrderFree
  <2>3. QED
    BY <2>1, <2>2
<1>6. ASSUME OrderKnown(q), Whole(q), NEW p, p = q.on PROVE Dense(p)'
  <2>1. Dense(p) /\ UNCHANGED items
    BY <1>5, <1>6 DEF Undone
  <2>2. QED
    BY <2>1 DEF Dense, ItemsOf
<1>7. OrderKnown(q) => LeavesOrder(q, r.at)
  BY <1>5, <1>6 DEF LeavesOrder
<1>8. QED
  BY <1>1, <1>2, <1>4, <1>7, OrderStep DEF Answered

\* Otherwise the statement writes its row, and the request comes to the next one or is through.
LEMMA OrderAdvances ==
  ASSUME LibInv, RefInv, OrderInv, LibInv', NEW h \in Handlers, Order(h),
         NEW q, q = req[h], NEW list, list = q.list, NEW k, k = q.k, Open(h), Turn(h),
         ~Taken(list[Turned(list, k)], Target(list, k)), items' = Indexed(list[Turned(list, k)], Target(list, k)),
         NEW r, r = [q EXCEPT !.k = @ + 1, !.at = IF k + 1 = Len(Reordering(list)) THEN "ok" ELSE "order"], GoOn(h, r),
         Len(list) \in Nat, k \in Nat, k < Len(Reordering(list))
  PROVE  OrdersKept
<1>1. /\ q.op \in {"remove", "reorder"} /\ q.at = "order" /\ WasApart(q) /\ ItemsApart(items) /\ ItemsOK(items)
      /\ DOMAIN q = RequestFields
  BY KnowsOrder DEF Order, At
<1>2. /\ r.op = q.op /\ r.on = q.on /\ r.arg = q.arg /\ r.list = list /\ r.k = k + 1 /\ r.was = q.was
      /\ r.alone = q.alone /\ r.sound = q.sound
      /\ r.at = IF k + 1 = Len(Reordering(list)) THEN "ok" ELSE "order"
  BY <1>1 DEF RequestFields
<1>3. UNCHANGED backend
  BY DEF GoOn
<1>4. PICK m, x, p : m = Turned(list, k) /\ x = Target(list, k) /\ p = q.on
  OBVIOUS
<1>5. /\ Len(Reordering(list)) = IF backend = "mongodb" THEN Len(list) ELSE 2 * Len(list)
      /\ m \in 1..Len(list)
  BY <1>4, StatementOf
<1>6. ItemsApart(items')
  BY <1>1, IndexedApart
<1>7. ASSUME q.op = "reorder" PROVE Whole(r)' => Whole(q)
  <2>1. {i.id : i \in ItemsOf(p)'} = {i.id : i \in ItemsOf(p)}
    <3>1. ItemsOK(items)
      BY <1>1
    <3>2. PICK rows : rows = items' /\ rows = Indexed(list[m], x)
      BY <1>4
    <3>3. /\ \A z \in rows : \E i \in items : z.id = i.id /\ z.pl = i.pl
          /\ \A i \in items : \E z \in rows : z.id = i.id /\ z.pl = i.pl
      BY <3>1, <3>2, IndexedRows
    <3>4. QED
      BY <3>2, <3>3 DEF ItemsOf
  <2>2. QED
    BY <1>2, <1>4, <1>7, <2>1 DEF Whole
<1>8. ASSUME ListsAll(list, p)
      PROVE  ListsAll(list, p)'
  BY <1>1, <1>4, <1>5, <1>8, StillListed
<1>9. ASSUME ListsAll(list, p), Written(q)
      PROVE  /\ Written(r)'
             /\ r.at = "ok" => \A z \in ItemsOf(p)', n \in 1..Len(list) : list[n] = z.id => z.idx = n - 1
  <2>1. ListsAll(list, q.on)
    BY <1>4, <1>9
  <2>2. /\ Written(r)'
        /\ k + 1 = Len(Reordering(list)) => \A z \in ItemsOf(q.on)', n \in 1..Len(list) : list[n] = z.id => z.idx = n - 1
    <3>1. /\ ItemsOK(items) /\ ItemsApart(items) /\ list = q.list /\ Len(list) \in Nat
          /\ k \in Nat /\ k = q.k /\ k < Len(Reordering(list)) /\ ListsAll(list, q.on) /\ Written(q)
          /\ items' = Indexed(list[Turned(list, k)], Target(list, k)) /\ UNCHANGED backend
          /\ r.on = q.on /\ r.list = list /\ r.k = k + 1
      BY <1>1, <1>2, <1>3, <1>9, <2>1
    <3>2. QED
      BY ONLY <3>1, OrderWritten
  <2>3. r.at = "ok" => k + 1 = Len(Reordering(list))
    BY <1>2
  <2>4. QED
    BY <1>4, <2>2, <2>3
<1>10. ASSUME backend = "mongodb", Dense(p), ListsAll(list, p)
       PROVE  Dense(p)'
  <2>1. m = k + 1 /\ x = k /\ k < Len(list)
    BY <1>4, <1>5, <1>10 DEF Turned, Target
  <2>2. IndexesOf(p)' = 0..(Len(list) - 1)
    BY <1>1, <1>4, <1>10, <2>1, OrderWroteSame
  <2>3. QED
    BY <1>6, <2>2, DenseThen
<1>11. ASSUME OrderKnown(q), r.at = "order"
       PROVE  OrderKnown(r)'
  <2>1. CASE q.op = "remove"
    <3>1. ListsAll(list, p) /\ Written(q)
      BY <1>1, <1>4, <1>11, <2>1 DEF OrderKnown
    <3>2. ListsAll(list, p)' /\ Written(r)'
      BY <1>8, <1>9, <3>1
    <3>3. QED
      BY <1>2, <1>4, <1>11, <2>1, <3>2 DEF OrderKnown
  <2>2. CASE q.op = "reorder"
    <3>1. Whole(q) => ListsAll(list, p) /\ IF backend = "mongodb" THEN Dense(p) ELSE Written(q)
      BY <1>1, <1>4, <1>11, <2>2 DEF OrderKnown
    <3>2. Whole(q) => ListsAll(list, p)' /\ IF backend = "mongodb" THEN Dense(p)' ELSE Written(r)'
      BY <1>8, <1>9, <1>10, <3>1
    <3>3. /\ q.list = q.arg /\ q.arg = [n \in 1..Len(q.arg) |-> q.arg[n]]
          /\ \A n, o \in 1..Len(q.arg) : q.arg[n] = q.arg[o] => n = o
      BY <1>1, <1>11, <2>2 DEF OrderKnown
    <3>4. Whole(r)' => Whole(q)
      BY <1>7, <2>2
    <3>5. QED
      BY <1>2, <1>3, <1>4, <1>11, <2>2, <3>2, <3>3, <3>4 DEF OrderKnown
  <2>3. QED
    BY <1>1, <2>1, <2>2
<1>12. ASSUME OrderKnown(q), Whole(q), r.at = "ok"
       PROVE  LeavesOrder(q, r.at)
  <2>1. ListsAll(list, p) /\ (Written(q) \/ (q.op = "reorder" /\ backend = "mongodb" /\ Dense(p)))
    BY <1>1, <1>4, <1>12 DEF OrderKnown
  <2>2. CASE q.op = "reorder" /\ backend = "mongodb" /\ Dense(p)
    BY <1>4, <1>10, <2>1, <2>2 DEF LeavesOrder
  <2>3. CASE Written(q)
    <3>1. \A z \in ItemsOf(p)', n \in 1..Len(list) : list[n] = z.id => z.idx = n - 1
      BY <1>9, <1>12, <2>1, <2>3
    <3>2. PICK rows : rows = ItemsOf(p)'
      OBVIOUS
    <3>3. {list[n] : n \in 1..Len(list)} = {i.id : i \in rows}
      BY <1>8, <2>1, <3>2 DEF ListsAll
    <3>4. {i.idx : i \in rows} = 0..(Len(list) - 1)
      <4>1. \A i \in rows, n \in 1..Len(list) : list[n] = i.id => i.idx = n - 1
        BY <3>1, <3>2
      <4>2. QED
        BY ONLY <3>3, <4>1, Len(list) \in Nat, Placed
    <3>5. IndexesOf(p)' = 0..(Len(list) - 1)
      BY <3>2, <3>4 DEF IndexesOf
    <3>6. Dense(p)'
      BY <1>6, <3>5, DenseThen
    <3>7. \A i \in rows : list[i.idx + 1] = i.id
      <4> SUFFICES ASSUME NEW i \in rows PROVE list[i.idx + 1] = i.id
        OBVIOUS
      <4>1. PICK n \in 1..Len(list) : list[n] = i.id
        BY <3>3, ZenonT(60)
      <4>2. i.idx = n - 1
        BY <3>1, <3>2, <4>1
      <4>3. i.idx + 1 = n
        BY <4>2
      <4>4. QED
        BY <4>1, <4>3
    <3>8. q.op = "reorder" => q.arg = list
      BY <1>1, <1>12 DEF OrderKnown
    <3>9. rows = {j \in items' : j.pl = p}
      BY <3>2 DEF ItemsOf
    <3>10. QED
      BY <1>4, <1>12, <3>6, <3>7, <3>8, <3>9 DEF LeavesOrder
  <2>4. QED
    BY <2>1, <2>2, <2>3
<1>13. WasApart(r)
  BY <1>1, <1>2 DEF WasApart
<1>14. Isolated(h) /\ q.sound => OrderKnown(q)
  BY KnowsOrder
<1>15. r.at \in {"ok", "order"}
  BY <1>2
<1>16. r.at \in Answered /\ Isolated(h) /\ q.sound => LeavesOrder(q, r.at)
  <2>1. ~Whole(q) => LeavesOrder(q, r.at)
    BY DEF LeavesOrder
  <2>2. QED
    BY <1>12, <1>14, <1>15, <2>1 DEF Answered
<1>17. QED
  BY <1>2, <1>6, <1>11, <1>13, <1>14, <1>15, <1>16, OrderStep DEF Answered

\* Either way the order is kept.
LEMMA StatementOrders ==
  ASSUME LibInv, RefInv, OrderInv, LibInv', NEW h \in Handlers, Order(h)
  PROVE  OrdersKept
<1>1. Open(h) /\ Turn(h) /\ req[h].at = "order" /\ req[h].op \in {"remove", "reorder"}
  BY DEF Order, At, Open, Answered
<1>2. PICK q, list, k : q = req[h] /\ list = q.list /\ k = q.k
  OBVIOUS
<1>3. PlaylistRequestOK(q)
  BY <1>1, <1>2, KnowsOrder
<1>4. Len(list) \in Nat /\ k \in Nat /\ k < Len(Reordering(list))
  BY <1>1, <1>2, <1>3 DEF PlaylistRequestOK
<1>5. PICK statements, s : statements = Reordering(list) /\ s = statements[k + 1]
  OBVIOUS
<1>6. s[1] = list[Turned(list, k)] /\ s[2] = Target(list, k)
  BY <1>4, <1>5, StatementOf
<1>7. PICK r : r = [q EXCEPT !.k = @ + 1, !.at = IF k + 1 = Len(statements) THEN "ok" ELSE "order"]
  OBVIOUS
<1>8. \/ Taken(s[1], s[2]) /\ items' = Undone(q, items) /\ GoTo(h, "error")
      \/ ~Taken(s[1], s[2]) /\ items' = Indexed(s[1], s[2]) /\ GoOn(h, r)
  BY <1>2, <1>5, <1>7 DEF Order
<1>9. CASE Taken(s[1], s[2]) /\ items' = Undone(q, items) /\ GoTo(h, "error")
  BY <1>1, <1>2, <1>4, <1>6, <1>9, OrderRefused, SMTT(30)
<1>10. CASE ~Taken(s[1], s[2]) /\ items' = Indexed(s[1], s[2]) /\ GoOn(h, r)
  <2>1. r = [q EXCEPT !.k = @ + 1, !.at = IF k + 1 = Len(Reordering(list)) THEN "ok" ELSE "order"]
    BY <1>5, <1>7
  <2>2. /\ ~Taken(list[Turned(list, k)], Target(list, k))
        /\ items' = Indexed(list[Turned(list, k)], Target(list, k)) /\ GoOn(h, r)
    BY <1>6, <1>10
  <2>3. QED
    BY <1>1, <1>2, <1>4, <2>1, <2>2, OrderAdvances
<1>11. QED
  BY <1>8, <1>9, <1>10

\* Every statement of a request on playlists.
LEMMA PlaylistOrders ==
  ASSUME LibInv, RefInv, OrderInv, LibInv', NEW h \in Handlers, StepPlaylists(h)
  PROVE  OrdersKept
<1>1. ItemsApart(items) /\ ItemsOK(items)
  BY DEF OrderInv, LibInv
<1>2. CASE CheckMedia(h)
  <2>1. PICK at \in {"insert", "error"} : GoTo(h, at)
    BY <1>2 DEF CheckMedia
  <2>2. At(h, "add", "media") /\ UNCHANGED items
    BY <1>2 DEF CheckMedia, playlistVars
  <2>3. QED
    BY <2>1, <2>2, CheckOrders
<1>3. CASE UpdateItemRow(h) \/ mongoDeleteItems(h) \/ DeletePlaylistRow(h)
  <2>1. Open(h) /\ Turn(h) /\ req[h].op \in {"update", "drop"} /\ \E at : GoTo(h, at)
    BY <1>3 DEF UpdateItemRow, mongoDeleteItems, DeletePlaylistRow, At, Open, Answered
  <2>2. Steps(h, {"update", "drop"})
    BY <2>1, GoesSteps
  <2>3. CASE UpdateItemRow(h)
    <3>1. PICK id, idx : id = req[h].arg[1] /\ idx = req[h].arg[2]
      OBVIOUS
    <3>2. items' = items \/ (~Taken(id, idx) /\ items' = Indexed(id, idx))
      BY <2>3, <3>1 DEF UpdateItemRow
    <3>3. ItemsApart(items')
      BY <1>1, <3>2, IndexedApart
    <3>4. QED
      BY <2>2, <3>3, OrderAside DEF OrderOps
  <2>4. CASE mongoDeleteItems(h) \/ DeletePlaylistRow(h)
    <3>1. items' \subseteq items
      BY <2>4 DEF mongoDeleteItems, DeletePlaylistRow
    <3>2. ItemsApart(items')
      BY <1>1, <3>1, FewerApart
    <3>3. QED
      BY <2>2, <3>2, OrderAside DEF OrderOps
  <2>5. QED
    BY <1>3, <2>3, <2>4
<1>4. QED
  BY <1>2, <1>3, CountOrders, AddOrders, DeleteOrders, RemainingOrders, ValidateOrders, StatementOrders DEF StepPlaylists

\* What a request on a playlist begins with.
LEMMA PlaylistAsksOrder ==
  ASSUME LibInv, OrderInv, NEW h \in Handlers, BeginPlaylists(h) \/ Adds(h)
  PROVE  OrdersKept
<1>1. UNCHANGED items
  BY PlaylistAsks DEF playlistVars
<1>2. \A p : Dense(p) => Dense(p)' /\ \A i \in ItemsOf(p)' : i.idx \in Nat
  <2> SUFFICES ASSUME NEW p, Dense(p) PROVE Dense(p)' /\ \A i \in ItemsOf(p)' : i.idx \in Nat
    OBVIOUS
  <2>1. ItemsOf(p)' = ItemsOf(p)
    BY <1>1 DEF ItemsOf
  <2>2. QED
    BY <2>1 DEF Dense
<1>3. ASSUME NEW p, NEW ms, addPlaylistItems(h, p, ms) PROVE OrdersKept
  <2>1. PICK sound \in BOOLEAN : sound = Dense(p)
    BY DEF Dense
  <2>2. Begin(h, "add", "count", p, ms, sound)
    BY <1>3, <2>1 DEF addPlaylistItems
  <2>3. \A r : sound /\ r.op = "add" /\ r.at = "count" /\ r.on = p => OrderKnown(r)'
    BY <1>2, <2>1 DEF OrderKnown
  <2>4. QED
    BY <1>1, <2>2, <2>3, OrderAtFirst DEF Answered
<1>4. ASSUME NEW i, deletePlaylistItem(h, i) PROVE OrdersKept
  <2>1. PICK p, arg : p = i.pl /\ arg = <<i.id>>
    OBVIOUS
  <2>2. PICK sound \in BOOLEAN : sound = Dense(p)
    BY DEF Dense
  <2>3. Begin(h, "remove", "delete", p, arg, sound)
    BY <1>4, <2>1, <2>2 DEF deletePlaylistItem
  <2>4. \A r : sound /\ r.op = "remove" /\ r.at = "delete" /\ r.on = p => OrderKnown(r)'
    BY <1>2, <2>2 DEF OrderKnown
  <2>5. QED
    BY <1>1, <2>3, <2>4, OrderAtFirst DEF Answered
<1>5. ASSUME NEW p, NEW S, IsFiniteSet(S), NEW ids \in Arrangements(S), reorderPlaylistItems(h, p, ids) PROVE OrdersKept
  <2>1. PICK sound \in BOOLEAN : sound = Dense(p)
    BY DEF Dense
  <2>2. Begin(h, "reorder", "validate", p, ids, sound)
    BY <1>5, <2>1 DEF reorderPlaylistItems
  <2>3. PICK n \in 1..Cardinality(S) : ids \in [1..n -> S] /\ IsInjective(ids)
    BY DEF Arrangements
  <2>4. n \in Nat /\ ids = [m \in 1..n |-> ids[m]]
    BY <1>5, <2>3, FS_CardinalityType
  <2>5. Len(ids) = n
    BY <2>4, LenOf
  <2>6. ids = [m \in 1..Len(ids) |-> ids[m]] /\ \A m, o \in 1..Len(ids) : ids[m] = ids[o] => m = o
    BY <2>3, <2>4, <2>5 DEF IsInjective
  <2>7. \A r : sound /\ r.op = "reorder" /\ r.at = "validate" /\ r.on = p /\ r.arg = ids => OrderKnown(r)'
    BY <1>2, <2>1, <2>6 DEF OrderKnown
  <2>8. QED
    BY <1>1, <2>2, <2>7, OrderAtFirst DEF Answered
<1>6. ASSUME NEW i, NEW x, updatePlaylistItem(h, i, x) PROVE OrdersKept
  <2>1. Begins(h, {"update"}, {"update"})
    BY <1>6 DEF updatePlaylistItem, Begins
  <2>2. QED
    BY <1>1, <2>1, OrderAsideAtFirst DEF Answered, OrderOps
<1>7. ASSUME NEW p, deletePlaylist(h, p) PROVE OrdersKept
  <2>1. Begins(h, {"drop"}, {"items", "row"})
    BY <1>7 DEF deletePlaylist, Begins
  <2>2. QED
    BY <1>1, <2>1, OrderAsideAtFirst DEF Answered, OrderOps
<1>8. ASSUME NEW p, NEW ids \in Arrangements({i.id : i \in ItemsOf(p)}), reorderPlaylistItems(h, p, ids) PROVE OrdersKept
  <2>1. PICK S, rows, f : S = {i.id : i \in rows} /\ rows = ItemsOf(p) /\ f = [i \in rows |-> i.id]
    OBVIOUS
  <2>2. IsFiniteSet(rows)
    BY <2>1, FS_Subset DEF LibInv, ItemsOK, ItemsOf
  <2>3. f \in Surjection(rows, S)
    BY <2>1 DEF Surjection
  <2>4. IsFiniteSet(S)
    BY <2>2, <2>3, FS_Surjection
  <2>5. QED
    BY <1>5, <1>8, <2>1, <2>4
<1>9. QED
  BY <1>3, <1>4, <1>6, <1>7, <1>8 DEF BeginPlaylists, Adds

\* Every step keeps the order, and answers for it.
LEMMA OrdersAllKept ==
  ASSUME LibInv, RefInv, OrderInv, LibInv', [Next]_vars
  PROVE  OrdersKept
<1>1. ASSUME NEW h \in Handlers, InPlaylists(h) PROVE OrdersKept
  BY <1>1, PlaylistAsksOrder, PlaylistOrders DEF InPlaylists
<1>2. ASSUME NEW h \in Handlers, InApprovals(h) PROVE OrdersKept
  <2>1. UNCHANGED items
    BY <1>2, ApprovalAsks, ApprovalSteps DEF InApprovals, playlistVars
  <2>2. Decides(h) => OrdersKept
    BY <2>1, ApprovalAsks, OrderAsideAtFirst DEF Answered, OrderOps
  <2>3. StepApprovals(h) => OrdersKept
    BY <2>1, ApprovalSteps, OrderAside DEF OrderOps, OrderInv
  <2>4. QED
    BY <1>2, <2>2, <2>3 DEF InApprovals
<1>3. ASSUME NEW h \in Handlers, InSubtitles(h), UNCHANGED playlistVars PROVE OrdersKept
  <2>1. UNCHANGED items
    BY <1>3 DEF playlistVars
  <2>2. BeginSubtitles(h) => OrdersKept
    BY <2>1, SubtitleAsks, OrderAsideAtFirst DEF Answered, SubtitleOps, OrderOps
  <2>3. StepSubtitles(h) => OrdersKept
    BY <2>1, SubtitleSteps, OrderAside DEF SubtitleOps, OrderOps, OrderInv
  <2>4. QED
    BY <1>3, <2>2, <2>3 DEF InSubtitles
<1>4. ASSUME NEW h \in Handlers, DeletesMedia(h) PROVE OrdersKept
  <2>1. ASSUME NEW m, deleteMedia(h, m) PROVE OrdersKept
    <3>1. UNCHANGED items
      BY <2>1, MediaAsks DEF playlistVars
    <3>2. QED
      BY <2>1, <3>1, MediaAsks, OrderAsideAtFirst DEF Answered, OrderOps
  <2>2. ASSUME mongoDeleteRefs(h) \/ DeleteMediaRow(h) PROVE OrdersKept
    <3>1. ItemsApart(items')
      BY <2>2, MediaSteps, FewerApart DEF OrderInv
    <3>2. QED
      BY <2>2, <3>1, MediaSteps, OrderAside DEF OrderOps
  <2>3. QED
    BY <1>4, <2>1, <2>2 DEF DeletesMedia
<1>5. ASSUME NEW h \in Handlers, InFolders(h), UNCHANGED playlistVars PROVE OrdersKept
  <2>1. UNCHANGED items
    BY <1>5 DEF playlistVars
  <2>2. BeginFolders(h) => OrdersKept
    BY <2>1, FolderAsks, OrderAsideAtFirst DEF Answered, FolderOps, OrderOps
  <2>3. StepFolders(h) => OrdersKept
    BY <2>1, FolderSteps, OrderAside DEF FolderOps, OrderOps, OrderInv
  <2>4. QED
    BY <1>5, <2>2, <2>3 DEF InFolders
<1>6. CASE Crash
  <2>1. ItemsApart(items')
    <3>1. PICK dead : dead = {h \in Handlers : Open(h) /\ req[h].op \in {"remove", "reorder"} /\ req[h].was # <<>>}
      OBVIOUS
    <3>2. items' = IF dead = {} THEN items ELSE req[CHOOSE h \in dead : TRUE].was[1]
      BY <1>6, <3>1 DEF Crash, RolledBack
    <3>3. CASE dead = {}
      BY <3>2, <3>3 DEF OrderInv
    <3>4. CASE dead # {}
      <4>1. PICK h \in dead : h = CHOOSE g \in dead : TRUE
        BY <3>4
      <4>2. WasApart(req[h]) /\ req[h].op \in {"remove", "reorder"} /\ req[h].was # <<>>
        BY <3>1, <4>1 DEF OrderInv
      <4>3. ItemsApart(req[h].was[1])
        BY <4>2 DEF WasApart
      <4>4. QED
        BY <3>2, <3>4, <4>1, <4>3
    <3>5. QED
      BY <3>3, <3>4
  <2>2. \A g \in Handlers : ~Open(g)' /\ ~(Ends(g) /\ req[g].op # "none")
    BY <1>6, CrashAnswersNone
  <2>3. ItemsApart(items)'
    BY <2>1 DEF ItemsApart
  <2>4. LeftDense /\ LeftAsked
    BY <2>2 DEF LeftDense, LeftAsked
  <2>5. QED
    BY <2>2, <2>3, <2>4 DEF OrdersKept, OrderInv
<1>7. CASE UNCHANGED <<requestVars, playlistVars, approvalVars, subtitleVars, folderVars, part>>
  <2>1. UNCHANGED <<items, backend, req>>
    BY <1>7 DEF requestVars, playlistVars
  <2>2. ASSUME NEW g \in Handlers, Open(g)'
        PROVE  WasApart(req[g])' /\ (Isolated(g)' /\ req'[g].sound => OrderKnown(req[g])')
    <3>1. PICK q : q = req[g] /\ q = req'[g]
      BY <2>1
    <3>2. WasApart(q) /\ (Isolated(g)' /\ q.sound => OrderKnown(q))
      BY <2>1, <2>2, <3>1 DEF OrderInv, Open, Isolated
    <3>3. WasApart(q)'
      BY <3>2 DEF WasApart, ItemsApart
    <3>4. OrderKnown(q) => OrderKnown(q)'
      BY <2>1 DEF OrderKnown, Dense, IndexesOf, ListsAll, Written, Whole, ItemsOf
    <3>5. QED
      BY <3>1, <3>2, <3>3, <3>4
  <2>3. ItemsApart(items)'
    BY <2>1 DEF OrderInv, ItemsApart
  <2>4. LeftDense /\ LeftAsked
    BY <2>1 DEF LeftDense, LeftAsked, Ends, Open
  <2>5. QED
    BY <2>2, <2>3, <2>4 DEF OrdersKept, OrderInv
<1>8. QED
  BY <1>1, <1>2, <1>3, <1>4, <1>5, <1>6, <1>7 DEF Next, vars

\* No request is open at first, and the rows are one after the other.
LEMMA OrderStart ==
  ASSUME Init
  PROVE  OrderInv
<1>1. \A h \in Handlers : ~Open(h)
  BY DEF Init, InitRequests, Open, NoRequest, Answered
<1>2. ItemsApart(items)
  <2>1. CASE items = {}
    BY <2>1 DEF ItemsApart
  <2>2. CASE InitPlaylists
    <3>1. PICK p \in Playlist, n \in 0..MaxFirst : \E f \in [1..n -> Media] :
            items = {[id |-> k, pl |-> p, media |-> f[k], idx |-> k - 1] : k \in 1..n}
      BY <2>2 DEF InitPlaylists
    <3>2. PICK f \in [1..n -> Media] :
            items = {[id |-> k, pl |-> p, media |-> f[k], idx |-> k - 1] : k \in 1..n}
      BY <3>1
    <3>3. ASSUME NEW i \in items
          PROVE  \E k \in 1..n : i = [id |-> k, pl |-> p, media |-> f[k], idx |-> k - 1]
                                 /\ i.id = k /\ i.idx = k - 1
      BY <3>2
    <3>4. QED
      BY <3>3 DEF ItemsApart
  <2>3. QED
    BY <2>1, <2>2 DEF Init, NoPlaylists
<1>3. QED
  BY <1>1, <1>2 DEF OrderInv

\* An editor alone leaves a playlist in the order asked for.
THEOREM OrderCorrect ==
  ASSUME <<"subtitles", "mssql">> \notin Studied
  PROVE  Spec => OrderKept
<1> DEFINE Known == LibInv /\ RefInv /\ OrderInv
<1>1. Init => Known
  BY LibraryStarts, ReferencesStart, OrderStart
<1>2. ASSUME Known, [Next]_vars
      PROVE  Known' /\ LeftDense /\ LeftAsked
  <2>1. LibInv' /\ RefInv'
    BY <1>2, StepsRefer DEF Told
  <2>2. OrdersKept
    BY <1>2, <2>1, OrdersAllKept
  <2>3. QED
    BY <2>1, <2>2 DEF OrdersKept
<1>3. Known /\ [Next]_vars => Known'
  BY <1>2
<1>4. Known /\ [Next]_vars
        => [\A h \in Handlers, p \in Playlist :
              Ends(h) /\ Isolated(h) /\ req[h].sound /\ req[h].op \in {"add", "remove", "reorder"} /\ req[h].on = p
                /\ Whole(req[h]) => Dense(p)']_vars
  BY <1>2 DEF LeftDense
<1>5. Known /\ [Next]_vars
        => [\A h \in Handlers :
              LET r == req[h] IN
              Ends(h) /\ Isolated(h) /\ r.sound /\ r.op = "reorder" /\ Whole(r) /\ backend # "mongodb"
                => req'[h].at = "ok" /\ \A i \in {j \in items' : j.pl = r.on} : r.arg[i.idx + 1] = i.id]_vars
  BY <1>2 DEF LeftAsked
<1> HIDE DEF Known
<1>6. QED
  BY <1>1, <1>3, <1>4, <1>5, PTL DEF Spec, OrderKept, AloneKeepsOrder, ReorderTakes

=============================================================================
