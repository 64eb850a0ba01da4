------------------------- MODULE CoordinatorProofs -------------------------
(***************************************************************************)
(* Proofs about Coordinator, for any set of media, playlists and item      *)
(* lists and without the bounds of the instances TLC explores.             *)
(***************************************************************************)
EXTENDS Coordinator, TLAPS

----------------------------------------------------------------------------
(* The queue's operations.                                                 *)

\* A list of media, as the server may send it, is a sequence of media.
LEMMA ListType ==
  ASSUME NEW p \in Playlists, NEW s \in Lists(p)
  PROVE  /\ s \in Snapshot
         /\ s.playlist = p
         /\ s.items \in Seq(Media)
         /\ s.loop \in BOOLEAN
BY CoordinatorAssumption DEF Lists, Snap, Snapshot

\* update_items leaves a queue of the new items without a position.
LEMMA UpdateType ==
  ASSUME NEW items \in Seq(Media), NEW loop \in BOOLEAN
  PROVE  /\ QUpdate(items, loop) \in Queue
         /\ QUpdate(items, loop).items = items
         /\ QUpdate(items, loop).index = 0
BY DEF QUpdate, Queue

\* next() keeps the items and ends on one of them or on no position at all.
LEMMA NextType ==
  ASSUME NEW r \in Queue, r.index # 0 => HasCurrent(r)
  PROVE  /\ QNext(r) \in Queue
         /\ QNext(r).items = r.items
         /\ QNext(r).index # 0 => HasCurrent(QNext(r))
<1>1. CASE r.items = <<>>
  BY <1>1 DEF QNext
<1>2. CASE r.items # <<>>
  <2>1. Len(r.items) \in Nat \ {0}
    BY <1>2 DEF Queue
  <2>2. NextIndex(r) \in Nat /\ (NextIndex(r) # 0 => NextIndex(r) \in 1..Len(r.items))
    BY <2>1 DEF NextIndex, Queue
  <2>3. QNext(r) = [r EXCEPT !.index = NextIndex(r)]
    BY <1>2 DEF QNext
  <2>4. QED
    BY <2>2, <2>3 DEF HasCurrent, Queue
<1>3. QED
  BY <1>1, <1>2

\* previous() always finds an item in a queue that has one.
LEMMA PreviousType ==
  ASSUME NEW r \in Queue, r.items # <<>>, r.index # 0 => HasCurrent(r)
  PROVE  /\ QPrevious(r) \in Queue
         /\ QPrevious(r).items = r.items
         /\ HasCurrent(QPrevious(r))
<1>1. Len(r.items) \in Nat \ {0}
  BY DEF Queue
<1>2. PreviousIndex(r) \in 1..Len(r.items)
  BY <1>1 DEF PreviousIndex, HasCurrent, Queue
<1>3. QPrevious(r) = [r EXCEPT !.index = PreviousIndex(r)]
  BY DEF QPrevious
<1>4. QED
  BY <1>1, <1>2, <1>3 DEF HasCurrent, Queue

\* reset() moves to the first item.
LEMMA ResetType ==
  ASSUME NEW r \in Queue, r.items # <<>>
  PROVE  /\ QReset(r) \in Queue
         /\ QReset(r).items = r.items
         /\ HasCurrent(QReset(r))
<1>1. Len(r.items) \in Nat \ {0}
  BY DEF Queue
<1>2. QReset(r) = [r EXCEPT !.index = 1]
  BY DEF QReset
<1>3. QED
  BY <1>1, <1>2 DEF HasCurrent, Queue

\* clear() leaves an empty list without a position.
LEMMA ClearType ==
  ASSUME NEW r \in Queue
  PROVE  QClear(r) \in Queue /\ QClear(r).index = 0 /\ QClear(r).items = <<>>
<1>1. <<>> \in Seq(Media) /\ r.loop \in BOOLEAN
  BY DEF Queue
<1>2. QED
  BY <1>1, UpdateType DEF QClear

\* The item at a position is a media, hence not None.
LEMMA CurrentType ==
  ASSUME NEW r \in Queue, HasCurrent(r)
  PROVE  Current(r) \in Media /\ Current(r) # None
BY CoordinatorAssumption DEF HasCurrent, Current, Queue

\* What next_item makes current is the item at the new position, or None.
LEMMA NextMediaType ==
  ASSUME NEW r \in Queue, r.index # 0 => HasCurrent(r)
  PROVE  /\ NextMedia(r) \in Media \cup {None}
         /\ QNext(r).index # 0 => NextMedia(r) = Current(QNext(r))
BY NextType, CurrentType DEF NextMedia

----------------------------------------------------------------------------
(* The analytics session.                                                  *)

LogType == [open : Media \cup {None}, rows : Int, lost : Nat]
OneRow(l) == l.rows = (IF l.open = None THEN 0 ELSE 1) + l.lost

\* Ending a session leaves no row open but by a lost report.
LEMMA EndLogsType ==
  ASSUME NEW l \in LogType, NEW r \in EndLogs(l)
  PROVE  r \in LogType /\ r.open = None /\ (OneRow(l) => OneRow(r))
<1>1. CASE l.open = None /\ r = l
  BY <1>1
<1>2. CASE l.open # None /\ r = Log(None, l.rows - 1, l.lost)
  BY <1>2 DEF LogType, OneRow, Log
<1>3. ASSUME NEW n \in {l.lost + 1} \cap 0..MaxLost, l.open # None, r = Log(None, l.rows, n)
      PROVE  r \in LogType /\ r.open = None /\ (OneRow(l) => OneRow(r))
  BY <1>3 DEF LogType, OneRow, Log
<1>4. QED
  BY <1>1, <1>2, <1>3 DEF EndLogs

\* A start report leaves the row it opened in the session, or a lost one.
LEMMA OpenLogsType ==
  ASSUME NEW l \in LogType, l.open = None, NEW m \in Media, NEW r \in OpenLogs(l, m)
  PROVE  r \in LogType /\ (OneRow(l) => OneRow(r))
<1>1. CASE r = l
  BY <1>1
<1>2. CASE r = Log(m, l.rows + 1, l.lost)
  BY <1>2, CoordinatorAssumption DEF LogType, OneRow, Log
<1>3. ASSUME NEW n \in {l.lost + 1} \cap 0..MaxLost, r = Log(None, l.rows + 1, n)
      PROVE  r \in LogType /\ (OneRow(l) => OneRow(r))
  BY <1>3 DEF LogType, OneRow, Log
<1>4. QED
  BY <1>1, <1>2, <1>3 DEF OpenLogs

\* Starting a session ends the one before it.
LEMMA StartLogsType ==
  ASSUME NEW l \in LogType, NEW m \in Media, NEW r \in StartLogs(l, m)
  PROVE  r \in LogType /\ (OneRow(l) => OneRow(r))
<1>1. PICK ended \in EndLogs(l) : r \in OpenLogs(ended, m)
  BY DEF StartLogs
<1>2. ended \in LogType /\ ended.open = None /\ (OneRow(l) => OneRow(ended))
  BY <1>1, EndLogsType
<1>3. QED
  BY <1>1, <1>2, OpenLogsType

----------------------------------------------------------------------------
(* The pieces the handlers share.                                          *)

PcType ==
  {Idle} \cup [at : {"persist", "slot", "pin"}, list : Snapshot,
               then : {"nothing", "start", "restart"}]
         \cup [at : {"downloading"}, left : SUBSET Media, ready : BOOLEAN,
               then : {"nothing", "start", "restart"}]
         \cup [at : {"waiting"}, media : Media, ahead : BOOLEAN]

\* What a handler sends, leaves of the session and waits for when it ends by
\* playing m, or None for playing nothing.
EndsWith(m, files) ==
  /\ cmds' \in Seq(Command)
  /\ Len(cmds') > Len(cmds) /\ Last(cmds').op = "play"
       => Last(cmds').media = m /\ m \in files
  /\ log' \in LogType
  /\ preload' \in BOOLEAN
  /\ pc' \in PcType
  /\ ~Pinning'
  /\ pc'.at = "waiting" => pc'.media = m

\* play_media sends one Play of m when its file is there, or waits for it.
LEMMA PlayMediaStep ==
  ASSUME TypeOK, NEW m \in Media, NEW files, NEW l \in LogType, NEW ahead \in BOOLEAN,
         PlayMedia(m, files, l, ahead)
  PROVE  EndsWith(m, files) /\ (OneRow(l) => OneRow(log'))
<1>1. CASE /\ m \in files
           /\ cmds' = Append(cmds, Play(m))
           /\ log' \in StartLogs(l, m)
           /\ preload' = (preload \/ ahead)
           /\ pc' = Idle
  <2>1. Play(m) \in Command
    BY DEF Play, Command
  <2>2. /\ cmds' \in Seq(Command)
        /\ Last(cmds') = Play(m)
    BY <1>1, <2>1 DEF TypeOK, Last
  <2>3. log' \in LogType /\ (OneRow(l) => OneRow(log'))
    BY <1>1, StartLogsType
  <2>4. preload' \in BOOLEAN
    BY <1>1 DEF TypeOK
  <2>5. pc' \in PcType /\ pc'.at # "waiting" /\ ~Pinning'
    BY <1>1 DEF PcType, Idle, Pinning
  <2>6. QED
    BY <1>1, <2>2, <2>3, <2>4, <2>5 DEF EndsWith, Play
<1>2. CASE /\ log' = l
           /\ pc' = Waiting(m, ahead)
           /\ UNCHANGED <<cmds, preload>>
  BY <1>2 DEF EndsWith, PcType, Waiting, Pinning, TypeOK
<1>3. QED
  BY <1>1, <1>2 DEF PlayMedia

\* next_item and play: the position, current and what is played agree.
LEMMA NextAndPlayStep ==
  ASSUME TypeOK, NEW r \in Queue, r.index # 0 => HasCurrent(r), NEW files,
         NEW l \in LogType, NEW ahead \in BOOLEAN,
         NextAndPlay(r, files, l, ahead)
  PROVE  /\ queue' \in Queue
         /\ queue'.items = r.items
         /\ current' \in Media \cup {None}
         /\ queue'.index # 0 => HasCurrent(queue') /\ current' = Current(queue')
         /\ EndsWith(current', files)
         /\ OneRow(l) => OneRow(log')
<1>1. /\ queue' = QNext(r)
      /\ current' = NextMedia(r)
  BY DEF NextAndPlay
<1>2. /\ queue' \in Queue
      /\ queue'.items = r.items
      /\ current' \in Media \cup {None}
      /\ queue'.index # 0 => HasCurrent(queue') /\ current' = Current(queue')
  BY <1>1, NextType, NextMediaType
<1>3. CASE current' # None /\ PlayMedia(current', files, l, ahead)
  <2>1. current' \in Media
    BY <1>2, <1>3
  <2>2. QED
    BY <1>2, <1>3, <2>1, PlayMediaStep
<1>4. CASE log' = l /\ pc' = Idle /\ UNCHANGED <<cmds, preload>>
  BY <1>2, <1>4 DEF EndsWith, PcType, Idle, Pinning, TypeOK
<1>5. QED
  BY <1>3, <1>4 DEF NextAndPlay

\* The invariant the proofs carry: every named property at once.
\* PositionNamesCurrent is what lets next_item and previous_item be applied to
\* the queue, and WaitsForCurrent what makes a wait end by playing current.
IInv == TypeOK /\ PositionNamesCurrent /\ PinsCoverQueue /\ NoOrphanRow /\ WaitsForCurrent /\ LoadsActive

\* What every handler leaves behind, in terms of the variables it may change.
Leaves ==
  /\ queue' \in Queue
  /\ current' \in Media \cup {None}
  /\ queue'.index # 0 => HasCurrent(queue') /\ current' = Current(queue')
  /\ EndsWith(current', cached)
  /\ OneRow(log')

----------------------------------------------------------------------------
(* Every step keeps the invariant and the two action properties.           *)

PlaysStep ==
  Len(cmds') > Len(cmds) /\ Last(cmds').op = "play"
    => Last(cmds').media = current' /\ current' \in cached'
ChooseStep ==
  victim' # victim /\ victim' # None /\ ~Pinning => victim' \notin Range(queue'.items)
Keeps == IInv' /\ PlaysStep /\ ChooseStep

DiskType == [last : Snapshot \cup {None}, slots : [Playlists -> Snapshot \cup {None}]]

\* The common end of every handler's proof.
LEMMA HandlerKeeps ==
  ASSUME IInv, Leaves,
         playlist' \in Playlists \cup {None},
         playing' \in BOOLEAN,
         stack' \in Seq(Playlists),
         pinned' \subseteq Media,
         Range(queue'.items) \subseteq pinned',
         background' \subseteq Media,
         disk' \in DiskType,
         UNCHANGED <<cached, victim>>
  PROVE  Keeps
<1>1. TypeOK'
  BY DEF Leaves, EndsWith, PcType, LogType, DiskType, IInv, TypeOK
<1>2. PositionNamesCurrent'
  BY DEF Leaves, PositionNamesCurrent
<1>3. PinsCoverQueue' /\ NoOrphanRow' /\ WaitsForCurrent' /\ LoadsActive'
  BY DEF PinsCoverQueue, NoOrphanRow, OneRow, WaitsForCurrent, LoadsActive, Leaves, EndsWith
<1>4. PlaysStep /\ ChooseStep
  BY DEF Leaves, EndsWith, PlaysStep, ChooseStep
<1>5. QED
  BY <1>1, <1>2, <1>3, <1>4 DEF Keeps, IInv

\* The current queue, moved by next_item: what skip, MediaFinished, an error
\* and the end of a batch do.
LEMMA AdvanceStep ==
  ASSUME IInv, NEW l \in LogType, OneRow(l), NEW ahead \in BOOLEAN,
         NextAndPlay(queue, cached, l, ahead)
  PROVE  /\ Leaves
         /\ Range(queue'.items) = Range(queue.items)
         /\ ~Pinning => Range(queue'.items) \subseteq pinned
<1>1. queue \in Queue /\ (queue.index # 0 => HasCurrent(queue))
  BY DEF IInv, TypeOK, PositionNamesCurrent
<1>2. Leaves /\ queue'.items = queue.items
  BY <1>1, NextAndPlayStep DEF IInv, Leaves
<1>3. QED
  BY <1>2 DEF IInv, PinsCoverQueue

\* The facts about the session and the files that every handler starts from.
LEMMA Before ==
  ASSUME IInv
  PROVE  /\ log \in LogType /\ OneRow(log)
         /\ \A l \in EndLogs(log) : l \in LogType /\ OneRow(l)
         /\ disk \in DiskType
         /\ playlist \in Playlists \cup {None}
         /\ playing \in BOOLEAN
         /\ stack \in Seq(Playlists)
         /\ pinned \subseteq Media
         /\ background \subseteq Media
         /\ queue \in Queue
         /\ queue.index # 0 => HasCurrent(queue) /\ current = Current(queue)
<1>1. log \in LogType /\ OneRow(log)
  BY DEF IInv, TypeOK, LogType, NoOrphanRow, OneRow
<1>2. QED
  BY <1>1, EndLogsType DEF IInv, TypeOK, DiskType, PositionNamesCurrent

\* No handler is in the middle of its work when a message is taken.
LEMMA TakesNotPinning ==
  ASSUME NEW kind, Takes(kind)
  PROVE  ~Pinning /\ pc.at # "waiting"
BY DEF Takes, Pinning, Idle

\* A handler that loads a list leaves its snapshot to be written and pinned.
LEMMA LoadKeeps ==
  ASSUME IInv, NEW s \in Snapshot, NEW at \in {"persist", "slot", "pin"},
         NEW then \in {"nothing", "start", "restart"}, Load(s, at, then),
         log' \in LogType, OneRow(log'), playing' \in BOOLEAN, stack' \in Seq(Playlists),
         UNCHANGED <<cached, victim, disk>>
  PROVE  Keeps
<1>1. /\ playlist' = s.playlist
      /\ queue' = QUpdate(s.items, s.loop)
      /\ pc' = Loading(at, s, then)
      /\ UNCHANGED <<current, pinned, background, preload, cmds>>
  BY DEF Load
<1>2. /\ s.items \in Seq(Media) /\ s.loop \in BOOLEAN
      /\ s.playlist \in Playlists
  BY DEF Snapshot
<1>3. queue' \in Queue /\ queue'.items = s.items /\ queue'.index = 0
  BY <1>1, <1>2, UpdateType
<1>4. /\ pc' \in PcType /\ pc'.at # "waiting"
      /\ Pinning' /\ pc'.list = s
  BY <1>1 DEF PcType, Loading, Pinning
<1>5. TypeOK'
  BY <1>1, <1>2, <1>3, <1>4 DEF IInv, TypeOK, LogType, PcType
<1>6. /\ PositionNamesCurrent' /\ PinsCoverQueue' /\ NoOrphanRow' /\ WaitsForCurrent'
      /\ LoadsActive'
  BY <1>3, <1>4 DEF PositionNamesCurrent, PinsCoverQueue, NoOrphanRow, OneRow, WaitsForCurrent,
                    LoadsActive
<1>7. PlaysStep /\ ChooseStep
  BY <1>1 DEF PlaysStep, ChooseStep, IInv, TypeOK
<1>8. QED
  BY <1>5, <1>6, <1>7 DEF Keeps, IInv

\* A handler that moves the position to an item m of the active list and plays
\* it: reload_playlist and previous.
LEMMA JumpStep ==
  ASSUME IInv, NEW l \in LogType, OneRow(l), NEW m \in Media,
         queue' \in Queue, queue'.items = queue.items, HasCurrent(queue'),
         current' = Current(queue'), m = current', ~Pinning,
         PlayMedia(m, cached, l, FALSE)
  PROVE  Leaves /\ Range(queue'.items) \subseteq pinned
<1>1. EndsWith(m, cached) /\ OneRow(log')
  BY PlayMediaStep DEF IInv
<1>2. QED
  BY <1>1 DEF Leaves, IInv, PinsCoverQueue

\* A handler that sends a command other than play.
LEMMA SendStep ==
  ASSUME IInv, NEW o \in {"pause", "resume", "stop"}, cmds' = Append(cmds, Op(o))
  PROVE  /\ cmds' \in Seq(Command)
         /\ ~(Len(cmds') > Len(cmds) /\ Last(cmds').op = "play")
<1>1. Op(o) \in Command /\ Op(o).op # "play"
  BY DEF Op, Command
<1>2. cmds \in Seq(Command)
  BY DEF IInv, TypeOK
<1>3. cmds' \in Seq(Command) /\ Last(cmds') = Op(o)
  BY <1>1, <1>2 DEF Last
<1>4. QED
  BY <1>1, <1>3

\* A message of the server, one step per handler, keeps the invariant.
LEMMA ServerMessageKeeps ==
  ASSUME IInv, ServerMessage
  PROVE  Keeps
<1> USE Before
<1>1. ASSUME NEW p \in Playlists, NEW s \in Lists(p), PlaylistAssigned(s)
      PROVE  Keeps
  <2>1. CASE UNCHANGED vars
    BY <2>1 DEF vars, Keeps, IInv, TypeOK, PositionNamesCurrent, PinsCoverQueue,
                NoOrphanRow, WaitsForCurrent, LoadsActive, Pinning, PlaysStep, ChooseStep, HasCurrent, Current
  <2>2. CASE /\ stack' = <<>>
             /\ log' \in EndLogs(log)
             /\ Load(s, "persist", "start")
             /\ UNCHANGED <<playing, cached, victim, disk>>
    BY <2>2, ListType, LoadKeeps
  <2>3. QED
    BY <1>1, <2>1, <2>2 DEF PlaylistAssigned
<1>2. ASSUME NEW p \in Playlists, NEW s \in Lists(p), PlaylistUpdated(s)
      PROVE  Keeps
  <2>1. CASE UNCHANGED vars
    BY <2>1 DEF vars, Keeps, IInv, TypeOK, PositionNamesCurrent, PinsCoverQueue,
                NoOrphanRow, WaitsForCurrent, LoadsActive, Pinning, PlaysStep, ChooseStep, HasCurrent, Current
  <2>2. CASE ~Unchanged(s)
    <3>1. PICK then \in {"nothing", "restart"} :
            /\ Load(s, "persist", then)
            /\ UNCHANGED <<playing, stack, log, cached, victim, disk>>
      BY <1>2, <2>2 DEF PlaylistUpdated, Unchanged, vars
    <3>2. QED
      BY <3>1, ListType, LoadKeeps
  <2>3. QED
    BY <1>2, <2>1, <2>2 DEF PlaylistUpdated
<1>3. ASSUME NEW p \in Playlists, NEW s \in Lists(p), PlaylistInterrupt(s)
      PROVE  Keeps
  <2>1. stack' \in Seq(Playlists)
    BY <1>3 DEF PlaylistInterrupt
  <2>2. /\ log' \in EndLogs(log)
        /\ Load(s, "pin", "start")
        /\ UNCHANGED <<playing, cached, victim, disk>>
    BY <1>3 DEF PlaylistInterrupt
  <2>3. QED
    BY <2>1, <2>2, ListType, LoadKeeps
<1>4. ASSUME stack' = Pop(stack)
      PROVE  stack' \in Seq(Playlists)
  BY <1>4 DEF Pop, Front
<1>5. ASSUME NEW p \in Playlists, NEW s \in Lists(p), PlaylistResume(s)
      PROVE  Keeps
  <2>1. /\ stack' = Pop(stack)
        /\ log' \in EndLogs(log)
        /\ Load(s, "persist", "start")
        /\ UNCHANGED <<playing, cached, victim, disk>>
    BY <1>5 DEF PlaylistResume
  <2>2. QED
    BY <1>4, <2>1, ListType, LoadKeeps
<1>6. ASSUME PlaylistStop PROVE Keeps
  <2>1. /\ stack' = Pop(stack)
        /\ log' \in EndLogs(log)
        /\ playlist' = None
        /\ queue' = QClear(queue)
        /\ current' = None
        /\ playing' = FALSE
        /\ cmds' = Append(cmds, Op("stop"))
        /\ UNCHANGED <<pinned, cached, victim, background, preload, disk, pc>>
    BY <1>6 DEF PlaylistStop
  <2>2. pc.at # "waiting" /\ ~Pinning
    BY <1>6, TakesNotPinning DEF PlaylistStop
  <2>3. queue' \in Queue /\ queue'.index = 0 /\ Range(queue'.items) = {}
    BY <2>1, ClearType DEF Range
  <2>4. Leaves
    BY <2>1, <2>2, <2>3, SendStep DEF Leaves, EndsWith, IInv, TypeOK, PcType, Pinning
  <2>5. QED
    BY <1>4, <2>1, <2>3, <2>4, HandlerKeeps
<1>7. ASSUME Reload PROVE Keeps
  <2>1. /\ queue.items # <<>>
        /\ queue' = QReset(queue)
        /\ current' = Current(QReset(queue))
        /\ PlayMedia(current', cached, log, FALSE)
        /\ UNCHANGED <<playlist, playing, stack, pinned, cached, victim, background, disk>>
        /\ ~Pinning
    BY <1>7, TakesNotPinning DEF Reload
  <2>2. queue' \in Queue /\ queue'.items = queue.items /\ HasCurrent(queue')
    BY <2>1, ResetType
  <2>3. Leaves /\ Range(queue'.items) \subseteq pinned
    BY <2>1, <2>2, CurrentType, JumpStep
  <2>4. QED
    BY <2>1, <2>3, HandlerKeeps
<1>8. ASSUME Pause \/ Resume PROVE Keeps
  <2>0. PICK o \in {"pause", "resume"} : cmds' = Append(cmds, Op(o))
    BY <1>8 DEF Pause, Resume
  <2>1. playing' \in BOOLEAN
    BY <1>8 DEF Pause, Resume
  <2>2. pc.at # "waiting" /\ ~Pinning
    BY <1>8, TakesNotPinning DEF Pause, Resume
  <2>3. UNCHANGED <<playlist, queue, current, stack, log, pinned, cached, victim,
                    background, preload, disk, pc>>
    BY <1>8 DEF Pause, Resume
  <2>4. Leaves
    BY <2>0, <2>2, <2>3, SendStep
       DEF Leaves, EndsWith, IInv, TypeOK, PcType, HasCurrent, Current, Pinning
  <2>5. QED
    BY <2>1, <2>2, <2>3, <2>4, HandlerKeeps DEF IInv, PinsCoverQueue
<1>9. ASSUME Skip PROVE Keeps
  BY <1>9, AdvanceStep, HandlerKeeps, TakesNotPinning DEF Skip
<1>10. ASSUME Previous PROVE Keeps
  <2>1. /\ UNCHANGED <<playlist, playing, stack, pinned, cached, victim, background, disk>>
        /\ ~Pinning /\ pc.at # "waiting"
    BY <1>10, TakesNotPinning DEF Previous
  <2>2. CASE /\ log' \in EndLogs(log)
             /\ UNCHANGED <<queue, current, cmds, preload, pc>>
    <3>1. Leaves
      BY <2>1, <2>2
         DEF Leaves, EndsWith, IInv, TypeOK, PcType, HasCurrent, Current, Pinning
    <3>2. QED
      BY <2>1, <2>2, <3>1, HandlerKeeps DEF IInv, PinsCoverQueue
  <2>3. CASE /\ queue.items # <<>>
             /\ queue' = QPrevious(queue)
             /\ current' = Current(QPrevious(queue))
             /\ \E l \in EndLogs(log) : PlayMedia(current', cached, l, FALSE)
    <3>1. queue' \in Queue /\ queue'.items = queue.items /\ HasCurrent(queue')
      BY <2>3, PreviousType
    <3>2. PICK l \in EndLogs(log) : PlayMedia(current', cached, l, FALSE)
      BY <2>3
    <3>3. l \in LogType /\ OneRow(l)
      BY <3>2
    <3>4. current' \in Media
      BY <2>3, <3>1, CurrentType
    <3>5. Leaves /\ Range(queue'.items) \subseteq pinned
      BY <2>1, <2>3, <3>1, <3>2, <3>3, <3>4, JumpStep
    <3>6. QED
      BY <2>1, <3>5, HandlerKeeps
  <2>4. QED
    BY <1>10, <2>2, <2>3 DEF Previous
<1>11. QED
  BY <1>1, <1>2, <1>3, <1>5, <1>6, <1>7, <1>8, <1>9, <1>10 DEF ServerMessage

\* An event of the engine or an offline task's message keeps the invariant.
LEMMA OtherMessageKeeps ==
  ASSUME IInv, OtherMessage
  PROVE  Keeps
<1> USE Before
<1>1. ASSUME MediaFinished PROVE Keeps
  BY <1>1, AdvanceStep, HandlerKeeps, TakesNotPinning DEF MediaFinished
<1>2. ASSUME PlaybackError PROVE Keeps
  BY <1>2, AdvanceStep, HandlerKeeps, TakesNotPinning DEF PlaybackError
<1>3. ASSUME TryOfflineRestore PROVE Keeps
  <2>1. disk.last \in Snapshot
    BY <1>3 DEF TryOfflineRestore, DiskType
  <2>2. QED
    BY <1>3, <2>1, LoadKeeps DEF TryOfflineRestore
<1>4. ASSUME NEW p \in Playlists, OfflineScheduleSwitch(p) PROVE Keeps
  <2>1. disk.slots[p] \in Snapshot
    BY <1>4 DEF OfflineScheduleSwitch, DiskType
  <2>2. QED
    BY <1>4, <2>1, LoadKeeps DEF OfflineScheduleSwitch
<1>5. QED
  BY <1>1, <1>2, <1>3, <1>4 DEF OtherMessage

\* Writing the snapshots of a list.
LEMMA PersistKeeps ==
  ASSUME IInv, PersistLast \/ PersistSlot
  PROVE  Keeps
<1>1. /\ pc.at \in {"persist", "slot"} /\ pc.list \in Snapshot
      /\ pc.then \in {"nothing", "start", "restart"}
      /\ pc.list.playlist \in Playlists
  BY DEF PersistLast, PersistSlot, IInv, TypeOK, Idle, Snapshot
<1>2. /\ disk' \in {disk, [disk EXCEPT !.last = pc.list],
                    [disk EXCEPT !.slots[pc.list.playlist] = pc.list]}
      /\ \E at \in {"slot", "pin"} : pc' = Loading(at, pc.list, pc.then)
      /\ UNCHANGED <<playlist, queue, current, playing, stack, log, pinned, cached, victim,
                     background, preload, cmds>>
  BY DEF PersistLast, PersistSlot, Written
<1>3. disk' \in DiskType
  BY <1>1, <1>2 DEF IInv, TypeOK, DiskType
<1>4. /\ pc' \in PcType /\ pc'.at # "waiting" /\ Pinning' /\ Pinning
      /\ pc'.list = pc.list
  BY <1>1, <1>2 DEF PcType, Loading, Pinning
<1>5. TypeOK'
  BY <1>2, <1>3, <1>4 DEF IInv, TypeOK, PcType, DiskType
<1>6. /\ PositionNamesCurrent' /\ PinsCoverQueue' /\ NoOrphanRow' /\ WaitsForCurrent'
      /\ LoadsActive'
  BY <1>2, <1>4 DEF IInv, PositionNamesCurrent, PinsCoverQueue, NoOrphanRow, WaitsForCurrent,
                    LoadsActive, HasCurrent, Current
<1>7. PlaysStep /\ ChooseStep
  BY <1>2 DEF PlaysStep, ChooseStep, IInv, TypeOK
<1>8. QED
  BY <1>5, <1>6, <1>7 DEF Keeps, IInv

\* Pinning a list and starting it, at once or after the batch.
LEMMA PinKeeps ==
  ASSUME IInv, PinAndStart
  PROVE  Keeps
<1> USE Before
<1>1. /\ pc.at = "pin" /\ pc.list \in Snapshot
      /\ pc.then \in {"nothing", "start", "restart"}
      /\ pc.list.items = queue.items
  BY DEF PinAndStart, IInv, TypeOK, Idle, LoadsActive, Pinning
<1>2. /\ pinned' = Range(pc.list.items)
      /\ UNCHANGED <<playlist, playing, stack, cached, victim, disk>>
  BY DEF PinAndStart
<1>3. pc.list.items \in Seq(Media) /\ Range(pc.list.items) \subseteq Media
  BY <1>1 DEF Snapshot, Range
<1>4. CASE StartAtOnce
  <2>1. /\ pc.list.items # <<>>
        /\ NextAndPlay(queue, cached, log, FALSE)
        /\ background' = background \cup (Range(Tail(pc.list.items)) \ cached)
    BY <1>4 DEF StartAtOnce
  <2>2. Range(Tail(pc.list.items)) \subseteq Media
    BY <1>3, <2>1 DEF Range
  <2>3. Leaves /\ Range(queue'.items) = Range(queue.items)
    BY <2>1, AdvanceStep
  <2>4. background' \subseteq Media
    BY <2>1, <2>2
  <2>5. QED
    BY <1>1, <1>2, <1>3, <2>3, <2>4, HandlerKeeps
<1>5. CASE StartNothing \/ StartBatch
  <2>1. /\ pc' = Idle \/ pc' = Downloading(pc.list.items, pc.then)
        /\ UNCHANGED <<queue, current, log, cmds, preload, background>>
    BY <1>5 DEF StartNothing, StartBatch
  <2>2. pc' \in PcType /\ pc'.at # "waiting" /\ ~Pinning'
    <3>1. CASE pc' = Idle
      BY <3>1 DEF PcType, Idle, Pinning
    <3>2. CASE pc' = Batch(Range(pc.list.items), FALSE, pc.then)
      <4>1. /\ pc'.at = "downloading"
            /\ pc' \in [at : {"downloading"}, left : SUBSET Media, ready : BOOLEAN,
                       then : {"nothing", "start", "restart"}]
        BY <1>1, <1>3, <3>2 DEF Batch
      <4>2. QED
        BY <4>1 DEF PcType, Pinning
    <3>3. QED
      BY <2>1, <3>1, <3>2 DEF Downloading
  <2>3. Leaves
    BY <2>1, <2>2 DEF Leaves, EndsWith, IInv, TypeOK, HasCurrent, Current
  <2>4. QED
    BY <1>1, <1>2, <1>3, <2>1, <2>3, HandlerKeeps
<1>6. QED
  BY <1>4, <1>5 DEF PinAndStart

\* The rest of a handler after its wait keeps the invariant.
LEMMA WaitedKeeps ==
  ASSUME IInv, Waited
  PROVE  Keeps
<1> USE Before
<1>1. ASSUME DownloadsDone PROVE Keeps
  <2>1. /\ UNCHANGED <<playlist, playing, stack, pinned, cached, victim, background, disk>>
        /\ ~Pinning
    BY <1>1 DEF DownloadsDone, Pinning
  <2>2. CASE \E l \in EndLogs(log) \cup {log} : NextAndPlay(queue, cached, l, FALSE)
    BY <2>1, <2>2, AdvanceStep, HandlerKeeps
  <2>3. CASE /\ pc' = Idle
             /\ UNCHANGED <<queue, current, log, cmds, preload>>
    <3>1. Leaves
      BY <2>3 DEF Leaves, EndsWith, IInv, TypeOK, PcType, Idle, HasCurrent, Current, Pinning
    <3>2. QED
      BY <2>1, <2>3, <3>1, HandlerKeeps DEF IInv, PinsCoverQueue
  <2>4. QED
    BY <1>1, <2>2, <2>3 DEF DownloadsDone
<1>2. ASSUME WaitEnds PROVE Keeps
  <2>1. /\ pc.at = "waiting" /\ pc.media = current /\ ~Pinning
        /\ UNCHANGED <<playlist, queue, current, playing, stack, pinned, cached, victim,
                       background, disk>>
    BY <1>2 DEF WaitEnds, IInv, WaitsForCurrent, Pinning
  <2>2. pc.media \in Media /\ pc.ahead \in BOOLEAN
    BY <2>1 DEF IInv, TypeOK, Idle
  <2>3. CASE PlayMedia(pc.media, cached, log, pc.ahead)
    <3>1. EndsWith(pc.media, cached) /\ OneRow(log')
      BY <2>2, <2>3, PlayMediaStep DEF IInv
    <3>2. Leaves
      BY <2>1, <2>2, <3>1 DEF Leaves, HasCurrent, Current
    <3>3. QED
      BY <2>1, <3>2, HandlerKeeps DEF IInv, PinsCoverQueue
  <2>4. CASE /\ cmds' = Append(cmds, Op("stop"))
             /\ preload' = (preload \/ pc.ahead)
             /\ pc' = Idle
             /\ log' = log
    <3>1. pc' \in PcType /\ pc'.at # "waiting" /\ ~Pinning'
      BY <2>4 DEF PcType, Idle, Pinning
    <3>2. preload' \in BOOLEAN
      BY <2>2, <2>4 DEF IInv, TypeOK
    <3>3. Leaves
      BY <2>1, <2>2, <2>4, <3>1, <3>2, SendStep DEF Leaves, EndsWith, HasCurrent, Current
    <3>4. QED
      BY <2>1, <3>3, HandlerKeeps DEF IInv, PinsCoverQueue
  <2>5. QED
    BY <1>2, <2>3, <2>4 DEF WaitEnds
<1>3. ASSUME NEW m \in Media, BatchItem(m) PROVE Keeps
  <2>1. /\ pc.at = "downloading"
        /\ cached' \subseteq Media
        /\ \E ready \in {TRUE, pc.ready} : pc' = Batch(pc.left \ {m}, ready, pc.then)
        /\ UNCHANGED <<playlist, queue, current, playing, stack, log, pinned, victim,
                       background, preload, disk, cmds>>
    BY <1>3 DEF BatchItem, IInv, TypeOK
  <2>2. /\ pc.left \subseteq Media /\ pc.ready \in BOOLEAN
        /\ pc.then \in {"nothing", "start", "restart"}
    BY <2>1 DEF IInv, TypeOK, Idle
  <2>3. pc' \in PcType /\ pc'.at # "waiting" /\ ~Pinning' /\ ~Pinning
    <3>1. PICK ready \in {TRUE, pc.ready} : pc' = Batch(pc.left \ {m}, ready, pc.then)
      BY <2>1
    <3>2. ready \in BOOLEAN
      BY <2>2
    <3>3. QED
      BY <2>1, <2>2, <3>1, <3>2 DEF PcType, Batch, Pinning
  <2>4. IInv'
    BY <2>1, <2>3
       DEF IInv, TypeOK, PcType, PositionNamesCurrent, PinsCoverQueue, NoOrphanRow,
           WaitsForCurrent, LoadsActive, Pinning, HasCurrent, Current
  <2>5. PlaysStep /\ ChooseStep
    BY <2>1 DEF PlaysStep, ChooseStep, IInv, TypeOK
  <2>6. QED
    BY <2>4, <2>5 DEF Keeps
<1>4. QED
  BY <1>1, <1>2, <1>3, PersistKeeps, PinKeeps DEF Waited

\* The tasks beside the coordinator keep the invariant.
LEMMA BesideKeeps ==
  ASSUME IInv, Beside
  PROVE  Keeps
<1>1. ASSUME PreloadPass PROVE Keeps
  <2>1. /\ background' \subseteq Media /\ preload' \in BOOLEAN
        /\ UNCHANGED <<playlist, queue, current, playing, stack, log, pinned, cached,
                       victim, disk, cmds, pc>>
    <3>1. PICK n \in 0..PreloadCount :
            background' = background \cup (Upcoming(queue, n) \ cached)
      BY <1>1 DEF PreloadPass
    <3>2. Upcoming(queue, n) \subseteq Media
      BY DEF Upcoming, IInv, TypeOK, Queue
    <3>3. QED
      BY <1>1, <3>1, <3>2 DEF PreloadPass, IInv, TypeOK
  <2>2. QED
    BY <2>1 DEF Keeps, IInv, TypeOK, PositionNamesCurrent, PinsCoverQueue, NoOrphanRow,
                WaitsForCurrent, LoadsActive, Pinning, HasCurrent, Current, PlaysStep, ChooseStep
<1>2. ASSUME NEW m \in Media, BackgroundDone(m) PROVE Keeps
  BY <1>2 DEF BackgroundDone, Keeps, IInv, TypeOK, PositionNamesCurrent, PinsCoverQueue,
              NoOrphanRow, WaitsForCurrent, LoadsActive, Pinning, HasCurrent, Current, PlaysStep, ChooseStep
<1>3. ASSUME NEW m \in Media, EvictChoose(m) PROVE Keeps
  BY <1>3 DEF EvictChoose, Keeps, IInv, TypeOK, PositionNamesCurrent, PinsCoverQueue,
              NoOrphanRow, WaitsForCurrent, LoadsActive, Pinning, HasCurrent, Current, PlaysStep, ChooseStep
<1>4. ASSUME EvictRemove PROVE Keeps
  BY <1>4 DEF EvictRemove, Keeps, IInv, TypeOK, PositionNamesCurrent, PinsCoverQueue,
              NoOrphanRow, WaitsForCurrent, LoadsActive, Pinning, HasCurrent, Current, PlaysStep, ChooseStep
<1>5. ASSUME EngineTakes PROVE Keeps
  <2>1. cmds' \in Seq(Command) /\ ~(Len(cmds') > Len(cmds))
    BY <1>5 DEF EngineTakes, IInv, TypeOK
  <2>2. QED
    BY <1>5, <2>1 DEF EngineTakes, Keeps, IInv, TypeOK, PositionNamesCurrent,
         PinsCoverQueue, NoOrphanRow, WaitsForCurrent, LoadsActive, Pinning, HasCurrent, Current, PlaysStep, ChooseStep
<1>6. QED
  BY <1>1, <1>2, <1>3, <1>4, <1>5 DEF Beside

----------------------------------------------------------------------------
(* What a handler sends to the engine.                                     *)

\* A handler, or a part of one up to or after a wait, sends at most one
\* command, and then it is through.  If current_media_id is not the same
\* afterwards, then the media it names is played, or awaited, or the engine is
\* stopped, or it names nothing.
Answers ==
  \/ /\ cmds' = cmds
     /\ \/ pc'.at = "waiting"
        \/ current' \in {None, current} /\ pc.at # "waiting"
  \/ /\ pc' = Idle
     /\ \E c : /\ cmds' = Append(cmds, c)
              /\ \/ c \in {Play(current'), Op("stop")}
                 \/ c \in {Op("pause"), Op("resume")} /\ current' = current /\ pc.at # "waiting"

\* play_media of what has become current.
LEMMA PlayMediaAnswers ==
  ASSUME NEW files, NEW l, NEW ahead, PlayMedia(current', files, l, ahead)
  PROVE  Answers
BY DEF PlayMedia, Answers, Waiting

\* next_item and play what it returns.
LEMMA NextAndPlayAnswers ==
  ASSUME pc.at # "waiting", NEW q, NEW files, NEW l, NEW ahead, NextAndPlay(q, files, l, ahead)
  PROVE  Answers
BY PlayMediaAnswers DEF NextAndPlay, Answers

\* Every handler answers so.  A wait ends with a command for the media that is
\* still current.
LEMMA HandlersAnswer ==
  ASSUME IInv, ServerMessage \/ OtherMessage \/ Waited
  PROVE  Answers
<1>1. ASSUME NEW kind, Takes(kind) PROVE pc.at # "waiting"
  BY <1>1 DEF Takes, Idle
<1>2. ASSUME pc.at # "waiting", cmds' = cmds, current' = current PROVE Answers
  BY <1>2 DEF Answers
<1>3. ASSUME NEW p \in Playlists, NEW s \in Lists(p),
             PlaylistAssigned(s) \/ PlaylistUpdated(s) \/ PlaylistInterrupt(s) \/ PlaylistResume(s)
      PROVE  Answers
  <2>1. pc.at # "waiting"
    BY <1>1, <1>3 DEF PlaylistAssigned, PlaylistUpdated, PlaylistInterrupt, PlaylistResume
  <2>2. UNCHANGED <<current, cmds>>
    BY <1>3 DEF PlaylistAssigned, PlaylistUpdated, PlaylistInterrupt, PlaylistResume, Load, vars
  <2>3. QED
    BY <1>2, <2>1, <2>2
<1>4. ASSUME PlaylistStop PROVE Answers
  BY <1>4 DEF PlaylistStop, Takes, Answers
<1>5. ASSUME Pause \/ Resume PROVE Answers
  <2>1. /\ pc' = Idle /\ pc.at # "waiting" /\ current' = current
        /\ cmds' = Append(cmds, Op("pause")) \/ cmds' = Append(cmds, Op("resume"))
    BY <1>1, <1>5 DEF Pause, Resume, Takes
  <2>2. QED
    BY <2>1 DEF Answers
<1>6. ASSUME Reload \/ Skip \/ Previous PROVE Answers
  <2>1. pc.at # "waiting"
    BY <1>1, <1>6 DEF Reload, Skip, Previous
  <2>2. \/ PlayMedia(current', cached, log, FALSE)
        \/ \E l : PlayMedia(current', cached, l, FALSE)
        \/ \E l : NextAndPlay(queue, cached, l, TRUE)
        \/ UNCHANGED <<current, cmds>>
    BY <1>6 DEF Reload, Skip, Previous
  <2>3. QED
    BY <1>2, <2>1, <2>2, PlayMediaAnswers, NextAndPlayAnswers
<1>7. ASSUME OtherMessage PROVE Answers
  <2>1. pc.at # "waiting"
    BY <1>1, <1>7 DEF OtherMessage, MediaFinished, PlaybackError, TryOfflineRestore,
                      OfflineScheduleSwitch
  <2>2. \/ \E l, ahead : NextAndPlay(queue, cached, l, ahead)
        \/ UNCHANGED <<current, cmds>>
    BY <1>7 DEF OtherMessage, MediaFinished, PlaybackError, TryOfflineRestore,
                OfflineScheduleSwitch, Load
  <2>3. QED
    BY <1>2, <2>1, <2>2, NextAndPlayAnswers
<1>8. ASSUME Waited PROVE Answers
  <2>1. ASSUME DownloadsDone PROVE Answers
    <3>1. \/ \E l : NextAndPlay(queue, cached, l, FALSE)
          \/ UNCHANGED <<current, cmds>>
      BY <2>1 DEF DownloadsDone
    <3>2. pc.at # "waiting"
      BY <2>1 DEF DownloadsDone
    <3>3. QED
      BY <1>2, <3>1, <3>2, NextAndPlayAnswers
  <2>2. ASSUME WaitEnds PROVE Answers
    <3>1. pc.media = current'
      BY <2>2 DEF WaitEnds, IInv, WaitsForCurrent
    <3>2. \/ PlayMedia(current', cached, log, pc.ahead)
          \/ cmds' = Append(cmds, Op("stop")) /\ pc' = Idle
      BY <2>2, <3>1 DEF WaitEnds
    <3>3. QED
      BY <3>2, PlayMediaAnswers DEF Answers
  <2>3. ASSUME NEW m \in Media, BatchItem(m) PROVE Answers
    BY <1>2, <2>3 DEF BatchItem
  <2>4. ASSUME PersistLast \/ PersistSlot \/ PinAndStart PROVE Answers
    <3>1. pc.at # "waiting"
      BY <2>4 DEF PersistLast, PersistSlot, PinAndStart
    <3>2. \/ \E l : NextAndPlay(queue, cached, l, FALSE)
          \/ UNCHANGED <<current, cmds>>
      BY <2>4 DEF PersistLast, PersistSlot, PinAndStart, StartAtOnce, StartNothing, StartBatch
    <3>3. QED
      BY <1>2, <3>1, <3>2, NextAndPlayAnswers
  <2>5. QED
    BY <1>8, <2>1, <2>2, <2>3, <2>4 DEF Waited
<1>9. QED
  BY <1>3, <1>4, <1>5, <1>6, <1>7, <1>8 DEF ServerMessage

\* What the tasks beside the coordinator leave alone.
LEMMA BesideLeaves ==
  ASSUME PreloadPass \/ EvictRemove \/ \E m \in Media : BackgroundDone(m) \/ EvictChoose(m)
  PROVE  UNCHANGED <<queue, current, disk, cmds, pc>>
BY DEF PreloadPass, EvictRemove, BackgroundDone, EvictChoose

----------------------------------------------------------------------------
(* Lists that never end.                                                   *)

\* The server sends lists with something in them, to be played in a loop.
OnlyLoops == LoopFlags \subseteq {TRUE} /\ \A p \in Playlists : <<>> \notin Contents[p]

Endless(s) == s.items # <<>> /\ s.loop
DiskEndless ==
  /\ disk.last # None => Endless(disk.last)
  /\ \A p \in Playlists : disk.slots[p] # None => Endless(disk.slots[p])

\* The active list is one of them, or there is none and nothing is current.
ActiveEndless == IF queue.items = <<>> THEN current = None ELSE queue.loop
LoopInv == ActiveEndless /\ DiskEndless /\ (Pinning => Endless(pc.list))

\* A step keeps this, and nothing stops being current without a command.
GoesOn == LoopInv' /\ (current' = None /\ cmds' = cmds => current = None)

\* A list that never ends has a next item.
LEMMA EndlessNext ==
  ASSUME NEW r \in Queue, r.items # <<>>, r.loop, r.index # 0 => HasCurrent(r)
  PROVE  /\ QNext(r).items = r.items /\ QNext(r).loop
         /\ NextMedia(r) # None
<1>1. Len(r.items) \in Nat \ {0}
  BY DEF Queue
<1>2. NextIndex(r) \in 1..Len(r.items)
  BY <1>1 DEF NextIndex, Queue
<1>3. QNext(r) = [r EXCEPT !.index = NextIndex(r)]
  BY DEF QNext
<1>4. QNext(r).index = NextIndex(r) /\ QNext(r).items = r.items /\ QNext(r).loop = r.loop
  BY <1>2, <1>3 DEF Queue
<1>5. HasCurrent(QNext(r)) /\ QNext(r) \in Queue
  BY <1>2, <1>4, NextType DEF HasCurrent
<1>6. NextMedia(r) # None
  BY <1>5, CurrentType DEF NextMedia
<1>7. QED
  BY <1>4, <1>6

\* next_item in the active list.
LEMMA AdvanceGoesOn ==
  ASSUME IInv, LoopInv, NEW files, NEW l, NEW ahead, NextAndPlay(queue, files, l, ahead),
         UNCHANGED disk
  PROVE  GoesOn
<1>1. /\ queue' = QNext(queue) /\ current' = NextMedia(queue)
      /\ queue \in Queue /\ (queue.index # 0 => HasCurrent(queue))
      /\ ~Pinning'
  BY DEF NextAndPlay, PlayMedia, Waiting, Idle, Pinning, IInv, TypeOK, PositionNamesCurrent
<1>2. DiskEndless'
  BY DEF LoopInv, DiskEndless
<1>3. CASE queue.items = <<>>
  <2>1. queue' = queue /\ ~HasCurrent(queue)
    BY <1>1, <1>3 DEF QNext, HasCurrent, Queue
  <2>2. current' = None /\ current = None
    BY <1>1, <1>3, <2>1 DEF NextMedia, LoopInv, ActiveEndless
  <2>3. QED
    BY <1>1, <1>2, <1>3, <2>1, <2>2 DEF GoesOn, LoopInv, ActiveEndless
<1>4. CASE queue.items # <<>>
  <2>1. queue'.items = queue.items /\ queue'.loop /\ current' # None
    BY <1>1, <1>4, EndlessNext DEF LoopInv, ActiveEndless
  <2>2. QED
    BY <1>1, <1>2, <1>4, <2>1 DEF GoesOn, LoopInv, ActiveEndless
<1>5. QED
  BY <1>3, <1>4

\* Loading a list that never ends.
LEMMA LoadGoesOn ==
  ASSUME IInv, LoopInv, NEW s \in Snapshot, Endless(s), NEW at, NEW then, Load(s, at, then),
         UNCHANGED disk
  PROVE  GoesOn
<1>1. /\ queue' = QUpdate(s.items, s.loop)
      /\ pc' = Loading(at, s, then)
      /\ UNCHANGED <<current, cmds>>
  BY DEF Load
<1>2. queue'.items = s.items /\ queue'.loop = s.loop /\ pc'.list = s
  BY <1>1 DEF QUpdate, Loading
<1>3. QED
  BY <1>1, <1>2 DEF GoesOn, LoopInv, ActiveEndless, DiskEndless, Endless

\* What the server sends is so, and so is what is kept of it on the disk.
LEMMA ListEndless ==
  ASSUME OnlyLoops, NEW p \in Playlists, NEW s \in Lists(p)
  PROVE  Endless(s)
<1>1. PICK items \in Contents[p], loop \in LoopFlags : s = Snap(p, items, loop)
  BY DEF Lists
<1>2. s.items = items /\ s.loop = loop
  BY <1>1 DEF Snap
<1>3. loop = TRUE /\ items # <<>>
  BY DEF OnlyLoops
<1>4. QED
  BY <1>2, <1>3 DEF Endless

LEMMA PersistGoesOn ==
  ASSUME IInv, LoopInv, PersistLast \/ PersistSlot
  PROVE  GoesOn
<1>1. /\ disk' \in {disk, [disk EXCEPT !.last = pc.list],
                    [disk EXCEPT !.slots[pc.list.playlist] = pc.list]}
      /\ pc'.list = pc.list
      /\ UNCHANGED <<queue, current>>
      /\ pc.at \in {"persist", "slot"}
  BY DEF PersistLast, PersistSlot, Written, Loading
<1>2. disk \in DiskType
  BY DEF IInv, TypeOK, DiskType
<1>3. Endless(pc.list)
  BY <1>1 DEF LoopInv, Pinning
<1>4. /\ disk'.last \in {pc.list, disk.last}
      /\ \A p \in Playlists : disk'.slots[p] \in {pc.list, disk.slots[p]}
  BY <1>1, <1>2 DEF DiskType
<1>5. DiskEndless'
  BY <1>3, <1>4 DEF LoopInv, DiskEndless
<1>6. QED
  BY <1>1, <1>3, <1>5 DEF GoesOn, LoopInv, ActiveEndless

\* If the server sends only lists that never end, no handler leaves the screen
\* to itself.
LEMMA HandlersGoOn ==
  ASSUME OnlyLoops, IInv, LoopInv, ServerMessage \/ OtherMessage \/ Waited
  PROVE  GoesOn
<1>1. ASSUME UNCHANGED <<queue, current, disk>>, Pinning' => UNCHANGED pc PROVE GoesOn
  BY <1>1 DEF GoesOn, LoopInv, ActiveEndless, DiskEndless, Pinning
<1>2. UNCHANGED disk => DiskEndless'
  BY DEF LoopInv, DiskEndless
<1>3. ASSUME NEW p \in Playlists, NEW s \in Lists(p),
             PlaylistAssigned(s) \/ PlaylistUpdated(s) \/ PlaylistInterrupt(s) \/ PlaylistResume(s)
      PROVE  GoesOn
  <2>1. s \in Snapshot /\ Endless(s)
    BY <1>3, ListType, ListEndless
  <2>2. \/ \E at, then : Load(s, at, then) /\ UNCHANGED disk
        \/ UNCHANGED vars
    BY <1>3 DEF PlaylistAssigned, PlaylistUpdated, PlaylistInterrupt, PlaylistResume
  <2>3. QED
    BY <1>1, <2>1, <2>2, LoadGoesOn DEF vars
<1>4. ASSUME PlaylistStop PROVE GoesOn
  <2>1. queue'.items = <<>> /\ current' = None /\ UNCHANGED disk /\ ~Pinning'
    BY <1>4, TakesNotPinning DEF PlaylistStop, QClear, QUpdate, Pinning
  <2>2. cmds' # cmds
    <3>1. cmds' = Append(cmds, Op("stop")) /\ cmds \in Seq(Command)
      BY <1>4 DEF PlaylistStop, IInv, TypeOK
    <3>2. Len(cmds') = Len(cmds) + 1 /\ Len(cmds) \in Nat
      BY <3>1
    <3>3. QED
      BY <3>2
  <2>3. QED
    BY <1>2, <2>1, <2>2 DEF GoesOn, LoopInv, ActiveEndless
<1>5. ASSUME Pause \/ Resume PROVE GoesOn
  BY <1>1, <1>5 DEF Pause, Resume
<1>6. ASSUME Reload \/ Previous PROVE GoesOn
  <2>1. UNCHANGED disk /\ ~Pinning'
    BY <1>6, TakesNotPinning
       DEF Reload, Previous, PlayMedia, Waiting, Idle, Pinning
  <2>2. CASE UNCHANGED <<queue, current>>
    BY <1>1, <2>1, <2>2
  <2>3. CASE /\ queue.items # <<>> /\ current' = Current(queue')
             /\ queue' \in {QReset(queue), QPrevious(queue)}
    <3>1. queue \in Queue /\ (queue.index # 0 => HasCurrent(queue))
      BY DEF IInv, TypeOK, PositionNamesCurrent
    <3>2. queue' \in Queue /\ queue'.items = queue.items /\ HasCurrent(queue')
      BY <2>3, <3>1, ResetType, PreviousType
    <3>3. queue'.loop = queue.loop
      BY <2>3, <3>1 DEF QReset, QPrevious, Queue
    <3>4. current' # None
      BY <2>3, <3>2, CurrentType
    <3>5. QED
      BY <1>2, <2>1, <2>3, <3>2, <3>3, <3>4 DEF GoesOn, LoopInv, ActiveEndless
  <2>4. QED
    BY <1>6, <2>2, <2>3 DEF Reload, Previous
<1>7. ASSUME Skip \/ MediaFinished \/ PlaybackError PROVE GoesOn
  BY <1>7, AdvanceGoesOn DEF Skip, MediaFinished, PlaybackError
<1>8. ASSUME TryOfflineRestore PROVE GoesOn
  <2>1. disk.last \in Snapshot /\ Endless(disk.last)
    BY <1>8 DEF TryOfflineRestore, IInv, TypeOK, LoopInv, DiskEndless
  <2>2. QED
    BY <1>8, <2>1, LoadGoesOn DEF TryOfflineRestore
<1>9. ASSUME NEW p \in Playlists, OfflineScheduleSwitch(p) PROVE GoesOn
  <2>1. disk.slots[p] \in Snapshot /\ Endless(disk.slots[p])
    BY <1>9 DEF OfflineScheduleSwitch, IInv, TypeOK, LoopInv, DiskEndless
  <2>2. QED
    BY <1>9, <2>1, LoadGoesOn DEF OfflineScheduleSwitch
<1>10. ASSUME Waited, ~(PersistLast \/ PersistSlot) PROVE GoesOn
  <2>1. UNCHANGED disk
    BY <1>10 DEF Waited, PinAndStart, DownloadsDone, WaitEnds, BatchItem
  <2>2. CASE UNCHANGED <<queue, current>> /\ ~Pinning'
    BY <1>1, <2>1, <2>2
  <2>3. CASE \E l : NextAndPlay(queue, cached, l, FALSE)
    BY <2>1, <2>3, AdvanceGoesOn
  <2>4. ASSUME PinAndStart
        PROVE  \/ \E l : NextAndPlay(queue, cached, l, FALSE)
               \/ UNCHANGED <<queue, current>> /\ ~Pinning'
    <3>1. CASE StartAtOnce
      BY <3>1 DEF StartAtOnce
    <3>2. CASE StartNothing
      BY <3>2 DEF StartNothing, Idle, Pinning
    <3>3. CASE StartBatch
      BY <3>3 DEF StartBatch, Downloading, Batch, Pinning
    <3>4. QED
      BY <2>4, <3>1, <3>2, <3>3 DEF PinAndStart
  <2>5. ASSUME DownloadsDone \/ WaitEnds \/ \E m \in Media : BatchItem(m)
        PROVE  \/ \E l : NextAndPlay(queue, cached, l, FALSE)
               \/ UNCHANGED <<queue, current>> /\ ~Pinning'
    <3>1. CASE DownloadsDone
      <4>1. \/ \E l : NextAndPlay(queue, cached, l, FALSE)
            \/ pc' = Idle /\ UNCHANGED <<queue, current>>
        BY <3>1 DEF DownloadsDone
      <4>2. pc' = Idle => ~Pinning'
        BY DEF Idle, Pinning
      <4>3. QED
        BY <4>1, <4>2
    <3>2. CASE WaitEnds
      <4>1. /\ UNCHANGED <<queue, current>>
            /\ pc' = Idle \/ \E m, ahead : pc' = Waiting(m, ahead)
        BY <3>2 DEF WaitEnds, PlayMedia
      <4>2. pc'.at \in {"idle", "waiting"}
        BY <4>1 DEF Idle, Waiting
      <4>3. QED
        BY <4>1, <4>2 DEF Pinning
    <3>3. ASSUME NEW m \in Media, BatchItem(m) PROVE UNCHANGED <<queue, current>> /\ ~Pinning'
      BY <3>3 DEF BatchItem, Batch, Pinning
    <3>4. QED
      BY <2>5, <3>1, <3>2, <3>3
  <2>6. QED
    BY <1>10, <2>2, <2>3, <2>4, <2>5 DEF Waited
<1>11. QED
  BY <1>3, <1>4, <1>5, <1>6, <1>7, <1>8, <1>9, <1>10, PersistGoesOn
     DEF ServerMessage, OtherMessage

----------------------------------------------------------------------------
(* The theorems.                                                           *)

\* What a process starts with: no list, hence no position, and no session.
LEMMA Empty ==
  /\ EmptyQueue \in Queue /\ EmptyQueue.index = 0 /\ Range(EmptyQueue.items) = {}
  /\ NoLog \in LogType /\ OneRow(NoLog)
<1>1. EmptyQueue \in Queue /\ EmptyQueue.index = 0 /\ Range(EmptyQueue.items) = {}
  BY DEF EmptyQueue, Queue, Range
<1>2. NoLog \in LogType /\ OneRow(NoLog)
  BY DEF NoLog, Log, LogType, OneRow
<1>3. QED
  BY <1>1, <1>2

\* The initial state satisfies the invariant.
LEMMA InitIInv == Init => IInv
<1> SUFFICES ASSUME Init PROVE IInv
  OBVIOUS
<1>1. playing \in BOOLEAN /\ preload \in BOOLEAN
  BY DEF Init
<1>2. /\ playlist = None /\ queue = EmptyQueue /\ current = None /\ stack = <<>>
      /\ log = NoLog /\ pinned = {} /\ cached \in SUBSET Media /\ background = {} /\ victim = None
      /\ disk \in DiskType /\ cmds = <<>> /\ pc = Idle
  BY DEF Init, DiskType
<1>3. TypeOK
  BY <1>1, <1>2, Empty DEF TypeOK, DiskType, LogType
<1>4. QED
  BY <1>2, <1>3, Empty DEF IInv, PositionNamesCurrent, PinsCoverQueue, NoOrphanRow, OneRow,
                           WaitsForCurrent, LoadsActive, Pinning, Idle

\* A restart loses everything but the files, and the invariant holds again.
LEMMA RestartKeeps ==
  ASSUME IInv, Restart
  PROVE  Keeps
<1>1. playing' \in BOOLEAN /\ preload' \in BOOLEAN
  BY DEF Restart
<1>2. /\ playlist' = None /\ queue' = EmptyQueue /\ current' = None /\ stack' = <<>>
      /\ log' = NoLog /\ pinned' = {} /\ background' = {} /\ victim' = None
      /\ cmds' = <<>> /\ pc' = Idle
      /\ cached' \subseteq Media /\ disk' \in DiskType
  BY DEF Restart, IInv, TypeOK, DiskType
<1>3. TypeOK'
  BY <1>1, <1>2, Empty DEF TypeOK, DiskType, LogType
<1>4. IInv'
  BY <1>2, <1>3, Empty DEF IInv, PositionNamesCurrent, PinsCoverQueue, NoOrphanRow, OneRow,
                           WaitsForCurrent, LoadsActive, Pinning, Idle
<1>5. PlaysStep /\ ChooseStep
  BY <1>2 DEF PlaysStep, ChooseStep, IInv, TypeOK
<1>6. QED
  BY <1>4, <1>5 DEF Keeps

\* Every step, and every step that changes nothing, keeps the invariant.
LEMMA NextKeeps == IInv /\ [Next]_vars => Keeps
<1> SUFFICES ASSUME IInv, [Next]_vars PROVE Keeps
  OBVIOUS
<1>1. CASE UNCHANGED vars
  BY <1>1 DEF vars, Keeps, IInv, TypeOK, PositionNamesCurrent, PinsCoverQueue,
              NoOrphanRow, WaitsForCurrent, LoadsActive, Pinning, PlaysStep, ChooseStep, HasCurrent, Current
<1>2. QED
  BY <1>1, ServerMessageKeeps, OtherMessageKeeps, WaitedKeeps, BesideKeeps, RestartKeeps
     DEF Next

\* The inductive invariant holds throughout.
LEMMA AlwaysIInv == Spec => []IInv
<1>1. IInv /\ [Next]_vars => IInv'
  BY NextKeeps DEF Keeps
<1>2. QED
  BY InitIInv, <1>1, PTL DEF Spec

\* The types of the coordinator's state.
THEOREM TypeCorrect == Spec => []TypeOK
<1>1. IInv => TypeOK
  BY DEF IInv
<1>2. QED
  BY <1>1, AlwaysIInv, PTL

\* The position of the queue names the current media, for lists of any length.
THEOREM PositionCorrect == Spec => []PositionNamesCurrent
<1>1. IInv => PositionNamesCurrent
  BY DEF IInv
<1>2. QED
  BY <1>1, AlwaysIInv, PTL

\* The active list is pinned, but for the time between loading and pinning it.
THEOREM PinsCorrect == Spec => []PinsCoverQueue
<1>1. IInv => PinsCoverQueue
  BY DEF IInv
<1>2. QED
  BY <1>1, AlwaysIInv, PTL

\* No playback row is left open while the process runs, but by lost reports.
THEOREM SessionsCorrect == Spec => []NoOrphanRow
<1>1. IInv => NoOrphanRow
  BY DEF IInv
<1>2. QED
  BY <1>1, AlwaysIInv, PTL

\* Whatever is played is current and in the cache.
THEOREM PlaysCorrect == Spec => PlaysCurrentFile
<1>1. IInv /\ [Next]_vars => [PlaysStep]_vars
  BY NextKeeps DEF Keeps
<1>2. QED
  BY <1>1, AlwaysIInv, PTL DEF Spec, PlaysCurrentFile, PlaysStep

\* No file of the active list is chosen for eviction once it is pinned.
THEOREM EvictionCorrect == Spec => ActiveListNotChosen
<1>1. IInv /\ [Next]_vars => [ChooseStep]_vars
  BY NextKeeps DEF Keeps
<1>2. QED
  BY <1>1, AlwaysIInv, PTL DEF Spec, ActiveListNotChosen, ChooseStep
=============================================================================
