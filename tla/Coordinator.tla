---------------------------- MODULE Coordinator ----------------------------
(***************************************************************************)
(* The client's state coordinator (client/src/state/coordinator.rs) with   *)
(* the AppState and PlaylistQueue it owns.  One task takes one message at  *)
(* a time and runs its handler to the end.  Beside it run the download     *)
(* tasks it spawns, the cache's eviction and the engine, which drains the  *)
(* command channel.                                                        *)
(*                                                                         *)
(* A handler is a step up to each point where the tasks beside it, or a    *)
(* restart, see what it has done so far, and pc records the point: after a *)
(* list has been loaded and before it is pinned, after each of the two     *)
(* writes of its snapshots, while a batch downloads, and while play_media  *)
(* waits for a file.  The other awaits are not points of their own.  The   *)
(* analytics reports come before the queue is changed or after the command *)
(* is sent, and only the coordinator knows the session; the look for the   *)
(* first file and the Play for it, a few instructions apart, are one step. *)
(*                                                                         *)
(* The cache directory holds verified files: a download is renamed into it *)
(* after its checksum.  Which of the files the LRU index knows, their      *)
(* sizes and their order of use are abstracted: any unpinned file may be   *)
(* chosen for eviction, at any time.                                       *)
(*                                                                         *)
(* Abstracted: positions in seconds, last_error, telemetry counters,       *)
(* subtitles, volume, seek, fetch_logs, screenshot (they touch none of the *)
(* state below); the entry kept for an interrupted playlist is its id,     *)
(* since the rest of it is never read back.                                *)
(***************************************************************************)
EXTENDS PlaylistQueue

CONSTANTS
  Playlists,     \* playlist ids
  Contents,      \* Contents[p]: the item lists the server may send for p
  LoopFlags,     \* the loopPlaylist values the server may send
  None,          \* the Option None
  Kinds,         \* the message types this instance receives
  PreloadCount,  \* preload_next_items
  DiskMayFail,   \* whether a write of a playlist snapshot may fail
  MaxLost,       \* bound on the analytics reports that are lost
  MaxStack,      \* bound on the interrupt stack
  MaxCmds        \* bound on the command channel

VARIABLES
  playlist,   \* AppState.playlist_id
  queue,      \* AppState.queue
  current,    \* AppState.current_media_id
  playing,    \* AppState.is_playing
  stack,      \* AppState.interrupt_stack, playlist ids
  log,        \* the analytics session, and the rows open on the server
  pinned,     \* media pinned in the LRU cache
  cached,     \* media whose file is in the cache directory
  victim,     \* the media evict_until has chosen and not yet removed
  background, \* media being downloaded by spawned tasks
  preload,    \* a preload_upcoming task has been spawned and not yet run
  disk,       \* playlist.json and playlists/<id>.json
  cmds,       \* commands sent to the engine and not yet taken
  pc          \* where the running handler waits, or Idle

state == <<playlist, queue, current, playing, stack>>
vars == <<playlist, queue, current, playing, stack, log, pinned, cached,
          victim, background, preload, disk, cmds, pc>>

\* Assumed: None is no media and no playlist; item lists are of media.
ASSUME CoordinatorAssumption ==
  /\ None \notin Media
  /\ None \notin Playlists
  /\ Contents \in [Playlists -> SUBSET Seq(Media)]
  /\ LoopFlags \subseteq BOOLEAN
  /\ PreloadCount \in Nat
  /\ DiskMayFail \in BOOLEAN
  /\ MaxLost \in Nat
  /\ MaxStack \in Nat
  /\ MaxCmds \in Nat

Snapshot == [playlist : Playlists, items : Seq(Media), loop : BOOLEAN]
Snap(p, items, loop) == [playlist |-> p, items |-> items, loop |-> loop]

Lists(p) == {Snap(p, items, loop) : items \in Contents[p], loop \in LoopFlags}

Command == [op : {"play"}, media : Media] \cup [op : {"pause", "resume", "stop"}]
Play(m) == [op |-> "play", media |-> m]
Op(o) == [op |-> o]

Idle == [at |-> "idle"]
\* A handler has loaded the list s and has its snapshots to write, the second
\* of them, or only to pin it; then it starts playback, or, for an update,
\* downloads and then does nothing or starts over.
Loading(at, s, then) == [at |-> at, list |-> s, then |-> then]
\* Waiting for download_playlist_media: the media whose download has not
\* ended, whether one has succeeded, and what follows if one has: nothing,
\* start_playback, or the same after ending the analytics session.
Batch(left, ready, then) ==
  [at |-> "downloading", left |-> left, ready |-> ready, then |-> then]
Downloading(items, then) == Batch(Range(items), FALSE, then)
\* Waiting in play_media for the file of m; ahead says whether the handler
\* calls preload_upcoming after it.
Waiting(m, ahead) == [at |-> "waiting", media |-> m, ahead |-> ahead]

----------------------------------------------------------------------------
(* Analytics: at most one session, opened after a Play has been sent and   *)
(* closed by end_analytics_session.  rows counts the rows this process has *)
(* opened on the server that are open there still, and lost the reports    *)
(* whose loss has left one behind.                                         *)

Log(open, rows, lost) == [open |-> open, rows |-> rows, lost |-> lost]
NoLog == Log(None, 0, 0)

\* end_analytics_session: the session is forgotten whatever becomes of the
\* report; if it does not reach the server the row stays open.
EndLogs(l) ==
  IF l.open = None THEN {l}
  ELSE {Log(None, l.rows - 1, l.lost)}
       \cup {Log(None, l.rows, n) : n \in {l.lost + 1} \cap 0..MaxLost}

\* The start report is answered with a row id, or fails, or the answer is lost
\* and the server has stored the row.
OpenLogs(l, m) ==
  {Log(m, l.rows + 1, l.lost), l}
  \cup {Log(None, l.rows + 1, n) : n \in {l.lost + 1} \cap 0..MaxLost}

\* A variant of StartLogs that does not end a session still open.
StartLogsOver(l, m) == OpenLogs(Log(None, l.rows, l.lost), m)

\* start_analytics_session ends a session still open, then starts one.
StartLogs(l, m) == UNION {OpenLogs(ended, m) : ended \in EndLogs(l)}

----------------------------------------------------------------------------
(* Pieces of the handlers.                                                 *)

\* is_playlist_unchanged: the loop flag is not compared.
Unchanged(msg) == playlist = msg.playlist /\ queue.items = msg.items

\* A variant of PlayMedia that does not look for the file.
PlayMediaAtOnce(m, files, l, ahead) ==
  /\ cmds' = Append(cmds, Play(m))
  /\ log' \in StartLogs(l, m)
  /\ preload' = (preload \/ ahead)
  /\ pc' = Idle

\* play_media: send Play for a file that is there, or wait for it.  l is the
\* analytics session as the handler has left it so far.
PlayMedia(m, files, l, ahead) ==
  \/ /\ m \in files
     /\ cmds' = Append(cmds, Play(m))
     /\ log' \in StartLogs(l, m)
     /\ preload' = (preload \/ ahead)
     /\ pc' = Idle
  \/ /\ m \notin files
     /\ log' = l
     /\ pc' = Waiting(m, ahead)
     /\ UNCHANGED <<cmds, preload>>

\* What AppState::next_item makes current.
NextMedia(q) == IF HasCurrent(QNext(q)) THEN Current(QNext(q)) ELSE None

\* A variant of NextAndPlay that plays even if there is no next item.
NextAndPlayUnchecked(q, files, l, ahead) ==
  /\ queue' = QNext(q)
  /\ current' = NextMedia(q)
  /\ PlayMedia(current', files, l, ahead)

\* state.next_item(), and play what it returns.  This is also start_playback
\* in a queue that has just been loaded and has no position.
NextAndPlay(q, files, l, ahead) ==
  /\ queue' = QNext(q)
  /\ current' = NextMedia(q)
  /\ \/ current' # None /\ PlayMedia(current', files, l, ahead)
     \/ /\ current' = None
        /\ log' = l
        /\ pc' = Idle
        /\ UNCHANGED <<cmds, preload>>

\* update_playlist for the list s; the handler goes on at the point given.
Load(s, at, then) ==
  /\ playlist' = s.playlist
  /\ queue' = QUpdate(s.items, s.loop)
  /\ pc' = Loading(at, s, then)
  /\ UNCHANGED <<current, pinned, background, preload, cmds>>

----------------------------------------------------------------------------
(* Handlers of server messages.                                            *)

\* The coordinator takes a message of type kind; the channel has room for the
\* command the handler may send.
Takes(kind) == kind \in Kinds /\ pc = Idle /\ Len(cmds) < MaxCmds

\* A duplicate assignment returns early; any other clears the interrupt
\* stack, ends the session, and loads the list.
PlaylistAssigned(s) ==
  /\ Takes("assigned")
  /\ \/ Unchanged(s) /\ UNCHANGED vars
     \/ /\ ~Unchanged(s)
        /\ stack' = <<>>
        /\ log' \in EndLogs(log)
        /\ Load(s, "persist", "start")
        /\ UNCHANGED <<playing, cached, victim, disk>>

\* An update starts playback only if the current media has left the list.
PlaylistUpdated(s) ==
  /\ Takes("updated")
  /\ \/ Unchanged(s) /\ UNCHANGED vars
     \/ /\ ~Unchanged(s)
        /\ Load(s, "persist", IF current \in Range(s.items) THEN "nothing" ELSE "restart")
        /\ UNCHANGED <<playing, stack, log, cached, victim, disk>>

\* push_interrupt keeps the playlist being interrupted, if there is one; the
\* interrupting list is not persisted.
PlaylistInterrupt(s) ==
  /\ Takes("interrupt")
  /\ Len(stack) < MaxStack
  /\ stack' = IF playlist = None THEN stack ELSE Append(stack, playlist)
  /\ log' \in EndLogs(log)
  /\ Load(s, "pin", "start")
  /\ UNCHANGED <<playing, cached, victim, disk>>

Pop(st) == IF st = <<>> THEN st ELSE Front(st)

\* A resume pops one entry and loads the list the server sent.
PlaylistResume(s) ==
  /\ Takes("resume")
  /\ stack' = Pop(stack)
  /\ log' \in EndLogs(log)
  /\ Load(s, "persist", "start")
  /\ UNCHANGED <<playing, cached, victim, disk>>

\* A resume without a playlist clears the queue and stops the engine.
PlaylistStop ==
  /\ Takes("resume")
  /\ stack' = Pop(stack)
  /\ log' \in EndLogs(log)
  /\ playlist' = None
  /\ queue' = QClear(queue)
  /\ current' = None
  /\ playing' = FALSE
  /\ cmds' = Append(cmds, Op("stop"))
  /\ UNCHANGED <<pinned, cached, victim, background, preload, disk, pc>>

\* A variant of Reload that leaves current_media_id behind.
ReloadForgets ==
  /\ Takes("reload")
  /\ queue.items # <<>>
  /\ queue' = QReset(queue)
  /\ PlayMedia(queue.items[1], cached, log, FALSE)
  /\ UNCHANGED <<playlist, current, playing, stack, pinned, cached, victim, background, disk>>

\* reload_playlist: back to the first item and play it.
Reload ==
  /\ Takes("reload")
  /\ queue.items # <<>>
  /\ queue' = QReset(queue)
  /\ current' = Current(QReset(queue))
  /\ PlayMedia(current', cached, log, FALSE)
  /\ UNCHANGED <<playlist, playing, stack, pinned, cached, victim, background, disk>>

\* pause and resume forward to the engine and record the wish at once.
Pause ==
  /\ Takes("pause")
  /\ cmds' = Append(cmds, Op("pause"))
  /\ playing' = FALSE
  /\ UNCHANGED <<playlist, queue, current, stack, log, pinned, cached, victim, background, preload, disk, pc>>

Resume ==
  /\ Takes("pause")
  /\ cmds' = Append(cmds, Op("resume"))
  /\ playing' = TRUE
  /\ UNCHANGED <<playlist, queue, current, stack, log, pinned, cached, victim, background, preload, disk, pc>>

Skip ==
  /\ Takes("skip")
  /\ \E l \in EndLogs(log) : NextAndPlay(queue, cached, l, TRUE)
  /\ UNCHANGED <<playlist, playing, stack, pinned, cached, victim, background, disk>>

\* previous() on an empty queue returns nothing and leaves current alone.
Previous ==
  /\ Takes("skip")
  /\ \/ /\ queue.items = <<>>
        /\ log' \in EndLogs(log)
        /\ UNCHANGED <<queue, current, cmds, preload, pc>>
     \/ /\ queue.items # <<>>
        /\ queue' = QPrevious(queue)
        /\ current' = Current(QPrevious(queue))
        /\ \E l \in EndLogs(log) : PlayMedia(current', cached, l, FALSE)
  /\ UNCHANGED <<playlist, playing, stack, pinned, cached, victim, background, disk>>

----------------------------------------------------------------------------
(* Handlers of playback events and of the offline tasks.                   *)

MediaFinished ==
  /\ Takes("finished")
  /\ playing' = FALSE
  /\ \E l \in EndLogs(log) : NextAndPlay(queue, cached, l, TRUE)
  /\ UNCHANGED <<playlist, stack, pinned, cached, victim, background, disk>>

\* After an error the session of the failed media is left to the next start.
PlaybackError ==
  /\ Takes("error")
  /\ playing' = FALSE
  /\ NextAndPlay(queue, cached, log, FALSE)
  /\ UNCHANGED <<playlist, stack, pinned, cached, victim, background, disk>>

\* TryOfflineRestore: only into an empty queue, from playlist.json.
TryOfflineRestore ==
  /\ Takes("restore")
  /\ queue.items = <<>>
  /\ disk.last # None
  /\ Load(disk.last, "pin", "start")
  /\ UNCHANGED <<playing, stack, log, cached, victim, disk>>

\* OfflineScheduleSwitch: only to a playlist with a slot on disk.
OfflineScheduleSwitch(p) ==
  /\ Takes("switch")
  /\ playlist # p
  /\ disk.slots[p] # None
  /\ log' \in EndLogs(log)
  /\ Load(disk.slots[p], "pin", "start")
  /\ UNCHANGED <<playing, stack, cached, victim, disk>>

----------------------------------------------------------------------------
(* The later parts of handlers.                                            *)

\* What one write leaves: it may fail, and the failure is only logged.
Written(new) == {new} \cup (IF DiskMayFail THEN {disk} ELSE {})

\* persist_playlist writes playlist.json, and then the slot of the playlist.
PersistLast ==
  /\ pc.at = "persist"
  /\ disk' \in Written([disk EXCEPT !.last = pc.list])
  /\ pc' = Loading("slot", pc.list, pc.then)
  /\ UNCHANGED <<playlist, queue, current, playing, stack, log, pinned, cached, victim, background, preload, cmds>>

PersistSlot ==
  /\ pc.at = "slot"
  /\ disk' \in Written([disk EXCEPT !.slots[pc.list.playlist] = pc.list])
  /\ pc' = Loading("pin", pc.list, pc.then)
  /\ UNCHANGED <<playlist, queue, current, playing, stack, log, pinned, cached, victim, background, preload, cmds>>

\* download_and_start with the first item there: play it at once and fetch the
\* others in spawned tasks.
StartAtOnce ==
  /\ pc.then = "start" /\ pc.list.items # <<>> /\ pc.list.items[1] \in cached
  /\ NextAndPlay(queue, cached, log, FALSE)
  /\ background' = background \cup (Range(Tail(pc.list.items)) \ cached)

\* With no item there is nothing to start.
StartNothing ==
  /\ pc.then = "start" /\ pc.list.items = <<>>
  /\ pc' = Idle
  /\ UNCHANGED <<queue, current, log, cmds, preload, background>>

\* Otherwise the handler waits for the whole batch, and after an update it does
\* so even when everything is cached.
StartBatch ==
  /\ pc.then = "start" => pc.list.items # <<>> /\ pc.list.items[1] \notin cached
  /\ pc' = Downloading(pc.list.items, pc.then)
  /\ UNCHANGED <<queue, current, log, cmds, preload, background>>

\* A variant of PinAndStart that keeps the pins of the list before.
PinAndStartUnpinned ==
  /\ pc.at = "pin"
  /\ StartAtOnce \/ StartNothing \/ StartBatch
  /\ UNCHANGED <<playlist, playing, stack, pinned, cached, victim, disk>>

\* pin_playlist_items, and what the handler does with the pinned list.
PinAndStart ==
  /\ pc.at = "pin"
  /\ pinned' = Range(pc.list.items)
  /\ StartAtOnce \/ StartNothing \/ StartBatch
  /\ UNCHANGED <<playlist, playing, stack, cached, victim, disk>>

\* One download of the batch ends.  A media that is in the cache counts as a
\* success; any other may have failed.
BatchItem(m) ==
  /\ pc.at = "downloading"
  /\ m \in pc.left
  /\ \/ /\ cached' = cached \cup {m}
        /\ pc' = Batch(pc.left \ {m}, TRUE, pc.then)
     \/ /\ m \notin cached
        /\ pc' = Batch(pc.left \ {m}, pc.ready, pc.then)
        /\ UNCHANGED cached
  /\ UNCHANGED <<playlist, queue, current, playing, stack, log, pinned, victim, background, preload, disk, cmds>>

\* All of them have ended and the handler goes on.
DownloadsDone ==
  /\ pc.at = "downloading"
  /\ pc.left = {}
  /\ \/ /\ pc.then # "nothing" /\ pc.ready
        /\ \E l \in IF pc.then = "restart" THEN EndLogs(log) ELSE {log} :
             NextAndPlay(queue, cached, l, FALSE)
     \/ /\ pc.then = "nothing" \/ ~pc.ready
        /\ pc' = Idle
        /\ UNCHANGED <<queue, current, log, cmds, preload>>
  /\ UNCHANGED <<playlist, playing, stack, pinned, cached, victim, background, disk>>

\* Variants of WaitEnds: one has no deadline, one does not send Stop.
WaitEndsNever ==
  /\ pc.at = "waiting" /\ pc.media \in cached
  /\ PlayMedia(pc.media, cached, log, pc.ahead)
  /\ UNCHANGED <<playlist, queue, current, playing, stack, pinned, cached, victim, background, disk>>
WaitEndsSilently ==
  /\ pc.at = "waiting"
  /\ \/ pc.media \in cached /\ PlayMedia(pc.media, cached, log, pc.ahead)
     \/ pc.media \notin cached /\ pc' = Idle /\ UNCHANGED <<cmds, preload, log>>
  /\ UNCHANGED <<playlist, queue, current, playing, stack, pinned, cached, victim, background, disk>>

\* The thirty seconds of play_media are over.  Only then is the file looked
\* for again: nothing notifies download_notify while the coordinator waits.
\* If it is still missing a Stop goes to the engine.
WaitEnds ==
  /\ pc.at = "waiting"
  /\ \/ pc.media \in cached /\ PlayMedia(pc.media, cached, log, pc.ahead)
     \/ /\ pc.media \notin cached
        /\ cmds' = Append(cmds, Op("stop"))
        /\ preload' = (preload \/ pc.ahead)
        /\ pc' = Idle
        /\ log' = log
  /\ UNCHANGED <<playlist, queue, current, playing, stack, pinned, cached, victim, background, disk>>

----------------------------------------------------------------------------
(* The tasks beside the coordinator.                                       *)

\* The task preload_upcoming spawned reads the queue as it is when it runs;
\* the byte budget may cut the list short.
PreloadPass ==
  /\ preload
  /\ \E n \in 0..PreloadCount :
       background' = background \cup (Upcoming(queue, n) \ cached)
  /\ preload' = FALSE
  /\ UNCHANGED <<playlist, queue, current, playing, stack, log, pinned, cached, victim, disk, cmds, pc>>

\* A spawned download ends, with the file in the cache or not.
BackgroundDone(m) ==
  /\ m \in background
  /\ background' = background \ {m}
  /\ cached' \in {cached, cached \cup {m}}
  /\ UNCHANGED <<playlist, queue, current, playing, stack, log, pinned, victim, preload, disk, cmds, pc>>

\* A variant of EvictChoose that does not look at the pins.
EvictChooseAny(m) ==
  /\ victim = None
  /\ m \in cached
  /\ victim' = m
  /\ UNCHANGED <<playlist, queue, current, playing, stack, log, pinned, cached, background, preload, disk, cmds, pc>>

\* The LRU manager chooses an unpinned file, releases its locks, and then
\* removes the file it chose.
EvictChoose(m) ==
  /\ victim = None
  /\ m \in cached \ pinned
  /\ victim' = m
  /\ UNCHANGED <<playlist, queue, current, playing, stack, log, pinned, cached, background, preload, disk, cmds, pc>>

EvictRemove ==
  /\ victim # None
  /\ cached' = cached \ {victim}
  /\ victim' = None
  /\ UNCHANGED <<playlist, queue, current, playing, stack, log, pinned, background, preload, disk, cmds, pc>>

\* The engine takes the next command.
EngineTakes ==
  /\ cmds # <<>>
  /\ cmds' = Tail(cmds)
  /\ UNCHANGED <<playlist, queue, current, playing, stack, log, pinned, cached, victim, background, preload, disk, pc>>

\* The process stops and starts again: only the files survive.
Restart ==
  /\ "restore" \in Kinds
  /\ playlist' = None /\ queue' = EmptyQueue /\ current' = None
  /\ playing' = FALSE /\ stack' = <<>> /\ log' = NoLog
  /\ pinned' = {} /\ victim' = None /\ background' = {} /\ preload' = FALSE
  /\ cmds' = <<>> /\ pc' = Idle
  /\ UNCHANGED <<cached, disk>>

\* The cache directory may hold files of earlier runs.
Init ==
  /\ playlist = None /\ queue = EmptyQueue /\ current = None
  /\ playing = FALSE /\ stack = <<>> /\ log = NoLog
  /\ pinned = {} /\ cached \in SUBSET Media /\ victim = None /\ background = {} /\ preload = FALSE
  /\ disk = [last |-> None, slots |-> [p \in Playlists |-> None]]
  /\ cmds = <<>> /\ pc = Idle

ServerMessage ==
  \/ \E p \in Playlists : \E s \in Lists(p) :
       PlaylistAssigned(s) \/ PlaylistUpdated(s) \/ PlaylistInterrupt(s) \/ PlaylistResume(s)
  \/ PlaylistStop \/ Reload \/ Pause \/ Resume \/ Skip \/ Previous

OtherMessage ==
  \/ MediaFinished \/ PlaybackError \/ TryOfflineRestore
  \/ \E p \in Playlists : OfflineScheduleSwitch(p)

Beside ==
  \/ PreloadPass \/ EvictRemove \/ EngineTakes
  \/ \E m \in Media : BackgroundDone(m) \/ EvictChoose(m)

Waited ==
  \/ PersistLast \/ PersistSlot \/ PinAndStart
  \/ DownloadsDone \/ WaitEnds \/ \E m \in Media : BatchItem(m)

Next == ServerMessage \/ OtherMessage \/ Waited \/ Beside \/ Restart

Spec == Init /\ [][Next]_vars

\* A write of a snapshot ends, well or badly; a batch ends because every
\* transfer in it has a timeout and a limit on its retries; the wait in
\* play_media has a deadline.
FairSpec == Spec /\ WF_vars(Waited)

----------------------------------------------------------------------------
TypeOK ==
  /\ playlist \in Playlists \cup {None}
  /\ queue \in Queue
  /\ current \in Media \cup {None}
  /\ playing \in BOOLEAN
  /\ stack \in Seq(Playlists)
  /\ log \in [open : Media \cup {None}, rows : Int, lost : Nat]
  /\ pinned \subseteq Media /\ cached \subseteq Media /\ background \subseteq Media
  /\ victim \in Media \cup {None}
  /\ preload \in BOOLEAN
  /\ disk \in [last : Snapshot \cup {None}, slots : [Playlists -> Snapshot \cup {None}]]
  /\ cmds \in Seq(Command)
  /\ pc \in {Idle} \cup [at : {"persist", "slot", "pin"}, list : Snapshot,
                      then : {"nothing", "start", "restart"}]
                   \cup [at : {"downloading"}, left : SUBSET Media, ready : BOOLEAN,
                      then : {"nothing", "start", "restart"}]
                   \cup [at : {"waiting"}, media : Media, ahead : BOOLEAN]

\* The media a status report names is the one the queue stands on, whatever
\* order assignments, updates, interrupts and skips have arrived in: a queue
\* that has a position is inside its list and the position agrees with
\* current_media_id.
PositionNamesCurrent ==
  queue.index # 0 => HasCurrent(queue) /\ current = Current(queue)

\* A handler has made a list active and not yet pinned it.
Pinning == pc.at \in {"persist", "slot", "pin"}

\* The pin set covers the active list, whatever made it active, whenever no
\* handler is between update_playlist and pin_playlist_items: every path that
\* loads a list pins it before it downloads, plays or takes the next message.
PinsCoverQueue == ~Pinning => Range(queue.items) \subseteq pinned

\* Every playback row open on the server is the one the coordinator would
\* close, or one left by a report that was lost: no path forgets a session or
\* starts a second one over it.
NoOrphanRow == log.rows = (IF log.open = None THEN 0 ELSE 1) + log.lost

\* A Play is sent for the media made current by the same handler and
\* only for a file that is in the cache.
PlaysCurrentFile ==
  [][Len(cmds') > Len(cmds) /\ Last(cmds').op = "play"
       => Last(cmds').media = current' /\ current' \in cached']_vars

\* The evictor chooses a file of the active list only while a handler is
\* between loading and pinning it, through interrupts, resumes, restores and
\* switches.  (It may then remove it, and one chosen before the list came.)
ActiveListNotChosen ==
  [][victim' # victim /\ victim' # None /\ ~Pinning => victim' \notin Range(queue'.items)]_vars

\* play_media waits for the media that is current, which no message can change
\* in the meantime.
WaitsForCurrent == pc.at = "waiting" => pc.media = current

\* The list being written or pinned is the active one: nothing else changes the
\* queue before the handler is through.
LoadsActive == Pinning => pc.list.items = queue.items

\* The coordinator comes back for the next message: no handler waits for ever.
AlwaysIdleAgain == pc # Idle ~> pc = Idle
=============================================================================
