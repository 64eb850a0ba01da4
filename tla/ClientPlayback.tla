--------------------------- MODULE ClientPlayback ---------------------------
(***************************************************************************)
(* The playing half of the client: the coordinator, the playback engine    *)
(* and the bridge between them, as main.rs wires them.  The coordinator's  *)
(* commands reach the engine through one channel; the engine's events      *)
(* reach the coordinator through another and the bridge, which passes on   *)
(* EndFile and Error (and positions, left out), drops the rest, and cannot *)
(* say which media an event is about: it forwards media_id 0.              *)
(*                                                                         *)
(* A step of the whole is a step of the coordinator, of the engine, or of  *)
(* the bridge.                                                             *)
(***************************************************************************)
EXTENDS SequencesExt

CONSTANTS
  Media, Images, Playlists, Contents, LoopFlags, None, Kinds,
  PreloadCount, DiskMayFail, MaxLost, MaxStack,
  FailLimit, MpvMayDie, FilesMayBeBad,
  MaxCmds, MaxEvents, MaxOwed

VARIABLES
  playlist, queue, current, playing, stack, log, pinned, cached, victim,
  background, preload, disk, pc,            \* the coordinator and its cache
  cmds,                                     \* commands to the engine
  step, engine, timers, loop, mpv, owed,    \* the engine and mpv
  events,                                   \* events to the bridge
  inbox                                     \* bridged events to the coordinator

\* The coordinator, with the theorems about it.
C == INSTANCE CoordinatorProofs
\* The engine, with the theorems about it.  It is sent commands by the coordinator, which sends the next Play
\* for an EndFile however many plays were cut short before.
E == INSTANCE PlaybackEngineProofs WITH MaxOwed <- MaxOwed + MaxCmds + 1

\* Assumed of the constants: what each part assumes.
ASSUME ClientAssumption == C!CoordinatorAssumption /\ E!EngineAssumption /\ MaxOwed \in Nat

coordinatorVars == <<playlist, queue, current, playing, stack, log, pinned, cached,
                     victim, background, preload, disk, pc>>
engineVars == <<step, engine, timers, loop, mpv, owed, events>>
vars == <<coordinatorVars, engineVars, cmds, inbox>>

\* The coordinator takes a message from the server or an offline task, or goes
\* on after a wait.  MaxOwed bounds the messages taken while mpv runs.
CoordinatorStep ==
  /\ \/ /\ mpv.alive => owed + Len(events) + Len(inbox) < MaxOwed
        /\ \/ C!ServerMessage \/ C!TryOfflineRestore
           \/ \E p \in Playlists : C!OfflineScheduleSwitch(p)
     \/ C!Waited
  /\ UNCHANGED <<engineVars, inbox>>

\* The tasks beside it: downloads, preloading and eviction.
CacheStep ==
  /\ \/ C!PreloadPass \/ C!EvictRemove
     \/ \E m \in Media : C!BackgroundDone(m) \/ C!EvictChoose(m)
  /\ UNCHANGED <<engineVars, inbox>>

\* A variant of TakesEvent: waiting events of the engine are thrown away.
TakesEventDrains ==
  /\ inbox # <<>>
  /\ \/ Head(inbox) = "EndFile" /\ C!MediaFinished
     \/ Head(inbox) = "Error" /\ C!PlaybackError
  /\ inbox' = Tail(inbox)
  /\ events' = <<>>
  /\ UNCHANGED <<step, engine, timers, loop, mpv, owed>>

\* The coordinator takes a bridged event.
TakesEvent ==
  /\ inbox # <<>>
  /\ \/ Head(inbox) = "EndFile" /\ C!MediaFinished
     \/ Head(inbox) = "Error" /\ C!PlaybackError
  /\ inbox' = Tail(inbox)
  /\ UNCHANGED engineVars

EngineStep == E!Inside /\ UNCHANGED <<coordinatorVars, inbox>>

\* A variant of Bridge: it writes the shared AppState as well.
BridgeClears ==
  /\ E!Forward
  /\ Len(inbox) < MaxEvents
  /\ inbox' = Append(inbox, Head(events))
  /\ current' = None
  /\ UNCHANGED <<playlist, queue, playing, stack, log, pinned, cached, victim,
                 background, preload, disk, pc>>

\* The bridge forwards an event.
Bridge ==
  /\ E!Forward
  /\ Len(inbox) < MaxEvents
  /\ inbox' = Append(inbox, Head(events))
  /\ UNCHANGED coordinatorVars

Init == C!Init /\ E!Init /\ inbox = <<>>

Next == CoordinatorStep \/ CacheStep \/ TakesEvent \/ EngineStep \/ Bridge

Spec == Init /\ [][Next]_vars

\* Every task keeps running; mpv plays what it has open to its end.
FairSpec ==
  /\ Spec
  /\ WF_vars(TakesEvent) /\ WF_vars(Bridge)
  /\ WF_vars(C!Waited /\ CoordinatorStep)
  /\ WF_vars(E!Commands /\ EngineStep) /\ WF_vars(E!Ticks /\ EngineStep)
  /\ WF_vars(E!Timers /\ EngineStep) /\ SF_vars(E!MpvReachesEnd /\ EngineStep)

----------------------------------------------------------------------------
\* The composition is a behaviour of each part: the coordinator and the engine
\* rely on nothing that the other and the bridge do not give them.
ImplementsCoordinator == C!Spec
ImplementsEngine == E!Spec

\* When nothing is under way, what the engine has open, if anything, is the
\* media the coordinator reports as current: no message, timeout or late event
\* leaves another item on the screen.
Quiet == pc = C!Idle /\ cmds = <<>> /\ step = None /\ mpv.alive
ShowsCurrent == Quiet => engine.file \in {None, current}

\* A playlist is advanced only for the media on the screen, and after it has
\* ended: the EndFile that is taken is about the current item.
AdvancesOnlyAtEnd ==
  [][inbox # <<>> /\ Head(inbox) = "EndFile" /\ inbox' = Tail(inbox)
       => engine.file = current /\ ~engine.playing]_vars

\* "Playlists loop continuously": once something is current and as long as
\* all files are in the cache, every item of the list is loaded again and
\* again.
LoopsContinuously ==
  [](cached = Media) =>
    \A m \in Media :
      current # None /\ m \in Range(queue.items) ~> step = m \/ m \notin Range(queue.items)

\* The coordinator's one task waits for downloads inside its handlers, and it
\* comes back for the next message from every wait.
CoordinatorReturns == C!AlwaysIdleAgain

\* play_media: "Signal end-of-file so the coordinator loop advances."  A media
\* whose file has not come in time does not stay the current one unplayed.
TimeoutAdvances ==
  \A m \in Media : pc.at = "waiting" /\ pc.media = m ~> step = m \/ current # m

\* "Error recovery (skip corrupted files)": a file that mpv could not open does
\* not stay the current one.
CorruptSkipped ==
  \A m \in Media :
    engine.file = m /\ engine.playing /\ mpv.file = None /\ step = None ~> current # m

\* The status report's isPlaying agrees with the engine when nothing is under
\* way.
ReportsPlaying == Quiet /\ engine.playing => playing
=============================================================================
