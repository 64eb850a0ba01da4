--------------------------- MODULE PlaybackEngine ---------------------------
(***************************************************************************)
(* The client's playback engine (client/src/playback/engine.rs).  One task *)
(* handles commands in order, another polls mpv once a second for the end  *)
(* of a video, and every image played leaves a timer task behind.  All     *)
(* three write the engine's PlaybackState and send events; mpv itself is   *)
(* external and seen only through its IPC socket.                          *)
(*                                                                         *)
(* Left out: position and quality polling, subtitles, volume and seek, and *)
(* the Started, Paused, Resumed and Stopped events, which the bridge in    *)
(* main.rs drops.                                                          *)
(***************************************************************************)
EXTENDS SequencesExt

CONSTANTS
  Media,        \* what can be played
  Images,       \* those of them shown for a time instead of played to an end
  None,
  FailLimit,    \* failed connections before the watchdog gives up (5)
  MpvMayDie,    \* whether mpv may exit
  FilesMayBeBad,\* whether mpv may fail to open a file
  MaxCmds,      \* bound on the command channel
  MaxEvents,    \* bound on the event channel
  MaxOwed       \* bound on owed for a Play to be sent

VARIABLES
  cmds,    \* PlaybackCommands not yet taken
  step,    \* media that play() has loaded into mpv, before it updates engine
  engine,  \* PlaybackState
  timers,  \* media of the image timer tasks still sleeping, oldest first
  loop,    \* event_loop: where it is, the file it saw, eof_sent_for_file, ipc_fail_count
  mpv,     \* the mpv process
  events,  \* events sent to the bridge and not yet forwarded
  owed     \* history: plays started less ends reported

vars == <<cmds, step, engine, timers, loop, mpv, events, owed>>

\* Assumed of the constants.
ASSUME EngineAssumption ==
  /\ Images \subseteq Media
  /\ None \notin Media
  /\ FailLimit \in Nat \ {0}
  /\ MpvMayDie \in BOOLEAN /\ FilesMayBeBad \in BOOLEAN
  /\ MaxCmds \in Nat /\ MaxEvents \in Nat /\ MaxOwed \in Nat

Command == [op : {"play"}, media : Media] \cup [op : {"pause", "resume", "stop"}]

Emit(e) == /\ Len(events) < MaxEvents
           /\ events' = Append(events, e)

----------------------------------------------------------------------------
(* Commands.  One that mpv cannot be reached for fails and changes nothing. *)

Next1(op) == step = None /\ cmds # <<>> /\ Head(cmds).op = op /\ cmds' = Tail(cmds)

CommandFails ==
  /\ step = None /\ cmds # <<>> /\ ~mpv.alive
  /\ cmds' = Tail(cmds)
  /\ UNCHANGED <<step, engine, timers, loop, mpv, events, owed>>

\* play(), up to loadfile and the unpause after it.
PlayLoads ==
  /\ Next1("play") /\ mpv.alive
  /\ step' = Head(cmds).media
  /\ mpv' = [mpv EXCEPT !.file = Head(cmds).media, !.eof = FALSE, !.paused = FALSE]
  /\ UNCHANGED <<engine, timers, loop, events, owed>>

\* play(), from the state update on.
PlayStarts ==
  /\ step # None
  /\ engine' = [file |-> step, playing |-> TRUE, image |-> step \in Images]
  /\ timers' = IF step \in Images THEN Append(timers, step) ELSE timers
  /\ owed' = owed + 1
  /\ step' = None
  /\ UNCHANGED <<cmds, loop, mpv, events>>

\* A variant of Pause that forgets to record it.
PauseUnrecorded ==
  /\ Next1("pause") /\ mpv.alive
  /\ mpv' = [mpv EXCEPT !.paused = TRUE]
  /\ UNCHANGED <<step, engine, timers, loop, events, owed>>

Pause ==
  /\ Next1("pause") /\ mpv.alive
  /\ mpv' = [mpv EXCEPT !.paused = TRUE]
  /\ engine' = [engine EXCEPT !.playing = FALSE]
  /\ UNCHANGED <<step, timers, loop, events, owed>>

Resume ==
  /\ Next1("resume") /\ mpv.alive
  /\ mpv' = [mpv EXCEPT !.paused = FALSE]
  /\ engine' = [engine EXCEPT !.playing = TRUE]
  /\ UNCHANGED <<step, timers, loop, events, owed>>

Stop ==
  /\ Next1("stop") /\ mpv.alive
  /\ mpv' = [mpv EXCEPT !.file = None, !.eof = FALSE]
  /\ engine' = [engine EXCEPT !.file = None, !.playing = FALSE]
  /\ UNCHANGED <<step, timers, loop, events, owed>>

----------------------------------------------------------------------------
(* The image timers: nothing cancels one, and it does not look at what is  *)
(* playing by then.                                                        *)

TimerFires(i) ==
  /\ i \in DOMAIN timers
  /\ timers' = RemoveAt(timers, i)
  /\ engine' = [engine EXCEPT !.playing = FALSE]
  /\ Emit("EndFile")
  /\ owed' = owed - 1
  /\ UNCHANGED <<cmds, step, loop, mpv>>

----------------------------------------------------------------------------
(* The event loop.                                                         *)

\* Variants of TickFails: one has no limit, one does not count.
TickFailsForever ==
  /\ loop.at = "idle" /\ ~mpv.alive
  /\ loop' = [loop EXCEPT !.fails = @ + 1]
  /\ UNCHANGED <<cmds, step, engine, timers, mpv, events, owed>>
TickFailsUncounted ==
  /\ loop.at = "idle" /\ ~mpv.alive
  /\ UNCHANGED vars

\* The socket does not answer: the watchdog counts, and at the limit reports
\* an error and ends the loop.
TickFails ==
  /\ loop.at = "idle" /\ ~mpv.alive
  /\ \/ /\ loop.fails + 1 < FailLimit
        /\ loop' = [loop EXCEPT !.fails = @ + 1]
        /\ UNCHANGED events
     \/ /\ loop.fails + 1 = FailLimit
        /\ loop' = [loop EXCEPT !.fails = @ + 1, !.at = "ended"]
        /\ Emit("Error")
  /\ UNCHANGED <<cmds, step, engine, timers, mpv, owed>>

\* What eof_sent_for_file becomes when a new file is seen playing.
SentNow ==
  IF engine.file \notin {None, loop.sent} /\ engine.playing THEN None ELSE loop.sent

\* A pass begins: it keeps a copy of the state, and goes on to ask for
\* eof-reached if a video plays whose end it has not reported.
TickLooks ==
  /\ loop.at = "idle" /\ mpv.alive
  /\ loop' = [at    |-> IF engine.playing /\ ~engine.image /\ SentNow = None
                        THEN "asking" ELSE "idle",
              file  |-> engine.file,
              sent  |-> SentNow,
              fails |-> 0]
  /\ UNCHANGED <<cmds, step, engine, timers, mpv, events, owed>>

\* mpv answers eof-reached, or does not answer.
TickAsks ==
  /\ loop.at = "asking"
  /\ loop' = [loop EXCEPT !.at = IF mpv.alive /\ mpv.eof THEN "marking" ELSE "idle"]
  /\ UNCHANGED <<cmds, step, engine, timers, mpv, events, owed>>

\* A variant of TickReports that keeps no record of its report.
TickReportsAgain ==
  /\ loop.at = "marking"
  /\ loop' = [loop EXCEPT !.at = "idle"]
  /\ Emit("EndFile")
  /\ owed' = owed - 1
  /\ UNCHANGED <<cmds, step, engine, timers, mpv>>

\* The end of the file seen at the beginning of the pass is reported.
TickReports ==
  /\ loop.at = "marking"
  /\ loop' = [loop EXCEPT !.at = "idle", !.sent = loop.file]
  /\ engine' = [engine EXCEPT !.playing = FALSE]
  /\ Emit("EndFile")
  /\ owed' = owed - 1
  /\ UNCHANGED <<cmds, step, timers, mpv>>

----------------------------------------------------------------------------
(* mpv, and the users of the engine.                                       *)

\* mpv comes to the end of what it has open, an image after the second that is
\* its default, or is there still when it is unpaused: --keep-open holds it
\* there and pauses.  A file is longer than play() takes after loadfile, and
\* than one pass of the event loop.
MpvReachesEnd ==
  /\ mpv.alive /\ mpv.file # None /\ ~mpv.paused
  /\ step = None /\ loop.at # "asking"
  /\ mpv' = [mpv EXCEPT !.eof = TRUE, !.paused = TRUE]
  /\ UNCHANGED <<cmds, step, engine, timers, loop, events, owed>>

\* A file cannot be opened: loadfile has already succeeded, and mpv is idle.
MpvRejects ==
  /\ FilesMayBeBad /\ mpv.alive /\ mpv.file # None /\ ~mpv.eof
  /\ mpv' = [mpv EXCEPT !.file = None]
  /\ UNCHANGED <<cmds, step, engine, timers, loop, events, owed>>

MpvDies ==
  /\ MpvMayDie /\ mpv.alive
  /\ mpv' = [alive |-> FALSE, file |-> None, eof |-> FALSE, paused |-> FALSE]
  /\ UNCHANGED <<cmds, step, engine, timers, loop, events, owed>>

\* The coordinator sends a command.
Submit(c) ==
  /\ Len(cmds) < MaxCmds
  /\ c.op = "play" => owed < MaxOwed
  /\ cmds' = Append(cmds, c)
  /\ UNCHANGED <<step, engine, timers, loop, mpv, events, owed>>

\* The bridge forwards an event.
Forward ==
  /\ events # <<>>
  /\ events' = Tail(events)
  /\ UNCHANGED <<cmds, step, engine, timers, loop, mpv, owed>>

Init ==
  /\ cmds = <<>> /\ step = None /\ timers = <<>> /\ events = <<>> /\ owed = 0
  /\ engine = [file |-> None, playing |-> FALSE, image |-> FALSE]
  /\ loop = [at |-> "idle", file |-> None, sent |-> None, fails |-> 0]
  /\ mpv = [alive |-> TRUE, file |-> None, eof |-> FALSE, paused |-> FALSE]

Commands == CommandFails \/ PlayLoads \/ PlayStarts \/ Pause \/ Resume \/ Stop
Timers == \E i \in DOMAIN timers : TimerFires(i)
Ticks == TickFails \/ TickLooks \/ TickAsks \/ TickReports
Mpv == MpvReachesEnd \/ MpvRejects \/ MpvDies

\* Everything but the engine's users.
Inside == Commands \/ Timers \/ Ticks \/ Mpv

Next == Inside \/ Forward \/ \E c \in Command : Submit(c)

Spec == Init /\ [][Next]_vars

\* The tasks keep running, timers fire, and an unpaused file ends, though it
\* does not end in the middle of a pass.
InsideFairness ==
  /\ WF_vars(Commands) /\ WF_vars(Ticks) /\ SF_vars(MpvReachesEnd)
  /\ WF_vars(Timers)

FairSpec == Spec /\ InsideFairness /\ WF_vars(Forward)

----------------------------------------------------------------------------
TypeOK ==
  /\ cmds \in Seq(Command)
  /\ step \in Media \cup {None}
  /\ engine \in [file : Media \cup {None}, playing : BOOLEAN, image : BOOLEAN]
  /\ timers \in Seq(Images)
  /\ loop \in [at : {"idle", "asking", "marking", "ended"}, file : Media \cup {None},
               sent : Media \cup {None}, fails : 0..FailLimit]
  /\ mpv \in [alive : BOOLEAN, file : Media \cup {None}, eof : BOOLEAN, paused : BOOLEAN]
  /\ events \in Seq({"EndFile", "Error"})
  /\ owed \in Int

\* Between them the event loop and the timers never report more ends than
\* there were plays, however commands fall between the steps of a pass: a
\* playlist is not advanced twice by one file.
OneEndPerPlay == owed >= 0

\* Why OneEndPerPlay holds.  credit is what is owed for videos: every sleeping
\* timer is owed for an image.
credit == owed - Len(timers)
VideoUnreported == engine.file \in Media \ Images /\ loop.sent # engine.file
CreditCovers ==
  /\ credit >= 0
  /\ VideoUnreported => credit >= 1
  /\ loop.at = "marking" => credit >= 1
  /\ loop.at = "marking" /\ VideoUnreported /\ engine.file # loop.file => credit >= 2
\* A file that has ended is the one the state names; a pass that is asking saw
\* it, and it is a video; a pass that goes on has no end on record.
EndIsCurrent ==
  /\ engine.file \in Images => engine.image
  /\ mpv.eof => engine.file \in Media /\ mpv.file = engine.file /\ step = None
  /\ loop.at = "asking" /\ mpv.eof => loop.file = engine.file /\ engine.file \notin Images
  /\ loop.at \in {"asking", "marking"} => loop.sent = None
\* play() unpauses mpv before it records that the file plays, and then the
\* file mpv has open, if it could open one, is the one the state names.
LoadedFile ==
  /\ step # None => ~mpv.paused
  /\ mpv.file # None => mpv.file = (IF step = None THEN engine.file ELSE step)

\* The state says that something plays while mpv is paused only where mpv has
\* paused by itself at the end of a file: the tasks that write is_playing
\* cannot undo each other into that disagreement, and no command leaves it.
PlayingNotPaused == engine.playing /\ mpv.paused => mpv.eof

\* The watchdog notices that mpv has died and ends its polling with an error.
DeathNoticed == ~mpv.alive ~> loop.at = "ended"
=============================================================================
