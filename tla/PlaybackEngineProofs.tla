----------------------- MODULE PlaybackEngineProofs -----------------------
(***************************************************************************)
(* Proofs about PlaybackEngine, for any media, any watchdog limit and any  *)
(* capacity of its channels.                                               *)
(*                                                                         *)
(* The main result is OneEndPerPlay: the event loop and the image timers   *)
(* never report more ends than there were plays.  It is not inductive: a   *)
(* report spends one play, so wherever a report is still possible there    *)
(* must be a play to spend.  CreditCovers says so for a video whose end is *)
(* not on record and for a pass about to report, and EndIsCurrent that the *)
(* end a pass sees is of the file the pass saw.                            *)
(***************************************************************************)
EXTENDS PlaybackEngine, SequenceTheorems, TLAPS

IInv == TypeOK /\ CreditCovers /\ EndIsCurrent /\ PlayingNotPaused /\ LoadedFile

\* Removing one timer leaves one timer fewer.
LEMMA RemoveOne ==
  ASSUME NEW s \in Seq(Images), NEW i \in DOMAIN s
  PROVE  /\ RemoveAt(s, i) \in Seq(Images)
         /\ Len(RemoveAt(s, i)) = Len(s) - 1
<1>1. /\ i \in 1..Len(s) /\ Len(s) \in Nat
  OBVIOUS
<1>2. /\ SubSeq(s, 1, i - 1) \in Seq(Images) /\ Len(SubSeq(s, 1, i - 1)) = i - 1
      /\ SubSeq(s, i + 1, Len(s)) \in Seq(Images)
      /\ Len(SubSeq(s, i + 1, Len(s))) = Len(s) - i
  BY <1>1
<1>3. /\ RemoveAt(s, i) \in Seq(Images)
      /\ Len(RemoveAt(s, i)) = Len(SubSeq(s, 1, i - 1)) + Len(SubSeq(s, i + 1, Len(s)))
  BY <1>2, ConcatProperties DEF RemoveAt
<1>4. i \in Int /\ Len(s) \in Int
  BY <1>1
<1>5. (i - 1) + (Len(s) - i) = Len(s) - 1
  BY <1>4
<1>6. QED
  BY <1>2, <1>3, <1>5

\* Sending an event keeps the channel a channel of events.
LEMMA EmitType ==
  ASSUME TypeOK, NEW e \in {"EndFile", "Error"}, Emit(e)
  PROVE  events' \in Seq({"EndFile", "Error"})
BY DEF Emit, TypeOK

\* The initial state: nothing is owed and nothing plays.
LEMMA InitIInv == Init => IInv
BY EngineAssumption
   DEF Init, IInv, TypeOK, CreditCovers, credit, VideoUnreported, EndIsCurrent, PlayingNotPaused,
       LoadedFile

\* Handling a command keeps the invariant.
LEMMA CommandsKeep ==
  ASSUME IInv, Commands
  PROVE  IInv'
<1> USE DEF IInv
<1>1. ASSUME CommandFails PROVE IInv'
  <2>1. cmds' \in Seq(Command)
    BY <1>1 DEF CommandFails, TypeOK
  <2>2. QED
    BY <1>1, <2>1 DEF CommandFails, TypeOK, CreditCovers, credit, VideoUnreported,
                      EndIsCurrent, PlayingNotPaused, LoadedFile
<1>2. ASSUME NEW op, Next1(op) PROVE cmds' \in Seq(Command) /\ Head(cmds) \in Command
  BY <1>2 DEF Next1, TypeOK
<1>3. ASSUME PlayLoads PROVE IInv'
  <2>1. Head(cmds).media \in Media /\ cmds' \in Seq(Command)
    BY <1>2, <1>3 DEF PlayLoads, Next1, Command
  <2>2. mpv' = [mpv EXCEPT !.file = Head(cmds).media, !.eof = FALSE, !.paused = FALSE]
    BY <1>3 DEF PlayLoads
  <2>3. TypeOK'
    BY <1>3, <2>1, <2>2 DEF PlayLoads, TypeOK
  <2>4. mpv'.eof = FALSE /\ mpv'.paused = FALSE
    BY <2>2 DEF TypeOK
  <2>41. step' = Head(cmds).media /\ mpv'.file = Head(cmds).media
    BY <1>3, <2>2 DEF TypeOK, PlayLoads
  <2>5. CreditCovers' /\ EndIsCurrent' /\ PlayingNotPaused' /\ LoadedFile'
    BY <1>3, <2>4, <2>41 DEF PlayLoads, CreditCovers, credit, VideoUnreported, EndIsCurrent,
                      PlayingNotPaused, LoadedFile
  <2>6. QED
    BY <2>3, <2>5
<1>4. ASSUME PlayStarts PROVE IInv'
  <2>1. /\ step \in Media /\ step # None
        /\ engine' = [file |-> step, playing |-> TRUE, image |-> step \in Images]
        /\ timers' = IF step \in Images THEN Append(timers, step) ELSE timers
        /\ owed' = owed + 1
        /\ step' = None
        /\ UNCHANGED <<cmds, loop, mpv, events>>
    BY <1>4 DEF PlayStarts, TypeOK
  <2>2. ~mpv.eof
    BY <2>1 DEF EndIsCurrent
  <2>3. /\ timers' \in Seq(Images)
        /\ step \in Images => Len(timers') = Len(timers) + 1
        /\ step \notin Images => Len(timers') = Len(timers)
    BY <2>1 DEF TypeOK
  <2>4. TypeOK'
    BY <2>1, <2>3 DEF TypeOK
  <2>5. CreditCovers'
    <3>1. CASE step \in Images
      <4>1. credit' = credit /\ ~VideoUnreported'
        BY <2>1, <2>3, <3>1 DEF credit, VideoUnreported, TypeOK
      <4>2. QED
        BY <2>1, <4>1 DEF CreditCovers
    <3>2. CASE step \notin Images
      <4>1. credit' = credit + 1 /\ credit \in Int
        BY <2>1, <2>3, <3>2 DEF credit, TypeOK
      <4>2. QED
        BY <2>1, <4>1 DEF CreditCovers
    <3>3. QED
      BY <3>1, <3>2
  <2>6. EndIsCurrent'
    BY <2>1, <2>2 DEF EndIsCurrent
  <2>7. PlayingNotPaused' /\ LoadedFile'
    BY <2>1, EngineAssumption DEF PlayingNotPaused, LoadedFile
  <2>8. QED
    BY <2>4, <2>5, <2>6, <2>7
<1>5. ASSUME Pause PROVE IInv'
  <2>1. /\ cmds' \in Seq(Command)
        /\ mpv' = [mpv EXCEPT !.paused = TRUE]
        /\ engine' = [engine EXCEPT !.playing = FALSE]
        /\ step = None
        /\ UNCHANGED <<step, timers, loop, events, owed>>
    BY <1>2, <1>5 DEF Pause, Next1
  <2>2. TypeOK'
    BY <2>1 DEF TypeOK
  <2>3. engine'.file = engine.file /\ mpv'.file = mpv.file
    BY <2>1 DEF TypeOK
  <2>4. mpv'.eof = mpv.eof /\ engine'.playing = FALSE
    BY <2>1 DEF TypeOK
  <2>5. QED
    BY <2>1, <2>2, <2>3, <2>4
       DEF CreditCovers, credit, VideoUnreported, EndIsCurrent, PlayingNotPaused, LoadedFile
<1>6. ASSUME Resume PROVE IInv'
  <2>1. /\ cmds' \in Seq(Command)
        /\ mpv' = [mpv EXCEPT !.paused = FALSE]
        /\ engine' = [engine EXCEPT !.playing = TRUE]
        /\ step = None
        /\ UNCHANGED <<step, timers, loop, events, owed>>
    BY <1>2, <1>6 DEF Resume, Next1
  <2>2. TypeOK'
    BY <2>1 DEF TypeOK
  <2>3. engine'.file = engine.file /\ mpv'.file = mpv.file
    BY <2>1 DEF TypeOK
  <2>4. mpv'.eof = mpv.eof /\ mpv'.paused = FALSE
    BY <2>1 DEF TypeOK
  <2>5. QED
    BY <2>1, <2>2, <2>3, <2>4
       DEF CreditCovers, credit, VideoUnreported, EndIsCurrent, PlayingNotPaused, LoadedFile
<1>7. ASSUME Stop PROVE IInv'
  <2>1. /\ cmds' \in Seq(Command)
        /\ mpv' = [mpv EXCEPT !.file = None, !.eof = FALSE]
        /\ engine' = [engine EXCEPT !.file = None, !.playing = FALSE]
        /\ step = None
        /\ UNCHANGED <<step, timers, loop, events, owed>>
    BY <1>2, <1>7 DEF Stop, Next1
  <2>2. TypeOK'
    BY <2>1 DEF TypeOK
  <2>3. engine'.file = None /\ None \notin Media
    BY <2>1, EngineAssumption DEF TypeOK
  <2>4. mpv'.eof = FALSE /\ engine'.playing = FALSE /\ mpv'.file = None
    BY <2>1 DEF TypeOK
  <2>5. CreditCovers'
    BY <2>1, <2>3 DEF CreditCovers, credit, VideoUnreported, EndIsCurrent
  <2>6. QED
    BY <2>1, <2>2, <2>3, <2>4, <2>5, EngineAssumption
       DEF EndIsCurrent, PlayingNotPaused, LoadedFile
<1>8. QED
  BY <1>1, <1>3, <1>4, <1>5, <1>6, <1>7 DEF Commands

\* A timer that fires spends the play it was set for.
LEMMA TimersKeep ==
  ASSUME IInv, NEW i \in DOMAIN timers, TimerFires(i)
  PROVE  IInv'
<1> USE DEF IInv
<1>1. /\ timers' \in Seq(Images) /\ Len(timers') = Len(timers) - 1
      /\ engine' = [engine EXCEPT !.playing = FALSE]
      /\ events' \in Seq({"EndFile", "Error"})
      /\ owed' = owed - 1
      /\ UNCHANGED <<cmds, step, loop, mpv>>
  BY RemoveOne, EmitType DEF TimerFires, TypeOK
<1>2. TypeOK'
  <2>1. engine' \in [file : Media \cup {None}, playing : BOOLEAN, image : BOOLEAN]
    BY <1>1 DEF TypeOK
  <2>2. owed' \in Int
    BY <1>1 DEF TypeOK
  <2>3. QED
    BY <1>1, <2>1, <2>2 DEF TypeOK
<1>3. engine'.file = engine.file /\ credit' = credit
  BY <1>1 DEF TypeOK, credit
<1>4. engine'.playing = FALSE
  BY <1>1 DEF TypeOK
<1>5. VideoUnreported' <=> VideoUnreported
  BY <1>1, <1>3 DEF VideoUnreported
<1>6. CreditCovers'
  BY <1>1, <1>3, <1>5 DEF CreditCovers
<1>7. QED
  BY <1>1, <1>2, <1>3, <1>4, <1>6 DEF EndIsCurrent, PlayingNotPaused, LoadedFile

\* A pass of the event loop keeps the invariant.
LEMMA TicksKeep ==
  ASSUME IInv, Ticks
  PROVE  IInv'
<1> USE DEF IInv
<1>1. ASSUME TickFails PROVE IInv'
  <2>1. /\ loop' = [loop EXCEPT !.fails = @ + 1] \/ loop' = [loop EXCEPT !.fails = @ + 1, !.at = "ended"]
        /\ loop.fails + 1 <= FailLimit
        /\ events' \in Seq({"EndFile", "Error"})
        /\ UNCHANGED <<cmds, step, engine, timers, mpv, owed>>
    BY <1>1, EmitType, EngineAssumption DEF TickFails, TypeOK
  <2>2. TypeOK'
    <3>1. loop' \in [at : {"idle", "asking", "marking", "ended"}, file : Media \cup {None},
                     sent : Media \cup {None}, fails : 0..FailLimit]
      <4>1. loop.fails + 1 \in 0..FailLimit
        BY <2>1, EngineAssumption DEF TypeOK
      <4>2. CASE loop' = [loop EXCEPT !.fails = @ + 1]
        BY <4>1, <4>2 DEF TypeOK
      <4>3. CASE loop' = [loop EXCEPT !.fails = @ + 1, !.at = "ended"]
        BY <4>1, <4>3 DEF TypeOK
      <4>4. QED
        BY <2>1, <4>2, <4>3
    <3>2. QED
      BY <2>1, <3>1 DEF TypeOK
  <2>3. loop'.sent = loop.sent /\ loop'.at \in {loop.at, "ended"} /\ loop.at = "idle"
    BY <1>1, <2>1 DEF TypeOK, TickFails
  <2>4. QED
    BY <2>1, <2>2, <2>3
       DEF CreditCovers, credit, VideoUnreported, EndIsCurrent, PlayingNotPaused, LoadedFile
<1>2. ASSUME TickLooks PROVE IInv'
  <2>1. /\ SentNow \in Media \cup {None}
        /\ loop'.file = engine.file /\ loop'.sent = SentNow
        /\ loop'.at \in {"asking", "idle"}
        /\ loop'.at = "asking" => SentNow = None /\ ~engine.image
        /\ loop' \in [at : {"idle", "asking", "marking", "ended"}, file : Media \cup {None},
                      sent : Media \cup {None}, fails : 0..FailLimit]
        /\ UNCHANGED <<cmds, step, engine, timers, mpv, events, owed>>
    BY <1>2, EngineAssumption DEF TickLooks, SentNow, TypeOK
  <2>2. TypeOK'
    BY <2>1 DEF TypeOK
  <2>3. VideoUnreported' => VideoUnreported
    BY <2>1, EngineAssumption DEF VideoUnreported, SentNow
  <2>4. credit' = credit
    BY <2>1 DEF credit
  <2>5. CreditCovers'
    BY <2>1, <2>3, <2>4 DEF CreditCovers
  <2>6. QED
    BY <2>1, <2>2, <2>5 DEF EndIsCurrent, PlayingNotPaused, LoadedFile
<1>3. ASSUME TickAsks PROVE IInv'
  <2>1. /\ loop.at = "asking"
        /\ loop'.file = loop.file /\ loop'.sent = loop.sent
        /\ loop'.at \in {"idle", "marking"}
        /\ UNCHANGED <<cmds, step, engine, timers, mpv, events, owed>>
    BY <1>3 DEF TickAsks, TypeOK
  <2>2. loop'.at = "marking" => mpv.eof
    BY <1>3 DEF TickAsks, TypeOK
  <2>3. TypeOK'
    BY <1>3 DEF TickAsks, TypeOK
  <2>4. VideoUnreported' = VideoUnreported /\ credit' = credit
    BY <2>1 DEF VideoUnreported, credit
  <2>5. loop'.at = "marking" => VideoUnreported /\ engine.file = loop.file
    BY <2>1, <2>2, EngineAssumption DEF EndIsCurrent, VideoUnreported, TypeOK
  <2>6. CreditCovers'
    BY <2>1, <2>4, <2>5 DEF CreditCovers
  <2>7. QED
    BY <2>1, <2>3, <2>6 DEF EndIsCurrent, PlayingNotPaused, LoadedFile
<1>4. ASSUME TickReports PROVE IInv'
  <2>1. /\ loop.at = "marking"
        /\ loop'.sent = loop.file /\ loop'.at = "idle" /\ loop'.file = loop.file
        /\ engine' = [engine EXCEPT !.playing = FALSE]
        /\ owed' = owed - 1
        /\ events' \in Seq({"EndFile", "Error"})
        /\ UNCHANGED <<cmds, step, timers, mpv>>
    BY <1>4, EmitType DEF TickReports, TypeOK
  <2>2. TypeOK'
    <3>1. loop' \in [at : {"idle", "asking", "marking", "ended"}, file : Media \cup {None},
                     sent : Media \cup {None}, fails : 0..FailLimit]
      BY <1>4 DEF TickReports, TypeOK
    <3>2. engine' \in [file : Media \cup {None}, playing : BOOLEAN, image : BOOLEAN]
      BY <2>1 DEF TypeOK
    <3>3. owed' \in Int
      BY <2>1 DEF TypeOK
    <3>4. QED
      BY <2>1, <3>1, <3>2, <3>3 DEF TypeOK
  <2>3. engine'.file = engine.file /\ credit \in Int /\ credit' = credit - 1
    BY <2>1 DEF TypeOK, credit
  <2>4. engine'.playing = FALSE
    BY <2>1 DEF TypeOK
  <2>5. VideoUnreported' => VideoUnreported /\ engine.file # loop.file
    BY <2>1, <2>3, EngineAssumption DEF VideoUnreported, EndIsCurrent
  <2>6. CreditCovers'
    BY <2>1, <2>3, <2>5 DEF CreditCovers
  <2>7. QED
    BY <2>1, <2>2, <2>3, <2>4, <2>6 DEF EndIsCurrent, PlayingNotPaused, LoadedFile
<1>5. QED
  BY <1>1, <1>2, <1>3, <1>4 DEF Ticks

\* What mpv does by itself keeps the invariant.
LEMMA MpvKeep ==
  ASSUME IInv, Mpv
  PROVE  IInv'
<1> USE DEF IInv
<1>1. UNCHANGED <<cmds, step, engine, timers, loop, events, owed>>
  BY DEF Mpv, MpvReachesEnd, MpvRejects, MpvDies
<1>2. CreditCovers'
  BY <1>1 DEF CreditCovers, credit, VideoUnreported
<1>3. ASSUME MpvReachesEnd PROVE IInv'
  <2>1. mpv' = [mpv EXCEPT !.eof = TRUE, !.paused = TRUE]
    BY <1>3 DEF MpvReachesEnd
  <2>2. mpv'.file = mpv.file /\ mpv'.eof
    BY <2>1 DEF TypeOK
  <2>3. step = None /\ mpv.file \in Media /\ loop.at # "asking"
    BY <1>3 DEF MpvReachesEnd, TypeOK
  <2>4. engine.file = mpv.file
    BY <2>3, EngineAssumption DEF LoadedFile
  <2>5. TypeOK'
    BY <1>1, <2>1 DEF TypeOK
  <2>6. QED
    BY <1>1, <1>2, <2>2, <2>3, <2>4, <2>5 DEF EndIsCurrent, PlayingNotPaused, LoadedFile
<1>4. ASSUME MpvRejects PROVE IInv'
  <2>1. mpv' = [mpv EXCEPT !.file = None]
    BY <1>4 DEF MpvRejects
  <2>2. mpv'.eof = FALSE /\ ~mpv.eof /\ mpv'.paused = mpv.paused /\ mpv'.file = None
    BY <1>4, <2>1 DEF TypeOK, MpvRejects
  <2>3. TypeOK'
    BY <1>1, <2>1 DEF TypeOK
  <2>4. QED
    BY <1>1, <1>2, <2>2, <2>3 DEF EndIsCurrent, PlayingNotPaused, LoadedFile
<1>5. ASSUME MpvDies PROVE IInv'
  <2>1. mpv' = [alive |-> FALSE, file |-> None, eof |-> FALSE, paused |-> FALSE]
    BY <1>5 DEF MpvDies
  <2>2. mpv'.eof = FALSE /\ mpv'.paused = FALSE /\ mpv'.file = None
    BY <2>1 DEF TypeOK
  <2>3. TypeOK'
    BY <1>1, <2>1 DEF TypeOK
  <2>4. QED
    BY <1>1, <1>2, <2>2, <2>3 DEF EndIsCurrent, PlayingNotPaused, LoadedFile
<1>6. QED
  BY <1>3, <1>4, <1>5 DEF Mpv

\* Every step keeps the invariant.
LEMMA NextKeeps ==
  ASSUME IInv, [Next]_vars
  PROVE  IInv'
<1>1. ASSUME NEW c \in Command, Submit(c) PROVE IInv'
  <2>1. cmds' \in Seq(Command)
    BY <1>1 DEF Submit, IInv, TypeOK
  <2>2. QED
    BY <1>1, <2>1 DEF Submit, IInv, TypeOK, CreditCovers, credit, VideoUnreported,
                      EndIsCurrent, PlayingNotPaused, LoadedFile
<1>2. ASSUME Forward PROVE IInv'
  <2>1. events' \in Seq({"EndFile", "Error"})
    BY <1>2 DEF Forward, IInv, TypeOK
  <2>2. QED
    BY <1>2, <2>1 DEF Forward, IInv, TypeOK, CreditCovers, credit, VideoUnreported,
                      EndIsCurrent, PlayingNotPaused, LoadedFile
<1>3. ASSUME UNCHANGED vars PROVE IInv'
  BY <1>3 DEF vars, IInv, TypeOK, CreditCovers, credit, VideoUnreported,
              EndIsCurrent, PlayingNotPaused, LoadedFile
<1>4. QED
  BY <1>1, <1>2, <1>3, CommandsKeep, TimersKeep, TicksKeep, MpvKeep DEF Next, Inside, Timers

\* The invariant holds of every execution of the engine.
LEMMA AlwaysIInv == Spec => []IInv
BY InitIInv, NextKeeps, PTL DEF Spec

\* Type correctness: whatever order commands, passes, timers and failures of
\* mpv come in, the shared PlaybackState and both channels stay well formed.
THEOREM TypeCorrect == Spec => []TypeOK
BY AlwaysIInv, PTL DEF IInv

\* One EndFile per play(): the event loop and the image timers never report
\* more ends than there were plays.
THEOREM EndsCorrect == Spec => []OneEndPerPlay
<1>1. IInv => OneEndPerPlay
  BY DEF IInv, TypeOK, CreditCovers, credit, OneEndPerPlay
<1>2. QED
  BY <1>1, AlwaysIInv, PTL

\* is_playing and mpv's pause property contradict each other only at the end of
\* a file, where mpv pauses by itself, although three tasks write the one, and
\* commands and mpv the other.
THEOREM PauseCorrect == Spec => []PlayingNotPaused
BY AlwaysIInv, PTL DEF IInv
=============================================================================
