----------------------- MODULE ClientPlaybackProofs -----------------------
(***************************************************************************)
(* What holds of the whole client.  It implements the coordinator's        *)
(* specification: whatever the engine, mpv, the cache and the bridge do,   *)
(* the coordinator sees its own commands taken in order and its own        *)
(* messages.  It implements the engine's as well: the coordinator is one   *)
(* of the callers the engine allows for, and no channel between them       *)
(* overflows.  What is proved of each by itself is therefore true of both  *)
(* together; and once nothing is under way the screen shows what the       *)
(* coordinator believes is on.  With one list, no end is taken before it   *)
(* has come.                                                               *)
(***************************************************************************)
EXTENDS ClientPlayback, TLAPS

\* The engine touches of the coordinator's world only the head of the command
\* channel.
LEMMA EngineStepTakes ==
  ASSUME EngineStep
  PROVE  C!EngineTakes \/ UNCHANGED C!vars
<1>1. UNCHANGED coordinatorVars
  BY DEF EngineStep
<1>2. \/ cmds # <<>> /\ cmds' = Tail(cmds)
      \/ cmds' = cmds
  BY DEF EngineStep, E!Inside, E!Commands, E!CommandFails, E!PlayLoads, E!PlayStarts,
         E!Pause, E!Resume, E!Stop, E!Next1, E!Timers, E!TimerFires, E!Ticks, E!TickFails,
         E!TickLooks, E!TickAsks, E!TickReports, E!Mpv, E!MpvReachesEnd, E!MpvRejects, E!MpvDies
<1>3. QED
  BY <1>1, <1>2 DEF coordinatorVars, C!EngineTakes, C!vars

\* Every step of the client is a step of the coordinator's specification or
\* leaves its variables alone.
LEMMA StepImplements ==
  ASSUME [Next]_vars
  PROVE  [C!Next]_(C!vars)
<1>1. CASE CoordinatorStep
  BY <1>1 DEF CoordinatorStep, C!Next, C!OtherMessage
<1>2. CASE CacheStep
  BY <1>2 DEF CacheStep, C!Next, C!Beside
<1>3. CASE TakesEvent
  BY <1>3 DEF TakesEvent, C!Next, C!OtherMessage
<1>4. CASE EngineStep
  BY <1>4, EngineStepTakes DEF C!Next, C!Beside
<1>5. CASE Bridge
  BY <1>5 DEF Bridge, E!Forward, coordinatorVars, C!vars
<1>6. CASE UNCHANGED vars
  BY <1>6 DEF vars, coordinatorVars, C!vars
<1>7. QED
  BY <1>1, <1>2, <1>3, <1>4, <1>5, <1>6 DEF Next

\* Every behaviour of the client is a behaviour of the coordinator.
THEOREM ClientImplementsCoordinator == Spec => ImplementsCoordinator
<1>1. Init => C!Init
  BY DEF Init
<1>2. [Next]_vars => [C!Next]_(C!vars)
  BY StepImplements
<1>3. QED
  BY <1>1, <1>2, PTL DEF Spec, ImplementsCoordinator, C!Spec

\* What is proved of the coordinator holds in the whole client: the reported
\* media is the one the queue stands on, the active list is pinned, and at most
\* one playback row is open on the server.
THEOREM ClientStateCorrect ==
  Spec => [](C!PositionNamesCurrent /\ C!PinsCoverQueue /\ C!NoOrphanRow)
<1>1. C!CoordinatorAssumption
  BY ClientAssumption
<1>2. C!Spec => []C!PositionNamesCurrent
  BY <1>1, C!PositionCorrect
<1>3. C!Spec => []C!PinsCoverQueue
  BY <1>1, C!PinsCorrect
<1>4. C!Spec => []C!NoOrphanRow
  BY <1>1, C!SessionsCorrect
<1>5. QED
  BY <1>2, <1>3, <1>4, ClientImplementsCoordinator, PTL DEF ImplementsCoordinator
----------------------------------------------------------------------------
(* The client implements the engine's specification as well.  What has to  *)
(* be shown is that the coordinator sends no command into a full channel   *)
(* and no Play beyond the bound that the engine's specification has.       *)

\* Whether a handler of the coordinator waits, and whether play() runs.
Waits == IF pc = C!Idle THEN 0 ELSE 1
Loading == IF step = None THEN 0 ELSE 1

\* Commands sent or held back by a wait, plays begun and not reported ended,
\* and ends on their way to the coordinator: of each may come one of the next.
Sends == Len(cmds) + Waits
Plays == owed + Loading
Ends == Len(events) + Len(inbox)

\* A handler that waits has its place in the command channel.  As long as mpv
\* runs nothing under way is multiplied; once it is dead nothing is played.
Bounded ==
  /\ inbox \in Seq({"EndFile", "Error"})
  /\ Sends <= MaxCmds
  /\ Plays <= MaxOwed + MaxCmds
  /\ mpv.alive => Sends + Plays + Ends <= MaxOwed + MaxCmds

IInv == C!IInv /\ E!IInv /\ Bounded

\* The numbers, as far as the arithmetic below needs them.
LEMMA Numbers ==
  ASSUME IInv
  PROVE  /\ MaxOwed \in Int /\ MaxCmds \in Int
         /\ owed \in Int /\ Len(cmds) \in Int /\ Len(events) \in Int /\ Len(inbox) \in Int
         /\ Waits \in Int /\ Loading \in Int /\ Sends \in Int /\ Plays \in Int /\ Ends \in Int
         /\ 0 <= Ends /\ owed <= Plays /\ Len(cmds) <= Sends /\ Waits <= 1
         /\ cmds # <<>> => 1 <= Sends
<1>1. MaxOwed \in Int /\ MaxCmds \in Int
  BY ClientAssumption DEF C!CoordinatorAssumption
<1>2. /\ owed \in Int /\ Len(cmds) \in Int /\ Len(events) \in Int /\ Len(inbox) \in Int
      /\ 0 <= Len(events) /\ 0 <= Len(inbox)
      /\ cmds # <<>> => 1 <= Len(cmds)
  BY DEF IInv, C!IInv, C!TypeOK, E!IInv, E!TypeOK, Bounded
<1>3. Waits \in Int /\ Loading \in Int /\ 0 <= Waits /\ 0 <= Loading /\ Waits <= 1
  BY DEF Waits, Loading
<1>4. /\ Sends \in Int /\ Len(cmds) <= Sends
      /\ cmds # <<>> => 1 <= Sends
  BY <1>2, <1>3 DEF Sends
<1>5. Plays \in Int /\ owed <= Plays
  BY <1>2, <1>3 DEF Plays
<1>6. Ends \in Int /\ 0 <= Ends
  BY <1>2 DEF Ends
<1>7. QED
  BY <1>1, <1>2, <1>3, <1>4, <1>5, <1>6

\* A handler of the coordinator is for the engine at most one command more.
LEMMA HandlerSubmits ==
  ASSUME IInv, C!IInv', C!Answers, UNCHANGED engineVars,
         \/ C!Waited
         \/ pc = C!Idle /\ Len(cmds) < MaxCmds
  PROVE  /\ (\E c \in E!Command : E!Submit(c)) \/ UNCHANGED E!vars
         /\ Sends' <= MaxCmds
         /\ Sends' <= Sends \/ (~C!Waited /\ Sends' = Sends + 1)
<1> USE Numbers
<1>1. C!Waited => Waits = 1
  <2>1. C!Waited => pc.at \in {"persist", "slot", "pin", "downloading", "waiting"}
    BY DEF C!Waited, C!PersistLast, C!PersistSlot, C!PinAndStart, C!DownloadsDone, C!WaitEnds,
           C!BatchItem
  <2>2. C!Idle.at = "idle"
    BY DEF C!Idle
  <2>3. QED
    BY <2>1, <2>2 DEF Waits
<1>2. pc = C!Idle => Waits = 0
  BY DEF Waits
<1>3. Len(cmds) < MaxCmds /\ Len(cmds) + Waits <= MaxCmds
  BY <1>1 DEF IInv, Bounded, Sends
<1>4. Waits' \in {0, 1}
  BY DEF Waits
<1>5. CASE cmds' = cmds
  <2>1. UNCHANGED E!vars
    BY <1>5 DEF engineVars, E!vars
  <2>2. /\ Sends' <= MaxCmds
        /\ Sends' <= Sends \/ (~C!Waited /\ Sends' = Sends + 1)
    BY <1>1, <1>2, <1>3, <1>4, <1>5 DEF Sends
  <2>3. QED
    BY <2>1, <2>2
<1>6. ASSUME NEW c, cmds' = Append(cmds, c), pc' = C!Idle
      PROVE  /\ \E d \in E!Command : E!Submit(d)
             /\ Waits' = 0 /\ Len(cmds') = Len(cmds) + 1
  <2>1. cmds' \in Seq(C!Command) /\ cmds \in Seq(C!Command)
    BY DEF IInv, C!IInv, C!TypeOK
  <2>2. Len(cmds') = Len(cmds) + 1 /\ cmds'[Len(cmds')] = c
    BY <1>6, <2>1
  <2>3. c \in C!Command
    BY <2>1, <2>2
  <2>4. c \in E!Command
    BY <2>3 DEF C!Command, E!Command
  <2>5. owed < MaxOwed + MaxCmds + 1
    BY DEF IInv, Bounded
  <2>6. E!Submit(c)
    BY <1>3, <1>6, <2>5 DEF E!Submit, engineVars
  <2>7. QED
    BY <1>6, <2>2, <2>4, <2>6 DEF Waits
<1>7. CASE \E c : pc' = C!Idle /\ cmds' = Append(cmds, c)
  <2>1. /\ \E d \in E!Command : E!Submit(d)
        /\ Waits' = 0 /\ Len(cmds') = Len(cmds) + 1
    BY <1>6, <1>7
  <2>2. /\ Sends' <= MaxCmds
        /\ Sends' <= Sends \/ (~C!Waited /\ Sends' = Sends + 1)
    BY <1>1, <1>2, <1>3, <2>1 DEF Sends
  <2>3. QED
    BY <2>1, <2>2
<1>8. QED
  BY <1>5, <1>7 DEF C!Answers

\* A message is taken when no handler waits and the channel has room.
LEMMA TakesMessage ==
  ASSUME C!ServerMessage \/ C!OtherMessage
  PROVE  pc = C!Idle /\ Len(cmds) < MaxCmds
BY DEF C!ServerMessage, C!OtherMessage, C!Takes, C!PlaylistAssigned, C!PlaylistUpdated,
  C!PlaylistInterrupt, C!PlaylistResume, C!PlaylistStop, C!Reload, C!Pause, C!Resume, C!Skip,
  C!Previous, C!MediaFinished, C!PlaybackError, C!TryOfflineRestore, C!OfflineScheduleSwitch

\* Every step of the client is one of the engine's specification or leaves its
\* variables alone, and keeps what has been promised of the numbers.
LEMMA StepSubmits ==
  ASSUME IInv, C!IInv', [Next]_vars
  PROVE  [E!Next]_(E!vars)
<1>1. CASE CoordinatorStep
  <2>1. UNCHANGED engineVars
    BY <1>1 DEF CoordinatorStep
  <2>2. C!ServerMessage \/ C!OtherMessage \/ C!Waited
    BY <1>1 DEF CoordinatorStep, C!OtherMessage
  <2>3. C!Answers
    BY <2>2, C!HandlersAnswer, ClientAssumption DEF IInv
  <2>4. C!Waited \/ (pc = C!Idle /\ Len(cmds) < MaxCmds)
    BY <2>2, TakesMessage
  <2>5. QED
    BY <2>1, <2>3, <2>4, HandlerSubmits DEF E!Next
<1>2. CASE CacheStep
  BY <1>2, C!BesideLeaves, ClientAssumption DEF CacheStep, engineVars, E!vars
<1>3. CASE TakesEvent
  <2>1. C!MediaFinished \/ C!PlaybackError
    BY <1>3 DEF TakesEvent
  <2>2. pc = C!Idle /\ Len(cmds) < MaxCmds
    BY <2>1 DEF C!MediaFinished, C!PlaybackError, C!Takes
  <2>3. C!Answers
    BY <2>1, C!HandlersAnswer, ClientAssumption DEF IInv, C!OtherMessage
  <2>4. QED
    BY <1>3, <2>2, <2>3, HandlerSubmits DEF TakesEvent, E!Next
<1>4. CASE EngineStep
  BY <1>4 DEF EngineStep, E!Next
<1>5. CASE Bridge
  BY <1>5 DEF Bridge, E!Next
<1>6. CASE UNCHANGED vars
  BY <1>6 DEF vars, engineVars, E!vars
<1>7. QED
  BY <1>1, <1>2, <1>3, <1>4, <1>5, <1>6 DEF Next
\* Appending to a channel makes it one longer, taking from it one shorter.
LEMMA Channels ==
  ASSUME NEW S, NEW s \in Seq(S), NEW e
  PROVE  /\ Len(Append(s, e)) = Len(s) + 1
         /\ s # <<>> => Len(Tail(s)) = Len(s) - 1 /\ Tail(s) \in Seq(S)
OBVIOUS

\* What the engine does moves what is under way and adds nothing to it, except
\* for the one error of a dead mpv.
LEMMA EngineKeepsBounded ==
  ASSUME IInv, EngineStep
  PROVE  Bounded'
<1>1. UNCHANGED <<pc, inbox>> /\ Waits' = Waits /\ Len(inbox') = Len(inbox)
  BY DEF EngineStep, coordinatorVars, Waits
<1>2. /\ Sends <= MaxCmds
      /\ Plays <= MaxOwed + MaxCmds
      /\ mpv.alive => Sends + Plays + Ends <= MaxOwed + MaxCmds
  BY DEF IInv, Bounded
<1>3. /\ cmds \in Seq(C!Command) /\ events \in Seq({"EndFile", "Error"})
      /\ mpv \in [alive : BOOLEAN, file : Media \cup {None}, eof : BOOLEAN, paused : BOOLEAN]
  BY DEF IInv, C!IInv, C!TypeOK, E!IInv, E!TypeOK
<1>4. cmds # <<>> /\ cmds' = Tail(cmds) => Sends' = Sends - 1
  <2>1. ASSUME cmds # <<>>, cmds' = Tail(cmds) PROVE Len(cmds') = Len(cmds) - 1
    BY <1>3, <2>1, Channels
  <2>2. QED
    BY <1>1, <2>1, Numbers DEF Sends
<1>5. ASSUME NEW e, E!Emit(e) PROVE Ends' = Ends + 1
  <2>1. Len(events') = Len(events) + 1
    BY <1>3, <1>5, Channels DEF E!Emit
  <2>2. QED
    BY <1>1, <2>1, Numbers DEF Ends
<1>6. /\ cmds' = cmds => Sends' = Sends
      /\ events' = events => Ends' = Ends
  BY <1>1 DEF Sends, Ends
<1>7. /\ owed' = owed /\ step' = step => Plays' = Plays
      /\ owed' = owed - 1 /\ step' = step => Plays' = Plays - 1
  BY Numbers DEF Plays, Loading
<1>8. inbox' \in Seq({"EndFile", "Error"})
  BY <1>1 DEF IInv, Bounded
<1> USE <1>8, Numbers
<1>11. ASSUME E!CommandFails \/ E!Pause \/ E!Resume \/ E!Stop PROVE Bounded'
  <2>1. Sends' = Sends - 1 /\ Plays' = Plays /\ Ends' = Ends
    BY <1>4, <1>6, <1>7, <1>11 DEF E!CommandFails, E!Pause, E!Resume, E!Stop, E!Next1
  <2>2. mpv'.alive = mpv.alive
    BY <1>3, <1>11 DEF E!CommandFails, E!Pause, E!Resume, E!Stop
  <2>3. QED
    BY <1>2, <2>1, <2>2, SMTT(30) DEF Bounded
<1>12. ASSUME E!PlayLoads PROVE Bounded'
  <2>1. Sends' = Sends - 1 /\ Ends' = Ends /\ mpv.alive /\ 1 <= Sends
    BY <1>4, <1>6, <1>12 DEF E!PlayLoads, E!Next1
  <2>2. owed' = owed /\ Loading = 0 /\ Loading' \in {0, 1}
    BY <1>12 DEF E!PlayLoads, E!Next1, Loading
  <2>3. Plays' = Plays \/ Plays' = Plays + 1
    BY <2>2 DEF Plays
  <2>4. Plays' \in Int /\ Plays' <= Plays + 1
    BY <2>3
  <2>5. Sends + Plays + Ends <= MaxOwed + MaxCmds
    BY <1>2, <2>1
  <2>6. Plays' <= MaxOwed + MaxCmds
    BY <2>1, <2>4, <2>5, SMTT(30)
  <2>7. Sends' + Plays' + Ends' <= MaxOwed + MaxCmds
    <3>1. Sends' + Plays' <= Sends + Plays
      BY <2>1, <2>4, SMTT(30)
    <3>2. Sends' + Plays' \in Int /\ Sends + Plays \in Int
      BY <2>1, <2>4
    <3>3. Sends' + Plays' + Ends <= Sends + Plays + Ends
      BY <3>1, <3>2
    <3>4. QED
      BY <2>1, <2>5, <3>2, <3>3, SMTT(30)
  <2>8. QED
    BY <1>2, <2>1, <2>6, <2>7 DEF Bounded
<1>13. ASSUME E!PlayStarts PROVE Bounded'
  <2>1. Loading = 1 /\ Loading' = 0 /\ owed' = owed + 1
    BY <1>13 DEF E!PlayStarts, Loading
  <2>2. Sends' = Sends /\ Ends' = Ends /\ mpv'.alive = mpv.alive
    BY <1>6, <1>13 DEF E!PlayStarts
  <2>3. Plays' = Plays
    BY <2>1 DEF Plays
  <2>4. QED
    BY <1>2, <2>2, <2>3 DEF Bounded
<1>14. ASSUME E!Timers \/ E!TickReports PROVE Bounded'
  <2>1. Sends' = Sends /\ Plays' = Plays - 1 /\ Ends' = Ends + 1 /\ mpv'.alive = mpv.alive
    BY <1>5, <1>6, <1>7, <1>14 DEF E!Timers, E!TimerFires, E!TickReports
  <2>2. Plays' <= Plays /\ Sends' + Plays' + Ends' = Sends + Plays + Ends
    BY <2>1, SMTT(30)
  <2>3. Plays' <= MaxOwed + MaxCmds
    BY <1>2, <2>1
  <2>4. QED
    BY <1>2, <2>1, <2>2, <2>3 DEF Bounded
<1>15. ASSUME E!TickFails PROVE Bounded'
  <2>1. Sends' = Sends /\ Plays' = Plays /\ ~mpv'.alive
    BY <1>6, <1>7, <1>15 DEF E!TickFails
  <2>2. QED
    BY <1>2, <2>1 DEF Bounded
<1>16. ASSUME E!TickLooks \/ E!TickAsks \/ E!Mpv PROVE Bounded'
  <2>1. Sends' = Sends /\ Plays' = Plays /\ Ends' = Ends
    BY <1>6, <1>7, <1>16
       DEF E!TickLooks, E!TickAsks, E!Mpv, E!MpvReachesEnd, E!MpvRejects, E!MpvDies
  <2>2. mpv'.alive => mpv.alive
    BY <1>3, <1>16 DEF E!TickLooks, E!TickAsks, E!Mpv, E!MpvReachesEnd, E!MpvRejects, E!MpvDies
  <2>3. QED
    BY <1>2, <2>1, <2>2 DEF Bounded
<1>17. QED
  BY <1>11, <1>12, <1>13, <1>14, <1>15, <1>16 DEF EngineStep, E!Inside, E!Commands, E!Ticks

\* A handler is let in by MaxOwed or takes an event for the command it sends.
LEMMA StepKeepsBounded ==
  ASSUME IInv, C!IInv', [Next]_vars
  PROVE  Bounded'
<1> USE Numbers
<1>1. /\ Sends <= MaxCmds
      /\ Plays <= MaxOwed + MaxCmds
      /\ mpv.alive => Sends + Plays + Ends <= MaxOwed + MaxCmds
  BY DEF IInv, Bounded
<1>2. inbox \in Seq({"EndFile", "Error"}) /\ events \in Seq({"EndFile", "Error"})
  BY DEF IInv, Bounded, E!IInv, E!TypeOK
<1>3. /\ UNCHANGED engineVars => UNCHANGED <<Plays, mpv, events>>
      /\ UNCHANGED <<events, inbox>> => Ends' = Ends
  BY DEF engineVars, Plays, Loading, Ends
<1>4. pc = C!Idle => Sends = Len(cmds)
  BY DEF Sends, Waits
<1>5. Sends' \in Int
  BY DEF Sends, Waits, C!IInv, C!TypeOK
<1>6. CASE CoordinatorStep
  <2>1. UNCHANGED engineVars /\ UNCHANGED <<Plays, mpv, Ends, inbox>>
    BY <1>3, <1>6 DEF CoordinatorStep
  <2>2. C!ServerMessage \/ C!OtherMessage \/ C!Waited
    BY <1>6 DEF CoordinatorStep, C!OtherMessage
  <2>3. C!Answers
    BY <2>2, C!HandlersAnswer, ClientAssumption DEF IInv
  <2>4. CASE C!Waited
    <3>1. Sends' <= Sends /\ Sends' <= MaxCmds
      BY <2>1, <2>3, <2>4, HandlerSubmits
    <3>2. mpv.alive => Sends' + Plays + Ends <= MaxOwed + MaxCmds
      BY <1>1, <1>5, <3>1, SMTT(30)
    <3>3. QED
      BY <1>1, <1>2, <2>1, <3>1, <3>2 DEF Bounded
  <2>5. CASE ~C!Waited
    <3>1. mpv.alive => owed + Len(events) + Len(inbox) < MaxOwed
      BY <1>6, <2>5 DEF CoordinatorStep
    <3>2. Loading <= 1
      BY DEF Loading
    <3>3. mpv.alive => Plays + Ends <= MaxOwed
      BY <3>1, <3>2, SMTT(30) DEF Plays, Ends
    <3>4. Sends' <= MaxCmds
      BY <2>1, <2>2, <2>3, <2>5, HandlerSubmits, TakesMessage
    <3>5. mpv.alive => Sends' + Plays + Ends <= MaxOwed + MaxCmds
      BY <1>5, <3>3, <3>4
    <3>6. QED
      BY <1>1, <1>2, <2>1, <3>4, <3>5 DEF Bounded
  <2>6. QED
    BY <2>4, <2>5
<1>7. CASE CacheStep
  <2>1. UNCHANGED <<Plays, mpv, Ends, inbox>>
    BY <1>3, <1>7 DEF CacheStep
  <2>2. Sends' = Sends
    BY <1>7, C!BesideLeaves, ClientAssumption DEF CacheStep, Sends, Waits
  <2>3. QED
    BY <1>1, <1>2, <2>1, <2>2 DEF Bounded
<1>8. CASE TakesEvent
  <2>1. C!MediaFinished \/ C!PlaybackError
    BY <1>8 DEF TakesEvent
  <2>2. pc = C!Idle /\ Len(cmds) < MaxCmds
    BY <2>1 DEF C!MediaFinished, C!PlaybackError, C!Takes
  <2>3. C!Answers
    BY <2>1, C!HandlersAnswer, ClientAssumption DEF IInv, C!OtherMessage
  <2>4. UNCHANGED engineVars /\ UNCHANGED <<Plays, mpv, events>>
    BY <1>3, <1>8 DEF TakesEvent
  <2>5. Sends' <= MaxCmds /\ Sends' <= Sends + 1
    BY <1>5, <2>2, <2>3, <2>4, HandlerSubmits
  <2>6. inbox # <<>> /\ inbox' = Tail(inbox)
    BY <1>8 DEF TakesEvent
  <2>7. inbox' \in Seq({"EndFile", "Error"}) /\ Len(inbox') = Len(inbox) - 1
    BY <1>2, <2>6, Channels
  <2>8. Ends' = Ends - 1
    BY <2>4, <2>7 DEF Ends
  <2>9. Sends' + Plays' + Ends' <= Sends + Plays + Ends
    BY <1>5, <2>4, <2>5, <2>8
  <2>10. mpv'.alive => Sends' + Plays' + Ends' <= MaxOwed + MaxCmds
    <3>1. mpv'.alive = mpv.alive
      BY <2>4
    <3>2. Sends' + Plays' + Ends' \in Int /\ Sends + Plays + Ends \in Int
      BY <1>5, <2>4, <2>8
    <3>3. QED
      BY <1>1, <2>9, <3>1, <3>2
  <2>11. QED
    BY <1>1, <2>4, <2>5, <2>7, <2>10 DEF Bounded
<1>9. CASE Bridge
  <2>1. UNCHANGED <<Plays, mpv, Sends>>
    BY <1>9 DEF Bridge, E!Forward, coordinatorVars, Plays, Loading, Sends, Waits
  <2>2. /\ events # <<>> /\ events' = Tail(events)
        /\ inbox' = Append(inbox, Head(events))
    BY <1>9 DEF Bridge, E!Forward
  <2>3. Len(events') = Len(events) - 1 /\ Len(inbox') = Len(inbox) + 1
    BY <1>2, <2>2, Channels
  <2>4. Ends' = Ends
    BY <2>3 DEF Ends
  <2>5. inbox' \in Seq({"EndFile", "Error"})
    BY <1>2, <2>2
  <2>6. QED
    BY <1>1, <2>1, <2>4, <2>5 DEF Bounded
<1>10. CASE UNCHANGED vars
  BY <1>1, <1>2, <1>10 DEF vars, coordinatorVars, engineVars, Bounded, Sends, Plays, Ends, Waits, Loading
<1>11. QED
  BY <1>6, <1>7, <1>8, <1>9, <1>10, EngineKeepsBounded DEF Next

\* All three hold at first, and every step keeps them.
LEMMA InitIInv == Init => IInv
<1> SUFFICES ASSUME Init PROVE IInv
  OBVIOUS
<1>1. C!IInv /\ E!IInv
  BY C!InitIInv, E!InitIInv, ClientAssumption DEF Init
<1>2. MaxOwed \in Nat /\ MaxCmds \in Nat
  BY ClientAssumption DEF C!CoordinatorAssumption
<1>3. cmds = <<>> /\ events = <<>> /\ inbox = <<>> /\ owed = 0 /\ Waits = 0 /\ Loading = 0
  BY DEF Init, C!Init, E!Init, Waits, Loading
<1>4. Bounded
  BY <1>2, <1>3 DEF Bounded, Sends, Plays, Ends
<1>5. QED
  BY <1>1, <1>4 DEF IInv

LEMMA NextKeeps ==
  ASSUME IInv, [Next]_vars
  PROVE  IInv' /\ [E!Next]_(E!vars)
<1>1. [C!Next]_(C!vars)
  BY StepImplements
<1>2. C!IInv'
  BY <1>1, C!NextKeeps, ClientAssumption DEF IInv, C!Keeps
<1>3. [E!Next]_(E!vars)
  BY <1>2, StepSubmits
<1>4. E!IInv'
  BY <1>3, E!NextKeeps, ClientAssumption DEF IInv
<1>5. QED
  BY <1>2, <1>3, <1>4, StepKeepsBounded DEF IInv

LEMMA AlwaysIInv == Spec => []IInv
<1>1. IInv /\ [Next]_vars => IInv'
  BY NextKeeps
<1>2. QED
  BY <1>1, InitIInv, PTL DEF Spec

\* Every behaviour of the client is a behaviour of the engine: no command is
\* sent into a full channel, and the end of a play brings at most one more.
THEOREM ClientImplementsEngine == Spec => ImplementsEngine
<1>1. Init => E!Init
  BY DEF Init
<1>2. IInv /\ [Next]_vars => [E!Next]_(E!vars)
  BY NextKeeps
<1>3. QED
  BY <1>1, <1>2, AlwaysIInv, PTL DEF Spec, ImplementsEngine, E!Spec

\* What is proved of the engine holds in the whole client: one EndFile at most
\* for each play, and a state that never says that a paused mpv plays.
THEOREM ClientPlaysCorrect == Spec => [](E!OneEndPerPlay /\ E!PlayingNotPaused)
<1>1. E!EngineAssumption
  BY ClientAssumption
<1>2. E!Spec => []E!OneEndPerPlay
  BY <1>1, E!EndsCorrect
<1>3. E!Spec => []E!PlayingNotPaused
  BY <1>1, E!PauseCorrect
<1>4. QED
  BY <1>2, <1>3, ClientImplementsEngine, PTL DEF ImplementsEngine
----------------------------------------------------------------------------
(* What is on the screen.                                                  *)

\* The media that is or will be on the screen after the first n commands that
\* wait, if the last of them says something about it; 0 is what the engine has
\* open or is about to.
Showing(n) ==
  IF n = 0 THEN IF step = None THEN engine.file ELSE step
  ELSE IF cmds[n].op = "play" THEN cmds[n].media ELSE None

\* A later command says something else.
Decides(c) == c.op \in {"play", "stop"}
Overridden(n) == \E k \in (n + 1)..Len(cmds) : Decides(cmds[k])

\* When all commands have been taken, the current media is on the screen, or
\* nothing.  While the coordinator waits for the file of what has just become
\* current, the one before may still be there.
Headed ==
  mpv.alive /\ pc.at # "waiting" =>
    \A n \in 0..Len(cmds) : Overridden(n) \/ Showing(n) \in {None, current}

\* A handler's answer brings the screen to what it has made current.
LEMMA AnswerKeepsHeaded ==
  ASSUME IInv, C!Answers, UNCHANGED engineVars, Headed \/ current = None
  PROVE  /\ Headed' \/ current' = None
         /\ Headed /\ (current' = None /\ cmds' = cmds => current = None) => Headed'
<1>1. UNCHANGED <<step, engine, mpv>> /\ cmds \in Seq(C!Command)
  BY DEF engineVars, IInv, C!IInv, C!TypeOK
<1>2. CASE cmds' = cmds
  <2>1. CASE pc'.at = "waiting"
    BY <2>1 DEF Headed
  <2>2. ASSUME current' = current, pc.at # "waiting", Headed PROVE Headed'
    BY <1>1, <1>2, <2>2 DEF Headed, Overridden, Showing
  <2>3. CASE current' \in {None, current} /\ pc.at # "waiting"
    BY <1>2, <2>2, <2>3
  <2>4. ASSUME NEW c PROVE cmds # Append(cmds, c)
    <3>1. Len(Append(cmds, c)) = Len(cmds) + 1 /\ Len(cmds) \in Nat
      BY <1>1
    <3>2. QED
      BY <3>1
  <2>5. QED
    BY <1>2, <2>1, <2>3, <2>4 DEF C!Answers
<1>3. ASSUME NEW c, cmds' = Append(cmds, c)
      PROVE  /\ Len(cmds') = Len(cmds) + 1 /\ cmds'[Len(cmds')] = c
             /\ \A n \in 1..Len(cmds) : cmds'[n] = cmds[n]
             /\ Len(cmds) \in Nat
  BY <1>1, <1>3
<1>4. ASSUME NEW c, cmds' = Append(cmds, c), c \in {C!Play(current'), C!Op("stop")}
      PROVE  Headed'
  <2>1. Decides(c) /\ (c.op = "play" => c.media = current')
    BY <1>4 DEF C!Play, C!Op, Decides
  <2>2. ASSUME NEW n \in 0..Len(cmds') PROVE Overridden(n)' \/ Showing(n)' \in {None, current'}
    <3>1. CASE n = Len(cmds')
      <4>1. n # 0 /\ cmds'[n] = c
        BY <1>3, <1>4, <3>1
      <4>2. QED
        BY <2>1, <4>1 DEF Showing
    <3>2. CASE n # Len(cmds')
      <4>1. Len(cmds') \in (n + 1)..Len(cmds') /\ Decides(cmds'[Len(cmds')])
        BY <1>3, <1>4, <2>1, <3>2
      <4>2. QED
        BY <4>1 DEF Overridden
    <3>3. QED
      BY <3>1, <3>2
  <2>3. QED
    BY <2>2 DEF Headed
<1>5. ASSUME NEW c, cmds' = Append(cmds, c), c \in {C!Op("pause"), C!Op("resume")},
             current' = current, pc.at # "waiting", Headed
      PROVE  Headed'
  <2>1. c.op \notin {"play", "stop"}
    BY <1>5 DEF C!Op
  <2>2. ASSUME NEW n \in 0..Len(cmds'), mpv.alive
        PROVE  Overridden(n)' \/ Showing(n)' \in {None, current'}
    <3>1. CASE n = Len(cmds')
      <4>1. n # 0 /\ cmds'[n] = c
        BY <1>3, <1>5, <3>1
      <4>2. QED
        BY <2>1, <4>1 DEF Showing
    <3>2. CASE n # Len(cmds')
      <4>1. n \in 0..Len(cmds)
        BY <1>3, <1>5, <3>2
      <4>2. Overridden(n) \/ Showing(n) \in {None, current}
        BY <1>5, <2>2, <4>1 DEF Headed
      <4>3. CASE Overridden(n)
        <5>1. PICK k \in (n + 1)..Len(cmds) : Decides(cmds[k])
          BY <4>3 DEF Overridden
        <5>2. k \in (n + 1)..Len(cmds') /\ cmds'[k] = cmds[k]
          BY <1>3, <1>5, <4>1, <5>1
        <5>3. QED
          BY <5>1, <5>2 DEF Overridden
      <4>4. CASE Showing(n) \in {None, current}
        <5>1. Showing(n)' = Showing(n)
          BY <1>1, <1>3, <1>5, <4>1 DEF Showing
        <5>2. QED
          BY <1>5, <4>4, <5>1
      <4>5. QED
        BY <4>2, <4>3, <4>4
    <3>3. QED
      BY <3>1, <3>2
  <2>3. QED
    BY <1>1, <2>2 DEF Headed
<1>6. CASE \E c : /\ cmds' = Append(cmds, c)
                /\ \/ c \in {C!Play(current'), C!Op("stop")}
                   \/ c \in {C!Op("pause"), C!Op("resume")} /\ current' = current /\ pc.at # "waiting"
  BY <1>4, <1>5, <1>6
<1>7. QED
  BY <1>2, <1>6 DEF C!Answers

\* The engine takes the next command: what was said of the first n + 1 commands
\* is now to be said of the first n.
LEMMA TakingKeepsHeaded ==
  ASSUME IInv, Headed, mpv.alive, cmds # <<>>, cmds' = Tail(cmds), UNCHANGED <<current, pc>>,
         Decides(Head(cmds)) => Showing(0)' = Showing(1),
         ~Decides(Head(cmds)) => Showing(0)' = Showing(0)
  PROVE  Headed'
<1>1. cmds \in Seq(C!Command)
  BY DEF IInv, C!IInv, C!TypeOK
<1>2. /\ Len(cmds) \in Nat \ {0} /\ Len(cmds') = Len(cmds) - 1
      /\ \A k \in 1..Len(cmds') : cmds'[k] = cmds[k + 1]
      /\ Head(cmds) = cmds[1]
  BY <1>1
<1>3. ASSUME NEW n \in 0..Len(cmds'), pc.at # "waiting"
      PROVE  Overridden(n)' \/ Showing(n)' \in {None, current'}
  <2>1. n + 1 \in 0..Len(cmds) /\ 0 \in 0..Len(cmds) /\ n + 1 # 0 /\ n \in Int
    BY <1>2
  <2>2. ASSUME NEW k \in (n + 2)..Len(cmds), Decides(cmds[k]) PROVE Overridden(n)'
    <3>1. k - 1 \in (n + 1)..Len(cmds') /\ cmds'[k - 1] = cmds[k]
      <4>1. k - 1 \in (n + 1)..Len(cmds') /\ k - 1 \in 1..Len(cmds') /\ (k - 1) + 1 = k
        BY <1>2, <2>1
      <4>2. QED
        BY <1>2, <4>1
    <3>2. QED
      BY <2>2, <3>1 DEF Overridden
  <2>3. CASE n # 0 \/ Decides(Head(cmds))
    <3>1. Overridden(n + 1) \/ Showing(n + 1) \in {None, current}
      BY <1>3, <2>1 DEF Headed
    <3>2. CASE Overridden(n + 1)
      <4>1. PICK k \in ((n + 1) + 1)..Len(cmds) : Decides(cmds[k])
        BY <3>2 DEF Overridden
      <4>2. k \in (n + 2)..Len(cmds)
        BY <2>1, <4>1
      <4>3. QED
        BY <2>2, <4>1, <4>2
    <3>3. Showing(n)' = Showing(n + 1)
      <4>1. CASE n = 0
        <5>1. n + 1 = 1 /\ Showing(n)' = Showing(0)'
          BY <4>1
        <5>2. QED
          BY <2>3, <4>1, <5>1
      <4>2. CASE n # 0
        <5>1. cmds'[n] = cmds[n + 1]
          BY <1>2, <2>1, <4>2
        <5>2. QED
          BY <2>1, <4>2, <5>1 DEF Showing
      <4>3. QED
        BY <4>1, <4>2
    <3>4. QED
      BY <3>1, <3>2, <3>3
  <2>4. CASE n = 0 /\ ~Decides(Head(cmds))
    <3>1. Overridden(0) \/ Showing(0) \in {None, current}
      BY <1>3, <2>1 DEF Headed
    <3>2. CASE Overridden(0)
      <4>1. PICK k \in (0 + 1)..Len(cmds) : Decides(cmds[k])
        BY <3>2 DEF Overridden
      <4>2. k \in (n + 2)..Len(cmds)
        BY <1>2, <2>4, <4>1
      <4>3. QED
        BY <2>2, <4>1, <4>2
    <3>3. QED
      BY <2>4, <3>1, <3>2
  <2>5. QED
    BY <2>3, <2>4
<1>4. QED
  BY <1>3 DEF Headed

\* What the engine and mpv do by themselves.
LEMMA EngineKeepsHeaded ==
  ASSUME IInv, Headed, EngineStep
  PROVE  Headed'
<1>1. UNCHANGED <<current, pc>>
  BY DEF EngineStep, coordinatorVars
<1>2. /\ cmds \in Seq(C!Command) /\ None \notin Media
      /\ mpv \in [alive : BOOLEAN, file : Media \cup {None}, eof : BOOLEAN, paused : BOOLEAN]
      /\ engine \in [file : Media \cup {None}, playing : BOOLEAN, image : BOOLEAN]
  BY ClientAssumption DEF IInv, C!IInv, C!TypeOK, E!IInv, E!TypeOK, E!EngineAssumption
<1>3. cmds # <<>> => Head(cmds) = cmds[1] /\ Head(cmds) \in C!Command
  BY <1>2
<1>4. ASSUME cmds' = cmds, Showing(0)' = Showing(0), mpv'.alive => mpv.alive PROVE Headed'
  <2>1. ASSUME NEW n \in 0..Len(cmds) PROVE Showing(n)' = Showing(n) /\ Overridden(n)' = Overridden(n)
    <3>1. CASE n = 0
      BY <1>4, <3>1 DEF Overridden
    <3>2. CASE n # 0
      BY <1>4, <3>2 DEF Showing, Overridden
    <3>3. QED
      BY <3>1, <3>2
  <2>2. QED
    BY <1>1, <1>4, <2>1 DEF Headed
<1>5. ASSUME E!CommandFails PROVE Headed'
  BY <1>5 DEF E!CommandFails, Headed
<1>6. ASSUME E!PlayLoads PROVE Headed'
  <2>1. /\ cmds # <<>> /\ cmds' = Tail(cmds) /\ mpv.alive /\ Head(cmds).op = "play"
        /\ step' = Head(cmds).media
    BY <1>6 DEF E!PlayLoads, E!Next1
  <2>2. step' # None
    BY <1>2, <1>3, <2>1 DEF C!Command
  <2>3. Showing(0)' = Showing(1) /\ Decides(Head(cmds))
    BY <1>3, <2>1, <2>2 DEF Showing, Decides
  <2>4. QED
    BY <1>1, <2>1, <2>3, TakingKeepsHeaded
<1>7. ASSUME E!Stop PROVE Headed'
  <2>1. /\ cmds # <<>> /\ cmds' = Tail(cmds) /\ mpv.alive /\ Head(cmds).op = "stop"
        /\ step' = None /\ engine'.file = None
    BY <1>2, <1>7 DEF E!Stop, E!Next1
  <2>2. Showing(0)' = Showing(1) /\ Decides(Head(cmds))
    BY <1>3, <2>1 DEF Showing, Decides
  <2>3. QED
    BY <1>1, <2>1, <2>2, TakingKeepsHeaded
<1>8. ASSUME E!Pause \/ E!Resume PROVE Headed'
  <2>1. /\ cmds # <<>> /\ cmds' = Tail(cmds) /\ mpv.alive /\ Head(cmds).op \in {"pause", "resume"}
        /\ step' = step /\ engine'.file = engine.file
    BY <1>2, <1>8 DEF E!Pause, E!Resume, E!Next1
  <2>2. Showing(0)' = Showing(0) /\ ~Decides(Head(cmds))
    BY <2>1 DEF Showing, Decides
  <2>3. QED
    BY <1>1, <2>1, <2>2, TakingKeepsHeaded
<1>9. ASSUME E!PlayStarts PROVE Headed'
  <2>1. step # None /\ step' = None /\ engine'.file = step /\ UNCHANGED <<cmds, mpv>>
    BY <1>9 DEF E!PlayStarts
  <2>2. Showing(0)' = Showing(0)
    BY <2>1 DEF Showing
  <2>3. QED
    BY <1>4, <2>1, <2>2
<1>10. ASSUME E!Timers \/ E!Ticks \/ E!Mpv PROVE Headed'
  <2>1. cmds' = cmds /\ step' = step
    BY <1>10 DEF E!Timers, E!TimerFires, E!Ticks, E!TickFails, E!TickLooks, E!TickAsks,
                 E!TickReports, E!Mpv, E!MpvReachesEnd, E!MpvRejects, E!MpvDies
  <2>2. engine'.file = engine.file
    BY <1>2, <1>10 DEF E!Timers, E!TimerFires, E!Ticks, E!TickFails, E!TickLooks, E!TickAsks,
                       E!TickReports, E!Mpv, E!MpvReachesEnd, E!MpvRejects, E!MpvDies
  <2>3. mpv'.alive => mpv.alive
    BY <1>2, <1>10 DEF E!Timers, E!TimerFires, E!Ticks, E!TickFails, E!TickLooks, E!TickAsks,
                       E!TickReports, E!Mpv, E!MpvReachesEnd, E!MpvRejects, E!MpvDies
  <2>4. Showing(0)' = Showing(0)
    BY <2>1, <2>2 DEF Showing
  <2>5. QED
    BY <1>4, <2>1, <2>3, <2>4
<1>11. QED
  BY <1>5, <1>6, <1>7, <1>8, <1>9, <1>10 DEF EngineStep, E!Inside, E!Commands

\* The screen in every step: for any lists up to the end of one, and for lists
\* that never end without an exception.
LEMMA StepKeepsHeaded ==
  ASSUME IInv, [Next]_vars, Headed \/ current = None
  PROVE  /\ Headed' \/ current' = None
         /\ C!OnlyLoops /\ C!LoopInv /\ Headed => C!LoopInv' /\ Headed'
<1>1. CASE CoordinatorStep \/ TakesEvent
  <2>1. C!ServerMessage \/ C!OtherMessage \/ C!Waited
    BY <1>1 DEF CoordinatorStep, TakesEvent, C!OtherMessage
  <2>2. C!Answers
    BY <2>1, C!HandlersAnswer, ClientAssumption DEF IInv
  <2>3. UNCHANGED engineVars
    BY <1>1 DEF CoordinatorStep, TakesEvent
  <2>4. C!OnlyLoops /\ C!LoopInv => C!GoesOn
    BY <2>1, C!HandlersGoOn, ClientAssumption DEF IInv
  <2>5. QED
    BY <2>2, <2>3, <2>4, AnswerKeepsHeaded DEF C!GoesOn
<1>2. ASSUME UNCHANGED <<queue, current, disk, cmds, pc, step, engine, mpv>>
      PROVE  /\ Headed' \/ current' = None
             /\ C!OnlyLoops /\ C!LoopInv /\ Headed => C!LoopInv' /\ Headed'
  <2>1. C!LoopInv => C!LoopInv'
    BY <1>2 DEF C!LoopInv, C!ActiveEndless, C!DiskEndless, C!Endless, C!Pinning
  <2>2. Headed => Headed'
    BY <1>2 DEF Headed, Showing, Overridden
  <2>3. QED
    BY <1>2, <2>1, <2>2
<1>3. CASE CacheStep
  <2>1. UNCHANGED engineVars /\ UNCHANGED <<queue, current, disk, cmds, pc>>
    BY <1>3, C!BesideLeaves, ClientAssumption DEF CacheStep
  <2>2. QED
    BY <1>2, <2>1 DEF engineVars
<1>4. CASE EngineStep
  <2>1. UNCHANGED <<queue, current, disk, pc>>
    BY <1>4 DEF EngineStep, coordinatorVars
  <2>2. C!LoopInv => C!LoopInv'
    BY <2>1 DEF C!LoopInv, C!ActiveEndless, C!DiskEndless, C!Endless, C!Pinning
  <2>3. QED
    BY <1>4, <2>1, <2>2, EngineKeepsHeaded
<1>5. CASE Bridge \/ UNCHANGED vars
  BY <1>2, <1>5 DEF Bridge, E!Forward, vars, coordinatorVars, engineVars
<1>6. QED
  BY <1>1, <1>3, <1>4, <1>5 DEF Next

\* At first nothing is current and nothing is on the screen.
LEMMA InitHeaded == Init => Headed /\ current = None /\ C!LoopInv
<1> SUFFICES ASSUME Init PROVE Headed /\ current = None /\ C!LoopInv
  OBVIOUS
<1>1. /\ cmds = <<>> /\ step = None /\ engine.file = None /\ current = None
      /\ queue.items = <<>> /\ disk = [last |-> None, slots |-> [p \in Playlists |-> None]]
      /\ ~C!Pinning
  BY DEF Init, C!Init, E!Init, C!EmptyQueue, C!Idle, C!Pinning
<1>2. Headed
  BY <1>1 DEF Headed, Showing
<1>3. C!LoopInv
  BY <1>1 DEF C!LoopInv, C!ActiveEndless, C!DiskEndless
<1>4. QED
  BY <1>1, <1>2, <1>3

\* When nothing is under way the screen is where it was headed.
LEMMA QuietShows ==
  ASSUME IInv, Headed, Quiet
  PROVE  engine.file \in {None, current}
<1>1. pc.at # "waiting" /\ 0 \in 0..Len(cmds) /\ ~Overridden(0)
  BY DEF Quiet, C!Idle, Overridden
<1>2. QED
  BY <1>1 DEF Headed, Showing, Quiet

\* Whatever lists the server sends, and whatever commands are under way, the
\* last of them that decides leaves the engine with the current media or
\* nothing, unless play_media waits for the file of what has just become
\* current, or mpv is dead; so when nothing is under way and something is
\* current, that is what the engine has open, if anything.
THEOREM CurrentOnScreen ==
  Spec => [](current # None => Headed /\ (Quiet => engine.file \in {None, current}))
<1>1. Init => Headed \/ current = None
  BY InitHeaded
<1>2. IInv /\ (Headed \/ current = None) /\ [Next]_vars => (Headed \/ current = None)'
  BY StepKeepsHeaded
<1>3. IInv /\ (Headed \/ current = None)
        => (current # None => Headed /\ (Quiet => engine.file \in {None, current}))
  BY QuietShows
<1>4. QED
  BY <1>1, <1>2, <1>3, AlwaysIInv, PTL DEF Spec

\* If the lists are never empty and play in a loop, nothing is left on the
\* screen either when nothing is current.  (At the end of a list that does not
\* loop its last media stays.)
THEOREM ScreenCorrect == C!OnlyLoops /\ Spec => []ShowsCurrent
<1> DEFINE SInv == C!LoopInv /\ Headed
<1>1. Init => SInv
  BY InitHeaded
<1>2. C!OnlyLoops /\ IInv /\ SInv /\ [Next]_vars => SInv'
  BY StepKeepsHeaded
<1>3. IInv /\ SInv => ShowsCurrent
  BY QuietShows DEF ShowsCurrent
<1> HIDE DEF SInv
<1>4. SUFFICES ASSUME C!OnlyLoops PROVE Spec => []ShowsCurrent
  OBVIOUS
<1>5. IInv /\ SInv /\ [Next]_vars => SInv'
  BY <1>2, <1>4
<1>6. QED
  BY <1>1, <1>3, <1>5, AlwaysIInv, PTL DEF Spec
----------------------------------------------------------------------------
(* One list.                                                               *)

\* The server sends one list, however often and with whatever loop flag, and
\* nothing else; mpv lives.  (A skip, a pause or another list cuts a play short,
\* whose end is then reported when something else is current.)
OneList ==
  /\ Kinds \subseteq {"assigned", "finished", "error"}
  /\ ~MpvMayDie
  /\ \A p, q \in Playlists : \A s \in C!Lists(p), t \in C!Lists(q) :
       s.playlist = t.playlist /\ s.items = t.items

\* Then one thing at most is under way: a handler that waits, a command, a play
\* or its end on its way back; and nothing before the list has come.
Paced ==
  /\ mpv.alive
  /\ Sends + Plays + Ends <= 1
  /\ \/ playlist = None /\ Sends + Plays + Ends = 0
     \/ \E p \in Playlists : \E s \in C!Lists(p) : playlist = s.playlist /\ queue.items = s.items

\* And it is about what is current.
AboutCurrent ==
  /\ cmds # <<>> => Head(cmds) \in {C!Play(current), C!Op("stop")}
  /\ step # None => step = current
  /\ owed + Ends >= 1 => engine.file = current
  /\ engine.playing => owed >= 1

\* What is under way, as numbers that are not negative.
LEMMA Parts ==
  ASSUME IInv
  PROVE  /\ owed \in Nat /\ Len(timers) \in Nat /\ Len(timers) <= owed
         /\ loop.at = "marking" => owed >= 1
         /\ Len(cmds) \in Nat /\ Len(events) \in Nat /\ Len(inbox) \in Nat
         /\ Waits \in {0, 1} /\ Loading \in {0, 1}
         /\ Sends \in Nat /\ Plays \in Nat /\ Ends \in Nat
         /\ Len(cmds) <= Sends /\ owed <= Plays
<1>1. owed \in Int /\ Len(timers) \in Nat /\ owed - Len(timers) >= 0
  BY DEF IInv, E!IInv, E!TypeOK, E!CreditCovers, E!credit
<1>2. loop.at = "marking" => owed - Len(timers) >= 1
  BY DEF IInv, E!IInv, E!CreditCovers, E!credit
<1>3. owed \in Nat /\ Len(timers) <= owed /\ (loop.at = "marking" => owed >= 1)
  BY <1>1, <1>2
<1>4. Len(cmds) \in Nat /\ Len(events) \in Nat /\ Len(inbox) \in Nat
  BY DEF IInv, C!IInv, C!TypeOK, E!IInv, E!TypeOK, Bounded
<1>5. Waits \in {0, 1} /\ Loading \in {0, 1}
  BY DEF Waits, Loading
<1>6. Sends \in Nat /\ Plays \in Nat /\ Ends \in Nat /\ Len(cmds) <= Sends /\ owed <= Plays
  BY <1>3, <1>4, <1>5 DEF Sends, Plays, Ends
<1>7. QED
  BY <1>1, <1>3, <1>4, <1>5, <1>6

\* A handler that nothing waits beside sends a command or waits itself.
LEMMA OneSent ==
  ASSUME cmds = <<>>, cmds' = cmds \/ \E c : cmds' = Append(cmds, c),
         cmds' # cmds => pc' = C!Idle
  PROVE  Sends' <= 1
<1>1. /\ Waits' = 0 \/ Waits' = 1
      /\ pc' = C!Idle => Waits' = 0
  BY DEF Waits
<1>2. CASE cmds' = cmds
  <2>1. Len(cmds') = 0
    BY <1>2
  <2>2. Sends' = 0 + Waits'
    BY <2>1 DEF Sends
  <2>3. 0 + Waits' <= 1
    BY <1>1
  <2>4. QED
    BY <2>2, <2>3
<1>3. CASE cmds' # cmds
  <2>1. Len(cmds') = 1
    BY <1>3
  <2>2. Sends' = 1 + 0
    BY <1>1, <1>3, <2>1 DEF Sends
  <2>3. QED
    BY <2>2
<1>4. QED
  BY <1>2, <1>3

\* Where the coordinator goes on, nothing else is under way: whatever it makes
\* current, the only command it may send is about that.
LEMMA GoesOnPaced ==
  ASSUME IInv, IInv', Plays = 0, Ends' = 0, Sends' <= 1, cmds = <<>>,
         UNCHANGED <<step, engine, owed, mpv>>, mpv.alive, AboutCurrent,
         \/ cmds' = cmds
         \/ \E c \in {C!Play(current'), C!Op("stop")} : cmds' = Append(cmds, c)
  PROVE  /\ mpv'.alive /\ Sends' + Plays' + Ends' <= 1
         /\ AboutCurrent'
<1>1. owed = 0 /\ Loading = 0 /\ Plays' = 0
  BY Parts DEF Plays, Loading
<1>2. step = None
  BY <1>1 DEF Loading
<1>3. Sends' \in Nat
  BY Numbers, Parts DEF Sends, Waits, IInv, C!IInv, C!TypeOK
<1>4. cmds' # <<>> => Head(cmds') \in {C!Play(current'), C!Op("stop")}
  OBVIOUS
<1>5. step' = None /\ owed' + Ends' = 0 /\ Sends' + Plays' + Ends' <= 1
  <2>1. step' = None /\ owed' = 0
    BY <1>1, <1>2
  <2>2. Plays' = 0 /\ Ends' = 0
    BY <1>1
  <2>3. owed' + Ends' = 0
    BY <2>1, <2>2
  <2>4. Sends' + Plays' + Ends' = Sends'
    <3>1. ASSUME NEW n \in Nat PROVE n + 0 + 0 = n
      OBVIOUS
    <3>2. Sends' + 0 + 0 = Sends'
      BY <1>3, <3>1
    <3>3. QED
      BY <2>2, <3>2
  <2>5. QED
    BY <2>1, <2>3, <2>4
<1>6. ~engine'.playing
  BY <1>1 DEF AboutCurrent
<1>7. QED
  BY <1>4, <1>5, <1>6 DEF AboutCurrent

\* What a handler sends when it plays the next item or loads a list.
LEMMA NextSends ==
  ASSUME NEW q, NEW files, NEW l, NEW ahead, C!NextAndPlay(q, files, l, ahead)
  PROVE  /\ queue' = C!QNext(q)
         /\ \/ cmds' = cmds
            \/ \E c \in {C!Play(current'), C!Op("stop")} : cmds' = Append(cmds, c)
BY DEF C!NextAndPlay, C!PlayMedia

LEMMA NextKeepsItems ==
  ASSUME NEW q, q \in C!Queue
  PROVE  C!QNext(q).items = q.items
BY DEF C!QNext, C!Queue

LEMMA LoadSends ==
  ASSUME NEW p \in Playlists, NEW s \in C!Lists(p), NEW at, NEW then, C!Load(s, at, then)
  PROVE  playlist' = s.playlist /\ queue'.items = s.items /\ cmds' = cmds
BY DEF C!Load, C!QUpdate

\* The coordinator's steps.  The first time the list comes nothing is under way;
\* after that it is refused as a duplicate.
LEMMA CoordinatorKeepsPaced ==
  ASSUME OneList, IInv, IInv', Paced, AboutCurrent, CoordinatorStep
  PROVE  Paced' /\ AboutCurrent'
<1>1. /\ UNCHANGED <<step, engine, owed, mpv, timers, inbox, events>>
      /\ Plays' = Plays /\ Ends' = Ends
  BY DEF CoordinatorStep, engineVars, Plays, Loading, Ends
<1>2. Plays \in Nat /\ Ends \in Nat /\ Sends \in Nat /\ Len(cmds) \in Nat /\ Len(cmds) <= Sends
      /\ cmds \in Seq(C!Command) /\ Sends' \in Int
  BY Parts, <1>1 DEF IInv, C!IInv, C!TypeOK, Sends, Waits
<1>3. CASE C!Waited
  <2>1. pc # C!Idle /\ Waits = 1
    <3>1. pc.at \in {"persist", "slot", "pin", "downloading", "waiting"}
      BY <1>3 DEF C!Waited, C!PersistLast, C!PersistSlot, C!PinAndStart, C!DownloadsDone,
                  C!WaitEnds, C!BatchItem
    <3>2. QED
      BY <3>1 DEF C!Idle, Waits
  <2>2. Sends = Len(cmds) + 1
    BY <2>1 DEF Sends
  <2>3. Len(cmds) = 0 /\ Plays = 0 /\ Ends = 0 /\ Sends = 1
    BY <1>2, <2>2 DEF Paced
  <2>4. cmds = <<>>
    BY <1>2, <2>3
  <2>5. Sends' <= 1
    <3>1. C!Answers
      BY <1>3, C!HandlersAnswer, ClientAssumption DEF IInv
    <3>2. UNCHANGED engineVars
      BY DEF CoordinatorStep
    <3>3. C!IInv'
      BY DEF IInv
    <3>4. Sends' <= Sends
      BY <1>3, <3>1, <3>2, <3>3, HandlerSubmits
    <3>5. QED
      BY <2>3, <3>4
  <2>6. /\ playlist' = playlist /\ queue'.items = queue.items
        /\ \/ cmds' = cmds
           \/ \E c \in {C!Play(current'), C!Op("stop")} : cmds' = Append(cmds, c)
    <3>1. queue \in C!Queue
      BY DEF IInv, C!IInv, C!TypeOK
    <3>2. CASE C!DownloadsDone
      <4>1. /\ playlist' = playlist
            /\ \/ \E l : C!NextAndPlay(queue, cached, l, FALSE)
               \/ UNCHANGED <<queue, cmds>>
        BY <3>2 DEF C!DownloadsDone
      <4>2. QED
        BY <3>1, <4>1, NextSends, NextKeepsItems
    <3>3. CASE C!WaitEnds
      <4>1. pc.media = current' /\ UNCHANGED <<playlist, queue>>
        BY <3>3 DEF C!WaitEnds, IInv, C!IInv, C!WaitsForCurrent
      <4>2. QED
        BY <3>3, <4>1 DEF C!WaitEnds, C!PlayMedia
    <3>4. CASE \E m \in Media : C!BatchItem(m)
      BY <3>4 DEF C!BatchItem
    <3>5. CASE C!PersistLast \/ C!PersistSlot
      BY <3>5 DEF C!PersistLast, C!PersistSlot
    <3>6. CASE C!PinAndStart
      <4>1. /\ playlist' = playlist
            /\ \/ \E l : C!NextAndPlay(queue, cached, l, FALSE)
               \/ UNCHANGED <<queue, cmds>>
        BY <3>6 DEF C!PinAndStart, C!StartAtOnce, C!StartNothing, C!StartBatch
      <4>2. QED
        BY <3>1, <4>1, NextSends, NextKeepsItems
    <3>7. QED
      BY <1>3, <3>2, <3>3, <3>4, <3>5, <3>6 DEF C!Waited
  <2>7. mpv'.alive /\ Sends' + Plays' + Ends' <= 1 /\ AboutCurrent'
    BY <1>1, <2>3, <2>4, <2>5, <2>6, GoesOnPaced DEF Paced
  <2>8. \E p \in Playlists : \E s \in C!Lists(p) : playlist = s.playlist /\ queue.items = s.items
    BY <2>3 DEF Paced
  <2>9. QED
    BY <2>6, <2>7, <2>8 DEF Paced
<1>4. ASSUME NEW p \in Playlists, NEW s \in C!Lists(p), C!PlaylistAssigned(s)
      PROVE  Paced' /\ AboutCurrent'
  <2>1. CASE C!Unchanged(s)
    <3>1. UNCHANGED C!vars
      BY <1>4, <2>1 DEF C!PlaylistAssigned
    <3>2. UNCHANGED <<playlist, queue, current, cmds, pc, Sends>>
      BY <3>1 DEF C!vars, Sends, Waits
    <3>3. QED
      BY <1>1, <3>2 DEF Paced, AboutCurrent
  <2>2. CASE ~C!Unchanged(s)
    <3>1. playlist = None /\ Sends + Plays + Ends = 0
      BY <1>4, <2>2 DEF Paced, OneList, C!Unchanged
    <3>2. Sends = 0 /\ Plays = 0 /\ Ends = 0 /\ Len(cmds) = 0
      BY <1>2, <3>1
    <3>3. C!Load(s, "persist", "start")
      BY <1>4, <2>2 DEF C!PlaylistAssigned
    <3>4. playlist' = s.playlist /\ queue'.items = s.items /\ cmds' = cmds
      BY <3>3, LoadSends
    <3>5. Sends' <= 1
      BY <1>2, <3>2, <3>4 DEF Sends, Waits
    <3>6. cmds = <<>>
      BY <1>2, <3>2
    <3>7. mpv'.alive /\ Sends' + Plays' + Ends' <= 1 /\ AboutCurrent'
      BY <1>1, <3>2, <3>4, <3>5, <3>6, GoesOnPaced DEF Paced
    <3>8. QED
      BY <3>4, <3>7 DEF Paced
  <2>3. QED
    BY <2>1, <2>2
<1>5. CoordinatorStep => C!Waited \/ \E p \in Playlists : \E s \in C!Lists(p) : C!PlaylistAssigned(s)
  BY DEF CoordinatorStep, OneList, C!ServerMessage, C!TryOfflineRestore, C!OfflineScheduleSwitch,
         C!PlaylistUpdated, C!PlaylistInterrupt, C!PlaylistResume, C!PlaylistStop, C!Reload,
         C!Pause, C!Resume, C!Skip, C!Previous, C!Takes
<1>6. QED
  BY <1>3, <1>4, <1>5

\* An end that is taken was all that was under way.
LEMMA TakingKeepsPaced ==
  ASSUME OneList, IInv, IInv', Paced, AboutCurrent, TakesEvent
  PROVE  Paced' /\ AboutCurrent'
<1>1. /\ UNCHANGED <<step, engine, owed, mpv, timers, events>> /\ Plays' = Plays
      /\ inbox # <<>> /\ inbox' = Tail(inbox)
      /\ C!MediaFinished \/ C!PlaybackError
  BY DEF TakesEvent, engineVars, Plays, Loading
<1>2. /\ Plays \in Nat /\ Sends \in Nat /\ Len(cmds) \in Nat /\ Len(cmds) <= Sends
      /\ cmds \in Seq(C!Command) /\ inbox \in Seq({"EndFile", "Error"})
      /\ Len(events) \in Nat /\ Len(inbox) \in Nat
  BY Parts DEF IInv, C!IInv, C!TypeOK, Bounded
<1>3. Len(inbox) >= 1 /\ Len(inbox') = Len(inbox) - 1
  BY <1>1, <1>2, Channels
<1>4. Ends >= 1 /\ Ends' = Ends - 1 /\ Ends \in Nat
  BY <1>1, <1>2, <1>3 DEF Ends
<1>5. Sends = 0 /\ Plays = 0 /\ Ends' = 0 /\ Len(cmds) = 0
  BY <1>2, <1>4 DEF Paced
<1>6. cmds = <<>>
  BY <1>2, <1>5
<1>7. \E l, ahead : C!NextAndPlay(queue, cached, l, ahead)
  BY <1>1 DEF C!MediaFinished, C!PlaybackError
<1>8. /\ playlist' = playlist
      /\ \/ cmds' = cmds
         \/ \E c \in {C!Play(current'), C!Op("stop")} : cmds' = Append(cmds, c)
  BY <1>1, <1>7, NextSends DEF C!MediaFinished, C!PlaybackError
<1>9. queue'.items = queue.items
  BY <1>7, NextSends, NextKeepsItems DEF IInv, C!IInv, C!TypeOK
<1>10. Sends' <= 1
  <2>1. cmds' # cmds => pc' = C!Idle
    BY <1>7 DEF C!NextAndPlay, C!PlayMedia
  <2>2. QED
    BY <1>6, <1>8, <2>1, OneSent
<1>11. mpv'.alive /\ Sends' + Plays' + Ends' <= 1 /\ AboutCurrent'
  BY <1>1, <1>5, <1>6, <1>8, <1>10, GoesOnPaced DEF Paced
<1>12. \E p \in Playlists : \E s \in C!Lists(p) : playlist = s.playlist /\ queue.items = s.items
  BY <1>2, <1>4 DEF Paced
<1>13. QED
  BY <1>8, <1>9, <1>11, <1>12 DEF Paced

\* Inside the engine a command becomes a play, and a play its end.
LEMMA EngineKeepsPaced ==
  ASSUME OneList, IInv, Paced, AboutCurrent, EngineStep
  PROVE  Paced' /\ AboutCurrent'
<1>1. UNCHANGED <<playlist, queue, current, pc, inbox>> /\ Waits' = Waits
  BY DEF EngineStep, coordinatorVars, Waits
<1>2. /\ owed \in Nat /\ Len(timers) \in Nat /\ Len(timers) <= owed
      /\ loop.at = "marking" => owed >= 1
      /\ Len(cmds) \in Nat /\ Len(events) \in Nat /\ Len(inbox) \in Nat
      /\ Waits \in {0, 1} /\ Loading \in {0, 1}
      /\ Sends \in Nat /\ Plays \in Nat /\ Ends \in Nat
      /\ Len(cmds) <= Sends /\ owed <= Plays
  BY Parts
<1>3. /\ cmds \in Seq(C!Command) /\ events \in Seq({"EndFile", "Error"})
      /\ mpv \in [alive : BOOLEAN, file : Media \cup {None}, eof : BOOLEAN, paused : BOOLEAN]
      /\ engine \in [file : Media \cup {None}, playing : BOOLEAN, image : BOOLEAN]
      /\ None \notin Media
  BY ClientAssumption DEF IInv, C!IInv, C!TypeOK, E!IInv, E!TypeOK, E!EngineAssumption
<1>4. mpv.alive /\ mpv'.alive
  BY <1>3 DEF EngineStep, Paced, OneList, E!Inside, E!Commands, E!CommandFails, E!PlayLoads,
              E!PlayStarts, E!Pause, E!Resume, E!Stop, E!Next1, E!Timers, E!TimerFires,
              E!Ticks, E!TickFails, E!TickLooks, E!TickAsks, E!TickReports, E!Mpv,
              E!MpvReachesEnd, E!MpvRejects, E!MpvDies
<1>5. ASSUME Sends + Plays + Ends >= 1, Sends' + Plays' + Ends' <= 1
      PROVE  Paced'
  <2>1. \E p \in Playlists : \E s \in C!Lists(p) : playlist = s.playlist /\ queue.items = s.items
    BY <1>2, <1>5 DEF Paced
  <2>2. QED
    BY <1>1, <1>4, <1>5, <2>1 DEF Paced
<1>6. ASSUME cmds # <<>>, cmds' = Tail(cmds)
      PROVE  /\ Sends = 1 /\ Plays = 0 /\ Ends = 0 /\ owed = 0
             /\ Sends' = 0 /\ cmds' = <<>>
             /\ Head(cmds) \in {C!Play(current), C!Op("stop")}
  <2>1. Len(cmds) >= 1 /\ Len(cmds') = Len(cmds) - 1 /\ cmds' \in Seq(C!Command)
    BY <1>3, <1>6, Channels
  <2>2. Len(cmds) = 1 /\ Sends = 1 /\ Plays = 0 /\ Ends = 0
    BY <1>2, <2>1 DEF Paced
  <2>3. Waits = 0 /\ owed = 0
    BY <1>2, <2>2 DEF Sends
  <2>4. Len(cmds') = 0
    BY <2>1, <2>2
  <2>5. Sends' = 0
    BY <1>1, <2>3, <2>4 DEF Sends
  <2>6. cmds' = <<>>
    BY <2>1, <2>4
  <2>7. QED
    BY <1>6, <2>2, <2>3, <2>5, <2>6 DEF AboutCurrent
<1>7. CASE E!PlayLoads
  <2>1. /\ cmds # <<>> /\ cmds' = Tail(cmds) /\ Head(cmds).op = "play"
        /\ step = None /\ step' = Head(cmds).media
        /\ UNCHANGED <<engine, events, owed>>
    BY <1>7 DEF E!PlayLoads, E!Next1
  <2>2. Head(cmds) = C!Play(current)
    BY <1>6, <2>1 DEF C!Op
  <2>3. step' = current
    BY <2>1, <2>2 DEF C!Play
  <2>4. Loading' \in {0, 1} /\ Ends' = 0 /\ owed' = 0
    BY <1>1, <1>6, <2>1 DEF Loading, Ends
  <2>5. Plays' = 0 + Loading'
    BY <2>4 DEF Plays
  <2>6. ASSUME NEW n \in {0, 1} PROVE 0 + n \in {0, 1} /\ 0 + (0 + n) + 0 <= 1
    OBVIOUS
  <2>7. Sends' + Plays' + Ends' <= 1 /\ Sends + Plays + Ends >= 1
    <3>1. Sends' = 0 /\ Sends = 1 /\ Plays = 0 /\ Ends = 0
      BY <1>6, <2>1
    <3>2. 0 + (0 + Loading') + 0 <= 1
      BY <2>4, <2>6
    <3>3. Sends' + Plays' + Ends' <= 1
      BY <2>4, <2>5, <3>1, <3>2
    <3>4. QED
      BY <3>1, <3>3
  <2>8. AboutCurrent'
    BY <1>1, <1>6, <2>1, <2>3, <2>4 DEF AboutCurrent
  <2>9. QED
    BY <1>5, <2>7, <2>8
<1>8. CASE E!PlayStarts
  <2>1. /\ step # None /\ step' = None /\ owed' = owed + 1 /\ UNCHANGED <<cmds, events>>
        /\ engine'.file = step /\ Loading = 1 /\ Loading' = 0
    BY <1>8 DEF E!PlayStarts, Loading
  <2>2. Sends' = Sends /\ Ends' = Ends
    BY <1>1, <2>1 DEF Sends, Ends
  <2>3. Plays = owed + 1 /\ Plays' = (owed + 1) + 0
    BY <2>1 DEF Plays
  <2>4. Plays' = Plays /\ Plays = 1 /\ owed = 0 /\ Sends = 0 /\ Ends = 0
    BY <1>2, <2>3 DEF Paced
  <2>5. Len(cmds) = 0
    BY <1>2, <2>4
  <2>6. cmds = <<>>
    BY <1>3, <2>5
  <2>7. engine'.file = current
    BY <2>1 DEF AboutCurrent
  <2>8. AboutCurrent'
    BY <1>1, <2>1, <2>4, <2>6, <2>7 DEF AboutCurrent
  <2>9. Sends + Plays + Ends >= 1 /\ Sends' + Plays' + Ends' <= 1
    BY <2>2, <2>4
  <2>10. QED
    BY <1>5, <2>8, <2>9
<1>9. CASE E!Stop
  <2>1. /\ cmds # <<>> /\ cmds' = Tail(cmds)
        /\ UNCHANGED <<step, events, owed>> /\ engine'.playing = FALSE /\ step = None
    BY <1>3, <1>9 DEF E!Stop, E!Next1
  <2>2. Plays' = Plays /\ Ends' = Ends
    BY <1>1, <2>1 DEF Plays, Loading, Ends
  <2>3. AboutCurrent'
    BY <1>1, <1>6, <2>1, <2>2 DEF AboutCurrent
  <2>4. Sends + Plays + Ends >= 1 /\ Sends' + Plays' + Ends' <= 1
    BY <1>6, <2>1, <2>2
  <2>5. QED
    BY <1>5, <2>3, <2>4
<1>10. CASE E!Timers \/ E!TickReports
  <2>1. /\ \E e : E!Emit(e)
        /\ owed' = owed - 1 /\ UNCHANGED <<cmds, step>>
        /\ engine'.playing = FALSE /\ engine'.file = engine.file
    BY <1>3, <1>10 DEF E!Timers, E!TimerFires, E!TickReports
  <2>2. owed >= 1
    <3>1. CASE E!TickReports
      BY <1>2, <3>1 DEF E!TickReports
    <3>2. CASE E!Timers
      <4>1. PICK i \in DOMAIN timers : TRUE
        BY <3>2 DEF E!Timers
      <4>2. timers \in Seq(Images)
        BY DEF IInv, E!IInv, E!TypeOK
      <4>3. Len(timers) >= 1
        BY <4>1, <4>2
      <4>4. QED
        BY <1>2, <4>3
    <3>3. QED
      BY <1>10, <3>1, <3>2
  <2>3. Len(events') = Len(events) + 1
    BY <1>3, <2>1, Channels DEF E!Emit
  <2>4. Ends' = Ends + 1 /\ Sends' = Sends /\ Loading' = Loading
    BY <1>1, <1>2, <2>1, <2>3 DEF Ends, Sends, Loading
  <2>5. Plays' = Plays - 1
    BY <1>2, <2>1, <2>4 DEF Plays
  <2>6. Sends + Plays + Ends >= 1 /\ Sends' + Plays' + Ends' <= 1
    BY <1>2, <2>2, <2>4, <2>5 DEF Paced
  <2>7. engine.file = current
    BY <1>2, <2>2 DEF AboutCurrent
  <2>8. AboutCurrent'
    BY <1>1, <2>1, <2>7 DEF AboutCurrent
  <2>9. QED
    BY <1>5, <2>6, <2>8
<1>11. CASE E!TickLooks \/ E!TickAsks \/ E!MpvReachesEnd \/ E!MpvRejects
  <2>1. UNCHANGED <<cmds, step, engine, events, owed>>
    BY <1>11 DEF E!TickLooks, E!TickAsks, E!MpvReachesEnd, E!MpvRejects
  <2>2. UNCHANGED <<Sends, Plays, Ends>>
    BY <1>1, <2>1 DEF Sends, Plays, Loading, Ends
  <2>3. QED
    BY <1>1, <1>4, <2>1, <2>2 DEF Paced, AboutCurrent
<1>12. ~E!Pause /\ ~E!Resume
  BY <1>6 DEF E!Pause, E!Resume, E!Next1, C!Play, C!Op
<1>13. ~E!CommandFails /\ ~E!TickFails /\ ~E!MpvDies
  BY <1>4 DEF E!CommandFails, E!TickFails, E!MpvDies, OneList
<1>14. QED
  BY <1>7, <1>8, <1>9, <1>10, <1>11, <1>12, <1>13
     DEF EngineStep, E!Inside, E!Commands, E!Ticks, E!Mpv

\* Every step keeps it.
LEMMA NextKeepsPaced ==
  ASSUME OneList, IInv, IInv', Paced, AboutCurrent, [Next]_vars
  PROVE  Paced' /\ AboutCurrent'
<1>1. ASSUME UNCHANGED <<playlist, queue, current, mpv, cmds, step, engine, owed>>,
             UNCHANGED <<Sends, Plays, Ends>>
      PROVE  Paced' /\ AboutCurrent'
  BY <1>1 DEF Paced, AboutCurrent
<1>2. CASE CacheStep
  <2>1. UNCHANGED <<queue, current, cmds, pc, playlist>> /\ UNCHANGED <<engineVars, inbox>>
    BY <1>2, C!BesideLeaves DEF CacheStep, C!PreloadPass, C!EvictRemove, C!BackgroundDone, C!EvictChoose
  <2>2. QED
    BY <1>1, <2>1 DEF engineVars, Sends, Waits, Plays, Loading, Ends
<1>3. CASE Bridge
  <2>1. /\ events # <<>> /\ events' = Tail(events) /\ inbox' = Append(inbox, Head(events))
        /\ UNCHANGED <<playlist, queue, current, mpv, cmds, step, engine, owed, pc>>
    BY <1>3 DEF Bridge, E!Forward, coordinatorVars
  <2>2. events \in Seq({"EndFile", "Error"}) /\ inbox \in Seq({"EndFile", "Error"})
    BY DEF IInv, E!IInv, E!TypeOK, Bounded
  <2>3. Len(events') = Len(events) - 1 /\ Len(inbox') = Len(inbox) + 1
    BY <2>1, <2>2, Channels
  <2>4. Len(events) \in Nat /\ Len(inbox) \in Nat
    BY <2>2
  <2>5. Ends' = Ends
    BY <2>3, <2>4 DEF Ends
  <2>6. UNCHANGED <<Sends, Plays>>
    BY <2>1 DEF Sends, Waits, Plays, Loading
  <2>7. QED
    BY <1>1, <2>1, <2>5, <2>6
<1>4. CASE UNCHANGED vars
  BY <1>1, <1>4 DEF vars, coordinatorVars, engineVars, Sends, Waits, Plays, Loading, Ends
<1>5. QED
  BY <1>2, <1>3, <1>4, CoordinatorKeepsPaced, TakingKeepsPaced, EngineKeepsPaced DEF Next

\* A playlist is advanced only for the media on the screen, after it has ended,
\* if the server sends one list and mpv lives, whatever files are missing, late
\* or corrupt and whenever mpv, the timers and the poll take their steps.
THEOREM AdvancesCorrect == OneList /\ Spec => AdvancesOnlyAtEnd
<1> DEFINE Ended == [inbox # <<>> /\ Head(inbox) = "EndFile" /\ inbox' = Tail(inbox)
                       => engine.file = current /\ ~engine.playing]_vars
<1>1. Init => Paced /\ AboutCurrent
  <2> SUFFICES ASSUME Init PROVE Paced /\ AboutCurrent
    OBVIOUS
  <2>1. /\ cmds = <<>> /\ step = None /\ owed = 0 /\ events = <<>> /\ inbox = <<>>
        /\ pc = C!Idle /\ playlist = None /\ mpv.alive /\ ~engine.playing
    BY DEF Init, C!Init, E!Init
  <2>2. Sends = 0 /\ Plays = 0 /\ Ends = 0
    BY <2>1 DEF Sends, Waits, Plays, Loading, Ends
  <2>3. QED
    BY <2>1, <2>2 DEF Paced, AboutCurrent
<1>2. SUFFICES ASSUME OneList PROVE Spec => AdvancesOnlyAtEnd
  OBVIOUS
<1>3. IInv /\ IInv' /\ Paced /\ AboutCurrent /\ [Next]_vars => Paced' /\ AboutCurrent'
  BY <1>2, NextKeepsPaced
<1>4. IInv /\ Paced /\ AboutCurrent => Ended
  <2> SUFFICES ASSUME IInv, Paced, AboutCurrent, inbox # <<>>
               PROVE  engine.file = current /\ ~engine.playing
    OBVIOUS
  <2>1. Len(inbox) >= 1
    BY DEF IInv, Bounded
  <2>2. Ends >= 1
    BY <2>1, Parts DEF Ends
  <2>3. owed = 0 /\ owed + Ends >= 1
    BY <2>2, Parts DEF Paced
  <2>4. QED
    BY <2>3 DEF AboutCurrent
<1>5. QED
  BY <1>1, <1>3, <1>4, AlwaysIInv, PTL DEF Spec, AdvancesOnlyAtEnd
=============================================================================
