------------------------------ MODULE Signage ------------------------------
(***************************************************************************)
(* What each screen is told to show: assignments, prioritised lists of     *)
(* playlists, interrupts and registrations (ClientService, the client and  *)
(* group routes, handleRegister), and the schedules that change them       *)
(* (ScheduleService).                                                      *)
(*                                                                         *)
(* Every request, tick and event runs as a handler of its own, and any     *)
(* other handler may take a step wherever the code awaits the database.    *)
(* A handler that changes a client's row writes it first and sends the     *)
(* list afterwards, from what it read in between.                          *)
(***************************************************************************)
EXTENDS Integers, Sequences, FiniteSets, SequencesExt

CONSTANTS
  Clients, Playlists, None,
  Group,          \* the clients of the one group, a sequence in name order
  Sched,          \* the schedules: a sequence of records, the index is the id
  Ranks,          \* the priorities a list assignment may have
  Minutes,        \* minutes of a day on which schedules start
  MaxHandlers,    \* handlers under way at once
  MaxBegun,       \* how much happens: requests, connections, evaluations,
                  \* events, minutes, restarts
  MaxDay          \* midnights the run sees

ASSUME SignageAssumption ==
  /\ IsFiniteSet(Clients) /\ Clients # {}
  /\ None \notin Playlists
  /\ Group \in Seq(Clients) /\ Group # <<>>
  /\ Ranks \subseteq Nat
  /\ Minutes \subseteq Nat /\ Minutes # {}
  /\ MaxHandlers \in Nat /\ MaxBegun \in Nat /\ MaxDay \in Nat
  /\ Sched \in Seq(Range(Sched))
  /\ \A i \in DOMAIN Sched :
       /\ Sched[i].target \in Clients \cup {"group", "all"}
       /\ Sched[i].list \in Playlists
       /\ Sched[i].rank \in Nat
       /\ Sched[i].starts \subseteq Minutes
       /\ Sched[i].interrupts \in BOOLEAN
       /\ Sched[i].onEvent \in BOOLEAN
       \* an event has one schedule
       /\ \A j \in DOMAIN Sched : Sched[i].onEvent /\ Sched[j].onEvent => i = j

VARIABLES
  row,        \* clients: the active list and the list an interrupt put aside
  ranked,     \* client_playlists: what each client is assigned, with priority
  exists,     \* playlists
  connected,  \* clients with a connection in the manager
  shown,      \* the last list message delivered to each client
  handlers,   \* the handlers under way
  lastTriggered, eventLastFired,  \* ScheduleService's memory of what it fired
  timers,     \* clients with an auto-resume timer
  day, minute,
  begun,      \* how many of them there have been
  clash,      \* history: clients on which two handlers have overlapped
  fired       \* history: <<schedule, day, minute>> this process chose to dispatch

store == <<row, ranked, exists>>
memory == <<lastTriggered, eventLastFired, timers>>
clock == <<day, minute>>
vars == <<store, connected, shown, handlers, memory, clock, begun, clash, fired>>

Lists == Playlists \cup {None}
Ids == DOMAIN Sched
Slots == 1..MaxHandlers
Idle == [kind |-> "idle"]

\* c is the client at hand and todo the ones after it; a "group" writes every
\* row before it sends, and keeps in out whom it has to send to; winners are
\* the schedules to dispatch after the present one.
Handler(kind, at, c, list, todo, winners) ==
  [kind |-> kind, at |-> at, c |-> c, list |-> list, todo |-> todo,
   out |-> <<>>, winners |-> winners]

Busy(h) == handlers[h] # Idle

(***************************************************************************)
(* Schedules.                                                              *)
(***************************************************************************)
\* getClientsForSchedule: one client, the members of the group, or everybody
Targets(s) ==
  CASE Sched[s].target = "group" -> Group
    [] Sched[s].target = "all" -> SetToSeq(Clients)
    [] OTHER -> <<Sched[s].target>>

\* isScheduleActive and findTriggering: enabled, not event-triggered, and
\* this is its start minute
Starts(s) == ~Sched[s].onEvent /\ minute \in Sched[s].starts
             /\ Sched[s].list \in exists

\* evaluateSchedules forgets nothing but what it overwrites: the key is the
\* hour and minute, without the date
Triggering == {s \in Ids : Starts(s) /\ lastTriggered[s] # minute}

Outranks(s, t) ==
  \/ Sched[s].rank > Sched[t].rank
  \/ Sched[s].rank = Sched[t].rank /\ s < t

\* resolveConflicts: per target the first by priority and id; the winners come
\* in the order in which getEnabledSchedules met their targets, highest first
Winners(due) ==
  LET Rivals(s) == {t \in due : Sched[t].target = Sched[s].target}
      first == {s \in due : \A t \in Rivals(s) \ {s} : Outranks(s, t)}
      Ahead(s) == {t \in first : Outranks(t, s)}
  IN  [n \in 1..Cardinality(first) |->
         CHOOSE s \in first : Cardinality(Ahead(s)) = n - 1]

\* dispatchSchedule: a group is written whole before anything is sent,
\* other targets one client at a time
Serve(s, to, winners) ==
  Handler(IF Sched[s].interrupts THEN "schedinterrupt"
          ELSE IF Sched[s].target = "group" THEN "group" ELSE "each",
          "write", Head(to), Sched[s].list, Tail(to), winners)

(***************************************************************************)
(* Rows and messages.                                                      *)
(***************************************************************************)
\* updateClient of either back end: of the two lists it writes only this one
UpdateClient(c, list) == row' = [row EXCEPT ![c].assigned = list]

\* updateClient of the service: the list is looked for before
Found(list) == list \in exists \cup {None}

\* A foreign key: a list that is gone cannot be written
MayWrite(list) == list \in exists \cup {None}

\* sendPlaylistToClient: a list that is gone is answered with an error
Deliver(c, list) ==
  shown' = IF c \in connected /\ list \in exists
           THEN [shown EXCEPT ![c] = list] ELSE shown

\* getClientPlaylists: highest priority first, ties in any order
Tops(c) ==
  IF ranked[c] = {} THEN {None}
  ELSE {r.list : r \in {x \in ranked[c] : \A y \in ranked[c] : y.rank <= x.rank}}

(***************************************************************************)
(* Handlers.                                                               *)
(***************************************************************************)
TargetsOf(winners) == UNION {Range(Targets(s)) : s \in Range(winners)}

Touches(h) ==
  IF h = Idle THEN {}
  ELSE {h.c} \cup Range(h.todo) \cup Range(h.out) \cup TargetsOf(h.winners)

Begin(h) ==
  LET free == {i \in Slots : ~Busy(i)}
      others == UNION {Touches(handlers[i]) : i \in Slots}
  IN  /\ free # {}
      /\ handlers' = [handlers EXCEPT ![CHOOSE i \in free : \A j \in free : i <= j] = h]
      /\ clash' = (clash \ Touches(h)) \cup (Touches(h) \cap others)

Continue(h, new) == handlers' = [handlers EXCEPT ![h] = new] /\ UNCHANGED clash
Ends(h) == Continue(h, Idle)

\* An error leaves the screens of this handler as they were.
Fails(h) ==
  /\ handlers' = [handlers EXCEPT ![h] = Idle]
  /\ clash' = clash \cup Touches(handlers[h])

Request == begun < MaxBegun /\ begun' = begun + 1

\* PUT /clients/:id
Put(c, list) ==
  /\ Request
  /\ Found(list)
  /\ Begin(Handler("put", "write", c, list, <<>>, <<>>))
  /\ UNCHANGED <<store, connected, shown, memory, clock, fired>>

\* POST /clients/:id/interrupt
Interrupt(c, list) ==
  /\ Request
  /\ list \in exists
  /\ Begin(Handler("interrupt", "write", c, list, <<>>, <<>>))
  /\ UNCHANGED <<store, connected, shown, memory, clock, fired>>

\* POST /groups/:id/assign
AssignGroup(list) ==
  /\ Request
  /\ list \in exists
  /\ Begin(Handler("group", "write", Head(Group), list, Tail(Group), <<>>))
  /\ UNCHANGED <<store, connected, shown, memory, clock, fired>>

\* The list assignments of a client: each of the three operations changes them
\* and has resolveActivePlaylist read them again.
AssignedTo(c) == {r.list : r \in ranked[c]}
removeClientPlaylist(c, list) == {r \in ranked[c] : r.list # list}
addClientPlaylist(c, list, rank) == ranked[c] \cup {[list |-> list, rank |-> rank]}
updateClientPlaylistPriority(c, list, rank) ==
  removeClientPlaylist(c, list) \cup {[list |-> list, rank |-> rank]}

Reranks(c, assignments) ==
  /\ Request
  /\ ranked' = [ranked EXCEPT ![c] = assignments]
  /\ Begin(Handler("ranked", "change", c, None, <<>>, <<>>))
  /\ UNCHANGED <<row, exists, connected, shown, memory, clock, fired>>

\* a second row for a list is refused by its unique key
addPlaylistAssignment(c, list, rank) ==
  list \in exists \ AssignedTo(c) /\ Reranks(c, addClientPlaylist(c, list, rank))

\* a list that is not assigned cannot be given a priority, but can be removed
updatePlaylistPriority(c, list, rank) ==
  list \in AssignedTo(c) /\ Reranks(c, updateClientPlaylistPriority(c, list, rank))
removePlaylistAssignment(c, list) == Reranks(c, removeClientPlaylist(c, list))

\* resolveActivePlaylist reads the best assignment
ReadTop(h) ==
  /\ Busy(h) /\ handlers[h].at = "change"
  /\ \E top \in Tops(handlers[h].c) :
       Continue(h, [handlers[h] EXCEPT !.at = "write", !.list = top])
  /\ UNCHANGED <<store, connected, shown, memory, clock, begun, fired>>

\* handleRegister: the row is read, and the connection added when the answer
\* is back
Register(c) ==
  /\ Request
  /\ c \notin connected
  /\ \A h \in Slots : Busy(h) => handlers[h].kind # "register" \/ handlers[h].c # c
  /\ Begin(Handler("register", "connect", c, row[c].assigned, <<>>, <<>>))
  /\ UNCHANGED <<store, connected, shown, memory, clock, fired>>

Connect(h) ==
  /\ Busy(h) /\ handlers[h].at = "connect"
  /\ connected' = connected \cup {handlers[h].c}
  /\ IF handlers[h].list = None THEN Ends(h)
     ELSE Continue(h, [handlers[h] EXCEPT !.at = "send"])
  /\ UNCHANGED <<store, shown, memory, clock, begun, fired>>

Disconnect(c) ==
  /\ Request
  /\ c \in connected
  /\ connected' = connected \ {c}
  /\ UNCHANGED <<store, shown, handlers, memory, clock, clash, fired>>

\* A variant of NextClient: the first client sent to is the last.
NextClientForgets(d) ==
  IF d.winners # <<>> THEN [d EXCEPT !.at = "dispatch"] ELSE Idle

\* A variant of NextClient: a group is stuck at the first client sent to.
NextClientStays(d) ==
  CASE d.todo # <<>> -> [d EXCEPT !.at = IF d.kind = "group" THEN d.at ELSE "write"]
    [] d.todo = <<>> /\ d.winners # <<>> -> [d EXCEPT !.at = "dispatch"]
    [] OTHER -> Idle

\* Where a handler goes when the client at hand is dealt with
NextClient(d) ==
  CASE d.todo # <<>> ->
         [d EXCEPT !.c = Head(d.todo), !.todo = Tail(d.todo),
                   !.at = IF d.kind = "group" THEN d.at ELSE "write"]
    [] d.todo = <<>> /\ d.winners # <<>> -> [d EXCEPT !.at = "dispatch"]
    [] OTHER -> Idle

\* Where a handler goes once the row is written: a group writes all its rows
\* first, the routes read the row again, a dispatch sends at once.
Written(h) ==
  LET d == handlers[h]
      all == Append(d.out, d.c)
  IN  CASE d.kind = "group" /\ d.todo # <<>> ->
             Continue(h, [d EXCEPT !.c = Head(d.todo), !.todo = Tail(d.todo), !.out = all])
        [] d.kind = "group" /\ d.todo = <<>> ->
             Continue(h, [d EXCEPT !.c = Head(all), !.todo = Tail(all), !.out = <<>>, !.at = "send"])
        [] d.kind = "put" \/ (d.kind = "ranked" /\ d.c \in connected) ->
             Continue(h, [d EXCEPT !.at = "reread"])
        [] d.kind = "ranked" /\ d.c \notin connected -> Ends(h)
        [] OTHER -> Continue(h, [d EXCEPT !.at = "send"])

WriteRow(h) ==
  /\ Busy(h) /\ handlers[h].at = "write" /\ MayWrite(handlers[h].list)
  /\ UpdateClient(handlers[h].c, handlers[h].list)
  /\ Written(h)
  /\ UNCHANGED <<ranked, exists, connected, shown, memory, clock, begun, fired>>

\* The list was deleted meanwhile. dispatchInterrupt catches the error of each
\* client, whose screen stays as it was; everywhere else it ends the handler,
\* other winners with it.
WriteRefused(h) ==
  /\ Busy(h) /\ handlers[h].at = "write" /\ ~MayWrite(handlers[h].list)
  /\ LET d == handlers[h]
     IN  IF d.kind = "schedinterrupt"
         THEN /\ handlers' = [handlers EXCEPT ![h] = NextClient(d)]
              /\ clash' = clash \cup {d.c}
         ELSE Fails(h)
  /\ UNCHANGED <<store, connected, shown, memory, clock, begun, fired>>

\* The route reads the row again for what it is going to send
Reread(h) ==
  /\ Busy(h) /\ handlers[h].at = "reread"
  /\ LET d == handlers[h]
         now == row[d.c].assigned
     IN  IF d.c \in connected /\ now # None /\ (d.kind = "put" => d.list # None)
         THEN Continue(h, [d EXCEPT !.at = "send", !.list = now])
         ELSE Ends(h)
  /\ UNCHANGED <<store, connected, shown, memory, clock, begun, fired>>

\* An administrator's interrupt is a message of its own
sendPlaylistInterrupt(h) ==
  /\ Busy(h) /\ handlers[h].at = "send" /\ handlers[h].kind = "interrupt"
  /\ Deliver(handlers[h].c, handlers[h].list)
  /\ Ends(h)
  /\ UNCHANGED <<store, connected, memory, clock, begun, fired>>

\* replaces the timer the client may have
scheduleAutoResume(c) == timers' = timers \cup {c}

SendList(h) ==
  /\ Busy(h) /\ handlers[h].at = "send" /\ handlers[h].kind # "interrupt"
  /\ Deliver(handlers[h].c, handlers[h].list)
  /\ Continue(h, NextClient(handlers[h]))
  /\ IF handlers[h].kind = "schedinterrupt" THEN scheduleAutoResume(handlers[h].c) ELSE UNCHANGED timers
  /\ UNCHANGED <<store, connected, lastTriggered, eventLastFired, clock, begun, fired>>

(***************************************************************************)
(* Ticks, events and timers.                                               *)
(***************************************************************************)
\* A variant of Evaluate: only what is dispatched is marked.
EvaluateMarksWinners ==
  LET winners == Winners(Triggering)
  IN  /\ Request
      /\ Triggering # {}
      /\ lastTriggered' = [s \in Ids |-> IF s \in Range(winners) THEN minute ELSE lastTriggered[s]]
      /\ Begin(Handler("each", "dispatch", Head(Targets(Head(winners))), None, <<>>, winners))
      /\ fired' = fired \cup {<<s, day, minute>> : s \in Range(winners)}
      /\ UNCHANGED <<store, connected, shown, eventLastFired, timers, clock>>

\* evaluateSchedules: every due schedule is marked before any is dispatched
Evaluate ==
  LET due == Triggering
      winners == Winners(due)
  IN  /\ Request
      /\ due # {}
      /\ lastTriggered' = [s \in Ids |-> IF s \in due THEN minute ELSE lastTriggered[s]]
      /\ Begin(Handler("each", "dispatch", Head(Targets(Head(winners))), None, <<>>, winners))
      /\ fired' = fired \cup {<<s, day, minute>> : s \in Range(winners)}
      /\ UNCHANGED <<store, connected, shown, eventLastFired, timers, clock>>

\* onEvent: each matching schedule not fired within the window; a global one is
\* narrowed to the client the event is about, if its payload says client_id:
\* telemetry's does, that of a screen's error report says clientId
Event(c) ==
  /\ Request
  /\ \E s \in Ids \ eventLastFired :
       /\ Sched[s].onEvent /\ Sched[s].list \in exists
       /\ eventLastFired' = eventLastFired \cup {s}
       /\ \E narrowed \in BOOLEAN :
            Begin(Serve(s, IF narrowed /\ Sched[s].target = "all" THEN <<c>> ELSE Targets(s), <<>>))
  /\ UNCHANGED <<store, connected, shown, lastTriggered, timers, clock, fired>>

\* The window of the event's schedule has passed
WindowPasses ==
  /\ Request
  /\ eventLastFired # {}
  /\ eventLastFired' = {}
  /\ UNCHANGED <<store, connected, shown, handlers, lastTriggered, timers, clock, clash, fired>>

\* The next winner
Dispatch(h) ==
  /\ Busy(h) /\ handlers[h].at = "dispatch"
  /\ LET s == Head(handlers[h].winners)
     IN  Continue(h, Serve(s, Targets(s), Tail(handlers[h].winners)))
  /\ UNCHANGED <<store, connected, shown, memory, clock, begun, fired>>

\* The timer of scheduleAutoResume: resumeFromInterrupt finds nothing put aside
\* in the row, throws, and the error is logged
AutoResume(c) ==
  /\ c \in timers
  /\ timers' = timers \ {c}
  /\ UNCHANGED <<store, connected, shown, handlers, lastTriggered, eventLastFired, clock, begun, clash, fired>>

\* The clock moves on while handlers are under way
Pass ==
  /\ Request
  /\ IF minute + 1 \in Minutes THEN minute' = minute + 1 /\ UNCHANGED day
     ELSE /\ day < MaxDay
          /\ day' = day + 1
          /\ minute' = CHOOSE m \in Minutes : \A n \in Minutes : m <= n
  /\ UNCHANGED <<store, connected, shown, handlers, memory, clash, fired>>

(***************************************************************************)
(* Playlists and restarts.                                                 *)
(***************************************************************************)
\* DELETE /playlists/:id with the foreign keys: rows that name the list lose
\* it, list assignments and schedules go with it
DeletePlaylist(list) ==
  LET Without(p) == IF p = list THEN None ELSE p
  IN  /\ Request
      /\ list \in exists
      /\ exists' = exists \ {list}
      /\ row' = [c \in Clients |-> [assigned |-> Without(row[c].assigned),
                                    from |-> Without(row[c].from)]]
      /\ ranked' = [c \in Clients |-> {r \in ranked[c] : r.list # list}]
      /\ UNCHANGED <<connected, shown, handlers, memory, clock, clash, fired>>

\* The process ends with its handlers and what ScheduleService remembers
Restart ==
  /\ Request
  /\ connected' = {}
  /\ handlers' = [h \in Slots |-> Idle]
  /\ lastTriggered' = [s \in Ids |-> None]
  /\ eventLastFired' = {}
  /\ timers' = {}
  /\ fired' = {}
  /\ UNCHANGED <<store, shown, clock, clash>>

Init ==
  /\ row = [c \in Clients |-> [assigned |-> None, from |-> None]]
  /\ ranked = [c \in Clients |-> {}]
  /\ exists = Playlists
  /\ connected \in {{}, Clients}
  /\ shown = [c \in Clients |-> None]
  /\ handlers = [h \in Slots |-> Idle]
  /\ lastTriggered = [s \in Ids |-> None]
  /\ eventLastFired = {}
  /\ timers = {}
  /\ day = 0
  /\ minute = CHOOSE m \in Minutes : \A n \in Minutes : m <= n
  /\ begun = 0
  /\ clash = {}
  /\ fired = {}

Step(h) ==
  ReadTop(h) \/ Connect(h) \/ WriteRow(h) \/ WriteRefused(h) \/ Reread(h)
  \/ SendList(h) \/ sendPlaylistInterrupt(h) \/ Dispatch(h)

Next ==
  \/ \E h \in Slots : Step(h)
  \/ \E c \in Clients :
       \/ \E list \in Lists : Put(c, list)
       \/ \E list \in Playlists : Interrupt(c, list)
       \/ \E list \in Playlists, rank \in Ranks :
            addPlaylistAssignment(c, list, rank) \/ updatePlaylistPriority(c, list, rank)
       \/ \E list \in Playlists : removePlaylistAssignment(c, list)
       \/ Register(c) \/ Disconnect(c) \/ Event(c) \/ AutoResume(c)
  \/ \E list \in Playlists : AssignGroup(list) \/ DeletePlaylist(list)
  \/ Evaluate \/ WindowPasses \/ Pass \/ Restart

Spec == Init /\ [][Next]_vars

\* A handler once begun goes on: the database and the sockets answer.
FairSpec == Spec /\ \A h \in Slots : WF_vars(Step(h))
-----------------------------------------------------------------------------
(***************************************************************************)
(* Properties.                                                             *)
(***************************************************************************)
Handling ==
  [kind : {"put", "ranked", "interrupt", "group", "register", "each", "schedinterrupt"},
   at : {"change", "write", "reread", "send", "connect", "dispatch"},
   c : Clients, list : Lists, todo : Seq(Clients), out : Seq(Clients), winners : Seq(Ids)]

\* Every variable keeps its shape; a row never names a playlist that is gone,
\* which the foreign keys of clients and client_playlists see to.
TypeOK ==
  /\ row \in [Clients -> [assigned : exists \cup {None}, from : exists \cup {None}]]
  /\ ranked \in [Clients -> SUBSET [list : exists, rank : Ranks]]
  /\ exists \subseteq Playlists
  /\ connected \subseteq Clients /\ timers \subseteq Clients /\ clash \subseteq Clients
  /\ shown \in [Clients -> Lists]
  /\ handlers \in [Slots -> {Idle} \cup Handling]
  /\ lastTriggered \in [Ids -> Minutes \cup {None}]
  /\ eventLastFired \subseteq Ids
  /\ day \in 0..MaxDay /\ minute \in Minutes /\ begun \in 0..MaxBegun
  /\ fired \subseteq Ids \X (0..MaxDay) \X Minutes

Handled(c) == \E h \in Slots : c \in Touches(handlers[h])

\* Unless two handlers overlapped on a client, a connected screen whose row
\* has a list was last sent that list once nobody is at work on it: no path of
\* the routes, of a registration or of a dispatch writes a row and leaves the
\* screen with another list.
ShownIsAssigned ==
  \A c \in connected \ clash :
     row[c].assigned # None /\ ~Handled(c) => shown[c] = row[c].assigned

\* The row that resolveActivePlaylist writes is the best assignment there is
\* at that moment, unless another handler was at work on the client.
ActiveIsTop ==
  [][\A h \in Slots :
       LET d == handlers[h]
       IN  Busy(h) /\ d.kind = "ranked" /\ d.at = "write" /\ d.c \notin clash'
           /\ handlers'[h] # d /\ begun' = begun
           => row'[d.c].assigned \in Tops(d.c)]_vars

\* What is best is what is assigned, and what is assigned is what is shown.
ScreensFollow == [](TypeOK /\ ShownIsAssigned) /\ ActiveIsTop

\* Of the schedules of one target that start in one minute evaluateSchedules
\* dispatches one, however often it runs in that minute.
OneWinnerPerTarget ==
  \A f, g \in fired :
     f[2] = g[2] /\ f[3] = g[3] /\ Sched[f[1]].target = Sched[g[1]].target => f = g

\* Within one run of the process no evaluation chooses a schedule again in the
\* minute it was chosen in.
FiresOncePerMinute ==
  [][\A h \in Slots : ~Busy(h) /\ handlers'[h] # Idle
       => \A s \in Range(handlers'[h].winners) : <<s, day, minute>> \notin fired]_vars

\* A schedule's minute has one dispatch.
FiresOnce == [][OneWinnerPerTarget']_vars /\ FiresOncePerMinute

\* A connected screen that does not show its row's list is sent it, goes away,
\* or was at the mercy of overlapping handlers.
ScreenCatchesUp ==
  \A c \in Clients :
     (c \in connected /\ shown[c] # row[c].assigned)
       ~> (shown[c] = row[c].assigned \/ row[c].assigned = None \/ c \notin connected \/ c \in clash)

=============================================================================
