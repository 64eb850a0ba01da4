------------------------------ MODULE Definitions ------------------------------
(***************************************************************************)
(* The schedules a screen holds.  A screen evaluates its schedules itself  *)
(* while it is offline, from the definitions the server last sent it: on   *)
(* its registration, and after each change of a schedule or of a group's   *)
(* members, to every screen the change concerns.  Each of these pushes     *)
(* reads the schedules and the screen's groups anew, statement by          *)
(* statement, next to the pushes of other requests.                        *)
(***************************************************************************)
EXTENDS Requests

CONSTANTS
  Screen, Group, Playlist,
  Starts,         \* <<members, connected, target of the first schedule>> to start from
  MaxSchedules    \* no schedule is asked for once there have been as many

Everyone == "everyone"    \* neither client_id nor group_id
Targets == Screen \cup Group \cup {Everyone}

\* a target says in which of its columns it stands
ASSUME DefinitionsAssumption ==
  /\ MaxSchedules \in Nat
  /\ Screen \cap Group = {} /\ Everyone \notin Screen \cup Group
  /\ Starts \subseteq (SUBSET (Group \X Screen)) \X (SUBSET Screen) \X Targets

VARIABLES
  playlists, groups,   \* rows
  members,             \* rows of client_group_members: <<group, screen>>
  schedules,           \* rows of schedules: [id, pl, to, prio]
  nextSchedule,
  templates,           \* rows of schedule_templates; the built-in ones stay
  connected,           \* screens with a registered connection
  defs,                \* screen -> the definitions it was last sent
  pushes               \* sendSchedulesToClient in progress: [by, to, at, rows]
tables == <<playlists, groups, members, schedules, nextSchedule, templates>>
pushVars == <<connected, defs, pushes>>
definitionVars == <<tables, pushVars>>

MembersOf(g) == {c \in Screen : <<g, c>> \in members}
GroupsOf(c) == {g \in groups : <<g, c>> \in members}

\* the screens a schedule is for, and the schedules of a screen
getClientsForSchedule(s) ==
  IF s.to \in Screen THEN {s.to} ELSE IF s.to \in Group THEN MembersOf(s.to) ELSE Screen
Applying(c, rows, gs) == {s \in rows : s.to \in {c, Everyone} \cup gs}
getSchedulesForClient(c) == Applying(c, schedules, GroupsOf(c))
ScreensCurrent == \A c \in connected : defs[c] = getSchedulesForClient(c)

InitDefinitions ==
  /\ playlists = Playlist /\ groups = Group
  /\ \E s \in Starts, pl \in Playlist :
       /\ members = s[1] /\ connected = s[2]
       /\ schedules = {[id |-> 1, pl |-> pl, to |-> s[3], prio |-> 0]}
  /\ nextSchedule = 2 /\ templates = {"builtin", "own"}
  /\ pushes = {}
  /\ defs = [c \in Screen |-> IF c \in connected THEN getSchedulesForClient(c) ELSE {}]

(***************************************************************************)
(* sendSchedulesToClient                                                   *)
(***************************************************************************)
\* nothing for a screen that is not connected: it is sent on registration
sendSchedules(h, to) ==
  pushes' = pushes \cup {[by |-> h, to |-> c, at |-> "schedules", rows |-> {}] : c \in to \cap connected}
Replace(p, q) == pushes' = (pushes \ {p}) \cup {q}

ReadSchedules(p) ==
  /\ p.at = "schedules" /\ Turn(p.by)
  /\ Replace(p, [p EXCEPT !.at = "groups", !.rows = schedules])
  /\ UNCHANGED <<requestVars, tables, connected, defs>>

\* A variant of SendDefinitions: it waits for the screen to be there
SendWhenConnected(p) ==
  /\ p.at = "groups" /\ Turn(p.by) /\ p.to \in connected
  /\ defs' = [defs EXCEPT ![p.to] = Applying(p.to, p.rows, GroupsOf(p.to))]
  /\ pushes' = pushes \ {p}
  /\ UNCHANGED <<requestVars, tables, connected>>

\* the screen's groups, and the message, which a connection that is gone does
\* not take: the handler awaits nothing between the answer and the sending
SendDefinitions(p) ==
  /\ p.at = "groups" /\ Turn(p.by)
  /\ defs' = IF p.to \in connected THEN [defs EXCEPT ![p.to] = Applying(p.to, p.rows, GroupsOf(p.to))] ELSE defs
  /\ pushes' = pushes \ {p}
  /\ UNCHANGED <<requestVars, tables, connected>>

\* the handler goes on when all its pushes have come to their end
Pushed(h) ==
  LET r == req[h] IN
  /\ At(h, r.op, "push") /\ \A p \in pushes : p.by # h
  /\ GoOn(h, IF r.list = <<>> THEN [r EXCEPT !.at = "ok"] ELSE [r EXCEPT !.at = "clients"])
  /\ UNCHANGED <<tables, pushVars>>

\* getClientsForSchedule of the next of the schedules in list
PushToAffected(h) ==
  LET r == req[h] IN
  /\ At(h, r.op, "clients")
  /\ sendSchedules(h, getClientsForSchedule(Head(r.list)))
  /\ GoOn(h, [r EXCEPT !.list = Tail(@), !.at = "push"])
  /\ UNCHANGED <<tables, connected, defs>>

(***************************************************************************)
(* Schedules                                                               *)
(***************************************************************************)
Exists(to) == to \in Group => to \in groups
sql == backend # "mongodb"

createSchedule(h, pl, to) ==
  /\ nextSchedule <= MaxSchedules
  /\ Begin(h, "create", "check", 0, <<pl, to>>, ScreensCurrent)
  /\ UNCHANGED <<tables, pushVars>>

\* createSchedule of the service, for a request or for a template's
Creates == {"create", "instantiate"}

CheckTargets(h) ==
  /\ \E op \in Creates : At(h, op, "check")
  /\ GoTo(h, IF req[h].arg[1] \in playlists /\ Exists(req[h].arg[2]) THEN "insert" ELSE "error")
  /\ UNCHANGED <<tables, pushVars>>

NewSchedule(r) == [id |-> nextSchedule, pl |-> r.arg[1], to |-> r.arg[2], prio |-> 0]

\* SQL reads the row back by the id its driver reports, and SQL Server's
\* reports none: the request fails, the row stays, nobody is told. Of a schedule
\* made from a template no screen is told at all.
InsertSchedule(h) ==
  LET r == req[h]
      s == NewSchedule(r)
  IN  /\ \E op \in Creates : At(h, op, "insert")
      /\ IF sql /\ (s.pl \notin playlists \/ ~Exists(s.to))
         THEN GoTo(h, "error") /\ UNCHANGED <<schedules, nextSchedule>>
         ELSE /\ schedules' = schedules \cup {s} /\ nextSchedule' = nextSchedule + 1
              /\ GoOn(h, [r EXCEPT !.list = <<s>>, !.at = IF backend = "mssql" THEN "error"
                                                      ELSE IF r.op = "create" THEN "clients" ELSE "ok"])
      /\ UNCHANGED <<playlists, groups, members, templates, pushVars>>

\* Templates: one is read and then made a schedule of, which keeps no hold of it
Templating(h, op, at, arg) ==
  /\ Begin(h, op, at, 0, arg, ScreensCurrent)
  /\ UNCHANGED <<tables, pushVars>>
instantiate(h, t, pl, to) == nextSchedule <= MaxSchedules /\ Templating(h, "instantiate", "template", <<pl, to, t>>)
deleteTemplate(h, t) == Templating(h, "discard", "template", <<"", "", t>>)
createTemplate(h) == "new" \notin templates /\ Templating(h, "template", "row", <<>>)

getTemplateById(h) ==
  LET r == req[h] IN
  /\ r.op \in {"instantiate", "discard"} /\ At(h, r.op, "template")
  /\ GoTo(h, IF r.arg[3] \notin templates THEN "error"
              ELSE IF r.op = "instantiate" THEN "check"
              ELSE IF r.arg[3] = "builtin" THEN "error" ELSE "row")
  /\ UNCHANGED <<tables, pushVars>>

createScheduleTemplate(h) ==
  /\ At(h, "template", "row")
  /\ templates' = templates \cup {"new"}
  /\ GoTo(h, IF backend = "mssql" THEN "error" ELSE "ok")
  /\ UNCHANGED <<playlists, groups, members, schedules, nextSchedule, pushVars>>

deleteScheduleTemplate(h) ==
  /\ At(h, "discard", "row")
  /\ templates' = templates \ {req[h].arg[3]}
  /\ GoTo(h, "ok")
  /\ UNCHANGED <<playlists, groups, members, schedules, nextSchedule, pushVars>>

\* previous: as it was before the change, for the screens that had it
Change(h, op, s, arg) ==
  /\ s \in schedules
  /\ Begin(h, op, "previous", s.id, arg, ScreensCurrent)
  /\ UNCHANGED <<tables, pushVars>>
updateSchedule(h, s, to, prio) == Change(h, "change", s, <<to, prio>>)
deleteSchedule(h, s) == Change(h, "cancel", s, <<>>)

RowsOf(id) == {s \in schedules : s.id = id}

Previous(h) ==
  LET r == req[h] IN
  /\ r.op \in {"change", "cancel"} /\ At(h, r.op, "previous")
  /\ \/ RowsOf(r.on) = {} /\ GoTo(h, "error")
     \/ \E s \in RowsOf(r.on) : GoOn(h, [r EXCEPT !.list = <<s>>, !.at = IF r.op = "change" THEN "write" ELSE "row"])
  /\ UNCHANGED <<tables, pushVars>>

WriteSchedule(h) ==
  LET r == req[h]
      new(s) == [s EXCEPT !.to = r.arg[1], !.prio = r.arg[2]]
  IN  /\ At(h, "change", "write")
      /\ IF sql /\ ~Exists(r.arg[1]) THEN GoTo(h, "error") /\ UNCHANGED schedules
         ELSE /\ schedules' = {IF s.id = r.on THEN new(s) ELSE s : s \in schedules}
              /\ GoTo(h, "reread")
      /\ UNCHANGED <<playlists, groups, members, nextSchedule, templates, pushVars>>

\* A variant of Reread: only the new targets are told
RereadNew(h) ==
  /\ At(h, "change", "reread")
  /\ \/ RowsOf(req[h].on) = {} /\ GoTo(h, "error")
     \/ \E s \in RowsOf(req[h].on) : GoOn(h, [req[h] EXCEPT !.list = <<s>>, !.at = "clients"])
  /\ UNCHANGED <<tables, pushVars>>

\* the old targets are told first, and then the new ones
Reread(h) ==
  LET r == req[h] IN
  /\ At(h, "change", "reread")
  /\ \/ RowsOf(r.on) = {} /\ GoTo(h, "error")
     \/ \E s \in RowsOf(r.on) : GoOn(h, [r EXCEPT !.list = Append(@, s), !.at = "clients"])
  /\ UNCHANGED <<tables, pushVars>>

DeleteScheduleRow(h) ==
  /\ At(h, "cancel", "row")
  /\ schedules' = schedules \ RowsOf(req[h].on)
  /\ GoTo(h, "clients")
  /\ UNCHANGED <<playlists, groups, members, nextSchedule, templates, pushVars>>

(***************************************************************************)
(* Groups                                                                  *)
(***************************************************************************)
addMember(h, g, c) ==
  /\ g \in groups
  /\ Begin(h, "join", "check", g, <<c>>, ScreensCurrent)
  /\ UNCHANGED <<tables, pushVars>>

CheckMember(h) ==
  LET r == req[h] IN
  /\ At(h, "join", "check")
  /\ GoTo(h, IF r.on \in groups /\ <<r.on, r.arg[1]>> \notin members THEN "insert" ELSE "error")
  /\ UNCHANGED <<tables, pushVars>>

addClientToGroup(h) ==
  LET r == req[h]  m == <<r.on, r.arg[1]>> IN
  /\ At(h, "join", "insert")
  /\ IF m \in members \/ (sql /\ r.on \notin groups) THEN GoTo(h, "error") /\ UNCHANGED <<members, pushes>>
     ELSE /\ members' = members \cup {m}
          /\ IF backend = "mssql" THEN GoTo(h, "error") /\ UNCHANGED pushes
             ELSE GoTo(h, "push") /\ sendSchedules(h, {r.arg[1]})
  /\ UNCHANGED <<playlists, groups, schedules, nextSchedule, templates, connected, defs>>

removeMember(h, g, c) ==
  /\ g \in groups
  /\ Begin(h, "leave", "row", g, <<c>>, ScreensCurrent)
  /\ UNCHANGED <<tables, pushVars>>

removeClientFromGroup(h) ==
  LET r == req[h] IN
  /\ At(h, "leave", "row")
  /\ members' = members \ {<<r.on, r.arg[1]>>}
  /\ GoTo(h, "push") /\ sendSchedules(h, {r.arg[1]})
  /\ UNCHANGED <<playlists, groups, schedules, nextSchedule, templates, connected, defs>>

\* ON DELETE CASCADE takes a group's members and schedules along, but SQL
\* Server refuses while it has schedules and MongoDB leaves them. No screen is
\* told: neither here nor when a playlist is deleted.
deleteGroup(h, g) ==
  /\ g \in groups
  /\ Begin(h, "disband", IF sql THEN "row" ELSE "members", g, <<>>, ScreensCurrent)
  /\ UNCHANGED <<tables, pushVars>>

mongoDeleteMembers(h) ==
  /\ At(h, "disband", "members")
  /\ members' = {m \in members : m[1] # req[h].on}
  /\ GoTo(h, "row")
  /\ UNCHANGED <<playlists, groups, schedules, nextSchedule, templates, pushVars>>

DeleteGroupRow(h) ==
  LET g == req[h].on
      its == {s \in schedules : s.to = g}
  IN  /\ At(h, "disband", "row")
      /\ IF backend = "mssql" /\ its # {} THEN GoTo(h, "error") /\ UNCHANGED <<groups, members, schedules>>
         ELSE /\ groups' = groups \ {g}
              /\ members' = IF sql THEN {m \in members : m[1] # g} ELSE members
              /\ schedules' = IF sql THEN schedules \ its ELSE schedules
              /\ GoTo(h, "ok")
      /\ UNCHANGED <<playlists, nextSchedule, templates, pushVars>>

deletePlaylist(h, pl) ==
  /\ pl \in playlists
  /\ Begin(h, "drop", "row", pl, <<>>, ScreensCurrent)
  /\ UNCHANGED <<tables, pushVars>>

DeletePlaylistRow(h) ==
  LET pl == req[h].on IN
  /\ At(h, "drop", "row")
  /\ playlists' = playlists \ {pl}
  /\ schedules' = {s \in schedules : sql => s.pl # pl}
  /\ GoTo(h, "ok")
  /\ UNCHANGED <<groups, members, nextSchedule, templates, pushVars>>

(***************************************************************************)
(* Screens come and go                                                     *)
(***************************************************************************)
\* from where the connection is added
handleRegister(h, c) ==
  /\ c \notin connected
  /\ Begin(h, "register", "push", c, <<>>, ScreensCurrent)
  /\ connected' = connected \cup {c}
  /\ pushes' = pushes \cup {[by |-> h, to |-> c, at |-> "schedules", rows |-> {}]}
  /\ UNCHANGED <<tables, defs>>

handleDisconnection(c) ==
  /\ c \in connected /\ (backend = "sqlite" => \A h \in Handlers : ~Open(h))
  /\ connected' = connected \ {c}
  /\ UNCHANGED <<requestVars, tables, defs, pushes>>

BeginDefinitions(h) ==
  \/ createTemplate(h)
  \/ \E t \in {"builtin", "own"} : deleteTemplate(h, t)
  \* a built-in one is as this one is, but stays; targets are looked for as above
  \/ \E pl \in Playlist : instantiate(h, "own", pl, Everyone)
  \/ \E pl \in Playlist, to \in Targets : createSchedule(h, pl, to)
  \/ \E s \in schedules :
       \/ deleteSchedule(h, s)
       \/ \E to \in Targets : updateSchedule(h, s, to, 1)
  \/ \E g \in Group :
       \/ deleteGroup(h, g)
       \/ \E c \in Screen : addMember(h, g, c) \/ removeMember(h, g, c)
  \/ \E pl \in Playlist : deletePlaylist(h, pl)
  \/ \E c \in Screen : handleRegister(h, c)

StepDefinitions(h) ==
  \/ Pushed(h) \/ PushToAffected(h)
  \/ CheckTargets(h) \/ InsertSchedule(h) \/ Previous(h) \/ WriteSchedule(h) \/ Reread(h) \/ DeleteScheduleRow(h)
  \/ CheckMember(h) \/ addClientToGroup(h) \/ removeClientFromGroup(h)
  \/ getTemplateById(h) \/ createScheduleTemplate(h) \/ deleteScheduleTemplate(h)
  \/ mongoDeleteMembers(h) \/ DeleteGroupRow(h) \/ DeletePlaylistRow(h)

\* what a handler waits for besides its own statements
Push == \E p \in pushes : ReadSchedules(p) \/ SendDefinitions(p)
Leave == \E c \in Screen : handleDisconnection(c)
=============================================================================
