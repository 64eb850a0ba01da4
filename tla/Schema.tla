------------------------------- MODULE Schema -------------------------------
(***************************************************************************)
(* The database schema and MigrationRunner: the statements of every        *)
(* migration on each back end, the records of what was applied, and        *)
(* servers that run what is pending when they start, each statement        *)
(* committed by itself, with crashes at any point and several servers on   *)
(* one database.                                                           *)
(*                                                                         *)
(* An object of the schema is <<table, part>>: the table itself, a column  *)
(* a later migration adds, its indexes, its triggers, or rows it seeds.    *)
(* What one migration adds to one table in a row counts as one part.       *)
(***************************************************************************)
EXTENDS Naturals, Sequences, FiniteSets

CONSTANTS
  Backends,      \* of "sqlite", "mysql", "mssql", "mongodb"
  Servers,       \* server processes on the one database
  Legacy,        \* versions of databases older than the runner, 0 for none
  Targets,       \* versions an operator may roll back to
  MaxCrashes,    \* crashes
  MaxRollbacks   \* rollbacks

ASSUME SchemaAssumption ==
  /\ Backends \subseteq {"sqlite", "mysql", "mssql", "mongodb"}
  /\ Legacy \subseteq 0..18 /\ Targets \subseteq 0..18
  /\ MaxCrashes \in Nat /\ MaxRollbacks \in Nat

VARIABLES
  backend,     \* the back end of this database
  objects,     \* what is in the database
  recorded,    \* versions in schema_migrations
  version,     \* value of the schema_version row, when there is one
  server,      \* server -> [at, todo, stmt]
  operator,    \* whoever rolls back: [at, todo, stmt, target]
  crashes,
  rollbacks
vars == <<backend, objects, recorded, version, server, operator, crashes, rollbacks>>

(***************************************************************************)
(* Statements.                                                             *)
(***************************************************************************)
Part(t, parts) == {t} \X parts

\* fails if something of it is there already
Create(t, parts) == [op |-> "create", objs |-> Part(t, parts), to |-> t]
\* IF NOT EXISTS, OR REPLACE, $setOnInsert: adds what is missing
Ensure(t, parts) == [op |-> "ensure", objs |-> Part(t, parts), to |-> t]
\* fails if it is not there; a table goes with all its parts
Drop(t, parts) == [op |-> "drop", objs |-> Part(t, parts), to |-> t]
DropIf(t, parts) == [op |-> "dropif", objs |-> Part(t, parts), to |-> t]
Rename(t, new) == [op |-> "rename", objs |-> Part(t, {"table"}), to |-> new]

\* How the migrations after the first mostly write a table, an index and a
\* column: CREATE TABLE IF NOT EXISTS exists in SQLite and MySQL, CREATE INDEX
\* IF NOT EXISTS in SQLite only; createCollection fails on a collection that
\* is there, createIndex and updateMany do not.
NewTable(b, t) ==
  IF b \in {"sqlite", "mysql"} THEN Ensure(t, {"table"}) ELSE Create(t, {"table"})
NewIndex(b, t) ==
  IF b \in {"sqlite", "mongodb"} THEN Ensure(t, {"indexes"}) ELSE Create(t, {"indexes"})
NewColumn(b, t, c) ==
  IF b = "mongodb" THEN Ensure(t, {c}) ELSE Create(t, {c})

On(condition, statements) == IF condition THEN statements ELSE <<>>
Migration(up, down) == [up |-> up, down |-> down]

\* What the back end refuses whatever the database holds: in MySQL a default for
\* a TEXT column (002) and the keyword loop as a name (004), in SQL Server to
\* drop a column with a default, whose unnamed constraint stays (002, 009)
RefusedBy(b) ==
  CASE b = "mysql" -> {Create("media_files", {"thumbnail_status"}), Create("playlists", {"loop"})}
    [] b = "mssql" -> {Drop("media_files", {"thumbnail_status"}), Drop("media_files", {"approval_status"})}
    [] OTHER -> {}

BaseTables == <<"media_files", "playlists", "playlist_items", "clients", "client_status", "system_state">>
DropOrder == <<"client_status", "clients", "playlist_items", "playlists", "media_files", "system_state">>
EnsureTables(ts) == [i \in DOMAIN ts |-> Ensure(ts[i], {"table"})]

\* 001: the first schema on each back end, the schema_version row last
M001sqlite ==
  EnsureTables(BaseTables)
    \o <<Ensure("media_files", {"indexes", "triggers"}), Ensure("playlist_items", {"indexes", "triggers"}),
         Ensure("clients", {"indexes", "triggers"}), Ensure("playlists", {"views"}),
         Ensure("system_state", {"version"})>>

M001mysql ==
  EnsureTables(BaseTables)
    \o <<Create("media_files", {"indexes"}), Create("playlist_items", {"indexes"}),
         Create("clients", {"indexes"}), Create("media_files", {"triggers"}),
         Create("playlist_items", {"triggers"}), Create("clients", {"triggers"}),
         Ensure("playlists", {"views"}), Ensure("system_state", {"version"})>>

M001mssql ==
  EnsureTables(BaseTables)
    \o <<Ensure("media_files", {"indexes", "triggers"}), Ensure("playlist_items", {"indexes", "triggers"}),
         Ensure("clients", {"indexes", "triggers"}), Ensure("playlists", {"views"}),
         Ensure("system_state", {"version"})>>

M001mongodb ==
  EnsureTables(Append(BaseTables, "counters"))
    \o <<Ensure("media_files", {"indexes"}), Ensure("playlist_items", {"indexes"}),
         Ensure("clients", {"indexes"}), Ensure("system_state", {"version"})>>

M001(b) ==
  Migration(CASE b = "sqlite" -> M001sqlite [] b = "mysql" -> M001mysql
              [] b = "mssql" -> M001mssql [] b = "mongodb" -> M001mongodb,
            [i \in 1..6 |-> DropIf(DropOrder[i], {"table"})])

\* 002: SQLite takes the column away by rebuilding the table
M002(b) ==
  Migration(<<NewColumn(b, "media_files", "thumbnail_status")>>,
            CASE b = "sqlite" -> <<Create("media_files_backup", {"table"}), Drop("media_files", {"table"}),
                                   Rename("media_files_backup", "media_files")>>
              [] b = "mongodb" -> <<DropIf("media_files", {"thumbnail_status"})>>
              [] OTHER -> <<Drop("media_files", {"thumbnail_status"})>>)

M003(b) ==
  Migration(<<NewTable(b, "client_groups"), NewTable(b, "client_group_members"),
              NewIndex(b, "client_group_members")>>,
            <<DropIf("client_group_members", {"table"}), DropIf("client_groups", {"table"})>>)

\* 004: the way back leaves playlists.loop on every SQL back end
M004(b) ==
  Migration(<<NewTable(b, "schedules"), NewIndex(b, "schedules"), NewColumn(b, "playlists", "loop")>>,
            <<DropIf("schedules", {"table"})>>
              \o On(b = "mongodb", <<DropIf("playlists", {"loop"})>>))

M005(b) ==
  Migration(<<NewTable(b, "client_playlists"), NewIndex(b, "client_playlists")>>,
            <<DropIf("client_playlists", {"table"})>>)

\* 006: nothing to do in MongoDB; no way back in SQLite
M006(b) ==
  Migration(On(b # "mongodb", <<Create("clients", {"interrupted_from_playlist_id"})>>),
            On(b \in {"mysql", "mssql"}, <<Drop("clients", {"interrupted_from_playlist_id"})>>))

M007(b) ==
  Migration(<<NewTable(b, "playback_logs"), NewIndex(b, "playback_logs")>>,
            <<DropIf("playback_logs", {"table"})>>)

M008(b) ==
  Migration(<<NewTable(b, "notification_rules"), NewTable(b, "notification_history"),
              NewIndex(b, "notification_rules"), NewIndex(b, "notification_history")>>,
            <<DropIf("notification_history", {"table"}), DropIf("notification_rules", {"table"})>>)

M009(b) ==
  Migration(<<NewColumn(b, "media_files", "approval_status"), NewTable(b, "approval_logs"),
              NewIndex(b, "approval_logs")>>,
            <<DropIf("approval_logs", {"table"})>>
              \o CASE b = "sqlite" -> <<>>
                   [] b = "mongodb" -> <<DropIf("media_files", {"approval_status"})>>
                   [] OTHER -> <<Drop("media_files", {"approval_status"})>>)

M010(b) ==
  Migration(<<NewTable(b, "users"), NewIndex(b, "users")>>, <<DropIf("users", {"table"})>>)

M011(b) ==
  Migration(<<NewTable(b, "client_telemetry"), NewTable(b, "client_log_events"),
              NewIndex(b, "client_telemetry"), NewIndex(b, "client_log_events")>>,
            <<DropIf("client_telemetry", {"table"}), DropIf("client_log_events", {"table"})>>)

\* 012: SQLite widens the check by rebuilding the table; no way back
M012(b) ==
  Migration(On(b = "sqlite",
               <<Create("notification_rules_new", {"table"}), Drop("notification_rules", {"table"}),
                 Rename("notification_rules_new", "notification_rules"),
                 Ensure("notification_rules", {"indexes"})>>),
            <<>>)

\* 013: SQLite rebuilds schedules, the others alter it; then the templates and
\* their rows. The way back drops the templates only.
M013Schedules(b) ==
  CASE b = "sqlite" ->
         <<Create("schedules_new", {"table", "advanced"}), Drop("schedules", {"table"}),
           Rename("schedules_new", "schedules"), Ensure("schedules", {"indexes"})>>
    [] b = "mongodb" -> <<>>
    [] OTHER -> <<Create("schedules", {"advanced"})>>
M013(b) ==
  Migration(M013Schedules(b)
              \o <<IF b = "mssql" THEN Create("schedule_templates", {"table"})
                   ELSE Ensure("schedule_templates", {"table"}),
                   Ensure("schedule_templates", {"builtin"})>>,
            <<DropIf("schedule_templates", {"table"})>>)

\* 014: every statement but MySQL's asks first
M014Back(b) ==
  <<IF b \in {"sqlite", "mysql"} THEN Drop("media_files", {"folder_id"})
    ELSE DropIf("media_files", {"folder_id"}),
    DropIf("media_folders", {"table"})>>
M014(b) ==
  Migration(<<Ensure("media_folders", {"table"}),
              IF b = "mysql" THEN Create("media_folders", {"indexes", "triggers"})
              ELSE Ensure("media_folders", {"indexes", "triggers"}),
              IF b \in {"sqlite", "mysql"} THEN Create("media_files", {"folder_id"})
              ELSE Ensure("media_files", {"folder_id"})>>,
            M014Back(b))

M015(b) ==
  Migration(<<Ensure("subtitle_tracks", {"table"}),
              IF b = "mysql" THEN Create("subtitle_tracks", {"indexes"})
              ELSE Ensure("subtitle_tracks", {"indexes"})>>,
            <<DropIf("subtitle_tracks", {"table"})>>)

\* 016 and 017: MySQL has the indexes in the table, MongoDB makes the
\* collection with its first index
JobTable(b, t) ==
  Migration(IF b = "mssql" THEN <<Create(t, {"table"}), Create(t, {"indexes"})>>
            ELSE <<Ensure(t, {"table"}), Ensure(t, {"indexes"})>>,
            <<DropIf(t, {"table"})>>)
M016(b) == JobTable(b, "thumbnail_jobs")
M017(b) == JobTable(b, "upload_completion_jobs")

\* 018: nothing to do in MongoDB
M018(b) ==
  Migration(On(b # "mongodb", <<Create("playback_logs", {"quality"})>>),
            On(b # "mongodb", <<Drop("playback_logs", {"quality"})>>))

migrations(b) ==
  <<M001(b), M002(b), M003(b), M004(b), M005(b), M006(b), M007(b), M008(b), M009(b),
    M010(b), M011(b), M012(b), M013(b), M014(b), M015(b), M016(b), M017(b), M018(b)>>
Versions == 1..18

(***************************************************************************)
(* What a statement does.                                                  *)
(***************************************************************************)
TablesOf(objs) == {o[1] : o \in {x \in objs : x[2] = "table"}}
Under(os, t) == {o \in os : o[1] = t}

StatementFails(s, os) ==
  \/ s \in RefusedBy(backend)
  \/ s.op = "create" /\ s.objs \cap os # {}
  \/ s.op = "drop" /\ ~(s.objs \subseteq os)
  \/ s.op = "rename" /\ (~(s.objs \subseteq os) \/ <<s.to, "table">> \in os)
  \* a part needs its table
  \/ s.op \in {"create", "ensure"} /\ \E o \in s.objs : <<o[1], "table">> \notin os \cup s.objs

After(s, os) ==
  CASE s.op \in {"create", "ensure"} -> os \cup s.objs
    [] s.op \in {"drop", "dropif"} ->
         os \ (s.objs \cup UNION {Under(os, t) : t \in TablesOf(s.objs)})
    [] s.op = "rename" ->
         LET from == CHOOSE t \in TablesOf(s.objs) : TRUE
         IN  (os \ Under(os, from)) \cup {<<s.to, o[2]>> : o \in Under(os, from)}

(***************************************************************************)
(* The schema the first n migrations make of an empty database.            *)
(***************************************************************************)
Run(statements, os) ==
  LET run[n \in 0..Len(statements)] == IF n = 0 THEN os ELSE After(statements[n], run[n - 1])
  IN  run[Len(statements)]

SchemaAt ==
  [b \in Backends |->
     LET made[n \in 0..18] == IF n = 0 THEN {} ELSE Run(migrations(b)[n].up, made[n - 1])
     IN  made]

VersionRow == <<"system_state", "version">>
Down == [at |-> "down", todo |-> {}, stmt |-> 1]
Idle == [at |-> "idle", todo |-> {}, stmt |-> 1, target |-> 0]
First(S) == CHOOSE v \in S : \A w \in S : v <= w
Last(S) == CHOOSE v \in S : \A w \in S : v >= w

\* new database, or one made before there was a runner
Init ==
  /\ backend \in Backends
  /\ recorded = {}
  /\ \E v \in Legacy : version = v /\ objects = SchemaAt[backend][v]
  /\ server = [p \in Servers |-> Down]
  /\ operator = Idle
  /\ crashes = 0 /\ rollbacks = 0

(***************************************************************************)
(* MigrationRunner.run, called from connect as a server starts. A          *)
(* statement that fails ends the process, and its supervisor starts it     *)
(* again.                                                                  *)
(***************************************************************************)
GoOn(p, at, todo) == server' = [server EXCEPT ![p] = [at |-> at, todo |-> todo, stmt |-> 1]]
Fail(p) == server' = [server EXCEPT ![p] = Down] /\ UNCHANGED <<objects, recorded, version>>

\* a file of SQLite belongs to one process
MayRun(p) == backend = "sqlite" => \A q \in Servers \ {p} : server[q] = Down

\* the seed of system_state does not touch a row that is there
Execute(s) ==
  /\ objects' = After(s, objects)
  /\ version' = IF VersionRow \in objects' \ objects THEN 1 ELSE version

\* schema_migrations; asked for first on every back end, and made by a
\* statement that minds a table another server has made since, except in MongoDB
RecordsTable(b) ==
  IF b = "mongodb" THEN Create("schema_migrations", {"table"}) ELSE Ensure("schema_migrations", {"table"})

ensureMigrationsTable(p) ==
  /\ server[p].at = "down" /\ operator.at = "idle" /\ MayRun(p)
  /\ GoOn(p, IF RecordsTable(backend).objs \subseteq objects THEN "ensured" ELSE "missing", {})
  /\ UNCHANGED <<backend, objects, recorded, version, operator, crashes, rollbacks>>

CreateRecords(p) ==
  /\ server[p].at = "missing"
  /\ IF StatementFails(RecordsTable(backend), objects) THEN Fail(p)
     ELSE Execute(RecordsTable(backend)) /\ GoOn(p, "ensured", {}) /\ UNCHANGED recorded
  /\ UNCHANGED <<backend, operator, crashes, rollbacks>>

\* key, the column of system_state, is a keyword in MySQL and SQL Server: the
\* query of handleBaseline is refused there, and MySQL refuses the statement of
\* updateSchemaVersion as well
KeyRefused == {"mysql", "mssql"}

handleBaseline(p) ==
  /\ server[p].at = "ensured"
  /\ IF recorded = {} /\ backend \in KeyRefused /\ <<"system_state", "table">> \in objects THEN Fail(p)
     ELSE /\ GoOn(p, "baseline",
                  IF recorded = {} /\ VersionRow \in objects THEN {v \in Versions : v <= version} ELSE {})
          /\ UNCHANGED <<objects, recorded, version>>
  /\ UNCHANGED <<backend, operator, crashes, rollbacks>>

\* the version is the primary key of schema_migrations, not so in MongoDB
recordMigration(p, v, at, todo) ==
  IF v \in recorded /\ backend # "mongodb" THEN Fail(p)
  ELSE /\ recorded' = recorded \cup {v}
       /\ GoOn(p, at, todo)
       /\ UNCHANGED <<objects, version>>

baselineTo(p) ==
  /\ server[p].at = "baseline" /\ server[p].todo # {}
  /\ LET v == First(server[p].todo)
     IN  recordMigration(p, v, "baseline", server[p].todo \ {v})
  /\ UNCHANGED <<backend, operator, crashes, rollbacks>>

\* A variant of ReadPending: what is recorded is run again.
ReadPendingAll(p) ==
  /\ server[p].at = "baseline" /\ server[p].todo = {}
  /\ GoOn(p, "up", Versions)
  /\ UNCHANGED <<backend, objects, recorded, version, operator, crashes, rollbacks>>

ReadPending(p) ==
  /\ server[p].at = "baseline" /\ server[p].todo = {}
  /\ GoOn(p, "up", Versions \ recorded)
  /\ UNCHANGED <<backend, objects, recorded, version, operator, crashes, rollbacks>>

Up(p) ==
  LET up == migrations(backend)[First(server[p].todo)].up
  IN  /\ server[p].at = "up" /\ server[p].todo # {} /\ server[p].stmt <= Len(up)
      /\ IF StatementFails(up[server[p].stmt], objects) THEN Fail(p)
         ELSE /\ Execute(up[server[p].stmt])
              /\ server' = [server EXCEPT ![p].stmt = @ + 1]
              /\ UNCHANGED recorded
      /\ UNCHANGED <<backend, operator, crashes, rollbacks>>

Recorded(p) ==
  /\ server[p].at = "up" /\ server[p].todo # {}
  /\ LET v == First(server[p].todo)
     IN  /\ server[p].stmt > Len(migrations(backend)[v].up)
         /\ recordMigration(p, v, "version", server[p].todo)
  /\ UNCHANGED <<backend, operator, crashes, rollbacks>>

\* an UPDATE, in MongoDB an upsert
updateSchemaVersion(p) ==
  /\ server[p].at = "version"
  /\ LET v == First(server[p].todo)
     IN  IF backend = "mysql" THEN Fail(p)
         ELSE /\ version' = IF VersionRow \in objects \/ backend = "mongodb" THEN v ELSE version
              /\ GoOn(p, "up", server[p].todo \ {v})
              /\ objects' = IF backend = "mongodb" THEN objects \cup {VersionRow} ELSE objects
              /\ UNCHANGED recorded
  /\ UNCHANGED <<backend, operator, crashes, rollbacks>>

\* A variant of Serve: connect does not await the runner.
ServeUnawaited(p) ==
  /\ server[p].at = "up"
  /\ GoOn(p, "serving", {})
  /\ UNCHANGED <<backend, objects, recorded, version, operator, crashes, rollbacks>>

Serve(p) ==
  /\ server[p].at = "up" /\ server[p].todo = {}
  /\ GoOn(p, "serving", {})
  /\ UNCHANGED <<backend, objects, recorded, version, operator, crashes, rollbacks>>

Crash(p) ==
  /\ server[p].at # "down" /\ crashes < MaxCrashes
  /\ server' = [server EXCEPT ![p] = Down]
  /\ crashes' = crashes + 1
  /\ UNCHANGED <<backend, objects, recorded, version, operator, rollbacks>>

(***************************************************************************)
(* MigrationRunner.rollback, with the servers stopped in good order.       *)
(***************************************************************************)
rollback(t) ==
  /\ operator.at = "idle" /\ rollbacks < MaxRollbacks /\ recorded # {}
  /\ \A p \in Servers : server[p].at \in {"down", "serving"}
  /\ operator' = [at |-> "down", todo |-> {v \in recorded : v > t}, stmt |-> 1, target |-> t]
  /\ server' = [p \in Servers |-> Down]
  /\ rollbacks' = rollbacks + 1
  /\ UNCHANGED <<backend, objects, recorded, version, crashes>>

RollDown ==
  LET down == migrations(backend)[Last(operator.todo)].down
  IN  /\ operator.at = "down" /\ operator.todo # {} /\ operator.stmt <= Len(down)
      /\ IF StatementFails(down[operator.stmt], objects)
         THEN operator' = Idle /\ UNCHANGED <<objects, version>>
         ELSE /\ Execute(down[operator.stmt])
              /\ operator' = [operator EXCEPT !.stmt = @ + 1]
      /\ UNCHANGED <<backend, recorded, server, crashes, rollbacks>>

\* schema_version keeps the value it had
removeMigrationRecord ==
  /\ operator.at = "down" /\ operator.todo # {}
  /\ LET v == Last(operator.todo)
     IN  /\ operator.stmt > Len(migrations(backend)[v].down)
         /\ recorded' = recorded \ {v}
         /\ operator' = [operator EXCEPT !.todo = @ \ {v}, !.stmt = 1]
  /\ UNCHANGED <<backend, objects, version, server, crashes, rollbacks>>

RollbackEnds ==
  /\ operator.at = "down" /\ operator.todo = {}
  /\ operator' = Idle
  /\ UNCHANGED <<backend, objects, recorded, version, server, crashes, rollbacks>>

Start(p) ==
  \/ ensureMigrationsTable(p) \/ CreateRecords(p) \/ handleBaseline(p) \/ baselineTo(p) \/ ReadPending(p)
  \/ Up(p) \/ Recorded(p) \/ updateSchemaVersion(p) \/ Serve(p)

RollBack == RollDown \/ removeMigrationRecord \/ RollbackEnds

Next ==
  \/ \E p \in Servers : Start(p) \/ Crash(p)
  \/ \E t \in Targets : rollback(t)
  \/ RollBack

Spec == Init /\ [][Next]_vars
\* a supervisor starts a server that has ended, and an operator sees a rollback
\* through
FairSpec == Spec /\ \A p \in Servers : WF_vars(Start(p)) /\ WF_vars(RollBack)

(***************************************************************************)
(* Properties.                                                             *)
(***************************************************************************)
Stage == {"down", "missing", "ensured", "baseline", "up", "version", "serving"}
TypeOK ==
  /\ backend \in Backends
  /\ recorded \subseteq Versions /\ version \in 0..18
  /\ server \in [Servers -> [at : Stage, todo : SUBSET Versions, stmt : Nat]]
  /\ operator \in [at : {"idle", "down"}, todo : SUBSET Versions, stmt : Nat, target : 0..18]
  /\ crashes \in 0..MaxCrashes /\ rollbacks \in 0..MaxRollbacks

\* No server serves a schema that lacks something its code reads: whatever
\* crashed before, and however servers that start together interleave.
ServesComplete ==
  (\E p \in Servers : server[p].at = "serving") => SchemaAt[backend][18] \subseteq objects

\* The records name an initial run of the migrations: none is skipped, so that
\* one is never run on a schema it was not written for.
AppliedInOrder == recorded = 1..Cardinality(recorded)

\* A rollback leaves all that the migrations it keeps have made. (A crash in
\* the middle of one leaves a part that no record speaks of.)
RolledBack == operator.at = "down" /\ operator.todo = {} /\ crashes = 0
RollbackKeeps == RolledBack => SchemaAt[backend][Cardinality(recorded)] \subseteq objects

\* What the records of the migrations say of the schema is true.
SchemaSound == TypeOK /\ ServesComplete /\ AppliedInOrder /\ RollbackKeeps

\* Without a crash, every start ends with a server that serves, even when
\* servers race to migrate one database or a rollback came first. On MySQL none
\* does, and on SQL Server none on a database from before the runner.
Serving == \E p \in Servers : server[p].at = "serving"
AllServe == \A p \in Servers : server[p].at = "serving"
Starts == backend # "mysql" /\ (backend = "mssql" => version = 0)
ComesUp == Starts => []<>(crashes > 0 \/ IF backend = "sqlite" THEN Serving ELSE AllServe)
=============================================================================
