------------------------- MODULE ConnectionRegistry -------------------------
(***************************************************************************)
(* The server's WebSocket side (server/src/websocket/server.ts,            *)
(* client-manager.ts, handlers.ts): sockets, the map from clients to       *)
(* sockets, and the status column of the client rows.  JavaScript runs     *)
(* one callback at a time, so a step is what a handler does between two    *)
(* awaits of the database; handlers of different messages interleave at    *)
(* their awaits.                                                           *)
(*                                                                         *)
(* Left out: what is sent (playlists, schedules, error responses, admin    *)
(* broadcasts), statistics, log events, heartbeats over HTTP.  A client    *)
(* uses its own id in every message, registers once per socket and reports *)
(* only after it has sent its registration.  A report's write and the      *)
(* refresh of the map after it are one step.                               *)
(***************************************************************************)
EXTENDS Naturals

CONSTANTS
  Clients,
  Sockets,
  Owner,      \* Owner[s]: the client that opens socket s
  None,
  Reports,    \* the kinds of reports clients send: "online", "error", "notice"
  MaxPending  \* bound on the status writes of one kind under way

VARIABLES
  link,     \* readyState as the server sees it; "closed" after the close event
  lost,     \* the peer has gone without closing
  known,    \* ws.clientId
  reg,      \* handleRegister of the socket: where it waits
  conn,     \* the connections map
  entry,    \* of the map's socket: isAlive, lastHeartbeat and connectedAt
  row,      \* client rows: status ("none": no row), and whether last_seen is old
  writing,  \* status writes under way, by kind
  deleting, \* a DELETE of the row is under way
  sweep     \* rows markOfflineClients has found and not yet written

registryVars == <<link, lost, known, reg, conn, entry, row, writing, deleting, sweep>>

socketVars == <<link, lost, known>>
rowVars == <<row, writing, deleting, sweep>>

Writes == Reports \cup {"offline"}

\* Assumed: None is no socket.
ASSUME RegistryAssumption ==
  /\ None \notin Sockets
  /\ None \notin Clients
  /\ Owner \in [Sockets -> Clients]
  /\ Reports \subseteq {"online", "error", "notice"}
  /\ MaxPending \in Nat

IsOpen(s) == s # None /\ link[s] = "open"
Connected(c) == conn[c] # None /\ link[conn[c]] = "open"

\* ws.close(), if the socket is open, for every socket of S.
Closing(S) == [s \in Sockets |-> IF s \in S /\ link[s] = "open" THEN "closing" ELSE link[s]]

\* age is 1 past heartbeatTimeout and 2 past staleTimeout; young is inside
\* DEDUP_WINDOW_MS.  The fields of a socket that is not in the map are read by
\* nobody, and addConnection sets them: a client that is not in the map has Fresh.
Fresh == [alive |-> TRUE, age |-> 0, young |-> TRUE]

NewRow(status) == [status |-> status, old |-> FALSE]
HasRow(c) == row[c].status # "none"

----------------------------------------------------------------------------
(* Sockets.                                                                *)

\* handleConnection, on a socket nothing remembers.  The last conjunct bounds
\* the offline writes under way.
Connect(s) ==
  /\ link[s] = "closed" /\ reg[s] = "idle" /\ conn[Owner[s]] # s
  /\ writing[Owner[s]]["offline"] < MaxPending
  /\ link' = [link EXCEPT ![s] = "open"]
  /\ lost' = [lost EXCEPT ![s] = FALSE]
  /\ known' = [known EXCEPT ![s] = None]
  /\ UNCHANGED <<reg, conn, entry, rowVars>>

\* The peer closes the socket, or the network ends it.
PeerCloses(s) ==
  /\ IsOpen(s)
  /\ link' = [link EXCEPT ![s] = "closing"]
  /\ UNCHANGED <<lost, known, reg, conn, entry, rowVars>>

PeerLost(s) ==
  /\ IsOpen(s) /\ ~lost[s]
  /\ lost' = [lost EXCEPT ![s] = TRUE]
  /\ UNCHANGED <<link, known, reg, conn, entry, rowVars>>

\* A variant of CloseEvent that removes whatever is in the map.
CloseEventAny(s) ==
  /\ link[s] = "closing"
  /\ link' = [link EXCEPT ![s] = "closed"]
  /\ lost' = [lost EXCEPT ![s] = FALSE]
  /\ conn' = [c \in Clients |-> IF known[s] = c THEN None ELSE conn[c]]
  /\ entry' = [c \in Clients |-> IF known[s] = c THEN Fresh ELSE entry[c]]
  /\ writing' = [c \in Clients |->
                   IF known[s] = c THEN [writing[c] EXCEPT !["offline"] = @ + 1] ELSE writing[c]]
  /\ UNCHANGED <<known, reg, row, deleting, sweep>>

\* handleDisconnection: the map is left alone if a newer socket has the entry,
\* but the offline status is written all the same.
CloseEvent(s) ==
  /\ link[s] = "closing"
  /\ link' = [link EXCEPT ![s] = "closed"]
  /\ lost' = [lost EXCEPT ![s] = FALSE]
  /\ conn' = [c \in Clients |-> IF known[s] = c /\ conn[c] = s THEN None ELSE conn[c]]
  /\ entry' = [c \in Clients |-> IF known[s] = c /\ conn[c] = s THEN Fresh ELSE entry[c]]
  /\ writing' = [c \in Clients |->
                   IF known[s] = c THEN [writing[c] EXCEPT !["offline"] = @ + 1] ELSE writing[c]]
  /\ UNCHANGED <<known, reg, row, deleting, sweep>>

Pong(s) ==
  /\ IsOpen(s) /\ ~lost[s] /\ conn[Owner[s]] = s
  /\ entry' = [entry EXCEPT ![Owner[s]].alive = TRUE]
  /\ UNCHANGED <<socketVars, reg, conn, rowVars>>

----------------------------------------------------------------------------
(* handleRegister, cut at its awaits.                                      *)

\* The message arrives and the row is looked up.
RegisterReads(s) ==
  /\ IsOpen(s) /\ ~lost[s] /\ known[s] = None /\ reg[s] = "idle"
  /\ reg' = [reg EXCEPT ![s] = IF HasRow(Owner[s]) THEN "updating" ELSE "creating"]
  /\ UNCHANGED <<socketVars, conn, entry, rowVars>>

\* registerClient, for a client that had no row and still has none.
RegisterCreates(s) ==
  /\ reg[s] = "creating" /\ ~HasRow(Owner[s])
  /\ row' = [row EXCEPT ![Owner[s]] = NewRow("offline")]
  /\ reg' = [reg EXCEPT ![s] = "created"]
  /\ UNCHANGED <<socketVars, conn, entry, writing, deleting, sweep>>

\* updateClient does not find the row that was there: it is made again.
RegisterMisses(s) ==
  /\ reg[s] = "updating" /\ ~HasRow(Owner[s])
  /\ reg' = [reg EXCEPT ![s] = "creating"]
  /\ UNCHANGED <<socketVars, conn, entry, rowVars>>

\* updateClient, of a row that was there or has just been made.
RegisterUpdates(s) ==
  /\ reg[s] \in {"updating", "created"} /\ HasRow(Owner[s])
  /\ row' = [row EXCEPT ![Owner[s]] = NewRow("online")]
  /\ reg' = [reg EXCEPT ![s] = "adding"]
  /\ UNCHANGED <<socketVars, conn, entry, writing, deleting, sweep>>

\* addConnection.  The socket may have been closed during the awaits.  A young
\* open entry stays and the newcomer is closed; any other is replaced.
RegisterAdds(s) ==
  LET c == Owner[s]
  IN  /\ reg[s] = "adding"
      /\ reg' = [reg EXCEPT ![s] = "idle"]
      /\ \/ /\ Connected(c) /\ entry[c].young
            /\ link' = Closing({s})
            /\ UNCHANGED <<known, conn, entry>>
         \/ /\ ~(Connected(c) /\ entry[c].young)
            /\ link' = Closing({conn[c]})
            /\ conn' = [conn EXCEPT ![c] = s]
            /\ known' = [known EXCEPT ![s] = c]
            /\ entry' = [entry EXCEPT ![c] = Fresh]
      /\ UNCHANGED <<lost, rowVars>>

\* The database fails, the row just made has gone, or another socket has made
\* it.
RegisterFails(s) ==
  /\ reg[s] \in {"creating", "created", "updating"}
  /\ reg' = [reg EXCEPT ![s] = "idle"]
  /\ link' = Closing({s})
  /\ UNCHANGED <<lost, known, conn, entry, rowVars>>

----------------------------------------------------------------------------
(* Reports: heartbeat and status_update (online), an error (error),        *)
(* telemetry and a warning (notice).                                       *)

\* A report is let in if the client is in the map with an open socket,
\* whichever socket it came from.
Report(s, kind) ==
  LET c == Owner[s]
  IN  /\ IsOpen(s) /\ ~lost[s] /\ (reg[s] # "idle" \/ known[s] # None)
      /\ Connected(c)
      /\ writing[c][kind] < MaxPending
      /\ writing' = [writing EXCEPT ![c][kind] = @ + 1]
      /\ UNCHANGED <<socketVars, reg, conn, entry, row, deleting, sweep>>

\* A variant of Stored: a heartbeat refreshes last_seen only.
StoredSeen(c, kind) ==
  CASE kind = "notice" -> row[c]
    [] kind = "online" -> [row[c] EXCEPT !.old = FALSE]
    [] OTHER -> NewRow(kind)

\* What a status write makes of the row; a notice leaves it alone.
Stored(c, kind) == IF kind = "notice" THEN row[c] ELSE NewRow(kind)

\* A status write reaches the database.  After a report the map's entry is
\* refreshed, whichever socket it is by now.
WriteLands(c, kind) ==
  /\ writing[c][kind] > 0
  /\ writing' = [writing EXCEPT ![c][kind] = @ - 1]
  /\ \/ /\ HasRow(c)
        /\ row' = [row EXCEPT ![c] = Stored(c, kind)]
        /\ entry' = IF kind = "offline" \/ conn[c] = None THEN entry
                    ELSE [entry EXCEPT ![c] = [Fresh EXCEPT !.young = entry[c].young]]
     \/ ~HasRow(c) /\ UNCHANGED <<row, entry>>
  /\ UNCHANGED <<socketVars, reg, conn, deleting, sweep>>

----------------------------------------------------------------------------
(* The intervals, and time.                                                *)

\* A variant of removeConnection that forgets only sockets it can still close.
RemoveOpen(C, marked) ==
  /\ link' = Closing({conn[c] : c \in C})
  /\ conn' = [c \in Clients |-> IF c \in C /\ Connected(c) THEN None ELSE conn[c]]
  /\ entry' = [c \in Clients |-> IF c \in C /\ Connected(c) THEN Fresh ELSE marked[c]]

\* removeConnection for the entries of C; the others become as in marked.
removeConnection(C, marked) ==
  /\ link' = Closing({conn[c] : c \in C})
  /\ conn' = [c \in Clients |-> IF c \in C THEN None ELSE conn[c]]
  /\ entry' = [c \in Clients |-> IF c \in C THEN Fresh ELSE marked[c]]

\* An entry is marked if it has no recent heartbeat, and if it is pinged.
Marked ==
  [c \in Clients |->
     IF conn[c] # None /\ (entry[c].age > 0 \/ Connected(c))
     THEN [entry[c] EXCEPT !.alive = FALSE] ELSE entry[c]]

\* healthCheck: an entry that was not alive is removed, another may be marked.
HealthCheck ==
  /\ removeConnection({c \in Clients : conn[c] # None /\ ~entry[c].alive}, Marked)
  /\ UNCHANGED <<lost, known, reg, rowVars>>

\* removeStaleConnections
RemoveStale ==
  /\ removeConnection({c \in Clients : conn[c] # None /\ entry[c].age = 2}, entry)
  /\ UNCHANGED <<lost, known, reg, rowVars>>

\* markOfflineClients reads the rows that are online, and then writes those
\* whose last_seen was old, one after the other.
SweepReads ==
  /\ sweep = {}
  /\ sweep' = {c \in Clients : row[c].status = "online" /\ row[c].old}
  /\ UNCHANGED <<socketVars, reg, conn, entry, row, writing, deleting>>

\* A row that has gone ends the sweep with an error.
SweepWrites(c) ==
  /\ c \in sweep
  /\ \/ HasRow(c) /\ row' = [row EXCEPT ![c].status = "offline"] /\ sweep' = sweep \ {c}
     \/ ~HasRow(c) /\ sweep' = {} /\ UNCHANGED row
  /\ UNCHANGED <<socketVars, reg, conn, entry, writing, deleting>>

\* A variant of HeartbeatAges that counts on.
HeartbeatAgesOn(c) ==
  /\ conn[c] # None
  /\ entry' = [entry EXCEPT ![c].age = @ + 1]
  /\ UNCHANGED <<socketVars, reg, conn, rowVars>>

HeartbeatAges(c) ==
  /\ conn[c] # None /\ entry[c].age < 2
  /\ entry' = [entry EXCEPT ![c].age = @ + 1]
  /\ UNCHANGED <<socketVars, reg, conn, rowVars>>

EntryAges(c) ==
  /\ conn[c] # None /\ entry[c].young
  /\ entry' = [entry EXCEPT ![c].young = FALSE]
  /\ UNCHANGED <<socketVars, reg, conn, rowVars>>

SeenAges(c) ==
  /\ HasRow(c) /\ ~row[c].old
  /\ row' = [row EXCEPT ![c].old = TRUE]
  /\ UNCHANGED <<socketVars, reg, conn, entry, writing, deleting, sweep>>

----------------------------------------------------------------------------
(* The administrator, and the process.                                     *)

\* unregisterClient: the entry is removed, then the row.
Unregister(c) ==
  /\ HasRow(c) /\ ~deleting[c]
  /\ removeConnection({c}, entry)
  /\ deleting' = [deleting EXCEPT ![c] = TRUE]
  /\ UNCHANGED <<lost, known, reg, row, writing, sweep>>

RowDeleted(c) ==
  /\ deleting[c]
  /\ deleting' = [deleting EXCEPT ![c] = FALSE]
  /\ row' = [row EXCEPT ![c] = NewRow("none")]
  /\ UNCHANGED <<socketVars, reg, conn, entry, writing, sweep>>

\* The process stops and starts again: only the rows survive.
Restart ==
  /\ link' = [s \in Sockets |-> "closed"]
  /\ known' = [s \in Sockets |-> None]
  /\ reg' = [s \in Sockets |-> "idle"]
  /\ conn' = [c \in Clients |-> None]
  /\ entry' = [c \in Clients |-> Fresh]
  /\ writing' = [c \in Clients |-> [kind \in Writes |-> 0]]
  /\ deleting' = [c \in Clients |-> FALSE]
  /\ sweep' = {}
  /\ lost' = [s \in Sockets |-> FALSE]
  /\ UNCHANGED row

InitRegistry ==
  /\ link = [s \in Sockets |-> "closed"]
  /\ lost = [s \in Sockets |-> FALSE]
  /\ known = [s \in Sockets |-> None]
  /\ reg = [s \in Sockets |-> "idle"]
  /\ conn = [c \in Clients |-> None]
  /\ entry = [c \in Clients |-> Fresh]
  /\ row = [c \in Clients |-> NewRow("none")]
  /\ writing = [c \in Clients |-> [kind \in Writes |-> 0]]
  /\ deleting = [c \in Clients |-> FALSE]
  /\ sweep = {}

Register(s) ==
  \/ RegisterCreates(s) \/ RegisterMisses(s) \/ RegisterUpdates(s) \/ RegisterAdds(s)
  \/ RegisterFails(s)

SocketStep(s) ==
  \/ Connect(s) \/ PeerCloses(s) \/ PeerLost(s) \/ CloseEvent(s) \/ Pong(s)
  \/ RegisterReads(s) \/ Register(s)
  \/ \E kind \in Reports : Report(s, kind)

ClientStep(c) ==
  \/ SweepWrites(c) \/ HeartbeatAges(c) \/ EntryAges(c) \/ SeenAges(c) \/ Unregister(c) \/ RowDeleted(c)
  \/ \E kind \in Writes : WriteLands(c, kind)

NextRegistry ==
  \/ \E s \in Sockets : SocketStep(s)
  \/ \E c \in Clients : ClientStep(c)
  \/ HealthCheck \/ RemoveStale \/ SweepReads \/ Restart

RegistrySpec == InitRegistry /\ [][NextRegistry]_registryVars

\* Timers fire, time passes, the database answers and does not fail every
\* registration, a closing socket closes, and a client that is there sends
\* heartbeats.
FairRegistry ==
  /\ RegistrySpec
  /\ WF_registryVars(HealthCheck) /\ WF_registryVars(SweepReads)
  /\ \A s \in Sockets :
       /\ WF_registryVars(CloseEvent(s)) /\ WF_registryVars(Register(s))
       /\ SF_registryVars(RegisterCreates(s)) /\ SF_registryVars(RegisterUpdates(s))
       /\ WF_registryVars(Report(s, "online"))
  /\ \A c \in Clients :
       /\ WF_registryVars(SweepWrites(c)) /\ WF_registryVars(SeenAges(c)) /\ WF_registryVars(EntryAges(c))
       /\ WF_registryVars(HeartbeatAges(c))
       /\ \A kind \in Writes : WF_registryVars(WriteLands(c, kind))

----------------------------------------------------------------------------
Entries == [alive : BOOLEAN, age : 0..2, young : BOOLEAN]
ClientRows == [status : {"none", "online", "error", "offline"}, old : BOOLEAN]
Counts == [Writes -> Nat]

RegistryTypeOK ==
  /\ link \in [Sockets -> {"closed", "open", "closing"}]
  /\ lost \in [Sockets -> BOOLEAN]
  /\ known \in [Sockets -> Clients \cup {None}]
  /\ reg \in [Sockets -> {"idle", "creating", "created", "updating", "adding"}]
  /\ conn \in [Clients -> Sockets \cup {None}]
  /\ entry \in [Clients -> Entries]
  /\ row \in [Clients -> ClientRows]
  /\ writing \in [Clients -> Counts]
  /\ deleting \in [Clients -> BOOLEAN]
  /\ sweep \subseteq Clients

\* An entry's socket knows the client it is registered for, its owner, and no
\* handler will register it again.
EntryKnown ==
  /\ \A s \in Sockets : known[s] \in {None, Owner[s]}
  /\ \A c \in Clients : conn[c] # None => known[conn[c]] = c
  /\ \A s \in Sockets : reg[s] # "idle" => known[s] = None

\* "Identity-checked removal": every socket that has registered and is open is
\* the one the map has, so that messages reach it and no client has two.
\* Replacement, duplicate rejection, late closes, health check and removal by
\* an administrator cannot between them leave an open socket outside the map.
OneSession ==
  \A s \in Sockets : link[s] = "open" /\ known[s] # None => conn[known[s]] = s

\* "Automatic Cleanup": an entry whose peer has gone, or whose socket closed
\* while it was being registered and had its close event before it was in the
\* map, does not stay.
DeadEntriesLeave ==
  \A c \in Clients : \A s \in Sockets :
    conn[c] = s /\ (lost[s] \/ link[s] = "closed") ~> conn[c] # s

\* A client whose sockets are all gone for good is not left online, though its
\* last reports were on their way or the server was restarted (but not for ever).
GoneIsNoticed ==
  \A c \in Clients :
    <>[](\A s \in Sockets : Owner[s] = c => link[s] = "closed") /\ <>[][~Restart]_registryVars
      => <>[](row[c].status # "online")

\* A client that stays connected shows as online again and again, whatever late
\* closes of older sockets, sweeps and errors have written.
StatusRecovers ==
  \A c \in Clients :
    <>[](Connected(c) /\ ~lost[conn[c]] /\ HasRow(c)) => []<>(row[c].status = "online")

\* The status of a row follows its client in the end, both when it goes and
\* when it stays.
StatusFollows == GoneIsNoticed /\ StatusRecovers
=============================================================================
