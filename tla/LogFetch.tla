------------------------------ MODULE LogFetch ------------------------------
(***************************************************************************)
(* An operator asks for the end of a screen's log.  The request is held    *)
(* open while a command goes to the screen over its connection; the        *)
(* screen, one message at a time, reads its file and uploads the end of it *)
(* in a request of its own, which finds the one that waits by its id; or   *)
(* the wait is over after a time, and the upload may come all the same.    *)
(***************************************************************************)
EXTENDS Requests

CONSTANT Players        \* the screens

VARIABLES
  online,     \* screens with an open connection
  pending,    \* pendingLogFetches: [id, clientId]
  commands,   \* screen -> ids of the fetch_logs commands it has not come to
  uploads     \* uploads under way: [id, from]
fetchVars == <<online, pending, commands, uploads>>

InitFetch ==
  /\ online = Players
  /\ pending = {} /\ uploads = {}
  /\ commands = [c \in Players |-> <<>>]

\* a screen that is not connected, or whose connection does not take the
\* command, is answered with an error, and no entry is left
Unreached(h, c) ==
  /\ Begin(h, "logs", "error", 0, <<>>, TRUE)
  /\ UNCHANGED fetchVars

sendToClient(c, id) ==
  /\ c \in online
  /\ commands' = [commands EXCEPT ![c] = Append(@, id)]

\* the entry, with its timer, is there before the command is sent
fetchLogs(h, c) ==
  /\ Begin(h, "logs", "channel", begun + 1, <<c>>, TRUE)
  /\ pending' = pending \cup {[id |-> begun + 1, clientId |-> c]}
  /\ sendToClient(c, begun + 1)
  /\ UNCHANGED <<online, uploads>>

\* A variant of FetchTimeout: the entry stays for the upload that may come
FetchTimeoutForgets(h) ==
  /\ At(h, "logs", "channel")
  /\ GoTo(h, "error")
  /\ UNCHANGED fetchVars

FetchTimeout(h) ==
  /\ At(h, "logs", "channel")
  /\ pending' = {p \in pending : p.id # req[h].on}
  /\ GoTo(h, "error")
  /\ UNCHANGED <<online, commands, uploads>>

\* The screen has come to the command: the end of its file is on its way, or it
\* could not be read
handle_fetch_logs(c) ==
  /\ commands[c] # <<>>
  /\ commands' = [commands EXCEPT ![c] = Tail(@)]
  /\ uploads' \in {uploads, uploads \cup {[id |-> Head(commands[c]), from |-> c]}}
  /\ UNCHANGED <<requestVars, online, pending>>

\* The upload of an entry there is answers the request that waits; for one that
\* is gone there is nothing to do, and of another screen's nothing is taken.
uploadLogs(u) ==
  LET its == {p \in pending : p.id = u.id /\ p.clientId = u.from}
  IN  /\ uploads' = uploads \ {u}
      /\ pending' = pending \ its
      /\ \/ its = {} /\ UNCHANGED requestVars
         \/ /\ its # {}
            /\ \E h \in Handlers : req[h].on = u.id /\ At(h, "logs", "channel") /\ GoTo(h, "ok")
      /\ UNCHANGED <<online, commands>>

UploadFails(u) ==
  /\ uploads' = uploads \ {u}
  /\ UNCHANGED <<requestVars, online, pending, commands>>

\* of the commands on their way some arrive and those after them do not
ScreenGoes(c) ==
  /\ c \in online
  /\ online' = online \ {c}
  /\ \E n \in 0..Len(commands[c]) : commands' = [commands EXCEPT ![c] = SubSeq(@, 1, n)]
  /\ UNCHANGED <<requestVars, pending, uploads>>
ScreenComes(c) ==
  /\ c \notin online
  /\ online' = online \cup {c}
  /\ UNCHANGED <<requestVars, pending, commands, uploads>>

BeginFetch(h) == \E c \in Players : fetchLogs(h, c) \/ Unreached(h, c)
StepFetch(h) == FetchTimeout(h)
AtTheScreens ==
  \/ \E c \in Players : handle_fetch_logs(c) \/ ScreenGoes(c) \/ ScreenComes(c)
  \/ \E u \in uploads : uploadLogs(u) \/ UploadFails(u)

\* An entry is that of a fetch that waits, and each of these has one: none is
\* left behind by a timeout, and none is taken from under a request that waits.
EntriesMatch ==
  pending = {[id |-> req[h].on, clientId |-> req[h].arg[1]] :
               h \in {g \in Handlers : Open(g) /\ req[g].op = "logs"}}
=============================================================================
