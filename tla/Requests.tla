------------------------------ MODULE Requests ------------------------------
(***************************************************************************)
(* Requests to the HTTP API as their handlers work them off: one database  *)
(* statement a step, other handlers in between.  The handlers of a network *)
(* back end interleave at every statement; SQLite's driver is synchronous, *)
(* so that there a handler lets others in only where it waits for a file,  *)
(* or for a mail server, a web server or a screen.                         *)
(*                                                                         *)
(* alone and sound are history: whether no other request was open while    *)
(* this one was, and whether the rows it is about were sound as it began.  *)
(***************************************************************************)
EXTENDS Integers, Sequences, FiniteSets

CONSTANTS
  Handlers,      \* requests open at once
  Backends,      \* of "sqlite", "mysql", "mssql", "mongodb"
  MaxRequests,   \* requests in all
  MaxCrashes     \* crashes of the server

ASSUME RequestsAssumption ==
  /\ Backends \subseteq {"sqlite", "mysql", "mssql", "mongodb"}
  /\ MaxRequests \in Nat /\ MaxCrashes \in Nat

VARIABLES
  backend,   \* the back end configured
  req,       \* handler -> the request it works on or has answered
  begun,     \* requests begun
  crashes
requestVars == <<backend, req, begun, crashes>>

Answered == {"ok", "error"}
Away == {"file", "unlink", "channel"}   \* where a handler waits for what is not the database
NoRequest ==
  [op |-> "none", at |-> "ok", on |-> 0, arg |-> <<>>, list |-> <<>>, k |-> 0, was |-> <<>>,
   alone |-> TRUE, sound |-> TRUE]

InitRequests ==
  /\ backend \in Backends
  /\ req = [h \in Handlers |-> NoRequest]
  /\ begun = 0 /\ crashes = 0

Open(h) == req[h].at \notin Answered
Others(h) == {g \in Handlers \ {h} : Open(g)}

\* better-sqlite3 returns before its caller goes on: a handler that has begun
\* runs to its end, or to where it waits for something else, before another may
Turn(h) == backend = "sqlite" => \A g \in Others(h) : req[g].at \in Away

\* any free slot does for the next request: they are all alike
MayBegin(h) == ~Open(h) /\ h = (CHOOSE g \in Handlers : ~Open(g)) /\ begun < MaxRequests /\ Turn(h)
Begin(h, op, at, on, arg, sound) ==
  /\ MayBegin(h)
  /\ req' = [g \in Handlers |->
               IF g = h THEN [NoRequest EXCEPT !.op = op, !.at = at, !.on = on, !.arg = arg,
                                               !.sound = sound, !.alone = (Others(h) = {})]
               ELSE IF g \in Others(h) THEN [req[g] EXCEPT !.alone = FALSE] ELSE req[g]]
  /\ begun' = begun + 1
  /\ UNCHANGED <<backend, crashes>>

\* the statement a handler has come to
At(h, op, at) == req[h].op = op /\ req[h].at = at /\ Turn(h)
GoOn(h, r) ==
  /\ req' = [req EXCEPT ![h] = IF r.at \in Answered THEN [NoRequest EXCEPT !.op = r.op, !.at = r.at] ELSE r]
  /\ UNCHANGED <<backend, begun, crashes>>
GoTo(h, at) == GoOn(h, [req[h] EXCEPT !.at = at])

\* what a process that dies was working on is answered by nobody
CrashRequests ==
  /\ crashes < MaxCrashes /\ \E h \in Handlers : Open(h)
  /\ req' = [h \in Handlers |-> NoRequest]
  /\ crashes' = crashes + 1
  /\ UNCHANGED <<backend, begun>>

\* rawTransaction: SQLite undoes what a failed or a dead handler did in it. On
\* MySQL and SQL Server the statements go through the pool, on connections that
\* are not the transaction's: they stand.
Savepoint(rows) == IF backend = "sqlite" THEN <<rows>> ELSE <<>>
Undone(r, rows) == IF backend = "sqlite" /\ r.was # <<>> THEN r.was[1] ELSE rows

\* a request nothing came between
Isolated(h) == req[h].alone \/ backend = "sqlite"
Ends(h) == Open(h) /\ req'[h].at \in Answered /\ req'[h].op = req[h].op
=============================================================================
