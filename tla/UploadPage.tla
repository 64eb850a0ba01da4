----------------------------- MODULE UploadPage -----------------------------
(***************************************************************************)
(* The upload queue of the web page: a number of files at a time, each     *)
(* posted at once if it is small and in chunks if not, tried again when it *)
(* fails, cancelled and retried by the editor. The page's steps are its    *)
(* callbacks; its requests may be lost, and answers may be, so that the    *)
(* server does what the page believes failed. Of the server only what it   *)
(* answers is here: ChunkedUpload and MediaIngest say how it comes to it.  *)
(***************************************************************************)
EXTENDS Integers, FiniteSets

CONSTANTS
  Entry,         \* queue ids of the files, in the order they are chosen
  Small,         \* those up to CHUNK_SIZE
  Concurrency,   \* uploads at a time
  LastChunk,     \* chunks of a large file
  ChunkTries,    \* MAX_ATTEMPTS for a chunk
  MaxRetries,    \* MAX_RETRIES of an upload
  MaxUploads,    \* the editor retries nothing once there have been as many uploads
  MaxForgets     \* restarts of the server

ASSUME PageAssumption ==
  /\ Entry \subseteq Nat /\ Small \subseteq Entry
  /\ {Concurrency, LastChunk, ChunkTries} \subseteq Nat \ {0}
  /\ {MaxRetries, MaxUploads, MaxForgets} \subseteq Nat

VARIABLES
  entry,     \* the queue's entries
  active,    \* activeCount
  wire,      \* requests the server has not dealt with; a lost one stays here
  session,   \* <<entry, upload>>: upload sessions in the server's memory, with the chunks received
  job,       \* <<entry, upload, state>>: completion jobs
  stored,    \* entries whose content is in the library
  forgets
serverVars == <<session, job, stored, forgets>>
pageVars == <<entry, active, wire, serverVars>>

Nothing == "nothing"
Fresh == [state |-> "none", at |-> "none", tries |-> 0, upload |-> 0, chunk |-> 0, attempt |-> 0,
          aborted |-> FALSE, known |-> {}, answer |-> Nothing]
InitPage ==
  /\ entry = [e \in Entry |-> Fresh]
  /\ active = 0 /\ wire = {} /\ session = {} /\ job = {} /\ stored = {} /\ forgets = 0

Message(e, r, what) == [what |-> what, e |-> e, upload |-> r.upload, chunk |-> r.chunk]
Requesting == {"init", "chunk", "complete", "status", "simple"}
Asks(entries) == {Message(e, entries[e], entries[e].at) : e \in {x \in Entry : entries[x].at \in Requesting}}

Id(m) == <<m.e, m.upload>>
IsOpen(u) == \E s \in session : s.id = u

\* a request nobody waits for that can change nothing any more is forgotten, and
\* so is one for a session whose id the page would never learn
Mattering(requests, sessions, entries) ==
  {m \in requests : \/ m \in Asks(entries)
                    \/ (m.what = "simple" /\ m.e \notin stored)
                    \/ m.what \notin {"status", "init"} /\ \E s \in sessions : s.id = Id(m)}

(***************************************************************************)
(* The queue                                                               *)
(***************************************************************************)

\* mediaAPI.upload: with the signal aborted a small file's request is aborted
\* before it is opened, which settles nothing; of a large one the session is
\* asked for without looking at the signal.
upload(e, r) ==
  [r EXCEPT !.upload = @ + 1, !.chunk = 0, !.attempt = 0,
            !.at = IF e \notin Small THEN "init" ELSE IF r.aborted THEN "hung" ELSE "simple"]

startUpload(e, r) == upload(e, [r EXCEPT !.state = "uploading", !.tries = 0])

\* pump: the first that are queued are started, as many as there is room for;
\* what the page asks for now goes onto the wire, with what else it sends
Pump(entries, taken, also) ==
  LET queued == {e \in Entry : entries[e].state = "queued"}
      starts == {e \in queued : taken + Cardinality({d \in queued : d < e}) < Concurrency}
      now == [e \in Entry |-> IF e \in starts THEN startUpload(e, entries[e]) ELSE entries[e]]
  IN  /\ entry' = now
      /\ active' = taken + Cardinality(starts)
      /\ wire' = Mattering(wire \cup (Asks(now) \ Asks(entry)) \cup also, session, now)

Pumped(e, r) == Pump([entry EXCEPT ![e] = r], active, {})

enqueue(e) ==
  /\ entry[e].state = "none" /\ \A d \in Entry : d < e => entry[d].state # "none"
  /\ Pumped(e, [Fresh EXCEPT !.state = "queued"])
  /\ UNCHANGED serverVars

\* startUpload's loop has left: the slot goes to the next
Leaves(e, r, state, also) == Pump([entry EXCEPT ![e] = [r EXCEPT !.state = state, !.at = "none"]], active - 1, also)

\* startUpload's catch
Caught(e, r, also) ==
  IF r.aborted THEN Leaves(e, r, "cancelled", also)
  ELSE IF r.tries < MaxRetries
  THEN Pump([entry EXCEPT ![e] = [r EXCEPT !.tries = @ + 1, !.at = "backoff"]], active, also)
  ELSE Leaves(e, r, "failed", also)

Backoff(e) ==
  /\ entry[e].at = "backoff"
  /\ Pump([entry EXCEPT ![e] = upload(e, entry[e])], active, {})
  /\ UNCHANGED serverVars

\* A variant of abort: only the running upload's session is given up
AbortLast(e) == {[what |-> "abort", e |-> e, upload |-> n, chunk |-> 0] : n \in entry[e].known \cap {entry[e].upload}}

\* every session the entry was given under this controller is given up
abort(e) == {[what |-> "abort", e |-> e, upload |-> n, chunk |-> 0] : n \in entry[e].known}

\* A chunk, a small file and a status request are cut off; the other requests
\* and the timers run on, and the signal is looked at after them.
cancel(e) ==
  LET r == [entry[e] EXCEPT !.aborted = TRUE] IN
  /\ entry[e].state \in {"queued", "uploading"} /\ ~entry[e].aborted
  /\ IF r.state = "queued" THEN Pumped(e, [r EXCEPT !.state = "cancelled"])
     ELSE IF r.at \in {"chunk", "simple", "status"} THEN Caught(e, r, abort(e))
     ELSE Pump([entry EXCEPT ![e] = r], active, abort(e))
  /\ UNCHANGED serverVars

Uploads == UNION {{e} \X (1..entry[e].upload) : e \in Entry}
retry(e) ==
  /\ entry[e].state \in {"failed", "cancelled"} /\ Cardinality(Uploads) < MaxUploads
  /\ Pumped(e, [Fresh EXCEPT !.state = "queued", !.upload = entry[e].upload])
  /\ UNCHANGED serverVars

(***************************************************************************)
(* The answers                                                             *)
(***************************************************************************)

\* _uploadChunkWithRetry: after an answer of 5xx, or none
ChunkAgain(e, r) ==
  IF r.attempt < ChunkTries THEN Pump([entry EXCEPT ![e] = [r EXCEPT !.at = "chunkwait"]], active, {})
  ELSE Caught(e, r, {})

chunkLoop(e, r) ==
  IF r.aborted THEN Caught(e, r, {})
  ELSE Pumped(e, [r EXCEPT !.chunk = @ + 1, !.attempt = 1, !.at = "chunk"])

_uploadChunkWithRetry(e, r, answer) ==
  IF answer \in {"5xx", "none"} THEN ChunkAgain(e, r)
  ELSE IF answer = "4xx" THEN Caught(e, r, {})
  ELSE IF r.chunk < LastChunk THEN chunkLoop(e, r)
  ELSE Pumped(e, [r EXCEPT !.at = "complete"])

\* a duplicate is an error, as is a job that failed
_pollCompletionStatus(e, r, answer) ==
  CASE answer = "done" -> Leaves(e, r, "done", {})
    [] answer = "202" -> Pumped(e, [r EXCEPT !.at = "pollwait"])
    [] OTHER -> Caught(e, r, {})

\* an answer of 2xx will do, whatever it says of the file
_simpleUpload(e, r, answer) == IF answer = "2xx" THEN Leaves(e, r, "done", {}) ELSE Caught(e, r, {})

\* mediaAPI.upload goes on
Goes(e, r, answer) ==
  CASE r.at = "chunk" -> _uploadChunkWithRetry(e, r, answer)
    [] r.at = "status" -> _pollCompletionStatus(e, r, answer)
    [] r.at = "simple" -> _simpleUpload(e, r, answer)
    [] r.at = "init" /\ answer = "2xx" ->
         chunkLoop(e, IF r.aborted THEN r ELSE [r EXCEPT !.known = @ \cup {r.upload}])
    [] r.at = "complete" /\ answer = "2xx" ->
         IF r.aborted THEN Caught(e, r, {}) ELSE Pumped(e, [r EXCEPT !.at = "status"])
    [] OTHER -> Caught(e, r, {})

\* the answer is here, or the connection breaks before it is: the server has
\* not had the request, is dealing with it, or has dealt with it
Arrives(e) ==
  /\ entry[e].at \in Requesting
  /\ \E answer \in {entry[e].answer, "none"} \ {Nothing} : Goes(e, [entry[e] EXCEPT !.answer = Nothing], answer)
  /\ UNCHANGED serverVars

\* the timers of a chunk and of the status; 30 minutes of it are enough
Timer(e) ==
  LET r == entry[e] IN
  /\ r.at \in {"chunkwait", "pollwait"}
  /\ IF r.aborted THEN Caught(e, r, {})
     ELSE IF r.at = "chunkwait" THEN Pumped(e, [r EXCEPT !.attempt = @ + 1, !.at = "chunk"])
     ELSE Pumped(e, [r EXCEPT !.at = "status"]) \/ Caught(e, r, {})
  /\ UNCHANGED serverVars

(***************************************************************************)
(* The server                                                              *)
(***************************************************************************)
Received(u) == UNION {s.chunks : s \in {x \in session : x.id = u}}
Without(u) == {s \in session : s.id # u}
JobOf(u) == {j.state : j \in {x \in job : x.id = u}}

\* answered to the page if it still waits for that; the sessions are these then
Answers(m, answer, sessions) ==
  /\ m \in wire
  /\ entry' = IF m \in Asks(entry) THEN [entry EXCEPT ![m.e].answer = answer] ELSE entry
  /\ session' = sessions
  /\ wire' = Mattering(wire \ {m}, sessions, entry)
  /\ UNCHANGED <<active, forgets>>

initUpload(m) ==
  /\ m.what = "init"
  /\ Answers(m, "2xx", session \cup {[id |-> Id(m), chunks |-> {}]})
  /\ UNCHANGED <<job, stored>>

uploadChunk(m) ==
  LET u == Id(m) IN
  /\ m.what = "chunk"
  /\ IF IsOpen(u) THEN Answers(m, "2xx", Without(u) \cup {[id |-> u, chunks |-> Received(u) \cup {m.chunk}]})
     ELSE Answers(m, "4xx", session)
  /\ UNCHANGED <<job, stored>>

completeUpload(m) ==
  LET u == Id(m) IN
  /\ m.what = "complete"
  /\ IF IsOpen(u) /\ Received(u) = 1..LastChunk
     THEN Answers(m, "2xx", Without(u)) /\ job' = job \cup {[id |-> u, state |-> "queued"]}
     ELSE Answers(m, "4xx", session) /\ UNCHANGED job
  /\ UNCHANGED stored

abortUpload(m) ==
  /\ m.what = "abort" /\ Answers(m, "2xx", Without(Id(m)))
  /\ UNCHANGED <<job, stored>>

getStatus(m) ==
  /\ m.what = "status"
  /\ \/ JobOf(Id(m)) = {} /\ Answers(m, "4xx", session)
     \/ \E state \in JobOf(Id(m)) : Answers(m, IF state = "queued" THEN "202" ELSE state, session)
  /\ UNCHANGED <<job, stored>>

\* the errors of createMedia are told in an answer of 201
uploadFiles(m) ==
  /\ m.what = "simple" /\ Answers(m, "2xx", session)
  /\ stored' \in {stored, stored \cup {m.e}}
  /\ UNCHANGED job

\* any of them may fail; a completion that cannot be put in the queue has ended
\* the session
Fails(m) ==
  /\ m.what # "abort"
  /\ \/ Answers(m, "5xx", session)
     \/ m.what = "complete" /\ Answers(m, "5xx", Without(Id(m)))
  /\ UNCHANGED <<job, stored>>

JobEnds(u) ==
  /\ "queued" \in JobOf(u)
  /\ \E state \in (IF u[1] \in stored THEN {"duplicate"} ELSE {"done", "failed"}) :
       /\ job' = {j \in job : j.id # u} \cup {[id |-> u, state |-> state]}
       /\ stored' = IF state = "done" THEN stored \cup {u[1]} ELSE stored
  /\ UNCHANGED <<entry, active, wire, session, forgets>>

Forgets ==
  /\ forgets < MaxForgets /\ session # {}
  /\ forgets' = forgets + 1 /\ session' = {}
  /\ UNCHANGED <<entry, active, wire, job, stored>>

StepPage ==
  \/ \E e \in Entry : enqueue(e) \/ cancel(e) \/ retry(e) \/ Backoff(e) \/ Timer(e) \/ Arrives(e)
  \/ \E m \in wire : \/ initUpload(m) \/ uploadChunk(m) \/ completeUpload(m) \/ abortUpload(m)
                     \/ getStatus(m) \/ uploadFiles(m) \/ Fails(m)
  \/ \E j \in job : JobEnds(j.id)
  \/ Forgets

(***************************************************************************)
(* Properties                                                              *)
(***************************************************************************)

\* No slot is lost or taken twice, and no entry waits while there is one.
SlotsUsed ==
  LET In(state) == {e \in Entry : entry[e].state = state} IN
  /\ active = Cardinality(In("uploading")) /\ active <= Concurrency
  /\ In("queued") # {} => active = Concurrency

\* A large file shown as done is in the library, whatever was lost and retried
\* on the way. (A small one need not be: createMedia's errors come with 201.)
DoneIsStored == \A e \in Entry \ Small : entry[e].state = "done" => e \in stored

\* A cancelled entry has the sessions the page knew of ended, those of earlier
\* tries as well, unless the request that does it is lost.
CancelTakesBack ==
  \A e \in Entry : entry[e].state = "cancelled" =>
    \A n \in entry[e].known :
      IsOpen(<<e, n>>) => [what |-> "abort", e |-> e, upload |-> n, chunk |-> 0] \in wire

\* What the page shows of its uploads is so.
PageTrue == SlotsUsed /\ DoneIsStored /\ CancelTakesBack
=============================================================================
