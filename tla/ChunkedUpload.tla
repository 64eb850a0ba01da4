--------------------------- MODULE ChunkedUpload ---------------------------
(***************************************************************************)
(* Upload sessions: chunks are received into a staging area, a chunk       *)
(* directory on disk or a multipart upload of the object store, then       *)
(* finalised into one file that is handed to the completion queue.         *)
(*                                                                         *)
(* The page sends the chunks of an upload, sends one again when its        *)
(* request failed, completes and aborts; nothing keeps an abandoned        *)
(* request from being under way when the next one arrives.  A /complete    *)
(* request is named by the file it would make.                             *)
(***************************************************************************)
EXTENDS MediaIngest

CONSTANTS
    Chunks,      \* chunk indices of every upload
    Requests,    \* chunk requests that may be under way at once
    Backends     \* storage back ends: subset of {"local", "spaces"}

ASSUME UploadAssumption ==
    /\ Chunks \subseteq Nat /\ Chunks # {}
    /\ Requests \cap {"none", "whole"} = {}
    /\ Backends \subseteq {"local", "spaces"}

VARIABLES
    backend,  \* config.storage.backend
    session,  \* the sessions map: "none" before init, "open" while in it
    received, \* receivedChunks of the session
    staging,  \* the staged chunks, NoStaging without directory or upload;
              \* a chunk being written is the request that opened it last
    request,  \* what a chunk request is writing
    complete, \* where a /complete request is
    concat,   \* the chunks it has read, and whether all were whole
    aborting, \* whether abortUpload has cleaned up and not yet returned
    resent    \* history: uploads a chunk of which was sent while it was being
              \* received or after it had been

uploadVars == <<backend, session, received, staging, request, complete, concat, aborting,
                resent>>
allVars == <<vars, uploadVars>>

\* What MediaIngest keeps and an upload request does not touch.
restOfIngest == <<row, worker, redone, stranded, direct, deleting, thumbVars, restarts>>

Completes == {f \in Files : UploadOf[f] # None}

NoStaging == [c \in {} |-> "none"]
NoRequest == [upload |-> None, chunk |-> 0]
NothingRead == [chunks |-> {}, good |-> TRUE]

UploadTypeOK ==
    /\ backend \in Backends
    /\ session \in [Uploads -> {"none", "open", "gone"}]
    /\ received \in [Uploads -> SUBSET Chunks]
    /\ staging \in [Uploads -> {NoStaging} \cup [Chunks -> {"none", "whole"} \cup Requests]]
    /\ request \in [Requests -> {NoRequest} \cup [upload : Uploads, chunk : Chunks]]
    /\ complete \in [Completes -> {"idle", "reading", "finalized", "unpublished", "enqueue", "discard",
                                "ended"}]
    /\ concat \in [Completes -> [chunks : SUBSET Chunks, good : BOOLEAN]]
    /\ aborting \subseteq Uploads
    /\ resent \subseteq Uploads

UploadInit ==
    /\ Init
    /\ backend \in Backends
    /\ session = [u \in Uploads |-> "none"]
    /\ received = [u \in Uploads |-> {}]
    /\ staging = [u \in Uploads |-> NoStaging]
    /\ request = [r \in Requests |-> NoRequest]
    /\ complete = [k \in Completes |-> "idle"]
    /\ concat = [k \in Completes |-> NothingRead]
    /\ aborting = {}
    /\ resent = {}

\* The name finalisation stores under: a new one on disk, the key chosen by
\* initUpload in the object store.
StorageKey(k) ==
    IF backend = "local" THEN k ELSE CHOOSE f \in Completes : UploadOf[f] = UploadOf[k]

(***************************************************************************)
(* Sessions and chunks.                                                    *)
(***************************************************************************)
InitUpload(u) ==
    /\ session[u] = "none"
    /\ session' = [session EXCEPT ![u] = "open"]
    /\ staging' = [staging EXCEPT ![u] = [c \in Chunks |-> "none"]]
    /\ UNCHANGED <<vars, backend, received, request, complete, concat, aborting, resent>>

Staged(u) == staging[u] # NoStaging

\* A variant of ChunkArrives: the chunk is recorded when its request arrives.
ChunkRecordedFirst(r, u, c) ==
    /\ request[r] = NoRequest
    /\ session[u] = "open" /\ Staged(u)
    /\ request' = [request EXCEPT ![r] = [upload |-> u, chunk |-> c]]
    /\ staging' = IF backend = "local" THEN [staging EXCEPT ![u][c] = r] ELSE staging
    /\ received' = [received EXCEPT ![u] = @ \cup {c}]
    /\ UNCHANGED <<vars, backend, session, complete, concat, aborting, resent>>

\* A chunk request finds the session.  On disk its write stream opens, and so
\* empties, the file of the chunk, if the directory is there; to the object
\* store a chunk goes whole.
ChunkArrives(r, u, c) ==
    /\ request[r] = NoRequest
    /\ session[u] = "open"
    /\ IF backend = "local" /\ ~Staged(u)
       THEN UNCHANGED <<request, staging>>
       ELSE /\ request' = [request EXCEPT ![r] = [upload |-> u, chunk |-> c]]
            /\ staging' = IF backend = "local" THEN [staging EXCEPT ![u][c] = r] ELSE staging
    /\ resent' = IF c \in received[u] \/ [upload |-> u, chunk |-> c] \in {request[q] : q \in Requests}
                 THEN resent \cup {u} ELSE resent
    /\ UNCHANGED <<vars, backend, session, received, complete, concat, aborting>>

EndRequest(r) == request' = [request EXCEPT ![r] = NoRequest]

\* streamChunkFromRequest: the stream has ended and stat looks the path up again;
\* without the file the request fails, and what is found is recorded, whoever
\* wrote it.
ChunkStreamed(r) ==
    LET u == request[r].upload
        c == request[r].chunk
    IN
    /\ request[r] # NoRequest /\ backend = "local"
    /\ EndRequest(r)
    /\ IF Staged(u) /\ staging[u][c] # "none"
       THEN /\ received' = [received EXCEPT ![u] = @ \cup {c}]
            /\ staging' = [staging EXCEPT ![u][c] = IF @ = r THEN "whole" ELSE @]
       ELSE UNCHANGED <<received, staging>>
    /\ UNCHANGED <<vars, backend, session, complete, concat, aborting, resent>>

\* A part goes whole or not at all, and over the part of its number.
UploadPart(u, c) == staging' = [staging EXCEPT ![u][c] = "whole"]

\* uploadChunk: the part goes to the object store, which refuses it without the
\* multipart upload.
PartUploaded(r) ==
    LET u == request[r].upload
        c == request[r].chunk
    IN
    /\ request[r] # NoRequest /\ backend = "spaces"
    /\ EndRequest(r)
    /\ IF Staged(u)
       THEN /\ received' = [received EXCEPT ![u] = @ \cup {c}]
            /\ UploadPart(u, c)
       ELSE UNCHANGED <<received, staging>>
    /\ UNCHANGED <<vars, backend, session, complete, concat, aborting, resent>>

\* The connection breaks.  On disk the file of the chunk is unlinked.
ChunkFails(r) ==
    /\ request[r] # NoRequest
    /\ EndRequest(r)
    /\ LET u == request[r].upload IN
       staging' = IF backend = "local" /\ Staged(u)
                  THEN [staging EXCEPT ![u][request[r].chunk] = "none"] ELSE staging
    /\ UNCHANGED <<vars, backend, session, received, complete, concat, aborting, resent>>

(***************************************************************************)
(* POST /complete.                                                         *)
(***************************************************************************)
To(k, at) == complete' = [complete EXCEPT ![k] = at]

\* A variant of CompleteStarts: the chunks are not counted.
CompleteUncounted(k) ==
    /\ complete[k] = "idle"
    /\ session[UploadOf[k]] = "open"
    /\ To(k, "reading")
    /\ file' = IF backend = "local" THEN [file EXCEPT ![k] = "partial"] ELSE file
    /\ UNCHANGED <<row, jobVars, direct, deleting, thumbVars, restarts>>
    /\ UNCHANGED <<backend, session, received, staging, request, concat, aborting, resent>>

\* completeUpload: a session with all its chunks, of which the count is taken.
\* On disk the file is created.
CompleteStarts(k) ==
    LET u == UploadOf[k] IN
    /\ complete[k] = "idle"
    /\ session[u] = "open"
    /\ received[u] = Chunks
    /\ To(k, "reading")
    /\ file' = IF backend = "local" THEN [file EXCEPT ![k] = "partial"] ELSE file
    /\ UNCHANGED <<row, jobVars, direct, deleting, thumbVars, restarts>>
    /\ UNCHANGED <<backend, session, received, staging, request, concat, aborting, resent>>

\* finalizeLocalUpload appends the next chunk; a missing one ends the request
\* and unlinks the file.
ReadChunk(k, c) ==
    LET u == UploadOf[k] IN
    /\ backend = "local" /\ complete[k] = "reading"
    /\ c \notin concat[k].chunks
    /\ \A d \in Chunks \ concat[k].chunks : c <= d
    /\ IF Staged(u) /\ staging[u][c] # "none"
       THEN /\ concat' = [concat EXCEPT ![k] =
                    [chunks |-> @.chunks \cup {c}, good |-> @.good /\ staging[u][c] = "whole"]]
            /\ UNCHANGED <<complete, file>>
       ELSE /\ To(k, "ended")
            /\ file' = [file EXCEPT ![k] = "none"]
            /\ UNCHANGED concat
    /\ UNCHANGED <<row, jobVars, direct, deleting, thumbVars, restarts>>
    /\ UNCHANGED <<backend, session, received, staging, request, aborting, resent>>

\* The file is closed and the chunk directory removed, which may fail.
FinalizeLocal(k) ==
    /\ backend = "local" /\ complete[k] = "reading"
    /\ concat[k].chunks = Chunks
    /\ To(k, "finalized")
    /\ file' = [file EXCEPT ![k] = IF concat[k].good THEN "whole" ELSE "bad"]
    /\ \/ staging' = [staging EXCEPT ![UploadOf[k]] = NoStaging]
       \/ "delete" \in MayFail /\ UNCHANGED staging
    /\ UNCHANGED <<row, jobVars, direct, deleting, thumbVars, restarts>>
    /\ UNCHANGED <<backend, session, received, request, concat, aborting, resent>>

\* The multipart upload ends and the object is there; making it public is a
\* request of its own, whose error is the whole call's.
CompleteMultipartUpload(k) ==
    /\ file' = [file EXCEPT ![StorageKey(k)] = "whole"]
    /\ staging' = [staging EXCEPT ![UploadOf[k]] = NoStaging]
    /\ To(k, "finalized") \/ ("acl" \in MayFail /\ To(k, "unpublished"))

\* A second completion, or one of an aborted upload, is refused.
FinalizeSpaces(k) ==
    /\ backend = "spaces" /\ complete[k] = "reading"
    /\ IF Staged(UploadOf[k])
       THEN CompleteMultipartUpload(k)
       ELSE To(k, "ended") /\ UNCHANGED <<file, staging>>
    /\ UNCHANGED <<row, jobVars, direct, deleting, thumbVars, restarts>>
    /\ UNCHANGED <<backend, session, received, request, concat, aborting, resent>>

\* Back from finalisation: the session is dropped.
SessionEnds(k) ==
    /\ complete[k] = "finalized"
    /\ To(k, "enqueue")
    /\ session' = [session EXCEPT ![UploadOf[k]] = "gone"]
    /\ UNCHANGED <<vars, backend, received, staging, request, concat, aborting, resent>>

\* A variant of CompleteEnqueues: whether or not the job was inserted is not
\* looked at, and the file is to be discarded.
CompleteDiscards(k) ==
    /\ complete[k] = "enqueue"
    /\ To(k, "discard")
    /\ EnqueueUploadCompletionJob(UploadOf[k], StorageKey(k))
    /\ UNCHANGED <<file, disowned>>
    /\ UNCHANGED restOfIngest
    /\ UNCHANGED <<backend, session, received, staging, request, concat, aborting, resent>>

\* The route enqueues the job and answers 202, unless the insert fails, or the
\* job that was inserted cannot be read back.
CompleteEnqueues(k) ==
    LET u == UploadOf[k] IN
    /\ complete[k] = "enqueue"
    /\ \/ /\ EnqueueUploadCompletionJob(u, StorageKey(k))
          /\ To(k, "ended")
          /\ UNCHANGED disowned
       \/ "enqueue" \in MayFail /\ To(k, "discard") /\ UNCHANGED <<job, lastId, disowned>>
       \/ /\ "enqueue" \in MayFail /\ To(k, "discard")
          /\ EnqueueUploadCompletionJob(u, StorageKey(k))
          /\ disowned' = IF job'[u].key = StorageKey(k) THEN disowned \cup {u} ELSE disowned
    /\ UNCHANGED <<file, restOfIngest>>
    /\ UNCHANGED <<backend, session, received, staging, request, concat, aborting, resent>>

\* In either case of failure it discards the file, whatever became of the job.
DiscardFinalized(k) ==
    /\ complete[k] = "discard"
    /\ To(k, "ended")
    /\ DeleteFile(StorageKey(k))
    /\ UNCHANGED <<job, lastId, disowned, restOfIngest>>
    /\ UNCHANGED <<backend, session, received, staging, request, concat, aborting, resent>>

(***************************************************************************)
(* DELETE of an upload: the staging area, then the session.                *)
(***************************************************************************)
\* the parts of the multipart upload, or the directory of the chunks
RemoveStaging(u) == staging' = [staging EXCEPT ![u] = NoStaging]

AbortRemoves(u) ==
    /\ session[u] = "open" /\ u \notin aborting
    /\ aborting' = aborting \cup {u}
    /\ \/ RemoveStaging(u)
       \/ "delete" \in MayFail /\ UNCHANGED staging
    /\ UNCHANGED <<vars, backend, session, received, request, complete, concat, resent>>

AbortEnds(u) ==
    /\ u \in aborting
    /\ aborting' = aborting \ {u}
    /\ session' = [session EXCEPT ![u] = "gone"]
    /\ UNCHANGED <<vars, backend, received, staging, request, complete, concat, resent>>

(***************************************************************************)
(* A restart loses the sessions and every request; what is on disk stays,  *)
(* but for the chunk directories older than an hour (cleanupOrphanedChunks).*)
(***************************************************************************)
CleanupOrphanedChunks ==
    \E old \in SUBSET Uploads :
        staging' = [u \in Uploads |->
            IF u \in old /\ backend = "local" THEN NoStaging ELSE staging[u]]

UploadRestart ==
    /\ Restart
    /\ CleanupOrphanedChunks
    /\ session' = [u \in Uploads |-> IF session[u] = "none" THEN "none" ELSE "gone"]
    /\ request' = [r \in Requests |-> NoRequest]
    /\ complete' = [k \in Completes |-> IF complete[k] = "idle" THEN "idle" ELSE "ended"]
    /\ aborting' = {}
    /\ UNCHANGED <<file, backend, received, concat, resent>>

CompleteStep(k) ==
    \/ \E c \in Chunks : ReadChunk(k, c)
    \/ FinalizeLocal(k) \/ FinalizeSpaces(k) \/ SessionEnds(k) \/ CompleteEnqueues(k)
    \/ DiscardFinalized(k)

UploadStep ==
    \/ \E u \in Uploads : InitUpload(u) \/ AbortRemoves(u) \/ AbortEnds(u)
    \/ \E r \in Requests :
        \/ \E u \in Uploads, c \in Chunks : ChunkArrives(r, u, c)
        \/ ChunkStreamed(r) \/ PartUploaded(r) \/ ChunkFails(r)
    \/ \E k \in Completes : CompleteStarts(k) \/ CompleteStep(k)

UploadNext ==
    \/ UploadStep
    \/ IngestStep /\ UNCHANGED uploadVars
    \/ UploadRestart

Spec == UploadInit /\ [][UploadNext]_allVars

(***************************************************************************)
(* Properties.                                                             *)
(***************************************************************************)

\* The session still counts on its chunks: no abort and no finalisation has
\* taken the staging area away.
Collecting(u) ==
    /\ session[u] = "open" /\ u \notin aborting
    /\ \A k \in Completes : UploadOf[k] = u => complete[k] \in {"idle", "reading", "ended"}

\* What is recorded as received is stored whole.  (app.js:344: "Server tracks
\* receivedChunks per uploadId so re-POSTing is idempotent".)
ReceivedIsStored ==
    \A u \in Uploads : Collecting(u) =>
        Staged(u) /\ \A c \in received[u] : staging[u][c] = "whole"

\* It is, unless a chunk was sent again on top of itself; to the object store
\* it is always.
ReceivedUnlessResent ==
    \A u \in Uploads : Collecting(u) /\ (backend = "local" => u \notin resent) =>
        Staged(u) /\ \A c \in received[u] : staging[u][c] = "whole"

\* What is accepted for processing is damaged only if a chunk was sent again on
\* top of itself, however requests, completions and aborts overlap.
AcceptedWhole ==
    \A u \in Uploads : job[u] # NoJob /\ file[job[u].key] \in {"partial", "bad"} =>
        backend = "local" /\ u \in resent

\* What is kept of the uploads is of its type, and of what is accepted true.
UploadsSound == UploadTypeOK /\ AcceptedWhole

\* Uploading is an environment of the queues as MediaIngest supposes it: however
\* often an upload is completed, its job stays that of the first /complete, and
\* nothing but the request that inserted it, told that it did not, discards its
\* file.
ImplementsIngest == IngestSpec

=============================================================================
