---------------------------- MODULE MediaIngest ----------------------------
(***************************************************************************)
(* How a stored file becomes a media row: the upload-completion queue, the *)
(* direct upload, deletion, and the thumbnail queue, over one database and *)
(* one file store, with restarts of the server.                            *)
(*                                                                         *)
(* A handler is cut at its awaits.  A media row is named by its filepath,  *)
(* which is generated for one save and never used again.  Folders appear   *)
(* as the answer of a lookup only; metadata and subtitles, whose failure   *)
(* the code swallows, are left out.                                        *)
(***************************************************************************)
EXTENDS Naturals, Sequences

CONSTANTS
    Files,        \* file names in media/, one per save or finalisation
    Uploads,      \* upload ids of chunked uploads
    UploadOf,     \* the upload a file is finalised for, None: a direct upload
    Content,      \* what the bytes of an undamaged file hash to
    MayFail,      \* the calls that may fail, among Calls
    MaxThumbJobs, \* bound: length of the thumbnail queue
    MaxRestarts,  \* bound: restarts of the server
    None

Calls == {"acl", "claim", "create", "delete", "download", "enqueue", "folder", "generate", "mark",
          "read", "startup", "status"}

ASSUME IngestAssumption ==
    /\ None \notin Uploads \cup Files
    /\ UploadOf \in [Files -> Uploads \cup {None}]
    /\ DOMAIN Content = Files
    /\ \A f \in Files : Content[f] \notin Files \cup {None}
    /\ MayFail \subseteq Calls
    /\ MaxThumbJobs \in Nat /\ MaxRestarts \in Nat

Directs == {f \in Files : UploadOf[f] = None}

VARIABLES
    file,     \* what is stored under a name
    row,      \* media_files by filepath, NoRow where there is none
    job,      \* upload_completion_jobs by upload_id
    lastId,   \* the job id given last
    worker,   \* where UploadCompletionQueueService.runOne is
    direct,   \* where createMedia is, for each direct upload
    deleting, \* where deleteMedia is, for each row
    enq,      \* media whose enqueueThumbnail has not reached the database
    tqueue,   \* thumbnail jobs queued, and the one under way, oldest first
    tworker,  \* where ThumbnailQueueService.runOne is with the first of tqueue
    left,     \* thumbnail jobs that a failed call left running, oldest first
    asked,    \* media whose latest thumbnail job is queued or running
    thumbs,   \* thumbnails stored
    restarts, \* restarts so far
    redone,   \* history: uploads whose job had an outcome that was not recorded
    stranded, \* history: uploads whose job a failed call left running
    disowned, \* history: uploads whose job was inserted for a request that was told
              \* it was not, and discards the file
    unsaid    \* history: media whose row a failed call left generating

failVars == <<redone, stranded, disowned>>
jobVars == <<job, lastId, worker, failVars>>
jobMarks == <<left, asked, unsaid>>
thumbVars == <<enq, tqueue, tworker, thumbs, jobMarks>>
vars == <<file, row, jobVars, direct, deleting, thumbVars, restarts>>

Sums == {Content[f] : f \in Files} \cup Files
NoRow == [sum |-> None, thumb |-> "none"]
Rows == {NoRow} \cup [sum : Sums, thumb : {"pending", "generating", "generated", "failed"}]

NoJob == [state |-> "none", id |-> 0, key |-> None, media |-> None]
JobStates == {"queued", "running", "done", "duplicate", "failed"}
Jobs == {NoJob} \cup
    [state : JobStates, id : Nat, key : Files, media : Files \cup {None}]

Idle == [at |-> "idle", upload |-> None, sum |-> None, media |-> None]
Workers == {Idle} \cup
    [at : {"claimed", "staged", "summed", "unique", "duplicate", "created", "failed"},
     upload : Uploads, sum : Sums \cup {None}, media : Files \cup {None}]

TypeOK ==
    /\ file \in [Files -> {"none", "partial", "bad", "whole"}]
    /\ row \in [Files -> Rows]
    /\ job \in [Uploads -> Jobs]
    /\ lastId \in Nat
    /\ worker \in Workers
    /\ direct \in [Directs -> {"idle", "saved", "unique", "ended"}]
    /\ deleting \in [Files -> {"no", "row", "file"}]
    /\ enq \subseteq Files
    /\ tqueue \in Seq(Files)
    /\ tworker \in {"idle", "claimed", "generating", "written", "done", "failed"}
    /\ left \in Seq(Files)
    /\ asked \subseteq Files
    /\ thumbs \subseteq Files
    /\ restarts \in Nat
    /\ redone \subseteq Uploads /\ stranded \subseteq Uploads /\ disowned \subseteq Uploads
    /\ unsaid \subseteq Files

Init ==
    /\ file = [f \in Files |-> "none"]
    /\ row = [f \in Files |-> NoRow]
    /\ job = [u \in Uploads |-> NoJob]
    /\ lastId = 0
    /\ worker = Idle
    /\ direct = [f \in Directs |-> "idle"]
    /\ deleting = [f \in Files |-> "no"]
    /\ enq = {}
    /\ tqueue = <<>>
    /\ tworker = "idle"
    /\ left = <<>>
    /\ asked = {}
    /\ thumbs = {}
    /\ restarts = 0
    /\ redone = {} /\ stranded = {} /\ disowned = {}
    /\ unsaid = {}

(***************************************************************************)
(* The file store and the rows.                                            *)
(***************************************************************************)
Stored(f) == file[f] \in {"bad", "whole"}

\* The checksum of what is stored: a damaged file hashes like no other.
Checksum(f) == IF file[f] = "whole" THEN Content[f] ELSE f

\* storageService.deleteFile: a file that is not there is no error; another
\* error leaves it.
DeleteFile(f) ==
    \/ file' = [file EXCEPT ![f] = "none"]
    \/ "delete" \in MayFail /\ UNCHANGED file

\* getMediaByChecksum; checksum is UNIQUE, so there is one at most.
WithChecksum(s) == {f \in Files : row[f].sum = s}

\* createMedia of the adapter: an insert, refused when the checksum is taken.
InsertMedia(f, s) ==
    /\ WithChecksum(s) = {}
    /\ row' = [row EXCEPT ![f] = [sum |-> s, thumb |-> "pending"]]

\* The row is there, and its thumbnail job is enqueued without being awaited.
CreateMedia(f, s) == InsertMedia(f, s) /\ enq' = enq \cup {f}

\* The caller is told of an error: the insert is refused, or it stands and the
\* row cannot be read back.
CreateFails(f, s) ==
    /\ \/ WithChecksum(s) # {} /\ UNCHANGED row
       \/ "create" \in MayFail /\ InsertMedia(f, s)
    /\ UNCHANGED enq

(***************************************************************************)
(* The upload-completion queue.                                            *)
(***************************************************************************)

\* POST /complete after the file is finalised: the job row is inserted unless
\* the upload has one.
EnqueueUploadCompletionJob(u, f) ==
    IF job[u] = NoJob
    THEN /\ lastId' = lastId + 1
         /\ job' = [job EXCEPT ![u] =
                [state |-> "queued", id |-> lastId + 1, key |-> f, media |-> None]]
    ELSE UNCHANGED <<job, lastId>>

\* claimNextUploadCompletionJob: the oldest queued job becomes running, and is
\* read back.
ClaimUploadJob(u) ==
    /\ worker = Idle
    /\ job[u].state = "queued"
    /\ \A v \in Uploads : job[v].state = "queued" => job[u].id <= job[v].id
    /\ job' = [job EXCEPT ![u].state = "running"]
    /\ \/ /\ worker' = [at |-> "claimed", upload |-> u, sum |-> None, media |-> None]
          /\ UNCHANGED stranded
       \/ "claim" \in MayFail /\ stranded' = stranded \cup {u} /\ UNCHANGED worker
    /\ UNCHANGED <<file, row, lastId, redone, disowned, direct, deleting, thumbVars, restarts>>

Goes(at) == worker' = [worker EXCEPT !.at = at]

\* Any other error of the database or the store on the way fails the job.
JobErrs ==
    /\ worker.at \in {"claimed", "staged", "summed", "unique"}
    /\ "read" \in MayFail /\ Goes("failed")
    /\ UNCHANGED <<file, row, job, lastId, failVars, direct, deleting, thumbVars, restarts>>

\* The folder lookup: a folder that is gone discards the file.
FolderCheck ==
    /\ worker.at = "claimed"
    /\ \/ Goes("staged") /\ UNCHANGED file
       \/ "folder" \in MayFail /\ Goes("failed") /\ DeleteFile(job[worker.upload].key)
    /\ UNCHANGED <<row, job, lastId, failVars, direct, deleting, thumbVars, restarts>>

\* The checksum of the stored file; without the file the job fails.
SumFile ==
    /\ worker.at = "staged"
    /\ LET key == job[worker.upload].key IN
       worker' = IF Stored(key)
                 THEN [worker EXCEPT !.at = "summed", !.sum = Checksum(key)]
                 ELSE [worker EXCEPT !.at = "failed"]
    /\ UNCHANGED <<file, row, job, lastId, failVars, direct, deleting, thumbVars, restarts>>

\* A row with the checksum makes the job a duplicate and discards its file.
LookUp ==
    /\ worker.at = "summed"
    /\ IF WithChecksum(worker.sum) = {}
       THEN Goes("unique") /\ UNCHANGED file
       ELSE \E m \in WithChecksum(worker.sum) :
                /\ worker' = [worker EXCEPT !.at = "duplicate", !.media = m]
                /\ DeleteFile(job[worker.upload].key)
    /\ UNCHANGED <<row, job, lastId, failVars, direct, deleting, thumbVars, restarts>>

\* The insert, after the metadata; an error of it fails the job.
JobCreates ==
    /\ worker.at = "unique"
    /\ LET key == job[worker.upload].key IN
       \/ /\ CreateMedia(key, worker.sum)
          /\ worker' = [worker EXCEPT !.at = "created", !.media = key]
       \/ CreateFails(key, worker.sum) /\ Goes("failed")
    /\ UNCHANGED <<file, job, lastId, failVars, direct, deleting, tqueue, tworker, thumbs, jobMarks,
                   restarts>>

\* Outcome that runOne records for what process returned.
Outcome == CASE worker.at = "created" -> "done"
             [] worker.at = "duplicate" -> "duplicate"
             [] worker.at = "failed" -> "failed"

\* markUploadCompletionJobDone, -Duplicate or -Failed.  The first two stand
\* inside the try, so that an error of theirs marks the job failed; when that
\* errs too the job stays running and the loop goes on.
MarkUploadJob ==
    /\ worker.at \in {"created", "duplicate", "failed"}
    /\ worker' = Idle
    /\ \/ job' = [job EXCEPT ![worker.upload].state = Outcome,
                             ![worker.upload].media = worker.media]
       \/ "mark" \in MayFail /\ job' = [job EXCEPT ![worker.upload].state = "failed"]
       \/ "mark" \in MayFail /\ UNCHANGED job
    /\ IF job'[worker.upload].state = "running"
       THEN /\ redone' = redone \cup {worker.upload}
            /\ stranded' = stranded \cup {worker.upload}
       ELSE UNCHANGED <<redone, stranded>>
    /\ UNCHANGED <<file, row, lastId, disowned, direct, deleting, thumbVars, restarts>>

(***************************************************************************)
(* A direct upload: MediaService.createMedia.                              *)
(***************************************************************************)
\* saveUploadedFile reads what multer wrote and writes it under a new name.
SaveUploadedFile(f) == file' = [file EXCEPT ![f] = "whole"]

DirectSaves(f) ==
    /\ direct[f] = "idle"
    /\ SaveUploadedFile(f)
    /\ direct' = [direct EXCEPT ![f] = "saved"]
    /\ UNCHANGED <<row, jobVars, deleting, thumbVars, restarts>>

\* The lookups by checksum and of the folder, either of which may refuse the
\* upload and discard its file.
DirectLooks(f) ==
    /\ direct[f] = "saved"
    /\ \/ /\ WithChecksum(Checksum(f)) = {}
          /\ direct' = [direct EXCEPT ![f] = "unique"]
          /\ UNCHANGED file
       \/ /\ WithChecksum(Checksum(f)) # {} \/ "folder" \in MayFail
          /\ direct' = [direct EXCEPT ![f] = "ended"]
          /\ DeleteFile(f)
    /\ UNCHANGED <<row, jobVars, deleting, thumbVars, restarts>>

\* An error of the insert is thrown to the caller and the file stays.
DirectCreates(f) ==
    /\ direct[f] = "unique"
    /\ direct' = [direct EXCEPT ![f] = "ended"]
    /\ CreateMedia(f, Checksum(f)) \/ CreateFails(f, Checksum(f))
    /\ UNCHANGED <<file, jobVars, deleting, tqueue, tworker, jobMarks, thumbs, restarts>>

\* Any other error on the way leaves the file too.
DirectErrs(f) ==
    /\ direct[f] \in {"saved", "unique"}
    /\ "read" \in MayFail
    /\ direct' = [direct EXCEPT ![f] = "ended"]
    /\ UNCHANGED <<file, row, jobVars, deleting, thumbVars, restarts>>

(***************************************************************************)
(* MediaService.deleteMedia: the row, then the file, then the thumbnail.   *)
(***************************************************************************)
\* A variant of DeleteRow: the file goes first.
DeleteFileFirst(f) ==
    /\ row[f] # NoRow
    /\ file' = [file EXCEPT ![f] = "none"]
    /\ deleting' = [deleting EXCEPT ![f] = "row"]
    /\ UNCHANGED <<row, jobVars, direct, thumbVars, restarts>>

DeleteRow(f) ==
    /\ row[f] # NoRow
    /\ row' = [row EXCEPT ![f] = NoRow]
    /\ deleting' = [deleting EXCEPT ![f] = "row"]
    /\ UNCHANGED <<file, jobVars, direct, thumbVars, restarts>>

\* An error of the store ends the handler before the thumbnail.
DeleteStored(f) ==
    /\ deleting[f] = "row"
    /\ \/ file' = [file EXCEPT ![f] = "none"] /\ deleting' = [deleting EXCEPT ![f] = "file"]
       \/ "delete" \in MayFail /\ deleting' = [deleting EXCEPT ![f] = "no"] /\ UNCHANGED file
    /\ UNCHANGED <<row, jobVars, direct, thumbVars, restarts>>

DeleteThumbnail(f) ==
    /\ deleting[f] = "file"
    /\ deleting' = [deleting EXCEPT ![f] = "no"]
    /\ \/ thumbs' = thumbs \ {f}
       \/ "delete" \in MayFail /\ UNCHANGED thumbs
    /\ UNCHANGED <<file, row, jobVars, direct, enq, tqueue, tworker, jobMarks, restarts>>

(***************************************************************************)
(* The thumbnail queue.                                                    *)
(***************************************************************************)
Room == Len(tqueue) < MaxThumbJobs

EnqueueThumbnailJob(f) ==
    /\ Room
    /\ tqueue' = Append(tqueue, f)
    /\ asked' = asked \cup {f}

\* enqueueThumbnail: an error is logged and the job is not there.
EnqueueLands(f) ==
    /\ f \in enq /\ Room
    /\ enq' = enq \ {f}
    /\ \/ EnqueueThumbnailJob(f)
       \/ "enqueue" \in MayFail /\ UNCHANGED <<tqueue, asked>>
    /\ UNCHANGED <<file, row, jobVars, direct, deleting, tworker, left, unsaid, thumbs, restarts>>

\* getMediaThumbnail, without a thumbnail that could be served: a job is
\* enqueued unless the last generation failed or the latest job is not over.
GetThumbnail(f) ==
    /\ row[f].thumb \in {"pending", "generating", "generated"}
    /\ f \notin thumbs
    /\ f \notin asked
    /\ EnqueueThumbnailJob(f)
    /\ UNCHANGED <<file, row, jobVars, direct, deleting, enq, tworker, left, unsaid, thumbs,
                   restarts>>

\* retryThumbnail, of a failed generation only.
RetryThumbnail(f) ==
    /\ row[f].thumb = "failed"
    /\ row' = [row EXCEPT ![f].thumb = "pending"]
    /\ enq' = enq \cup {f}
    /\ UNCHANGED <<file, jobVars, direct, deleting, tqueue, tworker, jobMarks, thumbs, restarts>>

Subject == Head(tqueue)

\* The first job of the queue stays running, with nobody at work on it.
LeftRunning ==
    /\ Len(left) < MaxThumbJobs
    /\ left' = Append(left, Subject)
    /\ tqueue' = Tail(tqueue)
    /\ UNCHANGED asked

\* claimNextThumbnailJob: as that of the uploads.
ClaimThumbnailJob ==
    /\ tworker = "idle" /\ tqueue # <<>>
    /\ \/ tworker' = "claimed" /\ UNCHANGED <<tqueue, left, asked>>
       \/ "claim" \in MayFail /\ LeftRunning /\ UNCHANGED tworker
    /\ UNCHANGED <<file, row, jobVars, direct, deleting, enq, unsaid, thumbs, restarts>>

\* Sets the status of a row that is there.
SetThumb(f, s) == row' = IF row[f] = NoRow THEN row ELSE [row EXCEPT ![f].thumb = s]

Unsaid == unsaid' = unsaid \cup {Subject}

\* processThumbnailJob: a row that is gone fails the job, and so does an error
\* of the update, before the status is written or in reading the row back, and
\* of the download of an image from the object store.
ThumbnailStarts ==
    /\ tworker = "claimed"
    /\ \/ /\ row[Subject] # NoRow
          /\ SetThumb(Subject, "generating")
          /\ \/ tworker' = "generating" /\ unsaid' = unsaid \ {Subject}
             \/ MayFail \cap {"download", "status"} # {} /\ tworker' = "failed" /\ Unsaid
       \/ /\ row[Subject] = NoRow \/ "status" \in MayFail
          /\ tworker' = "failed"
          /\ UNCHANGED <<row, unsaid>>
    /\ UNCHANGED <<file, jobVars, direct, deleting, enq, tqueue, left, asked, thumbs, restarts>>

SaveThumbnail(f) == thumbs' = thumbs \cup {f}

\* The generator writes the thumbnail, or returns null and the status is failed,
\* unless that cannot be written either, which is only logged.
ThumbnailWritten ==
    /\ tworker = "generating"
    /\ \/ /\ file[Subject] # "none"
          /\ SaveThumbnail(Subject)
          /\ tworker' = "written"
          /\ UNCHANGED <<row, unsaid>>
       \/ /\ file[Subject] = "none" \/ "generate" \in MayFail
          /\ tworker' = "failed"
          /\ \/ SetThumb(Subject, "failed") /\ UNCHANGED unsaid
             \/ "status" \in MayFail /\ Unsaid /\ UNCHANGED row
          /\ UNCHANGED thumbs
    /\ UNCHANGED <<file, jobVars, direct, deleting, enq, tqueue, left, asked, restarts>>

\* The update of a row deleted meanwhile throws and fails the job.  So does an
\* update that errs: the status becomes failed, unless that errs too.
ThumbnailRecorded ==
    /\ tworker = "written"
    /\ \/ /\ tworker' = IF row[Subject] = NoRow THEN "failed" ELSE "done"
          /\ SetThumb(Subject, "generated")
          /\ UNCHANGED unsaid
       \/ /\ "status" \in MayFail
          /\ tworker' = "failed"
          /\ \/ \E s \in {"generated", "failed"} : SetThumb(Subject, s) /\ UNCHANGED unsaid
             \/ Unsaid /\ UNCHANGED row
    /\ UNCHANGED <<file, jobVars, direct, deleting, enq, tqueue, left, asked, thumbs, restarts>>

Behind == {tqueue[i] : i \in 2..Len(tqueue)}

\* markThumbnailJobDone or markThumbnailJobFailed: the job is over.  When both
\* err it stays running and the loop goes on.
MarkThumbnailJob ==
    /\ tworker \in {"done", "failed"}
    /\ tworker' = "idle"
    /\ \/ /\ tqueue' = Tail(tqueue)
          /\ asked' = IF Subject \in Behind THEN asked ELSE asked \ {Subject}
          /\ UNCHANGED left
       \/ "mark" \in MayFail /\ LeftRunning
    /\ UNCHANGED <<file, row, jobVars, direct, deleting, enq, unsaid, thumbs, restarts>>

(***************************************************************************)
(* The process dies and starts again: handlers and what they had not       *)
(* written are gone; rows that were generating become failed               *)
(* (resetStuckThumbnails) and running jobs are queued again.  An error of  *)
(* any of the three is logged, and the start goes on.                      *)
(***************************************************************************)
\* A variant of ResetStuckThumbnails: nothing is reset.
ResetNothing == UNCHANGED row /\ unsaid' = {}

Generating == {f \in Files : row[f].thumb = "generating"}

ResetStuckThumbnails ==
    \/ /\ row' = [f \in Files |-> IF f \in Generating
                                  THEN [row[f] EXCEPT !.thumb = "failed"] ELSE row[f]]
       /\ unsaid' = {}
    \/ "startup" \in MayFail /\ unsaid' = Generating /\ UNCHANGED row

\* The job under way had its outcome, and had inserted its row or discarded its
\* file, when the process died.
HadOutcome ==
    IF worker.at \in {"created", "duplicate", "failed"} THEN {worker.upload} ELSE {}

Running == {u \in Uploads : job[u].state = "running"}

RequeueRunningUploadCompletionJobs ==
    /\ \/ /\ job' = [u \in Uploads |-> IF u \in Running
                                       THEN [job[u] EXCEPT !.state = "queued"] ELSE job[u]]
          /\ stranded' = {}
       \/ "startup" \in MayFail /\ stranded' = Running /\ UNCHANGED job
    /\ redone' = redone \cup HadOutcome

\* A variant of RequeueRunningThumbnailJobs: the running job stays so.
RequeueNoThumbnail ==
    /\ tqueue' = IF tworker = "idle" THEN tqueue ELSE Tail(tqueue)
    /\ left' = <<>>

\* The jobs left running are older than those of the queue.
RequeueRunningThumbnailJobs ==
    \/ tqueue' = left \o tqueue /\ left' = <<>>
    \/ /\ "startup" \in MayFail
       /\ IF tworker = "idle"
          THEN UNCHANGED <<tqueue, left>>
          ELSE tqueue' = Tail(tqueue) /\ left' = Append(left, Subject)

Restart ==
    /\ restarts < MaxRestarts
    /\ restarts' = restarts + 1
    /\ ResetStuckThumbnails
    /\ RequeueRunningUploadCompletionJobs
    /\ RequeueRunningThumbnailJobs
    /\ worker' = Idle
    /\ tworker' = "idle"
    /\ enq' = {}
    /\ direct' = [f \in Directs |-> IF direct[f] = "idle" THEN "idle" ELSE "ended"]
    /\ deleting' = [f \in Files |-> "no"]
    /\ UNCHANGED <<lastId, disowned, asked, thumbs>>

(***************************************************************************)
(* The specification.  What finalises uploads is the environment here: it  *)
(* writes files no job knows (ForeignWrite) and submits them (Submit); a   *)
(* request that was told its job is not there, though it was inserted,     *)
(* deletes the file (Disown).  ChunkedUpload is that environment.          *)
(***************************************************************************)
Keys == {job[u].key : u \in Uploads}

ForeignWrite(f) ==
    /\ UploadOf[f] # None /\ f \notin Keys
    /\ \E c \in {"none", "partial", "bad", "whole"} : file' = [file EXCEPT ![f] = c]
    /\ UNCHANGED <<row, jobVars, direct, deleting, thumbVars, restarts>>

Submit(f) ==
    /\ UploadOf[f] # None /\ Stored(f)
    /\ EnqueueUploadCompletionJob(UploadOf[f], f)
    /\ \/ UNCHANGED disowned
       \/ "enqueue" \in MayFail /\ disowned' = disowned \cup {UploadOf[f]}
    /\ UNCHANGED <<file, row, worker, redone, stranded, direct, deleting, thumbVars, restarts>>

Disown(f) ==
    /\ UploadOf[f] \in disowned
    /\ file' = [file EXCEPT ![f] = "none"]
    /\ UNCHANGED <<row, jobVars, direct, deleting, thumbVars, restarts>>

WorkerStep ==
    \/ \E u \in Uploads : ClaimUploadJob(u)
    \/ FolderCheck \/ SumFile \/ LookUp \/ JobCreates \/ JobErrs \/ MarkUploadJob

ThumbStep ==
    \/ ClaimThumbnailJob \/ ThumbnailStarts \/ ThumbnailWritten \/ ThumbnailRecorded
    \/ MarkThumbnailJob

IngestStep ==
    \/ WorkerStep
    \/ \E f \in Directs : DirectSaves(f) \/ DirectLooks(f) \/ DirectCreates(f) \/ DirectErrs(f)
    \/ \E f \in Files : DeleteRow(f) \/ DeleteStored(f) \/ DeleteThumbnail(f)
    \/ \E f \in Files : EnqueueLands(f) \/ GetThumbnail(f) \/ RetryThumbnail(f)
    \/ ThumbStep

RestartStep == Restart /\ UNCHANGED file

IngestNext ==
    \/ IngestStep
    \/ RestartStep
    \/ \E f \in Files : ForeignWrite(f) \/ Submit(f) \/ Disown(f)

IngestSpec == Init /\ [][IngestNext]_vars

(***************************************************************************)
(* Properties.                                                             *)
(***************************************************************************)

\* A media row is without its file only if the row was made by a job that had
\* run before, its outcome unrecorded, or whose file the request discarded that
\* was told it was not inserted: nothing else, no duplicate, deletion, failed
\* insert or crash elsewhere, parts a row from its file.
RowsKeepFiles ==
    \A f \in Files : row[f] # NoRow => Stored(f) \/ UploadOf[f] \in redone \cup disowned

\* The file of an accepted upload is there until its job has an outcome.
AcceptedFileThere ==
    \A u \in Uploads :
        /\ job[u].state \in {"queued", "running"}
        /\ u \notin redone \cup disowned
        /\ ~(worker.upload = u /\ worker.at \in {"created", "duplicate", "failed"})
        => Stored(job[u].key)

\* The media a duplicate is a duplicate of is not its own, unless the job ran twice.
DuplicateOfAnother ==
    \A u \in Uploads \ redone :
        job[u].state = "duplicate" => job[u].media \notin {None, job[u].key}

\* What the database says of uploads and media is true.
LibrarySound == TypeOK /\ RowsKeepFiles /\ AcceptedFileThere /\ DuplicateOfAnother

\* A row says that its thumbnail is being generated only while it is, or when
\* the database or the store failed the job at a moment the code does not record
\* it; and that it was generated only when it is stored.  This holds across
\* restarts, retries and deletions (a job that ran again may insert its row while
\* deleteMedia, which deleted the row before, has its thumbnail still to remove).
ThumbStatusTrue ==
    \A f \in Files :
        /\ row[f].thumb = "generating"
              => f \in unsaid \/ (tworker \in {"generating", "written"} /\ Subject = f)
        /\ row[f].thumb = "generated" => f \in thumbs \/ UploadOf[f] \in redone

\* Every accepted upload gets an outcome, unless a failed call of the database
\* leaves its job running, which it then is until the next start.
EveryUploadEnds ==
    \A u \in Uploads :
        job[u].state \in {"queued", "running"}
            ~> (job[u].state \in {"done", "duplicate", "failed"} \/ u \in stranded)

\* A job of the media fails and its status does not say so.
FailsUnsaid(f) ==
    /\ tworker # "failed" /\ tworker' = "failed" /\ Subject = f
    /\ row'[f].thumb \notin {"none", "failed"}

\* No media waits for its thumbnail for ever, though its job may have been lost
\* with the process that was to enqueue it, or have failed without a word: there
\* is a thumbnail to serve, or an outcome that the page can show, unless jobs go
\* on failing without a word, or a failed call left one running until the next
\* start.
EveryThumbnailSettles ==
    \A f \in Files :
        <>[][~FailsUnsaid(f)]_vars =>
            (row[f].thumb \in {"pending", "generating"}
                ~> (\/ row[f].thumb \in {"none", "failed"}
                    \/ f \in thumbs
                    \/ \E i \in 1..Len(left) : left[i] = f))

=============================================================================
