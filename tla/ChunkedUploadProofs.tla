------------------------ MODULE ChunkedUploadProofs ------------------------
(***************************************************************************)
(* Uploads and what becomes of them in the library, for any uploads,       *)
(* chunks, files and requests at once, either back end, any failures and   *)
(* any number of restarts.                                                 *)
(***************************************************************************)
EXTENDS ChunkedUpload, TLAPS

(***************************************************************************)
(* The library and the queues that fill it.  What the run checks is not    *)
(* inductive: it rests on a row being made once for a file, by the only    *)
(* handler that has it in hand (Untouched), unless a job runs again after  *)
(* its outcome was lost.                                                   *)
(***************************************************************************)
AtOutcome(u) == worker.upload = u /\ worker.at \in {"created", "duplicate", "failed"}

Of(jobs) == {jobs[i] : i \in 1..Len(jobs)}

Waits == Of(tqueue) \cup Of(left)

\* No row can have been made for the file yet: its direct upload is not over,
\* or no job has it, or its job has not come to an outcome.
NotBegun(f) ==
    IF UploadOf[f] = None THEN direct[f] # "ended"
    ELSE LET u == UploadOf[f] IN
         \/ job[u].key # f
         \/ u \notin redone /\ job[u].state \in {"queued", "running"} /\ ~AtOutcome(u)

\* Of such a file neither the library nor the thumbnail queue has heard.
Untouched ==
    \A f \in Files : NotBegun(f) => row[f] = NoRow /\ deleting[f] = "no" /\ f \notin enq \cup Waits

\* A job has a file of its own upload.
JobsKnowFiles ==
    \A u \in Uploads :
        job[u] # NoJob => job[u].key \in Files /\ UploadOf[job[u].key] = u

\* The worker has a running job in hand, and knows of it what it has found out;
\* what it found a duplicate of is another's.
WorkerKnows ==
    worker # Idle =>
        /\ job[worker.upload].state = "running"
        /\ worker.at \in {"summed", "unique"} => worker.sum \in Sums
        /\ worker.at = "duplicate" /\ worker.upload \notin redone
              => worker.media \notin {None, job[worker.upload].key}

\* A deletion under way has taken the row, which only a job that runs again
\* makes anew.
DeletionFirst ==
    \A f \in Files : deleting[f] # "no" => row[f] = NoRow \/ UploadOf[f] \in redone

DirectStored == \A f \in Directs : direct[f] \in {"saved", "unique"} => file[f] = "whole"

\* The thumbnail worker has the first job of the queue in hand, and its
\* thumbnail once it is written, unless the row has gone.
WorkerHasSubject ==
    /\ tworker # "idle" => tqueue # <<>>
    /\ tworker = "written" =>
          Subject \in thumbs \/ row[Subject] = NoRow \/ UploadOf[Subject] \in redone

IInv ==
    /\ TypeOK /\ RowsKeepFiles /\ AcceptedFileThere /\ DuplicateOfAnother /\ ThumbStatusTrue
    /\ Untouched /\ JobsKnowFiles /\ WorkerKnows /\ DeletionFirst /\ DirectStored
    /\ WorkerHasSubject

LEMMA InitIInv == Init => IInv
<1> SUFFICES ASSUME Init
             PROVE  IInv
  OBVIOUS
<1>1. TypeOK
  BY DEF Init, TypeOK, Rows, Jobs, Workers
<1>2. Waits = {}
  BY DEF Init, Waits, Of
<1>3. QED
  BY <1>1, <1>2 DEF Init, IInv, RowsKeepFiles, AcceptedFileThere, DuplicateOfAnother, ThumbStatusTrue,
     Untouched, JobsKnowFiles, WorkerKnows, DeletionFirst, DirectStored, WorkerHasSubject, NoRow, NoJob

\* The first of the thumbnail queue stays the first when a job joins behind it.
LEMMA SubjectWaits ==
  ASSUME TypeOK, tqueue # <<>>
  PROVE  Subject \in Files /\ Subject \in Waits
  BY DEF TypeOK, Subject, Waits, Of

\* What waits in a sequence of jobs, and in what is left or made of it.
LEMMA OfTail ==
  ASSUME NEW s \in Seq(Files), s # <<>>
  PROVE  Tail(s) \in Seq(Files) /\ Of(Tail(s)) \subseteq Of(s) /\ Head(s) \in Of(s)
  BY DEF Of

LEMMA OfAppend ==
  ASSUME NEW s \in Seq(Files), NEW f \in Files
  PROVE  Append(s, f) \in Seq(Files) /\ Of(Append(s, f)) = Of(s) \cup {f}
<1>1. /\ Append(s, f) \in Seq(Files) /\ Len(Append(s, f)) = Len(s) + 1 /\ Len(s) \in Nat
      /\ \A i \in 1..Len(s) : Append(s, f)[i] = s[i]
      /\ Append(s, f)[Len(s) + 1] = f
  OBVIOUS
<1>2. QED
  BY <1>1 DEF Of

LEMMA OfConcat ==
  ASSUME NEW s \in Seq(Files), NEW t \in Seq(Files)
  PROVE  s \o t \in Seq(Files) /\ Of(s \o t) \subseteq Of(s) \cup Of(t)
<1>1. /\ s \o t \in Seq(Files) /\ Len(s \o t) = Len(s) + Len(t)
      /\ Len(s) \in Nat /\ Len(t) \in Nat
      /\ \A i \in 1..(Len(s) + Len(t)) :
             (s \o t)[i] = IF i <= Len(s) THEN s[i] ELSE t[i - Len(s)]
  OBVIOUS
<1>2. ASSUME NEW i \in 1..Len(s \o t)
      PROVE  (s \o t)[i] \in Of(s) \cup Of(t)
  <2>1. CASE i <= Len(s)
    BY <1>1, <2>1 DEF Of
  <2>2. CASE i > Len(s)
    <3>1. i - Len(s) \in 1..Len(t) /\ (s \o t)[i] = t[i - Len(s)]
      BY <1>1, <2>2
    <3>2. QED
      BY <3>1 DEF Of
  <2>3. QED
    BY <1>1, <2>1, <2>2
<1>3. QED
  BY <1>1, <1>2 DEF Of

\* A job that is left running waits all the same.
LEMMA LeftRunningWaits ==
  ASSUME TypeOK, tqueue # <<>>, LeftRunning
  PROVE  /\ tqueue' \in Seq(Files) /\ left' \in Seq(Files)
         /\ Waits' \subseteq Waits
<1>1. Subject \in Files /\ tqueue \in Seq(Files) /\ left \in Seq(Files) /\ Subject \in Of(tqueue)
  BY OfTail DEF TypeOK, Subject
<1>2. tqueue' = Tail(tqueue) /\ left' = Append(left, Subject)
  BY DEF LeftRunning
<1>3. Of(tqueue') \subseteq Of(tqueue) /\ tqueue' \in Seq(Files)
  BY <1>1, <1>2, OfTail
<1>4. Of(left') = Of(left) \cup {Subject} /\ left' \in Seq(Files)
  BY <1>1, <1>2, OfAppend
<1>5. QED
  BY <1>1, <1>3, <1>4 DEF Waits

LEMMA JoinsBehind ==
  ASSUME TypeOK, NEW f \in Files, tqueue' = Append(tqueue, f), UNCHANGED left
  PROVE  /\ tqueue' \in Seq(Files) /\ tqueue' # <<>>
         /\ tqueue # <<>> => Subject' = Subject
         /\ Waits' = Waits \cup {f}
<1>1. /\ tqueue' \in Seq(Files) /\ Len(tqueue') = Len(tqueue) + 1
      /\ \A i \in 1..Len(tqueue) : tqueue'[i] = tqueue[i]
      /\ tqueue'[Len(tqueue) + 1] = f
  BY DEF TypeOK
<1>2. Len(tqueue) \in Nat
  BY DEF TypeOK
<1>3. Waits' = Waits \cup {f}
  BY OfAppend DEF Waits, TypeOK
<1>4. QED
  BY <1>1, <1>2, <1>3 DEF TypeOK, Subject

\* What the worker has in hand is a job with a file of its upload.
LEMMA WorkerTypes ==
  ASSUME TypeOK, worker # Idle
  PROVE  /\ worker.upload \in Uploads
         /\ worker \in [at : {"claimed", "staged", "summed", "unique", "duplicate", "created", "failed"},
                        upload : Uploads, sum : Sums \cup {None}, media : Files \cup {None}]
  BY DEF TypeOK, Workers

LEMMA JobTypes ==
  ASSUME TypeOK, NEW u \in Uploads, job[u].state # "none"
  PROVE  /\ job[u] \in [state : JobStates, id : Nat, key : Files, media : Files \cup {None}]
         /\ job[u] # NoJob
  BY DEF TypeOK, Jobs, NoJob

LEMMA WorkerHasFile ==
  ASSUME IInv, worker # Idle
  PROVE  LET u == worker.upload IN
         /\ u \in Uploads /\ u # None /\ job[u] # NoJob /\ job[u].state = "running"
         /\ job[u].key \in Files /\ UploadOf[job[u].key] = u
<1>1. worker.upload \in Uploads /\ job[worker.upload].state = "running"
  BY WorkerTypes DEF IInv, WorkerKnows
<1>2. QED
  BY <1>1, JobTypes, IngestAssumption DEF IInv, JobsKnowFiles

\* Until its outcome, and unless the job runs again, no row has been made of the
\* file in hand, nobody deletes it, and it is stored unless it was disowned.
LEMMA InHand ==
  ASSUME IInv, worker # Idle, worker.at \notin {"created", "duplicate", "failed"},
         worker.upload \notin redone
  PROVE  LET f == job[worker.upload].key IN
         /\ row[f] = NoRow /\ deleting[f] = "no" /\ f \notin enq \cup Waits
         /\ worker.upload \notin disowned => Stored(f)
<1> DEFINE f == job[worker.upload].key
<1>1. f \in Files /\ UploadOf[f] = worker.upload /\ worker.upload \in Uploads
      /\ worker.upload # None /\ job[worker.upload].state = "running"
  BY WorkerHasFile
<1>2. NotBegun(f)
  BY <1>1 DEF NotBegun, AtOutcome
<1>3. worker.upload \notin disowned => Stored(f)
  BY <1>1 DEF IInv, AcceptedFileThere
<1>4. QED
  BY <1>1, <1>2, <1>3 DEF IInv, Untouched

\* The worker goes on with the job it has.
LEMMA WorkerGoes ==
  ASSUME TypeOK, worker # Idle,
         NEW at \in {"claimed", "staged", "summed", "unique", "duplicate", "created", "failed"},
         Goes(at)
  PROVE  /\ worker' \in Workers /\ worker' # Idle
         /\ worker'.at = at /\ worker'.upload = worker.upload /\ worker'.sum = worker.sum
<1>1. worker' = [worker EXCEPT !.at = at]
  BY DEF Goes
<1>2. QED
  BY <1>1, WorkerTypes DEF Workers, Idle

\* The worker claims a job: what it knows of it is nothing yet.
LEMMA ClaimUploadJobKeeps ==
  ASSUME IInv, NEW u \in Uploads, ClaimUploadJob(u)
  PROVE  IInv'
<1>1. TypeOK'
  <2>1. job' \in [Uploads -> Jobs]
    BY DEF IInv, ClaimUploadJob, TypeOK, Jobs, JobStates, NoJob
  <2>2. worker' \in Workers /\ stranded' \subseteq Uploads
    BY DEF IInv, ClaimUploadJob, TypeOK, Workers
  <2>3. QED
    BY <2>1, <2>2 DEF IInv, ClaimUploadJob, TypeOK, thumbVars, jobMarks
<1>2. AcceptedFileThere'
  BY DEF IInv, ClaimUploadJob, AcceptedFileThere, Stored, Idle
<1>3. DuplicateOfAnother'
  BY DEF IInv, ClaimUploadJob, DuplicateOfAnother
<1>4. Untouched'
  BY DEF IInv, ClaimUploadJob, Untouched, NotBegun, AtOutcome, Waits, thumbVars, jobMarks, failVars,
     Idle
<1>5. JobsKnowFiles'
  BY DEF IInv, ClaimUploadJob, JobsKnowFiles, NoJob
<1>6. WorkerKnows'
  BY DEF IInv, ClaimUploadJob, WorkerKnows, TypeOK
<1>7. RowsKeepFiles' /\ ThumbStatusTrue' /\ DeletionFirst' /\ DirectStored' /\ WorkerHasSubject'
  BY DEF IInv, ClaimUploadJob, RowsKeepFiles, Stored, ThumbStatusTrue, Subject, DeletionFirst,
     DirectStored, WorkerHasSubject, thumbVars, jobMarks, failVars
<1>8. QED
  BY <1>1, <1>2, <1>3, <1>4, <1>5, <1>6, <1>7 DEF IInv

\* The checksum is that of a file, so never None.
LEMMA SumFileKeeps ==
  ASSUME IInv, SumFile
  PROVE  IInv'
<1> DEFINE key == job[worker.upload].key
<1>1. worker # Idle /\ key \in Files /\ Checksum(key) \in Sums
  BY WorkerHasFile, IngestAssumption DEF SumFile, Idle, Checksum, Sums
<1>2. worker' \in Workers /\ worker'.upload = worker.upload /\ worker' # Idle
      /\ worker'.at \in {"summed", "failed"} /\ (worker'.at = "summed" => worker'.sum \in Sums)
  BY <1>1, WorkerTypes DEF SumFile, IInv, Idle, Workers
<1>3. TypeOK'
  BY <1>2 DEF IInv, SumFile, TypeOK, thumbVars, jobMarks, failVars
<1>4. AcceptedFileThere'
  BY <1>2 DEF IInv, SumFile, AcceptedFileThere, Stored, failVars
<1>5. Untouched'
  BY <1>2 DEF IInv, SumFile, Untouched, NotBegun, AtOutcome, Waits, thumbVars, jobMarks, failVars
<1>6. WorkerKnows'
  BY <1>1, <1>2 DEF IInv, SumFile, WorkerKnows
<1>7. RowsKeepFiles' /\ DuplicateOfAnother' /\ ThumbStatusTrue' /\ JobsKnowFiles'
      /\ DeletionFirst' /\ DirectStored' /\ WorkerHasSubject'
  BY DEF IInv, SumFile, RowsKeepFiles, Stored, DuplicateOfAnother, ThumbStatusTrue, Subject,
     JobsKnowFiles, DeletionFirst, DirectStored, WorkerHasSubject, thumbVars, jobMarks, failVars
<1>8. QED
  BY <1>3, <1>4, <1>5, <1>6, <1>7 DEF IInv

\* What becomes of the file of the job in hand is its own affair: the worker
\* discards it with the outcome, and no row names it.
LEMMA DiscardKeeps ==
  ASSUME IInv, worker # Idle, worker.at \notin {"created", "duplicate", "failed"},
         DeleteFile(job[worker.upload].key) \/ UNCHANGED file,
         UNCHANGED <<row, job, redone, disowned, direct>>,
         UNCHANGED file \/ worker'.at \in {"created", "duplicate", "failed"},
         worker' # Idle, worker'.upload = worker.upload
  PROVE  RowsKeepFiles' /\ AcceptedFileThere' /\ DirectStored'
<1> DEFINE key == job[worker.upload].key
<1>1. key \in Files /\ UploadOf[key] = worker.upload /\ worker.upload \in Uploads
      /\ worker.upload # None
  BY WorkerHasFile
<1>2. \A f \in Files \ {key} : file'[f] = file[f]
  BY DEF DeleteFile, IInv, TypeOK
<1>3. RowsKeepFiles'
  BY <1>1, <1>2, InHand DEF IInv, RowsKeepFiles, Stored
<1>4. ASSUME NEW u \in Uploads, job[u].state \in {"queued", "running"}, u # worker.upload
      PROVE  job[u].key \in Files \ {key}
  BY <1>1, <1>4, JobTypes DEF IInv, JobsKnowFiles
<1>5. AcceptedFileThere'
  BY <1>1, <1>2, <1>4 DEF IInv, AcceptedFileThere, Stored
<1>6. DirectStored'
  BY <1>1, <1>2 DEF IInv, DirectStored, Directs
<1>7. QED
  BY <1>3, <1>5, <1>6

\* The folder lookup discards the file of a job that has its outcome then.
LEMMA FolderCheckKeeps ==
  ASSUME IInv, FolderCheck
  PROVE  IInv'
<1>1. worker # Idle /\ worker.at = "claimed"
  BY DEF FolderCheck, Idle
<1>2. /\ worker' \in Workers /\ worker'.upload = worker.upload /\ worker' # Idle
      /\ worker'.at \in {"staged", "failed"}
      /\ UNCHANGED file \/ worker'.at = "failed"
  <2>1. CASE Goes("staged") /\ UNCHANGED file
    BY <1>1, <2>1, WorkerGoes DEF IInv
  <2>2. CASE Goes("failed") /\ DeleteFile(job[worker.upload].key)
    BY <1>1, <2>2, WorkerGoes DEF IInv
  <2>3. QED
    BY <2>1, <2>2 DEF FolderCheck
<1>3. TypeOK'
  BY <1>2 DEF IInv, FolderCheck, DeleteFile, TypeOK, thumbVars, jobMarks, failVars
<1>5. RowsKeepFiles' /\ AcceptedFileThere' /\ DirectStored'
  BY <1>1, <1>2, DiscardKeeps DEF FolderCheck, failVars
<1>6. Untouched'
  BY <1>1, <1>2 DEF IInv, FolderCheck, Untouched, NotBegun, AtOutcome, Waits, thumbVars, jobMarks,
     failVars
<1>7. WorkerKnows'
  BY <1>1, <1>2 DEF IInv, FolderCheck, WorkerKnows
<1>8. DuplicateOfAnother' /\ ThumbStatusTrue' /\ JobsKnowFiles' /\ DeletionFirst' /\ WorkerHasSubject'
  BY DEF IInv, FolderCheck, DuplicateOfAnother, ThumbStatusTrue, Subject, JobsKnowFiles,
     DeletionFirst, WorkerHasSubject, thumbVars, jobMarks, failVars
<1>9. QED
  BY <1>3, <1>5, <1>6, <1>7, <1>8 DEF IInv

\* The media found has a row, the file of the job has none: they are two.
LEMMA LookUpKeeps ==
  ASSUME IInv, LookUp
  PROVE  IInv'
<1>1. worker # Idle /\ worker.at = "summed" /\ worker.sum \in Sums
  <2>1. worker.at = "summed"
    BY DEF LookUp
  <2>2. QED
    BY <2>1 DEF IInv, WorkerKnows, Idle
<1>2. DuplicateOfAnother' /\ ThumbStatusTrue' /\ JobsKnowFiles' /\ DeletionFirst' /\ WorkerHasSubject'
  BY DEF IInv, LookUp, DuplicateOfAnother, ThumbStatusTrue, Subject, JobsKnowFiles, DeletionFirst,
     WorkerHasSubject, thumbVars, jobMarks, failVars
<1>3. CASE WithChecksum(worker.sum) = {}
  <2>1. worker' \in Workers /\ worker'.upload = worker.upload /\ worker' # Idle
        /\ worker'.at = "unique" /\ worker'.sum = worker.sum
    BY <1>1, <1>3, WorkerGoes DEF LookUp, IInv
  <2>2. TypeOK'
    BY <1>3, <2>1 DEF IInv, LookUp, TypeOK, thumbVars, jobMarks, failVars
  <2>3. RowsKeepFiles' /\ AcceptedFileThere' /\ DirectStored'
    BY <1>1, <1>3, <2>1, DiscardKeeps DEF LookUp, failVars
  <2>4. Untouched'
    BY <1>1, <2>1 DEF IInv, LookUp, Untouched, NotBegun, AtOutcome, Waits, thumbVars, jobMarks, failVars
  <2>5. WorkerKnows'
    BY <1>1, <2>1 DEF IInv, LookUp, WorkerKnows
  <2>6. QED
    BY <1>2, <2>2, <2>3, <2>4, <2>5 DEF IInv
<1>4. CASE WithChecksum(worker.sum) # {}
  <2>1. PICK m \in WithChecksum(worker.sum) :
            /\ worker' = [worker EXCEPT !.at = "duplicate", !.media = m]
            /\ DeleteFile(job[worker.upload].key)
    BY <1>4 DEF LookUp
  <2>2. m \in Files /\ row[m] # NoRow
    BY <1>1, IngestAssumption DEF WithChecksum, NoRow, Sums
  <2>3. worker' \in Workers /\ worker'.upload = worker.upload /\ worker' # Idle
        /\ worker'.at = "duplicate" /\ worker'.media = m
    BY <1>1, <2>1, <2>2, WorkerTypes DEF Workers, IInv, Idle
  <2>4. TypeOK'
    BY <2>1, <2>3 DEF IInv, LookUp, DeleteFile, TypeOK, thumbVars, jobMarks, failVars
  <2>5. RowsKeepFiles' /\ AcceptedFileThere' /\ DirectStored'
    BY <1>1, <2>1, <2>3, DiscardKeeps DEF LookUp, failVars
  <2>6. Untouched'
    <3>1. UNCHANGED <<row, job, redone, direct, deleting, enq, tqueue, left>>
      BY DEF LookUp, thumbVars, jobMarks, failVars
    <3>2. \A g \in Files : NotBegun(g)' => NotBegun(g)
      BY <1>1, <2>3, <3>1 DEF NotBegun, AtOutcome
    <3>3. QED
      BY <3>1, <3>2 DEF IInv, Untouched, Waits
  <2>7. WorkerKnows'
    <3>1. worker.upload \notin redone => row[job[worker.upload].key] = NoRow
      BY <1>1, InHand
    <3>2. m # None /\ UNCHANGED <<job, redone>> /\ job[worker.upload].state = "running"
      BY <1>1, <2>2, IngestAssumption DEF LookUp, failVars, IInv, WorkerKnows
    <3>3. QED
      BY <2>2, <2>3, <3>1, <3>2 DEF WorkerKnows
  <2>8. QED
    BY <1>2, <2>4, <2>5, <2>6, <2>7 DEF IInv
<1>5. QED
  BY <1>3, <1>4

\* The row is made of a file that no row has been made of.
LEMMA JobCreatesKeeps ==
  ASSUME IInv, JobCreates
  PROVE  IInv'
<1> DEFINE key == job[worker.upload].key
<1>1. worker # Idle /\ worker.at = "unique" /\ worker.sum \in Sums
  BY DEF JobCreates, Idle, IInv, WorkerKnows
<1>2. key \in Files /\ UploadOf[key] = worker.upload /\ worker.upload \in Uploads
      /\ worker.upload # None
  BY <1>1, WorkerHasFile
<1>3. worker.upload \notin redone =>
          /\ row[key] = NoRow /\ deleting[key] = "no" /\ key \notin Waits
          /\ worker.upload \notin disowned => Stored(key)
  BY <1>1, InHand
<1>4. UNCHANGED <<file, job, lastId, failVars, direct, deleting, tqueue, tworker, thumbs, jobMarks, restarts>>
  BY DEF JobCreates
<1>5. DuplicateOfAnother' /\ JobsKnowFiles' /\ DirectStored'
  BY <1>4 DEF IInv, DuplicateOfAnother, JobsKnowFiles, DirectStored, failVars
<1>6. /\ worker' \in Workers /\ worker'.upload = worker.upload /\ worker' # Idle
      /\ worker'.at \in {"created", "failed"}
      /\ enq' \in {enq, enq \cup {key}}
      /\ \/ UNCHANGED <<row, enq>>
         \/ row' = [row EXCEPT ![key] = [sum |-> worker.sum, thumb |-> "pending"]]
  <2>1. CASE /\ CreateMedia(key, worker.sum)
             /\ worker' = [worker EXCEPT !.at = "created", !.media = key]
    BY <1>1, <1>2, <2>1, WorkerTypes DEF IInv, Workers, Idle, CreateMedia, InsertMedia
  <2>2. CASE CreateFails(key, worker.sum) /\ Goes("failed")
    <3>1. /\ worker' \in Workers /\ worker' # Idle
          /\ worker'.at = "failed" /\ worker'.upload = worker.upload
      BY <1>1, <2>2, WorkerGoes DEF IInv
    <3>2. QED
      BY <2>2, <3>1 DEF CreateFails, InsertMedia
  <2>3. QED
    BY <2>1, <2>2 DEF JobCreates
<1>7. WorkerKnows'
  BY <1>1, <1>4, <1>6 DEF IInv, WorkerKnows
<1>8. AcceptedFileThere'
  BY <1>1, <1>4, <1>6 DEF IInv, AcceptedFileThere, Stored, failVars
<1>9. Waits' = Waits /\ Subject' = Subject
  BY <1>4 DEF Waits, Subject, jobMarks
<1>10. CASE UNCHANGED <<row, enq>>
  <2>1. TypeOK'
    BY <1>4, <1>6, <1>10 DEF IInv, TypeOK, failVars, jobMarks
  <2>2. RowsKeepFiles' /\ ThumbStatusTrue' /\ DeletionFirst' /\ WorkerHasSubject'
    BY <1>4, <1>9, <1>10 DEF IInv, RowsKeepFiles, Stored, ThumbStatusTrue, DeletionFirst,
       WorkerHasSubject, failVars, jobMarks
  <2>3. Untouched'
    BY <1>1, <1>4, <1>6, <1>9, <1>10 DEF IInv, Untouched, NotBegun, AtOutcome, failVars
  <2>4. QED
    BY <1>5, <1>7, <1>8, <2>1, <2>2, <2>3 DEF IInv
<1>11. CASE row' = [row EXCEPT ![key] = [sum |-> worker.sum, thumb |-> "pending"]]
  <2>1. /\ \A f \in Files \ {key} : row'[f] = row[f]
        /\ row'[key].thumb = "pending"
    BY <1>2, <1>11 DEF IInv, TypeOK
  <2>2. row' \in [Files -> Rows]
    BY <1>1, <1>11 DEF IInv, TypeOK, Rows
  <2>3. TypeOK'
    BY <1>2, <1>4, <1>6, <2>2 DEF IInv, TypeOK, failVars, jobMarks
  <2>4. RowsKeepFiles'
    BY <1>2, <1>3, <1>4, <2>1 DEF IInv, RowsKeepFiles, Stored, failVars
  <2>5. ThumbStatusTrue'
    BY <1>2, <1>4, <1>9, <2>1 DEF IInv, ThumbStatusTrue, failVars, jobMarks
  <2>6. Untouched'
    BY <1>1, <1>2, <1>4, <1>6, <1>9, <2>1 DEF IInv, Untouched, NotBegun, AtOutcome, failVars
  <2>7. DeletionFirst'
    BY <1>2, <1>3, <1>4, <2>1 DEF IInv, DeletionFirst, failVars
  <2>8. WorkerHasSubject'
    <3> SUFFICES ASSUME tworker = "written", row[Subject] = NoRow, UploadOf[Subject] \notin redone
                 PROVE  row'[Subject] = NoRow
      BY <1>4, <1>9, <2>1 DEF IInv, WorkerHasSubject, failVars
    <3>1. Subject \in Files /\ Subject \in Waits
      BY SubjectWaits DEF IInv, WorkerHasSubject
    <3>2. QED
      BY <1>2, <1>3, <2>1, <3>1
  <2>9. QED
    BY <1>5, <1>7, <1>8, <2>3, <2>4, <2>5, <2>6, <2>7, <2>8 DEF IInv
<1>12. QED
  BY <1>6, <1>10, <1>11

\* An error fails the job and touches nothing else.
LEMMA JobErrsKeeps ==
  ASSUME IInv, JobErrs
  PROVE  IInv'
<1>1. worker # Idle /\ worker.at \in {"claimed", "staged", "summed", "unique"}
  BY DEF JobErrs, Idle
<1>2. /\ worker' \in Workers /\ worker' # Idle
      /\ worker'.at = "failed" /\ worker'.upload = worker.upload
  BY <1>1, WorkerGoes DEF JobErrs, IInv
<1>3. UNCHANGED <<file, row, job, lastId, failVars, direct, deleting, thumbVars, restarts>>
  BY DEF JobErrs
<1>4. TypeOK'
  BY <1>2, <1>3 DEF IInv, TypeOK, thumbVars, jobMarks, failVars
<1>5. AcceptedFileThere'
  BY <1>2, <1>3 DEF IInv, AcceptedFileThere, Stored, failVars
<1>6. Untouched'
  BY <1>1, <1>2, <1>3 DEF IInv, Untouched, NotBegun, AtOutcome, Waits, thumbVars, jobMarks, failVars
<1>7. WorkerKnows'
  BY <1>1, <1>2, <1>3 DEF IInv, WorkerKnows
<1>8. RowsKeepFiles' /\ DuplicateOfAnother' /\ ThumbStatusTrue' /\ JobsKnowFiles'
      /\ DeletionFirst' /\ DirectStored' /\ WorkerHasSubject'
  BY <1>3 DEF IInv, RowsKeepFiles, Stored, DuplicateOfAnother, ThumbStatusTrue, Subject,
     JobsKnowFiles, DeletionFirst, DirectStored, WorkerHasSubject, thumbVars, jobMarks, failVars
<1>9. QED
  BY <1>4, <1>5, <1>6, <1>7, <1>8 DEF IInv

\* Once the outcome is recorded the job has begun for good.
LEMMA MarkUploadJobKeeps ==
  ASSUME IInv, MarkUploadJob
  PROVE  IInv'
<1> DEFINE u == worker.upload
<1>1. worker # Idle /\ AtOutcome(u) /\ worker' = Idle
  BY DEF MarkUploadJob, AtOutcome, Idle
<1>2. u \in Uploads /\ u # None /\ job[u] # NoJob /\ job[u].state = "running"
      /\ job[u].key \in Files /\ UploadOf[job[u].key] = u
  BY <1>1, WorkerHasFile
<1>3. job' \in [Uploads -> Jobs]
  <2>1. worker.media \in Files \cup {None}
    BY <1>1, WorkerTypes DEF IInv
  <2>2. Outcome \in JobStates
    BY <1>1 DEF Outcome, JobStates, MarkUploadJob
  <2>3. job[u] \in [state : JobStates, id : Nat, key : Files, media : Files \cup {None}]
    BY <1>2, JobTypes DEF IInv
  <2>4. QED
    <3>1. ASSUME NEW s \in JobStates, NEW m \in Files \cup {None}
          PROVE  /\ [job[u] EXCEPT !.state = s, !.media = m] \in Jobs
                 /\ [job[u] EXCEPT !.state = s] \in Jobs
      BY <2>3 DEF Jobs
    <3>2. "failed" \in JobStates /\ job \in [Uploads -> Jobs]
      BY DEF JobStates, IInv, TypeOK
    <3>3. \/ job' = [job EXCEPT ![u] = [job[u] EXCEPT !.state = Outcome, !.media = worker.media]]
          \/ job' = [job EXCEPT ![u] = [job[u] EXCEPT !.state = "failed"]]
          \/ job' = job
      BY DEF MarkUploadJob
    <3>4. QED
      BY <1>2, <2>1, <2>2, <3>1, <3>2, <3>3
<1>4. /\ \A v \in Uploads \ {u} : job'[v] = job[v]
      /\ job'[u].key = job[u].key
      /\ job'[u].state \in {"done", "duplicate", "failed"} \/ (job'[u].state = "running" /\ u \in redone')
      /\ job'[u].state = "duplicate" => worker.at = "duplicate" /\ job'[u].media = worker.media
  <2>1. job \in [Uploads -> Jobs]
        /\ job[u] \in [state : JobStates, id : Nat, key : Files, media : Files \cup {None}]
    BY <1>2, JobTypes DEF IInv, TypeOK
  <2>2. CASE job' = [job EXCEPT ![u].state = Outcome, ![u].media = worker.media]
    BY <1>1, <1>2, <2>1, <2>2 DEF Outcome, AtOutcome
  <2>3. CASE job' = [job EXCEPT ![u].state = "failed"]
    BY <1>2, <2>1, <2>3
  <2>4. CASE UNCHANGED job
    BY <1>2, <2>4 DEF MarkUploadJob
  <2>5. QED
    BY <2>2, <2>3, <2>4 DEF MarkUploadJob
<1>5. redone \subseteq redone' /\ redone' \subseteq redone \cup {u}
  BY DEF MarkUploadJob
<1>6. TypeOK'
  BY <1>2, <1>3, <1>5 DEF IInv, MarkUploadJob, TypeOK, Workers, thumbVars, jobMarks, failVars
<1>7. AcceptedFileThere'
  BY <1>1, <1>2, <1>4, <1>5 DEF IInv, MarkUploadJob, AcceptedFileThere, Stored, Idle
<1>8. DuplicateOfAnother'
  BY <1>1, <1>2, <1>4, <1>5 DEF IInv, DuplicateOfAnother, WorkerKnows
<1>9. Untouched'
  <2> SUFFICES ASSUME NEW f \in Files, NotBegun(f)'
               PROVE  NotBegun(f)
    BY DEF IInv, Untouched, MarkUploadJob, Waits, thumbVars, jobMarks, failVars
  <2>1. QED
    BY <1>1, <1>2, <1>4, <1>5, IngestAssumption DEF NotBegun, AtOutcome, MarkUploadJob, Idle
<1>10. JobsKnowFiles'
  BY <1>2, <1>4 DEF IInv, JobsKnowFiles
<1>11. WorkerKnows'
  BY <1>1 DEF WorkerKnows
<1>12. RowsKeepFiles' /\ ThumbStatusTrue' /\ DeletionFirst' /\ WorkerHasSubject'
  BY <1>5 DEF IInv, MarkUploadJob, RowsKeepFiles, Stored, ThumbStatusTrue, Subject, DeletionFirst,
     WorkerHasSubject, thumbVars, jobMarks, failVars
<1>13. DirectStored'
  BY DEF IInv, MarkUploadJob, DirectStored
<1>14. QED
  BY <1>6, <1>7, <1>8, <1>9, <1>10, <1>11, <1>12, <1>13 DEF IInv

\* A direct upload writes a file of its own.
LEMMA DirectSavesKeeps ==
  ASSUME IInv, NEW f \in Directs, DirectSaves(f)
  PROVE  IInv'
<1>1. TypeOK'
  BY DEF IInv, DirectSaves, TypeOK, thumbVars, jobMarks, failVars, jobVars, SaveUploadedFile
<1>2. RowsKeepFiles'
  BY DEF IInv, DirectSaves, RowsKeepFiles, Stored, thumbVars, jobMarks, failVars, jobVars,
     SaveUploadedFile, Directs
<1>3. AcceptedFileThere'
  BY DEF IInv, DirectSaves, AcceptedFileThere, Stored, thumbVars, jobMarks, failVars, jobVars,
     SaveUploadedFile, Directs
<1>4. Untouched'
  BY DEF IInv, DirectSaves, Untouched, NotBegun, AtOutcome, Waits, thumbVars, jobMarks, failVars,
     jobVars
<1>5. DirectStored'
  BY DEF IInv, DirectSaves, DirectStored, SaveUploadedFile, Directs, TypeOK
<1>6. DuplicateOfAnother' /\ ThumbStatusTrue' /\ JobsKnowFiles' /\ WorkerKnows' /\ DeletionFirst'
      /\ WorkerHasSubject'
  BY DEF IInv, DirectSaves, DuplicateOfAnother, ThumbStatusTrue, Subject, JobsKnowFiles, WorkerKnows,
     DeletionFirst, WorkerHasSubject, thumbVars, jobMarks, failVars, jobVars
<1>7. QED
  BY <1>1, <1>2, <1>3, <1>4, <1>5, <1>6 DEF IInv

\* A direct upload that is refused discards a file no row names.
LEMMA DirectLooksKeeps ==
  ASSUME IInv, NEW f \in Directs, DirectLooks(f)
  PROVE  IInv'
<1>1. TypeOK'
  BY DEF IInv, DirectLooks, TypeOK, thumbVars, jobMarks, failVars, jobVars, DeleteFile
<1>2. RowsKeepFiles'
  BY DEF IInv, DirectLooks, RowsKeepFiles, Stored, jobVars, failVars, jobMarks, DeleteFile, Directs,
     TypeOK, Untouched, NotBegun
<1>3. AcceptedFileThere'
  BY IngestAssumption DEF IInv, DirectLooks, AcceptedFileThere, Stored, jobVars, failVars, jobMarks,
     DeleteFile, Directs, TypeOK, NoJob, JobsKnowFiles
<1>4. Untouched'
  BY DEF IInv, DirectLooks, Untouched, NotBegun, AtOutcome, Waits, thumbVars, jobMarks, failVars,
     jobVars, Directs, TypeOK
<1>5. DirectStored'
  BY DEF IInv, DirectLooks, DirectStored, DeleteFile, Directs, TypeOK
<1>6. DuplicateOfAnother' /\ ThumbStatusTrue' /\ JobsKnowFiles' /\ WorkerKnows' /\ DeletionFirst'
      /\ WorkerHasSubject'
  BY DEF IInv, DirectLooks, DuplicateOfAnother, ThumbStatusTrue, Subject, JobsKnowFiles, WorkerKnows,
     DeletionFirst, WorkerHasSubject, thumbVars, jobMarks, failVars, jobVars
<1>7. QED
  BY <1>1, <1>2, <1>3, <1>4, <1>5, <1>6 DEF IInv

\* The row of a direct upload is made once.
LEMMA DirectCreatesKeeps ==
  ASSUME IInv, NEW f \in Directs, DirectCreates(f)
  PROVE  IInv'
<1>1. /\ f \in Files /\ UploadOf[f] = None /\ direct[f] = "unique" /\ file[f] = "whole"
      /\ row[f] = NoRow /\ deleting[f] = "no" /\ f \notin Waits
  BY DEF IInv, DirectCreates, DirectStored, Directs, Untouched, NotBegun
<1>2. UNCHANGED <<file, jobVars, deleting, tqueue, tworker, jobMarks, thumbs, restarts>>
  BY DEF DirectCreates
<1>3. /\ enq' \in {enq, enq \cup {f}}
      /\ \/ UNCHANGED <<row, enq>>
         \/ row' = [row EXCEPT ![f] = [sum |-> Checksum(f), thumb |-> "pending"]]
  BY DEF DirectCreates, CreateMedia, CreateFails, InsertMedia
<1>4. row' \in [Files -> Rows]
  BY <1>1, <1>3 DEF IInv, TypeOK, Rows, Checksum, Sums
<1>5. /\ \A g \in Files \ {f} : row'[g] = row[g]
      /\ row'[f] = NoRow \/ row'[f].thumb = "pending"
  BY <1>1, <1>3 DEF IInv, TypeOK
<1>6. Waits' = Waits /\ Subject' = Subject
  BY <1>2 DEF Waits, Subject, jobMarks
<1>7. TypeOK'
  BY <1>1, <1>2, <1>3, <1>4 DEF IInv, DirectCreates, TypeOK, jobVars, failVars, jobMarks
<1>8. RowsKeepFiles'
  BY <1>1, <1>2, <1>5 DEF IInv, RowsKeepFiles, Stored, jobVars, failVars
<1>9. ThumbStatusTrue'
  BY <1>1, <1>2, <1>5, <1>6 DEF IInv, ThumbStatusTrue, jobVars, failVars, jobMarks, NoRow
<1>10. Untouched'
  <2>1. \A g \in Files : NotBegun(g)' => NotBegun(g) /\ g # f
    BY <1>1, <1>2 DEF DirectCreates, NotBegun, AtOutcome, jobVars, failVars, IInv, TypeOK, Directs
  <2>2. QED
    BY <1>2, <1>3, <1>5, <1>6, <2>1 DEF IInv, Untouched
<1>11. DeletionFirst'
  BY <1>1, <1>2, <1>5 DEF IInv, DeletionFirst, jobVars, failVars
<1>12. DirectStored'
  BY <1>2 DEF IInv, DirectCreates, DirectStored
<1>13. WorkerHasSubject'
  <2> SUFFICES ASSUME tworker = "written"
               PROVE  row'[Subject] = row[Subject]
    BY <1>2, <1>6 DEF IInv, WorkerHasSubject, jobVars, failVars
  <2>1. QED
    BY <1>1, <1>5, SubjectWaits DEF IInv, WorkerHasSubject
<1>14. AcceptedFileThere' /\ DuplicateOfAnother' /\ JobsKnowFiles' /\ WorkerKnows'
  BY <1>2 DEF IInv, AcceptedFileThere, Stored, DuplicateOfAnother, JobsKnowFiles, WorkerKnows,
     jobVars, failVars
<1>15. QED
  BY <1>7, <1>8, <1>9, <1>10, <1>11, <1>12, <1>13, <1>14 DEF IInv

\* An error leaves everything as it is.
LEMMA DirectErrsKeeps ==
  ASSUME IInv, NEW f \in Directs, DirectErrs(f)
  PROVE  IInv'
<1>1. TypeOK'
  BY DEF IInv, DirectErrs, TypeOK, thumbVars, jobMarks, failVars, jobVars
<1>2. RowsKeepFiles' /\ AcceptedFileThere'
  BY DEF IInv, DirectErrs, RowsKeepFiles, AcceptedFileThere, Stored, jobVars, failVars
<1>3. Untouched'
  BY DEF IInv, DirectErrs, Untouched, NotBegun, AtOutcome, Waits, thumbVars, jobMarks, failVars,
     jobVars, Directs, TypeOK
<1>4. DirectStored'
  BY DEF IInv, DirectErrs, DirectStored, Directs, TypeOK
<1>5. DuplicateOfAnother' /\ ThumbStatusTrue' /\ JobsKnowFiles' /\ WorkerKnows' /\ DeletionFirst'
      /\ WorkerHasSubject'
  BY DEF IInv, DirectErrs, DuplicateOfAnother, ThumbStatusTrue, Subject, JobsKnowFiles, WorkerKnows,
     DeletionFirst, WorkerHasSubject, thumbVars, jobMarks, failVars, jobVars
<1>6. QED
  BY <1>1, <1>2, <1>3, <1>4, <1>5 DEF IInv

\* A deletion takes the row first,
LEMMA DeleteRowKeeps ==
  ASSUME IInv, NEW f \in Files, DeleteRow(f)
  PROVE  IInv'
<1>1. TypeOK'
  BY DEF IInv, DeleteRow, TypeOK, thumbVars, jobMarks, failVars, jobVars, Rows
<1>2. RowsKeepFiles'
  BY DEF IInv, DeleteRow, RowsKeepFiles, Stored, thumbVars, jobMarks, failVars, jobVars
<1>3. ThumbStatusTrue'
  BY DEF IInv, DeleteRow, ThumbStatusTrue, Subject, thumbVars, jobMarks, failVars, jobVars, NoRow
<1>4. Untouched'
  BY DEF IInv, DeleteRow, Untouched, NotBegun, AtOutcome, Waits, thumbVars, jobMarks, failVars, jobVars
<1>5. DeletionFirst'
  BY DEF IInv, DeleteRow, DeletionFirst, jobVars, failVars, jobMarks, TypeOK
<1>6. WorkerHasSubject'
  BY DEF IInv, DeleteRow, WorkerHasSubject, Subject, thumbVars, jobMarks, failVars, jobVars
<1>7. AcceptedFileThere' /\ DuplicateOfAnother' /\ JobsKnowFiles' /\ WorkerKnows' /\ DirectStored'
  BY DEF IInv, DeleteRow, AcceptedFileThere, Stored, DuplicateOfAnother, JobsKnowFiles, WorkerKnows,
     DirectStored, jobVars, failVars, jobMarks
<1>8. QED
  BY <1>1, <1>2, <1>3, <1>4, <1>5, <1>6, <1>7 DEF IInv

\* then the file, which no row names by now,
LEMMA DeleteStoredKeeps ==
  ASSUME IInv, NEW f \in Files, DeleteStored(f)
  PROVE  IInv'
<1>1. TypeOK'
  BY DEF IInv, DeleteStored, TypeOK, thumbVars, jobMarks, failVars, jobVars
<1>2. RowsKeepFiles'
  BY DEF IInv, DeleteStored, RowsKeepFiles, Stored, jobVars, failVars, jobMarks, TypeOK, DeletionFirst
<1>3. AcceptedFileThere'
  BY IngestAssumption DEF IInv, DeleteStored, AcceptedFileThere, Stored, jobVars, failVars, jobMarks,
     TypeOK, NoJob, Untouched, NotBegun, AtOutcome, JobsKnowFiles
<1>4. Untouched'
  BY DEF IInv, DeleteStored, Untouched, NotBegun, AtOutcome, Waits, thumbVars, jobMarks, failVars,
     jobVars, TypeOK
<1>5. DeletionFirst'
  BY DEF IInv, DeleteStored, DeletionFirst, jobVars, failVars, jobMarks, TypeOK
<1>6. DirectStored'
  BY DEF IInv, DeleteStored, DirectStored, TypeOK, Directs, Untouched, NotBegun
<1>7. DuplicateOfAnother' /\ ThumbStatusTrue' /\ JobsKnowFiles' /\ WorkerKnows' /\ WorkerHasSubject'
  BY DEF IInv, DeleteStored, DuplicateOfAnother, ThumbStatusTrue, Subject, JobsKnowFiles,
     WorkerKnows, WorkerHasSubject, thumbVars, jobMarks, failVars, jobVars
<1>8. QED
  BY <1>1, <1>2, <1>3, <1>4, <1>5, <1>6, <1>7 DEF IInv

\* then the thumbnail, which no row says was generated.
LEMMA DeleteThumbnailKeeps ==
  ASSUME IInv, NEW f \in Files, DeleteThumbnail(f)
  PROVE  IInv'
<1>1. TypeOK'
  BY DEF IInv, DeleteThumbnail, TypeOK, jobVars, failVars, jobMarks
<1>2. ThumbStatusTrue'
  BY DEF IInv, DeleteThumbnail, ThumbStatusTrue, Subject, jobVars, failVars, jobMarks, NoRow,
     DeletionFirst
<1>3. Untouched'
  BY DEF IInv, DeleteThumbnail, Untouched, NotBegun, AtOutcome, Waits, thumbVars, jobMarks, failVars,
     jobVars
<1>4. DeletionFirst'
  BY DEF IInv, DeleteThumbnail, DeletionFirst, thumbVars, jobMarks, failVars, jobVars
<1>5. WorkerHasSubject'
  BY DEF IInv, DeleteThumbnail, WorkerHasSubject, Subject, jobVars, failVars, jobMarks, DeletionFirst
<1>6. RowsKeepFiles' /\ AcceptedFileThere' /\ DuplicateOfAnother' /\ JobsKnowFiles' /\ WorkerKnows'
      /\ DirectStored'
  BY DEF IInv, DeleteThumbnail, RowsKeepFiles, Stored, AcceptedFileThere, DuplicateOfAnother,
     JobsKnowFiles, WorkerKnows, DirectStored, jobVars, failVars, jobMarks
<1>7. QED
  BY <1>1, <1>2, <1>3, <1>4, <1>5, <1>6 DEF IInv

\* A thumbnail job joins behind the first, which stays the first.
LEMMA EnqueueLandsKeeps ==
  ASSUME IInv, NEW f \in Files, EnqueueLands(f)
  PROVE  IInv'
<1>1. f \in enq /\ enq' = enq \ {f}
  BY DEF EnqueueLands
<1>2. UNCHANGED left /\ (tqueue' = Append(tqueue, f) \/ tqueue' = tqueue)
      /\ asked' \in {asked, asked \cup {f}}
  BY DEF EnqueueLands, EnqueueThumbnailJob
<1>3. /\ tqueue' \in Seq(Files)
      /\ tqueue # <<>> => tqueue' # <<>> /\ Subject' = Subject
      /\ Waits' \subseteq Waits \cup {f}
  BY <1>2, JoinsBehind DEF IInv, TypeOK, Subject, Waits
<1>4. TypeOK'
  BY <1>1, <1>2, <1>3 DEF IInv, EnqueueLands, TypeOK, jobVars, failVars, jobMarks
<1>5. ThumbStatusTrue' /\ WorkerHasSubject'
  BY <1>3 DEF IInv, EnqueueLands, ThumbStatusTrue, WorkerHasSubject, jobVars, failVars, jobMarks
<1>6. Untouched'
  BY <1>1, <1>3 DEF IInv, EnqueueLands, Untouched, NotBegun, AtOutcome, jobVars, failVars, jobMarks
<1>7. RowsKeepFiles' /\ AcceptedFileThere' /\ DuplicateOfAnother' /\ JobsKnowFiles'
      /\ WorkerKnows' /\ DeletionFirst' /\ DirectStored'
  BY DEF IInv, EnqueueLands, RowsKeepFiles, Stored, AcceptedFileThere, DuplicateOfAnother,
     JobsKnowFiles, WorkerKnows, DeletionFirst, DirectStored, jobVars, failVars, jobMarks
<1>8. QED
  BY <1>4, <1>5, <1>6, <1>7 DEF IInv

\* The page enqueues a job for a row that is there.
LEMMA GetThumbnailKeeps ==
  ASSUME IInv, NEW f \in Files, GetThumbnail(f)
  PROVE  IInv'
<1>1. row[f] # NoRow
  BY DEF GetThumbnail, NoRow
<1>2. UNCHANGED left /\ tqueue' = Append(tqueue, f) /\ asked' = asked \cup {f}
  BY DEF GetThumbnail, EnqueueThumbnailJob
<1>3. /\ tqueue' \in Seq(Files) /\ tqueue' # <<>>
      /\ tqueue # <<>> => Subject' = Subject
      /\ Waits' = Waits \cup {f}
  BY <1>2, JoinsBehind DEF IInv
<1>4. TypeOK'
  BY <1>2, <1>3 DEF IInv, GetThumbnail, TypeOK, jobVars, failVars, jobMarks
<1>5. ThumbStatusTrue' /\ WorkerHasSubject'
  BY <1>3 DEF IInv, GetThumbnail, ThumbStatusTrue, WorkerHasSubject, jobVars, failVars, jobMarks
<1>6. Untouched'
  BY <1>1, <1>3 DEF IInv, GetThumbnail, Untouched, NotBegun, AtOutcome, jobVars, failVars, jobMarks
<1>7. RowsKeepFiles' /\ AcceptedFileThere' /\ DuplicateOfAnother' /\ JobsKnowFiles'
      /\ WorkerKnows' /\ DeletionFirst' /\ DirectStored'
  BY DEF IInv, GetThumbnail, RowsKeepFiles, Stored, AcceptedFileThere, DuplicateOfAnother,
     JobsKnowFiles, WorkerKnows, DeletionFirst, DirectStored, jobVars, failVars, jobMarks
<1>8. QED
  BY <1>4, <1>5, <1>6, <1>7 DEF IInv

\* A retry is of a row that is there.
LEMMA RetryThumbnailKeeps ==
  ASSUME IInv, NEW f \in Files, RetryThumbnail(f)
  PROVE  IInv'
<1>1. TypeOK'
  BY DEF IInv, RetryThumbnail, TypeOK, jobVars, failVars, jobMarks, Rows, NoRow
<1>2. RowsKeepFiles'
  BY DEF IInv, RetryThumbnail, RowsKeepFiles, Stored, jobVars, failVars, jobMarks, NoRow
<1>3. ThumbStatusTrue'
  BY DEF IInv, RetryThumbnail, ThumbStatusTrue, Subject, thumbVars, jobMarks, failVars, jobVars
<1>4. Untouched'
  BY DEF IInv, RetryThumbnail, Untouched, NotBegun, AtOutcome, Waits, jobVars, failVars, jobMarks, NoRow
<1>5. DeletionFirst'
  BY DEF IInv, RetryThumbnail, DeletionFirst, jobVars, failVars, jobMarks, NoRow
<1>6. WorkerHasSubject'
  BY DEF IInv, RetryThumbnail, WorkerHasSubject, Subject, jobVars, failVars, jobMarks, NoRow
<1>7. AcceptedFileThere' /\ DuplicateOfAnother' /\ JobsKnowFiles' /\ WorkerKnows' /\ DirectStored'
  BY DEF IInv, RetryThumbnail, AcceptedFileThere, Stored, DuplicateOfAnother, JobsKnowFiles,
     WorkerKnows, DirectStored, jobVars, failVars, jobMarks
<1>8. QED
  BY <1>1, <1>2, <1>3, <1>4, <1>5, <1>6, <1>7 DEF IInv

\* A step of the thumbnail worker touches the library in the status of the media
\* in hand, and the queue at its head.
ThumbRest == <<file, jobVars, direct, deleting, enq, restarts>>

LEMMA ThumbWorkerKeeps ==
  ASSUME IInv, UNCHANGED ThumbRest, tqueue # <<>>,
         \/ UNCHANGED <<tqueue, left>>
         \/ tqueue' = Tail(tqueue) /\ UNCHANGED left
         \/ LeftRunning,
         thumbs \subseteq thumbs', thumbs' \subseteq Files,
         unsaid' \subseteq Files, asked' \subseteq Files,
         tworker' \in {"idle", "claimed", "generating", "written", "done", "failed"},
         \/ UNCHANGED row
         \/ /\ row[Subject] # NoRow
            /\ \E s \in {"generating", "generated", "failed"} :
                   row' = [row EXCEPT ![Subject].thumb = s]
  PROVE  /\ TypeOK' /\ RowsKeepFiles' /\ AcceptedFileThere' /\ DuplicateOfAnother' /\ Untouched'
         /\ JobsKnowFiles' /\ WorkerKnows' /\ DeletionFirst' /\ DirectStored'
<1>1. Subject \in Files /\ Subject \in Waits
  BY SubjectWaits DEF IInv
<1>2. tqueue' \in Seq(Files) /\ left' \in Seq(Files) /\ Waits' \subseteq Waits
  <2>1. CASE UNCHANGED <<tqueue, left>>
    BY <2>1 DEF IInv, TypeOK, Waits
  <2>2. CASE tqueue' = Tail(tqueue) /\ UNCHANGED left
    <3>1. tqueue \in Seq(Files) /\ left \in Seq(Files)
      BY DEF IInv, TypeOK
    <3>2. QED
      BY <2>2, <3>1, OfTail DEF Waits
  <2>3. CASE LeftRunning
    BY <2>3, LeftRunningWaits DEF IInv
  <2>4. QED
    BY <2>1, <2>2, <2>3
<1>3. /\ row' \in [Files -> Rows]
      /\ \A f \in Files : row'[f] = NoRow <=> row[f] = NoRow
  <2>1. CASE UNCHANGED row
    BY <2>1 DEF IInv, TypeOK
  <2>2. CASE row[Subject] # NoRow /\ ~(UNCHANGED row)
    <3>1. PICK s \in {"generating", "generated", "failed"} : row' = [row EXCEPT ![Subject].thumb = s]
      BY <2>2
    <3>2. row[Subject] \in [sum : Sums, thumb : {"pending", "generating", "generated", "failed"}]
      BY <1>1, <2>2 DEF IInv, TypeOK, Rows
    <3>3. [row[Subject] EXCEPT !.thumb = s] \in Rows /\ [row[Subject] EXCEPT !.thumb = s] # NoRow
      BY <3>2 DEF Rows, NoRow
    <3>4. row' = [row EXCEPT ![Subject] = [row[Subject] EXCEPT !.thumb = s]]
      BY <3>1
    <3>5. QED
      BY <1>1, <2>2, <3>3, <3>4 DEF IInv, TypeOK
  <2>3. QED
    BY <2>1, <2>2
<1>4. UNCHANGED <<file, job, lastId, worker, redone, stranded, disowned, direct, deleting, enq, restarts>>
  BY DEF ThumbRest, jobVars, failVars
<1>5. TypeOK'
  BY <1>2, <1>3, <1>4 DEF IInv, TypeOK
<1>6. RowsKeepFiles' /\ AcceptedFileThere' /\ DuplicateOfAnother' /\ DeletionFirst'
  BY <1>3, <1>4 DEF IInv, RowsKeepFiles, AcceptedFileThere, Stored, DuplicateOfAnother, DeletionFirst
<1>7. Untouched'
  BY <1>2, <1>3, <1>4 DEF IInv, Untouched, NotBegun, AtOutcome
<1>8. JobsKnowFiles' /\ WorkerKnows' /\ DirectStored'
  BY <1>4 DEF IInv, JobsKnowFiles, WorkerKnows, DirectStored
<1>9. QED
  BY <1>5, <1>6, <1>7, <1>8

\* What setting the status of the media in hand does to the rows.
LEMMA SetThumbRow ==
  ASSUME TypeOK, tqueue # <<>>, NEW s \in {"generating", "generated", "failed"}, SetThumb(Subject, s)
  PROVE  /\ \A f \in Files \ {Subject} : row'[f] = row[f]
         /\ row[Subject] # NoRow => row'[Subject].thumb = s
         /\ row[Subject] = NoRow => UNCHANGED row
         /\ \/ UNCHANGED row
            \/ row[Subject] # NoRow /\ row' = [row EXCEPT ![Subject].thumb = s]
<1>1. Subject \in Files /\ row[Subject] \in Rows /\ row \in [Files -> Rows]
  BY SubjectWaits DEF TypeOK
<1>2. row[Subject] # NoRow =>
          row[Subject] \in [sum : Sums, thumb : {"pending", "generating", "generated", "failed"}]
  BY <1>1 DEF Rows
<1>3. QED
  BY <1>1, <1>2 DEF SetThumb

\* The steps of the thumbnail worker.
LEMMA ClaimThumbnailJobKeeps ==
  ASSUME IInv, ClaimThumbnailJob
  PROVE  IInv'
<1>1. /\ UNCHANGED ThumbRest /\ UNCHANGED <<row, thumbs, unsaid, asked>>
      /\ tworker = "idle" /\ tqueue # <<>>
      /\ \/ UNCHANGED <<tqueue, left>> /\ tworker' = "claimed"
         \/ LeftRunning /\ tworker' = "idle"
  BY DEF ClaimThumbnailJob, ThumbRest, LeftRunning
<1>2. /\ TypeOK' /\ RowsKeepFiles' /\ AcceptedFileThere' /\ DuplicateOfAnother' /\ Untouched'
      /\ JobsKnowFiles' /\ WorkerKnows' /\ DeletionFirst' /\ DirectStored'
  BY <1>1, ThumbWorkerKeeps DEF IInv, TypeOK
<1>3. ThumbStatusTrue' /\ WorkerHasSubject'
  BY <1>1 DEF IInv, ThumbStatusTrue, WorkerHasSubject, ThumbRest, jobVars, failVars
<1>4. QED
  BY <1>2, <1>3 DEF IInv

LEMMA ThumbnailStartsKeeps ==
  ASSUME IInv, ThumbnailStarts
  PROVE  IInv'
<1>1. /\ UNCHANGED ThumbRest /\ UNCHANGED <<tqueue, left, asked, thumbs>>
      /\ tworker = "claimed" /\ tqueue # <<>> /\ Subject \in Files /\ Subject' = Subject
  BY SubjectWaits DEF ThumbnailStarts, ThumbRest, IInv, WorkerHasSubject, Subject
<1>2. \/ /\ row[Subject] # NoRow /\ SetThumb(Subject, "generating")
         /\ \/ tworker' = "generating" /\ unsaid' = unsaid \ {Subject}
            \/ tworker' = "failed" /\ unsaid' = unsaid \cup {Subject}
      \/ tworker' = "failed" /\ UNCHANGED <<row, unsaid>>
  BY DEF ThumbnailStarts, Unsaid
<1>3. \/ UNCHANGED row
      \/ row[Subject] # NoRow /\ row' = [row EXCEPT ![Subject].thumb = "generating"]
  BY <1>1, <1>2, SetThumbRow DEF IInv
<1>4. /\ TypeOK' /\ RowsKeepFiles' /\ AcceptedFileThere' /\ DuplicateOfAnother' /\ Untouched'
      /\ JobsKnowFiles' /\ WorkerKnows' /\ DeletionFirst' /\ DirectStored'
  BY <1>1, <1>2, <1>3, ThumbWorkerKeeps DEF IInv, TypeOK
<1>5. ThumbStatusTrue'
  <2>1. UNCHANGED <<thumbs, redone>>
    BY <1>1 DEF ThumbRest, jobVars, failVars
  <2>2. CASE UNCHANGED <<row, unsaid>>
    BY <1>1, <2>1, <2>2 DEF IInv, ThumbStatusTrue
  <2>3. CASE row[Subject] # NoRow /\ SetThumb(Subject, "generating") /\ ~(UNCHANGED <<row, unsaid>>)
    BY <1>1, <1>2, <2>1, <2>3, SetThumbRow DEF IInv, ThumbStatusTrue
  <2>4. QED
    BY <1>2, <2>2, <2>3
<1>6. WorkerHasSubject'
  BY <1>1, <1>2 DEF WorkerHasSubject
<1>7. QED
  BY <1>4, <1>5, <1>6 DEF IInv

LEMMA ThumbnailWrittenKeeps ==
  ASSUME IInv, ThumbnailWritten
  PROVE  IInv'
<1>1. /\ UNCHANGED ThumbRest /\ UNCHANGED <<tqueue, left, asked>>
      /\ tworker = "generating" /\ tqueue # <<>> /\ Subject \in Files /\ Subject' = Subject
  BY SubjectWaits DEF ThumbnailWritten, ThumbRest, IInv, WorkerHasSubject, Subject
<1>2. \/ thumbs' = thumbs \cup {Subject} /\ tworker' = "written" /\ UNCHANGED <<row, unsaid>>
      \/ /\ tworker' = "failed" /\ UNCHANGED thumbs
         /\ \/ SetThumb(Subject, "failed") /\ UNCHANGED unsaid
            \/ unsaid' = unsaid \cup {Subject} /\ UNCHANGED row
  BY DEF ThumbnailWritten, SaveThumbnail, Unsaid
<1>3. \/ UNCHANGED row
      \/ row[Subject] # NoRow /\ row' = [row EXCEPT ![Subject].thumb = "failed"]
  BY <1>1, <1>2, SetThumbRow DEF IInv
<1>4. /\ TypeOK' /\ RowsKeepFiles' /\ AcceptedFileThere' /\ DuplicateOfAnother' /\ Untouched'
      /\ JobsKnowFiles' /\ WorkerKnows' /\ DeletionFirst' /\ DirectStored'
  BY <1>1, <1>2, <1>3, ThumbWorkerKeeps DEF IInv, TypeOK
<1>5. UNCHANGED redone
  BY <1>1 DEF ThumbRest, jobVars, failVars
<1>6. CASE UNCHANGED row
  <2>1. ThumbStatusTrue'
    BY <1>1, <1>2, <1>5, <1>6, SetThumbRow DEF IInv, ThumbStatusTrue, NoRow
  <2>2. WorkerHasSubject'
    BY <1>1, <1>2, <1>5, <1>6 DEF IInv, WorkerHasSubject
  <2>3. QED
    BY <1>4, <2>1, <2>2 DEF IInv
<1>7. CASE ~UNCHANGED row
  <2>1. SetThumb(Subject, "failed") /\ UNCHANGED <<thumbs, unsaid>> /\ tworker' = "failed"
    BY <1>2, <1>7
  <2>2. ThumbStatusTrue'
    BY <1>1, <1>3, <1>5, <1>7, <2>1, SetThumbRow DEF IInv, ThumbStatusTrue
  <2>3. WorkerHasSubject'
    BY <1>1, <2>1 DEF WorkerHasSubject
  <2>4. QED
    BY <1>4, <2>2, <2>3 DEF IInv
<1>8. QED
  BY <1>6, <1>7

LEMMA ThumbnailRecordedKeeps ==
  ASSUME IInv, ThumbnailRecorded
  PROVE  IInv'
<1>1. /\ UNCHANGED ThumbRest /\ UNCHANGED <<tqueue, left, asked, thumbs>>
      /\ tworker = "written" /\ tqueue # <<>> /\ Subject \in Files /\ Subject' = Subject
  BY SubjectWaits DEF ThumbnailRecorded, ThumbRest, IInv, WorkerHasSubject, Subject
<1>2. /\ tworker' \in {"done", "failed"}
      /\ \/ \E s \in {"generated", "failed"} : SetThumb(Subject, s) /\ UNCHANGED unsaid
         \/ unsaid' = unsaid \cup {Subject} /\ UNCHANGED row
  BY DEF ThumbnailRecorded, Unsaid
<1>3. \/ UNCHANGED row
      \/ row[Subject] # NoRow /\ \E s \in {"generated", "failed"} : row' = [row EXCEPT ![Subject].thumb = s]
  BY <1>1, <1>2, SetThumbRow DEF IInv
<1>4. /\ TypeOK' /\ RowsKeepFiles' /\ AcceptedFileThere' /\ DuplicateOfAnother' /\ Untouched'
      /\ JobsKnowFiles' /\ WorkerKnows' /\ DeletionFirst' /\ DirectStored'
  BY <1>1, <1>2, <1>3, ThumbWorkerKeeps DEF IInv, TypeOK
<1>5. UNCHANGED redone
  BY <1>1 DEF ThumbRest, jobVars, failVars
<1>6. ThumbStatusTrue'
  <2>1. CASE unsaid' = unsaid \cup {Subject} /\ UNCHANGED row
    BY <1>1, <1>5, <2>1 DEF IInv, ThumbStatusTrue
  <2>2. ASSUME NEW s \in {"generated", "failed"}, SetThumb(Subject, s), UNCHANGED unsaid
        PROVE  ThumbStatusTrue'
    <3>1. /\ \A f \in Files \ {Subject} : row'[f] = row[f]
          /\ row[Subject] # NoRow => row'[Subject].thumb = s
          /\ row[Subject] = NoRow => row'[Subject] = NoRow
      BY <1>1, <2>2, SetThumbRow DEF IInv
    <3>2. row[Subject] # NoRow => Subject \in thumbs \/ UploadOf[Subject] \in redone
      BY <1>1 DEF IInv, WorkerHasSubject
    <3>3. QED
      BY <1>1, <1>5, <2>2, <3>1, <3>2 DEF IInv, ThumbStatusTrue, NoRow
  <2>3. QED
    BY <1>2, <2>1, <2>2
<1>7. WorkerHasSubject'
  BY <1>1, <1>2 DEF WorkerHasSubject
<1>8. QED
  BY <1>4, <1>6, <1>7 DEF IInv

LEMMA MarkThumbnailJobKeeps ==
  ASSUME IInv, MarkThumbnailJob
  PROVE  IInv'
<1>1. /\ UNCHANGED ThumbRest /\ UNCHANGED <<row, thumbs, unsaid>>
      /\ tworker \in {"done", "failed"} /\ tworker' = "idle" /\ tqueue # <<>>
      /\ (tqueue' = Tail(tqueue) /\ UNCHANGED left) \/ LeftRunning
      /\ asked' \subseteq asked
  BY DEF MarkThumbnailJob, ThumbRest, LeftRunning, IInv, WorkerHasSubject
<1>2. /\ TypeOK' /\ RowsKeepFiles' /\ AcceptedFileThere' /\ DuplicateOfAnother' /\ Untouched'
      /\ JobsKnowFiles' /\ WorkerKnows' /\ DeletionFirst' /\ DirectStored'
  BY <1>1, ThumbWorkerKeeps DEF IInv, TypeOK
<1>3. ThumbStatusTrue' /\ WorkerHasSubject'
  BY <1>1 DEF IInv, ThumbStatusTrue, WorkerHasSubject, ThumbRest, jobVars, failVars
<1>4. QED
  BY <1>2, <1>3 DEF IInv

\* A start resets the rows and the jobs that were under way.
LEMMA RestartStepKeeps ==
  ASSUME IInv, RestartStep
  PROVE  IInv'
<1>1. /\ worker' = Idle /\ tworker' = "idle" /\ enq' = {} /\ restarts' = restarts + 1
      /\ direct' = [f \in Directs |-> IF direct[f] = "idle" THEN "idle" ELSE "ended"]
      /\ deleting' = [f \in Files |-> "no"]
      /\ UNCHANGED <<file, lastId, disowned, asked, thumbs>>
  BY DEF RestartStep, Restart
<1>2. /\ \A u \in Uploads :
             /\ job'[u].key = job[u].key /\ job'[u].media = job[u].media
             /\ job'[u] = NoJob <=> job[u] = NoJob
             /\ \/ job'[u].state = job[u].state
                \/ job[u].state = "running" /\ job'[u].state = "queued"
      /\ job' \in [Uploads -> Jobs] /\ stranded' \subseteq Uploads
  <2>1. CASE UNCHANGED job /\ stranded' = Running
    BY <2>1 DEF IInv, TypeOK, Running
  <2>2. CASE /\ job' = [u \in Uploads |-> IF u \in Running
                                          THEN [job[u] EXCEPT !.state = "queued"] ELSE job[u]]
             /\ stranded' = {}
    <3>1. ASSUME NEW u \in Running
          PROVE  /\ [job[u] EXCEPT !.state = "queued"] \in Jobs
                 /\ [job[u] EXCEPT !.state = "queued"].key = job[u].key
                 /\ [job[u] EXCEPT !.state = "queued"].media = job[u].media
                 /\ [job[u] EXCEPT !.state = "queued"].state = "queued"
                 /\ job[u].state = "running" /\ job[u] # NoJob
      <4>1. u \in Uploads /\ job[u].state = "running"
        BY DEF Running
      <4>2. job[u] \in [state : JobStates, id : Nat, key : Files, media : Files \cup {None}]
            /\ job[u] # NoJob
        BY <4>1, JobTypes DEF IInv
      <4>3. QED
        BY <4>1, <4>2 DEF Jobs, JobStates
    <3>2. QED
      BY <2>2, <3>1 DEF IInv, TypeOK, NoJob
  <2>3. QED
    BY <2>1, <2>2 DEF RestartStep, Restart, RequeueRunningUploadCompletionJobs
<1>3. /\ row' \in [Files -> Rows] /\ unsaid' \subseteq Files
      /\ \A f \in Files :
             /\ row'[f] = NoRow <=> row[f] = NoRow
             /\ row'[f].thumb = "generated" => row[f].thumb = "generated"
             /\ row'[f].thumb = "generating" => f \in unsaid'
  <2>1. CASE UNCHANGED row /\ unsaid' = Generating
    BY <2>1 DEF IInv, TypeOK, Generating
  <2>2. CASE /\ row' = [f \in Files |-> IF f \in Generating
                                        THEN [row[f] EXCEPT !.thumb = "failed"] ELSE row[f]]
             /\ unsaid' = {}
    <3>1. ASSUME NEW f \in Generating
          PROVE  /\ [row[f] EXCEPT !.thumb = "failed"] \in Rows
                 /\ [row[f] EXCEPT !.thumb = "failed"].thumb = "failed"
                 /\ [row[f] EXCEPT !.thumb = "failed"] # NoRow /\ row[f] # NoRow
      <4>1. f \in Files /\ row[f].thumb = "generating" /\ row[f] \in Rows
        BY DEF Generating, IInv, TypeOK
      <4>2. row[f] \in [sum : Sums, thumb : {"pending", "generating", "generated", "failed"}]
        BY <4>1 DEF Rows, NoRow
      <4>3. QED
        BY <4>1, <4>2 DEF Rows, NoRow
    <3>2. QED
      BY <2>2, <3>1 DEF IInv, TypeOK, Generating
  <2>3. QED
    BY <2>1, <2>2 DEF RestartStep, Restart, ResetStuckThumbnails
<1>4. tqueue' \in Seq(Files) /\ left' \in Seq(Files) /\ Waits' \subseteq Waits
  <2>1. tqueue \in Seq(Files) /\ left \in Seq(Files)
    BY DEF IInv, TypeOK
  <2>2. CASE tqueue' = left \o tqueue /\ left' = <<>>
    <3>1. Of(left') = {} /\ left' \in Seq(Files)
      BY <2>2 DEF Of
    <3>2. tqueue' \in Seq(Files) /\ Of(tqueue') \subseteq Of(left) \cup Of(tqueue)
      BY <2>1, <2>2, OfConcat
    <3>3. QED
      BY <3>1, <3>2 DEF Waits
  <2>3. CASE UNCHANGED <<tqueue, left>>
    BY <2>1, <2>3 DEF Waits
  <2>4. CASE tworker # "idle" /\ tqueue' = Tail(tqueue) /\ left' = Append(left, Subject)
    <3>1. tqueue # <<>> /\ Subject \in Files /\ Subject \in Of(tqueue)
      BY <2>1, <2>4, OfTail, SubjectWaits DEF IInv, WorkerHasSubject, Subject
    <3>2. QED
      BY <2>1, <2>4, <3>1, OfTail, OfAppend DEF Waits
  <2>5. QED
    BY <2>2, <2>3, <2>4 DEF RestartStep, Restart, RequeueRunningThumbnailJobs
<1>5. redone' = redone \cup HadOutcome /\ redone' \subseteq Uploads
  BY WorkerTypes DEF IInv, TypeOK, RestartStep, Restart, RequeueRunningUploadCompletionJobs,
     HadOutcome, Idle
<1>6. \A u \in Uploads : AtOutcome(u) => u \in redone'
  BY <1>5 DEF HadOutcome, AtOutcome
<1>7. TypeOK'
  BY <1>1, <1>2, <1>3, <1>4, <1>5 DEF IInv, TypeOK, Workers
<1>8. RowsKeepFiles'
  BY <1>1, <1>3, <1>5 DEF IInv, RowsKeepFiles, Stored
<1>9. AcceptedFileThere'
  BY <1>1, <1>2, <1>5, <1>6 DEF IInv, AcceptedFileThere, Stored, AtOutcome
<1>10. DuplicateOfAnother'
  BY <1>2, <1>5 DEF IInv, DuplicateOfAnother
<1>11. ThumbStatusTrue'
  BY <1>1, <1>3, <1>5 DEF IInv, ThumbStatusTrue
<1>12. Untouched'
  <2>1. \A f \in Files : NotBegun(f)' => NotBegun(f)
    <3> SUFFICES ASSUME NEW f \in Files, NotBegun(f)'
                 PROVE  NotBegun(f)
      OBVIOUS
    <3>1. CASE UploadOf[f] = None
      BY <1>1, <3>1 DEF NotBegun, Directs
    <3>2. CASE UploadOf[f] # None
      <4>1. UploadOf[f] \in Uploads
        BY <3>2, IngestAssumption
      <4>2. QED
        BY <1>2, <1>5, <1>6, <3>2, <4>1 DEF NotBegun
    <3>3. QED
      BY <3>1, <3>2
  <2>2. QED
    BY <1>1, <1>3, <1>4, <2>1 DEF IInv, Untouched
<1>13. JobsKnowFiles'
  BY <1>2 DEF IInv, JobsKnowFiles
<1>14. WorkerKnows' /\ DeletionFirst' /\ DirectStored' /\ WorkerHasSubject'
  BY <1>1 DEF IInv, WorkerKnows, DeletionFirst, DirectStored, WorkerHasSubject
<1>15. QED
  BY <1>7, <1>8, <1>9, <1>10, <1>11, <1>12, <1>13, <1>14 DEF IInv

\* A file is written that no job knows, and so no row is made of yet.
LEMMA ForeignWriteKeeps ==
  ASSUME IInv, NEW f \in Files, ForeignWrite(f)
  PROVE  IInv'
<1>1. TypeOK'
  BY DEF IInv, ForeignWrite, TypeOK, thumbVars, jobMarks, failVars, jobVars
<1>2. RowsKeepFiles'
  <2>1. row[f] = NoRow
    <3>1. NotBegun(f)
      BY IngestAssumption DEF ForeignWrite, NotBegun, Keys
    <3>2. QED
      BY <3>1 DEF IInv, Untouched
  <2>2. QED
    BY <2>1 DEF IInv, ForeignWrite, RowsKeepFiles, Stored, TypeOK, jobVars, failVars, jobMarks
<1>3. AcceptedFileThere'
  BY DEF IInv, ForeignWrite, AcceptedFileThere, Stored, thumbVars, jobMarks, failVars, jobVars, Keys
<1>4. DirectStored'
  BY DEF IInv, ForeignWrite, DirectStored, Directs
<1>5. DuplicateOfAnother' /\ ThumbStatusTrue' /\ Untouched' /\ JobsKnowFiles' /\ WorkerKnows'
      /\ DeletionFirst' /\ WorkerHasSubject'
  BY DEF IInv, ForeignWrite, DuplicateOfAnother, ThumbStatusTrue, Subject, Untouched, NotBegun,
     AtOutcome, Waits, JobsKnowFiles, WorkerKnows, DeletionFirst, WorkerHasSubject, thumbVars,
     jobMarks, failVars, jobVars
<1>6. QED
  BY <1>1, <1>2, <1>3, <1>4, <1>5 DEF IInv

\* A file is submitted that is stored.
LEMMA SubmitKeeps ==
  ASSUME IInv, NEW f \in Files, Submit(f)
  PROVE  IInv'
<1>1. TypeOK'
  <2>1. /\ UNCHANGED <<file, row, worker, redone, stranded, direct, deleting, thumbVars, restarts>>
        /\ disowned' \subseteq Uploads
    BY IngestAssumption DEF Submit, IInv, TypeOK
  <2>2. job' \in [Uploads -> Jobs] /\ lastId' \in Nat
    BY DEF Submit, EnqueueUploadCompletionJob, IInv, TypeOK, Jobs, JobStates
  <2>3. QED
    BY <2>1, <2>2 DEF IInv, TypeOK, thumbVars, jobMarks
<1>2. AcceptedFileThere'
  <2>1. /\ UNCHANGED <<file, worker, redone>> /\ disowned \subseteq disowned' /\ Stored(f)
        /\ \A u \in Uploads : job'[u] = job[u] \/ job'[u].key = f
    BY DEF Submit, EnqueueUploadCompletionJob, IInv, TypeOK
  <2>2. QED
    BY <2>1 DEF IInv, AcceptedFileThere, Stored
<1>3. DuplicateOfAnother'
  BY DEF IInv, Submit, DuplicateOfAnother, EnqueueUploadCompletionJob, TypeOK
<1>4. Untouched'
  <2>1. /\ UNCHANGED <<row, worker, redone, direct, deleting, enq, tqueue, left>>
        /\ \A u \in Uploads : job'[u] = job[u] \/ job[u] = NoJob
    BY DEF IInv, Submit, EnqueueUploadCompletionJob, TypeOK, thumbVars, jobMarks, failVars
  <2>2. \A g \in Files : UploadOf[g] \in Uploads \cup {None} /\ g # None
    BY IngestAssumption
  <2>3. \A g \in Files : NotBegun(g)' => NotBegun(g)
    BY <2>1, <2>2 DEF NotBegun, AtOutcome, NoJob
  <2>4. QED
    BY <2>1, <2>3 DEF IInv, Untouched, Waits
<1>5. JobsKnowFiles'
  BY DEF IInv, Submit, JobsKnowFiles, EnqueueUploadCompletionJob, TypeOK
<1>6. WorkerKnows'
  BY DEF IInv, Submit, WorkerKnows, EnqueueUploadCompletionJob, TypeOK, NoJob, RowsKeepFiles,
     AcceptedFileThere, Untouched, JobsKnowFiles, Workers
<1>7. RowsKeepFiles' /\ ThumbStatusTrue' /\ DeletionFirst' /\ DirectStored' /\ WorkerHasSubject'
  BY DEF IInv, Submit, RowsKeepFiles, Stored, ThumbStatusTrue, Subject, DeletionFirst, DirectStored,
     WorkerHasSubject, thumbVars, jobMarks, failVars
<1>8. QED
  BY <1>1, <1>2, <1>3, <1>4, <1>5, <1>6, <1>7 DEF IInv

\* The file discarded is one of an upload that was disowned.
LEMMA DisownKeeps ==
  ASSUME IInv, NEW f \in Files, Disown(f)
  PROVE  IInv'
<1>1. /\ UploadOf[f] \in disowned /\ UploadOf[f] # None
      /\ \A g \in Files \ {f} : file'[g] = file[g]
      /\ UNCHANGED <<row, jobVars, direct, deleting, thumbVars, restarts>>
  BY IngestAssumption DEF Disown, IInv, TypeOK
<1>2. TypeOK'
  BY <1>1 DEF IInv, Disown, TypeOK, thumbVars, jobVars, jobMarks, failVars
<1>3. RowsKeepFiles'
  BY <1>1 DEF IInv, RowsKeepFiles, Stored, jobVars, failVars
<1>4. AcceptedFileThere'
  <2> SUFFICES ASSUME NEW u \in Uploads, job[u].state \in {"queued", "running"}, u \notin disowned
               PROVE  file'[job[u].key] = file[job[u].key]
    BY <1>1 DEF IInv, AcceptedFileThere, Stored, jobVars, failVars
  <2>1. job[u].key \in Files /\ UploadOf[job[u].key] = u
    BY JobTypes DEF IInv, JobsKnowFiles
  <2>2. QED
    BY <1>1, <2>1
<1>5. DirectStored'
  BY <1>1 DEF IInv, DirectStored, Directs
<1>6. DuplicateOfAnother' /\ ThumbStatusTrue' /\ Untouched' /\ JobsKnowFiles' /\ WorkerKnows'
      /\ DeletionFirst' /\ WorkerHasSubject'
  BY <1>1 DEF IInv, DuplicateOfAnother, ThumbStatusTrue, Subject, Untouched, NotBegun, AtOutcome,
     Waits, JobsKnowFiles, WorkerKnows, DeletionFirst, WorkerHasSubject, thumbVars, jobMarks,
     failVars, jobVars
<1>7. QED
  BY <1>2, <1>3, <1>4, <1>5, <1>6 DEF IInv

\* A step of the queues, of a direct upload or of a deletion.
LEMMA IngestStepKeeps ==
  ASSUME IInv, IngestStep
  PROVE  IInv'
<1>1. CASE WorkerStep
  BY <1>1, ClaimUploadJobKeeps, FolderCheckKeeps, SumFileKeeps, LookUpKeeps, JobCreatesKeeps,
     JobErrsKeeps, MarkUploadJobKeeps DEF WorkerStep
<1>2. CASE \E f \in Directs :
               DirectSaves(f) \/ DirectLooks(f) \/ DirectCreates(f) \/ DirectErrs(f)
  BY <1>2, DirectSavesKeeps, DirectLooksKeeps, DirectCreatesKeeps, DirectErrsKeeps
<1>3. CASE \E f \in Files : DeleteRow(f) \/ DeleteStored(f) \/ DeleteThumbnail(f)
  BY <1>3, DeleteRowKeeps, DeleteStoredKeeps, DeleteThumbnailKeeps
<1>4. CASE \E f \in Files : EnqueueLands(f) \/ GetThumbnail(f) \/ RetryThumbnail(f)
  BY <1>4, EnqueueLandsKeeps, GetThumbnailKeeps, RetryThumbnailKeeps
<1>5. CASE ThumbStep
  BY <1>5, ClaimThumbnailJobKeeps, ThumbnailStartsKeeps, ThumbnailWrittenKeeps,
     ThumbnailRecordedKeeps, MarkThumbnailJobKeeps DEF ThumbStep
<1>6. QED
  BY <1>1, <1>2, <1>3, <1>4, <1>5 DEF IngestStep

LEMMA NextIInv == IInv /\ [IngestNext]_vars => IInv'
<1> SUFFICES ASSUME IInv, [IngestNext]_vars
             PROVE  IInv'
  OBVIOUS
<1>1. CASE IngestStep
  BY <1>1, IngestStepKeeps
<1>2. CASE RestartStep
  BY <1>2, RestartStepKeeps
<1>3. CASE \E f \in Files : ForeignWrite(f) \/ Submit(f) \/ Disown(f)
  BY <1>3, ForeignWriteKeeps, SubmitKeeps, DisownKeeps
<1>4. CASE UNCHANGED vars
  BY <1>4 DEF vars, jobVars, failVars, jobMarks, thumbVars, IInv, TypeOK, RowsKeepFiles, Stored,
     AcceptedFileThere, DuplicateOfAnother, ThumbStatusTrue, Subject, Untouched, NotBegun, AtOutcome,
     Waits, JobsKnowFiles, WorkerKnows, DeletionFirst, DirectStored, WorkerHasSubject
<1>5. QED
  BY <1>1, <1>2, <1>3, <1>4 DEF IngestNext

\* Whatever fails and whenever the process dies, a media row has its file, an
\* accepted upload has its file until its job has an outcome, and a duplicate is
\* a duplicate of another media, but for jobs that run again and requests told
\* that their job was not inserted: MediaService, UploadCompletionQueueService
\* and the deletion of media together.
THEOREM LibraryCorrect == IngestSpec => []LibrarySound
<1>1. IInv => LibrarySound
  BY DEF IInv, LibrarySound
<1>2. QED
  BY InitIInv, NextIInv, <1>1, PTL DEF IngestSpec

\* What a row says of its thumbnail is so: it is being generated, or it is stored,
\* or it is a row that a call failed at a moment when ThumbnailQueueService does
\* not write a status (unsaid).
THEOREM ThumbsCorrect == IngestSpec => []ThumbStatusTrue
<1>1. IInv => ThumbStatusTrue
  BY DEF IInv
<1>2. QED
  BY InitIInv, NextIInv, <1>1, PTL DEF IngestSpec

-----------------------------------------------------------------------------
(***************************************************************************)
(* The uploads: their steps are those of the environment that MediaIngest  *)
(* supposes, and what is accepted is whole.                                *)
(***************************************************************************)
\* Of an upload that was not begun nothing is anywhere.
NotBegunEmpty ==
    \A u \in Uploads : session[u] = "none" =>
        /\ ~Staged(u) /\ received[u] = {} /\ job[u] = NoJob
        /\ \A r \in Requests : request[r].upload # u
        /\ \A k \in Completes : UploadOf[k] = u => complete[k] = "idle"

\* A /complete request that has made its file and not yet handed it over.
HasFile(k) == complete[k] \in {"finalized", "enqueue"}

\* Multipart uploads: the one that ends a multipart upload is the only one to
\* have a file, and there is no job before it hands it over.
MultipartEndsOnce ==
    backend = "spaces" =>
        /\ \A u \in Uploads : job[u] # NoJob => ~Staged(u)
        /\ \A k \in Completes : HasFile(k) \/ complete[k] = "unpublished" => ~Staged(UploadOf[k])
        /\ \A k \in Completes : HasFile(k) =>
               job[UploadOf[k]] = NoJob /\ file[StorageKey(k)] = "whole"
        /\ \A k, l \in Completes :
               HasFile(k) /\ HasFile(l) /\ UploadOf[k] = UploadOf[l] => k = l
        /\ \A u \in Uploads : Staged(u) =>
               \A c \in received[u] : staging[u][c] = "whole"

\* On disk a file is its request's own until the request has handed it over.
DiskFilesApart ==
    backend = "local" =>
        \A k \in Completes :
            /\ complete[k] \notin {"discard", "ended"} => k \notin Keys
            /\ HasFile(k) => Stored(k)

\* A completion has found all chunks received, and they stay so.
CompletedWasReceived ==
    \A k \in Completes : complete[k] # "idle" => received[UploadOf[k]] = Chunks

\* On disk, while no chunk of an upload is sent again: a chunk being written is
\* not recorded and has one writer, one that is recorded is whole, and so is
\* what is made of them.
ChunksKept ==
    backend = "local" =>
        \A u \in Uploads \ resent :
            /\ \A r \in Requests : request[r].upload = u =>
                   /\ request[r].chunk \notin received[u]
                   /\ Staged(u) => staging[u][request[r].chunk] = r
                   /\ \A q \in Requests : request[q] = request[r] => q = r
            /\ Staged(u) => \A c \in received[u] : staging[u][c] = "whole"
            /\ \A k \in Completes : UploadOf[k] = u =>
                   concat[k].good /\ (HasFile(k) => file[k] = "whole")

\* The staging area of an open session goes with an abort or a finalisation only.
StagedTillFinalized ==
    \A u \in Uploads : session[u] = "open" /\ u \notin aborting /\ ~Staged(u) =>
        \E k \in Completes : UploadOf[k] = u /\ complete[k] \in {"finalized", "unpublished"}

UploadParts ==
    /\ UploadTypeOK /\ AcceptedWhole
    /\ NotBegunEmpty /\ MultipartEndsOnce /\ DiskFilesApart /\ CompletedWasReceived
    /\ ChunksKept /\ StagedTillFinalized

\* What a /complete request discards, told that its job was not inserted, is its
\* own, and if a job has it the upload is known to be disowned.
DiscardsApart ==
    /\ \A k \in Completes :
           complete[k] = "discard" /\ StorageKey(k) \in Keys => UploadOf[k] \in disowned
    /\ backend = "spaces" =>
           \A k \in Completes : complete[k] = "discard" =>
               /\ ~Staged(UploadOf[k])
               /\ \A l \in Completes : HasFile(l) => UploadOf[l] # UploadOf[k]

UInv == IInv /\ UploadParts /\ DiscardsApart

\* StorageKey names a file of the same upload; on disk its own.
LEMMA StorageKeyOf ==
  ASSUME NEW k \in Completes
  PROVE  /\ StorageKey(k) \in Completes /\ UploadOf[StorageKey(k)] = UploadOf[k]
         /\ backend = "local" => StorageKey(k) = k
  BY DEF StorageKey, Completes

\* A staging area has chunks, so that it is none only when it has been removed.
LEMMA StagedChunks ==
  ASSUME NEW g \in [Chunks -> {"none", "whole"} \cup Requests]
  PROVE  g # NoStaging
<1>1. DOMAIN g # {}
  BY UploadAssumption
<1>2. DOMAIN NoStaging = {}
  BY DEF NoStaging
<1>3. QED
  BY <1>1, <1>2

LEMMA StagingTypes ==
  ASSUME UploadTypeOK, NEW u \in Uploads, Staged(u)
  PROVE  staging[u] \in [Chunks -> {"none", "whole"} \cup Requests]
  BY DEF UploadTypeOK, Staged

LEMMA ChunkSet ==
  ASSUME UploadTypeOK, NEW u \in Uploads, Staged(u), NEW c \in Chunks,
         NEW v \in {"none", "whole"} \cup Requests, staging' = [staging EXCEPT ![u][c] = v]
  PROVE  /\ staging' \in [Uploads -> {NoStaging} \cup [Chunks -> {"none", "whole"} \cup Requests]]
         /\ \A w \in Uploads : Staged(w)' <=> Staged(w)
         /\ \A w \in Uploads \ {u} : staging'[w] = staging[w]
         /\ staging'[u][c] = v
         /\ \A d \in Chunks \ {c} : staging'[u][d] = staging[u][d]
<1>1. staging[u] \in [Chunks -> {"none", "whole"} \cup Requests]
  BY StagingTypes
<1>2. [staging[u] EXCEPT ![c] = v] \in [Chunks -> {"none", "whole"} \cup Requests]
  BY <1>1
<1>3. staging'[u] = [staging[u] EXCEPT ![c] = v] /\ \A w \in Uploads \ {u} : staging'[w] = staging[w]
  BY DEF UploadTypeOK
<1>4. staging'[u] # NoStaging
  BY <1>2, <1>3, StagedChunks
<1>5. staging' \in [Uploads -> {NoStaging} \cup [Chunks -> {"none", "whole"} \cup Requests]]
  BY <1>2 DEF UploadTypeOK
<1>6. \A w \in Uploads : Staged(w)' <=> Staged(w)
  BY <1>3, <1>4 DEF Staged
<1>7. QED
  BY <1>1, <1>3, <1>5, <1>6

LEMMA StagingGone ==
  ASSUME UploadTypeOK, NEW u \in Uploads, staging' = [staging EXCEPT ![u] = NoStaging]
  PROVE  /\ staging' \in [Uploads -> {NoStaging} \cup [Chunks -> {"none", "whole"} \cup Requests]]
         /\ ~Staged(u)'
         /\ \A w \in Uploads \ {u} : staging'[w] = staging[w]
  BY DEF UploadTypeOK, Staged

\* What the library does to the jobs and files of uploads: a job keeps its file,
\* only a file that has a job is touched, and then it is discarded.
LEMMA IngestLeaves ==
  ASSUME IInv, IngestStep
  PROVE  /\ \A u \in Uploads : job'[u].key = job[u].key /\ (job'[u] = NoJob <=> job[u] = NoJob)
         /\ \A k \in Completes : file'[k] \in {file[k], "none"} /\ (k \notin Keys => file'[k] = file[k])
         /\ UNCHANGED disowned
<1> USE DEF jobVars, failVars, jobMarks, thumbVars
<1> DEFINE Kept == \A u \in Uploads : job'[u].key = job[u].key /\ (job'[u] = NoJob <=> job[u] = NoJob)
           Discarded == \A k \in Completes :
               file'[k] \in {file[k], "none"} /\ (k \notin Keys => file'[k] = file[k])
<1>1. UNCHANGED job => Kept
  OBVIOUS
<1>2. UNCHANGED file => Discarded
  OBVIOUS
<1>3. ASSUME NEW u \in Uploads, DeleteFile(job[u].key), job[u].key \in Files
      PROVE  Discarded
  BY <1>3 DEF DeleteFile, Keys, IInv, TypeOK, Completes
<1>4. CASE \E u \in Uploads : ClaimUploadJob(u)
  <2>1. PICK u \in Uploads : ClaimUploadJob(u)
    BY <1>4
  <2>2. Kept
    BY <2>1, JobTypes DEF ClaimUploadJob, IInv, TypeOK, NoJob
  <2>3. QED
    BY <1>2, <2>1, <2>2 DEF ClaimUploadJob
<1>5. CASE FolderCheck
  <2>1. worker # Idle
    BY <1>5 DEF FolderCheck, Idle
  <2>2. QED
    BY <1>1, <1>2, <1>3, <1>5, <2>1, WorkerHasFile DEF FolderCheck
<1>6. CASE LookUp
  <2>1. worker # Idle
    <3>1. worker.at = "summed"
      BY <1>6 DEF LookUp
    <3>2. QED
      BY <3>1 DEF Idle
  <2>2. UNCHANGED file \/ DeleteFile(job[worker.upload].key)
    BY <1>6 DEF LookUp
  <2>3. QED
    BY <1>1, <1>2, <1>3, <1>6, <2>1, <2>2, WorkerHasFile DEF LookUp
<1>7. CASE SumFile \/ JobCreates \/ JobErrs
  BY <1>1, <1>2, <1>7 DEF SumFile, JobCreates, JobErrs
<1>8. CASE MarkUploadJob
  <2> DEFINE u == worker.upload
  <2>1. u \in Uploads /\ job[u] # NoJob /\ job[u].state = "running"
    BY <1>8, WorkerHasFile DEF MarkUploadJob, Idle
  <2>2. job \in [Uploads -> Jobs]
        /\ job[u] \in [state : JobStates, id : Nat, key : Files, media : Files \cup {None}]
    BY <2>1, JobTypes DEF IInv, TypeOK
  <2>3. Outcome \in JobStates
    BY <1>8 DEF Outcome, JobStates, MarkUploadJob
  <2>4. CASE job' = [job EXCEPT ![u].state = Outcome, ![u].media = worker.media]
    BY <2>1, <2>2, <2>3, <2>4, <1>2, <1>8 DEF MarkUploadJob, NoJob, JobStates
  <2>5. CASE job' = [job EXCEPT ![u].state = "failed"]
    BY <2>1, <2>2, <2>5, <1>2, <1>8 DEF MarkUploadJob, NoJob, JobStates
  <2>6. QED
    BY <1>1, <1>2, <1>8, <2>4, <2>5 DEF MarkUploadJob
<1>9. CASE \E f \in Directs :
               DirectSaves(f) \/ DirectLooks(f) \/ DirectCreates(f) \/ DirectErrs(f)
  <2>1. PICK f \in Directs : DirectSaves(f) \/ DirectLooks(f) \/ DirectCreates(f) \/ DirectErrs(f)
    BY <1>9
  <2>2. UNCHANGED <<job, disowned>>
    BY <2>1 DEF DirectSaves, DirectLooks, DirectCreates, DirectErrs
  <2>3. UNCHANGED file \/ \E c \in {"none", "whole"} : file' = [file EXCEPT ![f] = c]
    BY <2>1 DEF DirectSaves, DirectLooks, DirectCreates, DirectErrs, SaveUploadedFile, DeleteFile
  <2>4. Discarded
    BY <2>3 DEF IInv, TypeOK, Completes, Directs
  <2>5. QED
    BY <1>1, <2>2, <2>4
<1>10. CASE \E f \in Files : DeleteRow(f) \/ DeleteThumbnail(f)
  BY <1>1, <1>2, <1>10 DEF DeleteRow, DeleteThumbnail, jobVars, failVars, jobMarks
<1>11. CASE \E f \in Files : DeleteStored(f)
  <2>1. PICK f \in Files : DeleteStored(f)
    BY <1>11
  <2>2. ~NotBegun(f)
    BY <2>1 DEF IInv, Untouched, DeleteStored
  <2>3. f \in Directs \/ \E u \in Uploads : job[u].key = f
    BY <2>2, IngestAssumption DEF NotBegun, Directs
  <2>4. Discarded
    BY <2>1, <2>3 DEF DeleteStored, IInv, TypeOK, Completes, Directs, Keys
  <2>5. QED
    BY <1>1, <2>1, <2>4 DEF DeleteStored, jobVars, failVars, jobMarks
<1>12. CASE \E f \in Files : EnqueueLands(f) \/ GetThumbnail(f) \/ RetryThumbnail(f)
  BY <1>1, <1>2, <1>12 DEF EnqueueLands, GetThumbnail, RetryThumbnail, jobVars, failVars, jobMarks
<1>13. CASE ThumbStep
  BY <1>1, <1>2, <1>13 DEF ThumbStep, ClaimThumbnailJob, ThumbnailStarts, ThumbnailWritten,
     ThumbnailRecorded, MarkThumbnailJob, jobVars, failVars, jobMarks
<1>14. QED
  BY <1>4, <1>5, <1>6, <1>7, <1>8, <1>9, <1>10, <1>11, <1>12, <1>13 DEF IngestStep, WorkerStep

\* A file that a request of an upload still makes, or has not handed over, is no
\* job's yet.
LEMMA FileIsFree ==
  ASSUME UInv, NEW k \in Completes,
         backend = "local" => complete[k] \notin {"discard", "ended"},
         backend = "spaces" => Staged(UploadOf[k]) \/ HasFile(k)
  PROVE  StorageKey(k) \notin Keys
<1>1. CASE backend = "local"
  BY <1>1, StorageKeyOf DEF UInv, UploadParts, DiskFilesApart
<1>2. CASE backend = "spaces"
  <2>1. job[UploadOf[k]] = NoJob /\ UploadOf[k] \in Uploads
    BY <1>2, IngestAssumption DEF UInv, UploadParts, MultipartEndsOnce, Completes
  <2>2. \A u \in Uploads : job[u] = NoJob => job[u].key \notin Files
    BY IngestAssumption DEF NoJob
  <2>3. StorageKey(k) \in Files /\ UploadOf[StorageKey(k)] = UploadOf[k]
    BY StorageKeyOf DEF Completes
  <2>4. QED
    BY <2>1, <2>2, <2>3 DEF UInv, IInv, JobsKnowFiles, Keys
<1>3. QED
  BY <1>1, <1>2, UploadAssumption DEF UInv, UploadParts, UploadTypeOK

\* Uploading is the environment that MediaIngest supposes: a step of an upload
\* writes a file no job has, submits one that is stored, or is none of the library's.
LEMMA StepImplements ==
  ASSUME UInv, [UploadNext]_allVars
  PROVE  [IngestNext]_vars
<1> USE DEF jobVars, failVars, jobMarks, thumbVars
<1>1. ASSUME NEW k \in Completes, NEW c \in {"none", "partial", "bad", "whole"},
             StorageKey(k) \notin Keys, file' = [file EXCEPT ![StorageKey(k)] = c],
             UNCHANGED <<row, jobVars, direct, deleting, thumbVars, restarts>>
      PROVE  IngestNext
  <2>1. StorageKey(k) \in Files /\ UploadOf[StorageKey(k)] # None
    BY StorageKeyOf DEF Completes
  <2>2. ForeignWrite(StorageKey(k))
    BY <1>1, <2>1 DEF ForeignWrite
  <2>3. QED
    BY <2>1, <2>2 DEF IngestNext
<1>2. CASE \E k \in Completes : CompleteStarts(k)
  <2>1. PICK k \in Completes : CompleteStarts(k)
    BY <1>2
  <2>2. CASE backend = "local"
    BY <1>1, <2>1, <2>2, FileIsFree, StorageKeyOf DEF CompleteStarts
  <2>3. CASE backend # "local"
    BY <2>1, <2>3 DEF CompleteStarts, vars
  <2>4. QED
    BY <2>2, <2>3
<1>3. CASE \E k \in Completes, c \in Chunks : ReadChunk(k, c)
  <2>1. PICK k \in Completes, c \in Chunks : ReadChunk(k, c)
    BY <1>3
  <2>2. StorageKey(k) = k /\ StorageKey(k) \notin Keys
    BY <2>1, FileIsFree, StorageKeyOf DEF ReadChunk
  <2>3. CASE UNCHANGED file
    BY <2>1, <2>3 DEF ReadChunk, vars
  <2>4. CASE file' = [file EXCEPT ![k] = "none"]
    BY <1>1, <2>1, <2>2, <2>4 DEF ReadChunk
  <2>5. QED
    BY <2>1, <2>3, <2>4 DEF ReadChunk
<1>4. CASE \E k \in Completes : FinalizeLocal(k)
  <2>1. PICK k \in Completes : FinalizeLocal(k)
    BY <1>4
  <2>2. StorageKey(k) = k /\ StorageKey(k) \notin Keys
    BY <2>1, FileIsFree, StorageKeyOf DEF FinalizeLocal
  <2>3. QED
    BY <1>1, <2>1, <2>2 DEF FinalizeLocal
<1>5. CASE \E k \in Completes : FinalizeSpaces(k)
  <2>1. PICK k \in Completes : FinalizeSpaces(k)
    BY <1>5
  <2>2. CASE Staged(UploadOf[k])
    <3>1. StorageKey(k) \notin Keys
      BY <2>1, <2>2, FileIsFree DEF FinalizeSpaces
    <3>2. file' = [file EXCEPT ![StorageKey(k)] = "whole"]
      BY <2>1, <2>2 DEF FinalizeSpaces, CompleteMultipartUpload
    <3>3. QED
      BY <1>1, <2>1, <3>1, <3>2 DEF FinalizeSpaces
  <2>3. CASE ~Staged(UploadOf[k])
    BY <2>1, <2>3 DEF FinalizeSpaces, vars
  <2>4. QED
    BY <2>2, <2>3
<1>6. CASE \E k \in Completes : CompleteEnqueues(k)
  <2>1. PICK k \in Completes : CompleteEnqueues(k)
    BY <1>6
  <2> DEFINE f == StorageKey(k)
  <2>2. HasFile(k) /\ f \notin Keys
    BY <2>1, FileIsFree DEF CompleteEnqueues, HasFile
  <2>3. f \in Files /\ UploadOf[f] = UploadOf[k] /\ UploadOf[k] # None
    BY StorageKeyOf DEF Completes
  <2>4. Stored(f)
    BY <2>2, StorageKeyOf, UploadAssumption DEF UInv, UploadParts, UploadTypeOK, DiskFilesApart,
       MultipartEndsOnce, Stored
  <2>5. CASE EnqueueUploadCompletionJob(UploadOf[k], f)
    <3>1. UNCHANGED disowned \/ ("enqueue" \in MayFail /\ disowned' = disowned \cup {UploadOf[f]})
      BY <2>1, <2>3 DEF CompleteEnqueues
    <3>2. Submit(f)
      BY <2>1, <2>3, <2>4, <2>5, <3>1 DEF Submit, CompleteEnqueues, restOfIngest
    <3>3. QED
      BY <2>3, <3>2 DEF IngestNext
  <2>6. CASE UNCHANGED <<job, lastId, disowned>>
    BY <2>1, <2>6 DEF CompleteEnqueues, restOfIngest, vars
  <2>7. QED
    BY <2>1, <2>5, <2>6 DEF CompleteEnqueues
<1>14. CASE \E k \in Completes : DiscardFinalized(k)
  <2>1. PICK k \in Completes : DiscardFinalized(k)
    BY <1>14
  <2> DEFINE f == StorageKey(k)
  <2>2. f \in Files /\ UploadOf[f] = UploadOf[k]
    BY StorageKeyOf DEF Completes
  <2>3. UNCHANGED <<row, jobVars, direct, deleting, thumbVars, restarts>>
    BY <2>1 DEF DiscardFinalized, restOfIngest
  <2>4. f \in Keys => UploadOf[f] \in disowned
    BY <2>1, <2>2 DEF DiscardFinalized, UInv, DiscardsApart
  <2>5. CASE file' = [file EXCEPT ![f] = "none"] /\ f \in Keys
    BY <2>2, <2>3, <2>4, <2>5 DEF Disown, IngestNext
  <2>6. CASE file' = [file EXCEPT ![f] = "none"] /\ f \notin Keys
    BY <1>1, <2>3, <2>6
  <2>7. CASE UNCHANGED file
    BY <2>3, <2>7 DEF vars
  <2>8. QED
    BY <2>1, <2>5, <2>6, <2>7 DEF DiscardFinalized, DeleteFile
<1>7. CASE \E k \in Completes : SessionEnds(k)
  BY <1>7 DEF SessionEnds
<1>8. CASE \E u \in Uploads : InitUpload(u) \/ AbortRemoves(u) \/ AbortEnds(u)
  BY <1>8 DEF InitUpload, AbortRemoves, AbortEnds
<1>9. CASE \E r \in Requests :
             \/ \E u \in Uploads, c \in Chunks : ChunkArrives(r, u, c)
             \/ ChunkStreamed(r) \/ PartUploaded(r) \/ ChunkFails(r)
  BY <1>9 DEF ChunkArrives, ChunkStreamed, PartUploaded, ChunkFails
<1>10. CASE IngestStep
  BY <1>10 DEF IngestNext
<1>11. CASE UploadRestart
  BY <1>11 DEF UploadRestart, RestartStep, IngestNext
<1>12. CASE UNCHANGED allVars
  BY <1>12 DEF allVars
<1>13. QED
  BY <1>2, <1>3, <1>4, <1>5, <1>6, <1>7, <1>8, <1>9, <1>10, <1>11, <1>12, <1>14 DEF UploadNext,
     UploadStep, CompleteStep

\* The back end, and with it the name a file is stored under, stays.
LEMMA StorageKeyStays ==
  ASSUME UNCHANGED backend
  PROVE  \A k \in Completes : StorageKey(k)' = StorageKey(k)
  BY DEF StorageKey

\* Beginning an upload.
LEMMA InitUploadKeeps ==
  ASSUME UInv, NEW u \in Uploads, InitUpload(u)
  PROVE  UploadParts'
<1>1. [c \in Chunks |-> "none"] # NoStaging
  BY StagedChunks
<1>2. /\ staging' \in [Uploads -> {NoStaging} \cup [Chunks -> {"none", "whole"} \cup Requests]]
      /\ staging'[u] = [c \in Chunks |-> "none"] /\ Staged(u)'
      /\ \A w \in Uploads \ {u} : staging'[w] = staging[w]
  BY <1>1 DEF InitUpload, UInv, UploadParts, UploadTypeOK, Staged
<1>3. session[u] = "none" /\ received[u] = {} /\ job[u] = NoJob
  BY DEF InitUpload, UInv, UploadParts, NotBegunEmpty
<1>4. UploadTypeOK'
  BY <1>2, <1>3 DEF UInv, UploadParts, InitUpload, UploadTypeOK
<1>5. NotBegunEmpty'
  BY <1>2, <1>3 DEF UInv, UploadParts, InitUpload, NotBegunEmpty, vars, jobVars, failVars, jobMarks,
     UploadTypeOK, Staged
<1>6. MultipartEndsOnce'
  BY <1>2, <1>3, StorageKeyStays DEF UInv, UploadParts, InitUpload, MultipartEndsOnce, HasFile, vars,
     jobVars, failVars, jobMarks, Staged, NotBegunEmpty
<1>7. ChunksKept'
  BY <1>2, <1>3 DEF UInv, UploadParts, InitUpload, ChunksKept, HasFile, vars, Staged, NotBegunEmpty
<1>8. StagedTillFinalized'
  BY <1>2, <1>3 DEF UInv, UploadParts, InitUpload, StagedTillFinalized, Staged
<1>9. AcceptedWhole' /\ DiskFilesApart' /\ CompletedWasReceived'
  BY DEF UInv, UploadParts, InitUpload, AcceptedWhole, DiskFilesApart, HasFile, Keys, Stored,
     CompletedWasReceived, vars, jobVars, failVars, jobMarks
<1>10. QED
  BY <1>4, <1>5, <1>6, <1>7, <1>8, <1>9 DEF UploadParts

\* A chunk that is sent on top of none of its upload has its own place.
LEMMA ChunkArrivesKeeps ==
  ASSUME UInv, NEW r \in Requests, NEW u \in Uploads, NEW c \in Chunks, ChunkArrives(r, u, c)
  PROVE  UploadParts'
<1>1. session[u] = "open" /\ request[r] = NoRequest /\ resent \subseteq resent'
  BY DEF ChunkArrives
<1>2. /\ staging' \in [Uploads -> {NoStaging} \cup [Chunks -> {"none", "whole"} \cup Requests]]
      /\ \A w \in Uploads : Staged(w)' <=> Staged(w)
      /\ \A w \in Uploads \ {u} : staging'[w] = staging[w]
      /\ \A d \in Chunks \ {c} : staging'[u][d] = staging[u][d]
      /\ backend = "spaces" => staging' = staging
  <2>1. CASE UNCHANGED staging
    BY <2>1 DEF UInv, UploadParts, UploadTypeOK, Staged
  <2>2. CASE backend = "local" /\ Staged(u) /\ staging' = [staging EXCEPT ![u][c] = r]
    BY <2>2, ChunkSet DEF UInv, UploadParts
  <2>3. QED
    BY <2>1, <2>2 DEF ChunkArrives
<1>3. \A q \in Requests \ {r} : request'[q] = request[q]
  BY DEF ChunkArrives, UInv, UploadParts, UploadTypeOK
<1>4. request'[r] \in {NoRequest, [upload |-> u, chunk |-> c]}
  BY DEF ChunkArrives, UInv, UploadParts, UploadTypeOK
<1>5. UploadTypeOK'
  BY <1>1, <1>2, <1>3, <1>4 DEF UInv, UploadParts, ChunkArrives, UploadTypeOK
<1>6. AcceptedWhole'
  BY <1>1, <1>2, <1>3, <1>4 DEF UInv, UploadParts, ChunkArrives, AcceptedWhole, vars, jobVars,
     failVars, jobMarks
<1>7. NotBegunEmpty'
  BY <1>1, <1>2, <1>3, <1>4 DEF UInv, UploadParts, ChunkArrives, NotBegunEmpty, vars, jobVars,
     failVars, jobMarks
<1>8. MultipartEndsOnce'
  BY <1>1, <1>2, <1>3, <1>4, StorageKeyStays DEF UInv, UploadParts, ChunkArrives, MultipartEndsOnce,
     HasFile, vars, jobVars, failVars, jobMarks, Staged
<1>9. ChunksKept'
  BY <1>1, <1>2, <1>3, <1>4 DEF UInv, UploadParts, ChunkArrives, ChunksKept, HasFile, vars,
     UploadTypeOK, Staged, NoRequest
<1>10. StagedTillFinalized'
  BY <1>1, <1>2, <1>3, <1>4 DEF UInv, UploadParts, ChunkArrives, StagedTillFinalized
<1>11. DiskFilesApart' /\ CompletedWasReceived'
  BY DEF UInv, UploadParts, ChunkArrives, DiskFilesApart, HasFile, Keys, Stored,
     CompletedWasReceived, vars, jobVars, failVars, jobMarks
<1>12. QED
  BY <1>5, <1>6, <1>7, <1>8, <1>9, <1>10, <1>11 DEF UploadParts

\* A chunk is recorded when it is whole in its place, unless another was sent there.
LEMMA ChunkStreamedKeeps ==
  ASSUME UInv, NEW r \in Requests, ChunkStreamed(r)
  PROVE  UploadParts'
<1> DEFINE u == request[r].upload
           c == request[r].chunk
<1>1. u \in Uploads /\ c \in Chunks /\ backend = "local" /\ request[r] = [upload |-> u, chunk |-> c]
  BY DEF ChunkStreamed, UInv, UploadParts, UploadTypeOK
<1>2. /\ staging' \in [Uploads -> {NoStaging} \cup [Chunks -> {"none", "whole"} \cup Requests]]
      /\ \A w \in Uploads : Staged(w)' <=> Staged(w)
      /\ \A w \in Uploads \ {u} : staging'[w] = staging[w]
      /\ \A d \in Chunks \ {c} : staging'[u][d] = staging[u][d]
      /\ Staged(u) /\ staging[u][c] = r => staging'[u][c] = "whole"
  <2>1. CASE UNCHANGED staging /\ ~(Staged(u) /\ staging[u][c] # "none")
    BY <1>1, <2>1, UploadAssumption DEF UInv, UploadParts, UploadTypeOK, Staged
  <2>2. CASE /\ Staged(u) /\ staging[u][c] # "none"
             /\ staging' = [staging EXCEPT ![u][c] = IF @ = r THEN "whole" ELSE @]
    <3> DEFINE v == IF staging[u][c] = r THEN "whole" ELSE staging[u][c]
    <3>1. v \in {"none", "whole"} \cup Requests
      BY <1>1, <2>2, StagingTypes DEF UInv, UploadParts
    <3>2. UploadTypeOK /\ Staged(u) /\ u \in Uploads /\ c \in Chunks
      BY <1>1, <2>2 DEF UInv, UploadParts
    <3>3. staging' = [staging EXCEPT ![u][c] = v]
      BY <2>2
    <3> HIDE DEF v
    <3>4. PICK a, b, x : a = u /\ b = c /\ x = v
      OBVIOUS
    <3>5. /\ UploadTypeOK /\ a \in Uploads /\ Staged(a) /\ b \in Chunks
          /\ x \in {"none", "whole"} \cup Requests /\ staging' = [staging EXCEPT ![a][b] = x]
      BY <3>1, <3>2, <3>3, <3>4
    <3>6. /\ staging' \in [Uploads -> {NoStaging} \cup [Chunks -> {"none", "whole"} \cup Requests]]
          /\ \A w \in Uploads : Staged(w)' <=> Staged(w)
          /\ \A w \in Uploads \ {a} : staging'[w] = staging[w]
          /\ staging'[a][b] = x
          /\ \A d \in Chunks \ {b} : staging'[a][d] = staging[a][d]
      BY <3>5, ChunkSet
    <3>7. QED
      BY <3>4, <3>6 DEF v
  <2>3. QED
    BY <2>1, <2>2 DEF ChunkStreamed
<1>3. /\ request'[r] = NoRequest
      /\ \A q \in Requests \ {r} : request'[q] = request[q]
  BY DEF ChunkStreamed, EndRequest, UInv, UploadParts, UploadTypeOK
<1>4. /\ received'[u] \in {received[u], received[u] \cup {c}}
      /\ \A w \in Uploads \ {u} : received'[w] = received[w]
      /\ received' \in [Uploads -> SUBSET Chunks]
  BY <1>1 DEF ChunkStreamed, UInv, UploadParts, UploadTypeOK
<1>5. session[u] # "none"
  BY <1>1 DEF UInv, UploadParts, NotBegunEmpty
<1>6. UploadTypeOK'
  BY <1>1, <1>2, <1>3, <1>4, <1>5 DEF UInv, UploadParts, ChunkStreamed, UploadTypeOK, EndRequest
<1>7. NotBegunEmpty'
  BY <1>1, <1>2, <1>3, <1>4, <1>5, IngestAssumption DEF UInv, UploadParts, ChunkStreamed,
     NotBegunEmpty, vars, jobVars, failVars, jobMarks, NoRequest
<1>8. MultipartEndsOnce'
  BY <1>1, <1>2, <1>3, <1>4, <1>5 DEF ChunkStreamed, MultipartEndsOnce
<1>9. CompletedWasReceived'
  <2>1. \A w \in Uploads : received[w] = Chunks => received'[w] = Chunks
    BY <1>1, <1>4
  <2>2. QED
    BY <2>1, IngestAssumption DEF ChunkStreamed, UInv, UploadParts, CompletedWasReceived, Completes
<1>10. ChunksKept'
  <2> SUFFICES ASSUME NEW w \in Uploads \ resent
               PROVE  /\ \A q \in Requests : request'[q].upload = w =>
                             /\ request'[q].chunk \notin received'[w]
                             /\ Staged(w)' => staging'[w][request'[q].chunk] = q
                             /\ \A p \in Requests : request'[p] = request'[q] => p = q
                      /\ Staged(w)' => \A d \in received'[w] : staging'[w][d] = "whole"
    BY <1>1 DEF ChunkStreamed, UInv, UploadParts, ChunksKept, HasFile, vars
  <2>1. /\ \A q \in Requests : request[q].upload = w =>
               /\ request[q].chunk \notin received[w]
               /\ Staged(w) => staging[w][request[q].chunk] = q
               /\ \A p \in Requests : request[p] = request[q] => p = q
        /\ Staged(w) => \A d \in received[w] : staging[w][d] = "whole"
    BY <1>1 DEF UInv, UploadParts, ChunksKept
  <2>2. ASSUME NEW q \in Requests, request'[q].upload = w
        PROVE  q # r /\ request'[q] = request[q] /\ request[q].chunk \in Chunks
    BY <1>3, <2>2, IngestAssumption DEF NoRequest, UInv, UploadParts, UploadTypeOK
  <2>3. CASE w # u
    BY <1>2, <1>3, <1>4, <2>1, <2>2, <2>3
  <2>4. CASE w = u
    <3>1. Staged(u) => staging'[u][c] = "whole"
      BY <1>1, <1>2, <2>1, <2>4
    <3>2. ASSUME NEW q \in Requests, request'[q].upload = w
          PROVE  request[q].chunk # c
      <4>1. q # r /\ request[q] \in [upload : Uploads, chunk : Chunks] /\ request[q].upload = u
        BY <2>2, <2>4, <3>2, IngestAssumption DEF NoRequest, UInv, UploadParts, UploadTypeOK
      <4>2. request[q] # request[r]
        BY <2>1, <2>4, <4>1
      <4>3. QED
        BY <1>1, <4>1, <4>2
    <3>3. received[u] \subseteq Chunks
      BY <1>1 DEF UInv, UploadParts, UploadTypeOK
    <3>4. \A q \in Requests : request'[q].upload = w =>
               /\ request'[q].chunk \notin received'[w]
               /\ Staged(w)' => staging'[w][request'[q].chunk] = q
      BY <1>2, <1>4, <2>1, <2>2, <2>4, <3>2
    <3>5. \A q \in Requests : request'[q].upload = w =>
               \A p \in Requests : request'[p] = request'[q] => p = q
      BY <2>1, <2>2
    <3>6. Staged(w)' => \A d \in received'[w] : staging'[w][d] = "whole"
      BY <1>2, <1>4, <2>1, <2>4, <3>1, <3>3
    <3>7. QED
      BY <3>4, <3>5, <3>6
  <2>5. QED
    BY <2>3, <2>4
<1>11. StagedTillFinalized'
  BY <1>1, <1>2, <1>3, <1>4, <1>5 DEF UInv, UploadParts, ChunkStreamed, StagedTillFinalized
<1>12. AcceptedWhole' /\ DiskFilesApart'
  BY DEF UInv, UploadParts, ChunkStreamed, AcceptedWhole, DiskFilesApart, HasFile, Keys, Stored,
     vars, jobVars, failVars, jobMarks
<1>13. QED
  BY <1>6, <1>7, <1>8, <1>9, <1>10, <1>11, <1>12 DEF UploadParts

\* A part is whole or not there.
LEMMA PartUploadedKeeps ==
  ASSUME UInv, NEW r \in Requests, PartUploaded(r)
  PROVE  UploadParts'
<1> DEFINE u == request[r].upload
           c == request[r].chunk
<1>1. u \in Uploads /\ c \in Chunks /\ backend = "spaces" /\ request[r] = [upload |-> u, chunk |-> c]
  BY DEF PartUploaded, UInv, UploadParts, UploadTypeOK
<1>2. /\ staging' \in [Uploads -> {NoStaging} \cup [Chunks -> {"none", "whole"} \cup Requests]]
      /\ \A w \in Uploads : Staged(w)' <=> Staged(w)
      /\ \A w \in Uploads \ {u} : staging'[w] = staging[w]
      /\ Staged(u) => \A d \in Chunks : staging'[u][d] = IF d = c THEN "whole" ELSE staging[u][d]
  <2>1. CASE UNCHANGED staging /\ ~Staged(u)
    BY <1>1, <2>1 DEF UInv, UploadParts, UploadTypeOK, Staged
  <2>2. CASE Staged(u) /\ UploadPart(u, c)
    <3>1. UploadTypeOK /\ "whole" \in {"none", "whole"} \cup Requests /\ u \in Uploads /\ c \in Chunks
      BY <1>1 DEF UInv, UploadParts
    <3>2. staging' = [staging EXCEPT ![u][c] = "whole"]
      BY <2>2 DEF UploadPart
    <3>3. PICK a, b, x : a = u /\ b = c /\ x = "whole"
      OBVIOUS
    <3>4. /\ UploadTypeOK /\ a \in Uploads /\ Staged(a) /\ b \in Chunks
          /\ x \in {"none", "whole"} \cup Requests /\ staging' = [staging EXCEPT ![a][b] = x]
      BY <2>2, <3>1, <3>2, <3>3
    <3>5. /\ staging' \in [Uploads -> {NoStaging} \cup [Chunks -> {"none", "whole"} \cup Requests]]
          /\ \A w \in Uploads : Staged(w)' <=> Staged(w)
          /\ \A w \in Uploads \ {a} : staging'[w] = staging[w]
          /\ staging'[a][b] = x
          /\ \A d \in Chunks \ {b} : staging'[a][d] = staging[a][d]
      BY <3>4, ChunkSet
    <3>6. QED
      BY <3>3, <3>5
  <2>3. QED
    BY <2>1, <2>2 DEF PartUploaded
<1>3. /\ request'[r] = NoRequest
      /\ \A q \in Requests \ {r} : request'[q] = request[q]
  BY DEF PartUploaded, EndRequest, UInv, UploadParts, UploadTypeOK
<1>4. /\ received'[u] \in {received[u], received[u] \cup {c}}
      /\ \A w \in Uploads \ {u} : received'[w] = received[w]
      /\ received' \in [Uploads -> SUBSET Chunks]
  BY <1>1 DEF PartUploaded, UInv, UploadParts, UploadTypeOK
<1>5. session[u] # "none"
  BY <1>1 DEF UInv, UploadParts, NotBegunEmpty
<1>6. UploadTypeOK'
  <2>1. request' \in [Requests -> {NoRequest} \cup [upload : Uploads, chunk : Chunks]]
    BY DEF PartUploaded, EndRequest, UInv, UploadParts, UploadTypeOK
  <2>2. QED
    BY <1>2, <1>4, <2>1 DEF PartUploaded, UInv, UploadParts, UploadTypeOK
<1>7. NotBegunEmpty'
  BY <1>1, <1>2, <1>3, <1>4, <1>5, IngestAssumption DEF UInv, UploadParts, PartUploaded,
     NotBegunEmpty, vars, jobVars, failVars, jobMarks, NoRequest
<1>8. MultipartEndsOnce'
  BY <1>1, <1>2, <1>3, <1>4, <1>5, StorageKeyStays, IngestAssumption DEF UInv, UploadParts,
     PartUploaded, MultipartEndsOnce, HasFile, vars, jobVars, failVars, jobMarks, Completes
<1>9. CompletedWasReceived'
  <2>1. \A w \in Uploads : received[w] = Chunks => received'[w] = Chunks
    BY <1>1, <1>4
  <2>2. QED
    BY <2>1, IngestAssumption DEF PartUploaded, UInv, UploadParts, CompletedWasReceived, Completes
<1>10. ChunksKept'
  BY <1>1, <1>2, <1>3, <1>4, <1>5 DEF PartUploaded, ChunksKept
<1>11. StagedTillFinalized'
  BY <1>1, <1>2, <1>3, <1>4, <1>5 DEF UInv, UploadParts, PartUploaded, StagedTillFinalized
<1>12. AcceptedWhole' /\ DiskFilesApart'
  BY DEF UInv, UploadParts, PartUploaded, AcceptedWhole, DiskFilesApart, vars, jobVars, failVars,
     jobMarks
<1>13. QED
  BY <1>6, <1>7, <1>8, <1>9, <1>10, <1>11, <1>12 DEF UploadParts

\* A chunk that fails was not recorded.
LEMMA ChunkFailsKeeps ==
  ASSUME UInv, NEW r \in Requests, ChunkFails(r)
  PROVE  UploadParts'
<1> DEFINE u == request[r].upload
           c == request[r].chunk
<1>1. u \in Uploads /\ c \in Chunks /\ request[r] = [upload |-> u, chunk |-> c]
  BY DEF ChunkFails, UInv, UploadParts, UploadTypeOK
<1>2. /\ staging' \in [Uploads -> {NoStaging} \cup [Chunks -> {"none", "whole"} \cup Requests]]
      /\ \A w \in Uploads : Staged(w)' <=> Staged(w)
      /\ \A w \in Uploads \ {u} : staging'[w] = staging[w]
      /\ \A d \in Chunks \ {c} : staging'[u][d] = staging[u][d]
      /\ backend = "spaces" => staging' = staging
  <2>1. CASE UNCHANGED staging
    BY <1>1, <2>1 DEF UInv, UploadParts, UploadTypeOK, Staged
  <2>2. CASE backend = "local" /\ Staged(u) /\ staging' = [staging EXCEPT ![u][c] = "none"]
    <3>1. UploadTypeOK /\ "none" \in {"none", "whole"} \cup Requests /\ u \in Uploads /\ c \in Chunks
      BY <1>1 DEF UInv, UploadParts
    <3>2. PICK a, b, x : a = u /\ b = c /\ x = "none"
      OBVIOUS
    <3>3. /\ UploadTypeOK /\ a \in Uploads /\ Staged(a) /\ b \in Chunks
          /\ x \in {"none", "whole"} \cup Requests /\ staging' = [staging EXCEPT ![a][b] = x]
      BY <2>2, <3>1, <3>2
    <3>4. /\ staging' \in [Uploads -> {NoStaging} \cup [Chunks -> {"none", "whole"} \cup Requests]]
          /\ \A w \in Uploads : Staged(w)' <=> Staged(w)
          /\ \A w \in Uploads \ {a} : staging'[w] = staging[w]
          /\ staging'[a][b] = x
          /\ \A d \in Chunks \ {b} : staging'[a][d] = staging[a][d]
      BY <3>3, ChunkSet
    <3>5. QED
      BY <2>2, <3>2, <3>4
  <2>3. QED
    BY <2>1, <2>2 DEF ChunkFails
<1>3. /\ request'[r] = NoRequest
      /\ \A q \in Requests \ {r} : request'[q] = request[q]
  BY DEF ChunkFails, EndRequest, UInv, UploadParts, UploadTypeOK
<1>4. UploadTypeOK'
  <2>1. request' \in [Requests -> {NoRequest} \cup [upload : Uploads, chunk : Chunks]]
    BY DEF ChunkFails, EndRequest, UInv, UploadParts, UploadTypeOK
  <2>2. QED
    BY <1>2, <2>1 DEF ChunkFails, UInv, UploadParts, UploadTypeOK
<1>5. NotBegunEmpty'
  BY <1>1, <1>2, <1>3, IngestAssumption DEF UInv, UploadParts, ChunkFails, NotBegunEmpty, vars,
     jobVars, failVars, jobMarks, NoRequest
<1>6. MultipartEndsOnce'
  BY <1>1, <1>2, <1>3, StorageKeyStays DEF UInv, UploadParts, ChunkFails, MultipartEndsOnce, HasFile,
     vars, jobVars, failVars, jobMarks, Staged
<1>7. ChunksKept'
  BY <1>1, <1>2, <1>3, IngestAssumption DEF UInv, UploadParts, ChunkFails, ChunksKept, HasFile, vars,
     NoRequest
<1>8. StagedTillFinalized'
  BY <1>1, <1>2, <1>3 DEF UInv, UploadParts, ChunkFails, StagedTillFinalized
<1>9. AcceptedWhole' /\ DiskFilesApart' /\ CompletedWasReceived'
  BY DEF UInv, UploadParts, ChunkFails, AcceptedWhole, DiskFilesApart, HasFile, Keys, Stored,
     CompletedWasReceived, vars, jobVars, failVars, jobMarks
<1>10. QED
  BY <1>4, <1>5, <1>6, <1>7, <1>8, <1>9 DEF UploadParts

\* /complete, of an upload all of whose chunks were received.
LEMMA CompleteStartsKeeps ==
  ASSUME UInv, NEW k \in Completes, CompleteStarts(k)
  PROVE  UploadParts'
<1>1. UploadOf[k] \in Uploads /\ session[UploadOf[k]] = "open" /\ received[UploadOf[k]] = Chunks
  BY IngestAssumption DEF CompleteStarts, Completes
<1>2. complete[k] = "idle" /\ complete'[k] = "reading"
      /\ \A l \in Completes \ {k} : complete'[l] = complete[l]
  BY DEF CompleteStarts, To, UInv, UploadParts, UploadTypeOK
<1>3. /\ \A f \in Files \ {k} : file'[f] = file[f]
      /\ backend = "spaces" => UNCHANGED file
  BY DEF CompleteStarts, UInv, IInv, TypeOK
<1>4. backend = "local" => k \notin Keys
  BY <1>2 DEF UInv, UploadParts, DiskFilesApart
<1>5. UploadTypeOK'
  BY <1>1, <1>2, <1>3, <1>4 DEF UInv, UploadParts, CompleteStarts, UploadTypeOK, To
<1>6. AcceptedWhole'
  <2>1. ASSUME NEW u \in Uploads, job[u] # NoJob
        PROVE  job[u].key \in Files /\ file'[job[u].key] = file[job[u].key]
    BY <1>3, <1>4, <2>1, UploadAssumption DEF UInv, UploadParts, UploadTypeOK, IInv, JobsKnowFiles, Keys
  <2>2. QED
    BY <2>1 DEF CompleteStarts, UInv, UploadParts, AcceptedWhole, jobVars, failVars, jobMarks
<1>7. NotBegunEmpty'
  BY <1>1, <1>2, <1>3, <1>4 DEF UInv, UploadParts, CompleteStarts, NotBegunEmpty, jobVars, failVars,
     jobMarks, Staged
<1>8. MultipartEndsOnce'
  BY <1>1, <1>2, <1>3, <1>4, StorageKeyStays DEF UInv, UploadParts, CompleteStarts,
     MultipartEndsOnce, HasFile, jobVars, failVars, jobMarks, Staged
<1>9. DiskFilesApart'
  BY <1>1, <1>2, <1>3, <1>4 DEF UInv, UploadParts, CompleteStarts, DiskFilesApart, HasFile, Keys,
     Stored, jobVars, failVars, jobMarks
<1>10. CompletedWasReceived'
  BY <1>1, <1>2, <1>3, <1>4 DEF UInv, UploadParts, CompleteStarts, CompletedWasReceived
<1>11. ChunksKept'
  BY <1>1, <1>2, <1>3, <1>4 DEF UInv, UploadParts, CompleteStarts, ChunksKept, HasFile, Staged
<1>12. StagedTillFinalized'
  BY <1>1, <1>2, <1>3, <1>4 DEF UInv, UploadParts, CompleteStarts, StagedTillFinalized, Staged
<1>13. QED
  BY <1>5, <1>6, <1>7, <1>8, <1>9, <1>10, <1>11, <1>12 DEF UploadParts

\* Finalisation on disk reads the chunks one by one.
LEMMA ReadChunkKeeps ==
  ASSUME UInv, NEW k \in Completes, NEW c \in Chunks, ReadChunk(k, c)
  PROVE  UploadParts'
<1>1. UploadOf[k] \in Uploads /\ backend = "local" /\ complete[k] = "reading" /\ k \in Files
  BY IngestAssumption DEF ReadChunk, Completes
<1>2. complete'[k] \in {"reading", "ended"} /\ \A l \in Completes \ {k} : complete'[l] = complete[l]
  BY <1>1 DEF ReadChunk, To, UInv, UploadParts, UploadTypeOK
<1>3. \A f \in Files \ {k} : file'[f] = file[f]
  BY DEF ReadChunk, UInv, IInv, TypeOK
<1>4. k \notin Keys /\ session[UploadOf[k]] # "none" /\ received[UploadOf[k]] = Chunks
  BY <1>1 DEF UInv, UploadParts, DiskFilesApart, NotBegunEmpty, CompletedWasReceived
<1>5. concat' \in [Completes -> [chunks : SUBSET Chunks, good : BOOLEAN]]
  <2>1. concat \in [Completes -> [chunks : SUBSET Chunks, good : BOOLEAN]]
    BY DEF UInv, UploadParts, UploadTypeOK
  <2>2. CASE concat' = [concat EXCEPT ![k] =
                 [chunks |-> @.chunks \cup {c}, good |-> @.good /\ staging[UploadOf[k]][c] = "whole"]]
    <3>1. concat[k].chunks \cup {c} \in SUBSET Chunks
      BY <2>1
    <3>2. (concat[k].good /\ staging[UploadOf[k]][c] = "whole") \in BOOLEAN
      OBVIOUS
    <3>3. [chunks |-> concat[k].chunks \cup {c},
           good |-> concat[k].good /\ staging[UploadOf[k]][c] = "whole"]
              \in [chunks : SUBSET Chunks, good : BOOLEAN]
      BY <3>1, <3>2
    <3>4. QED
      BY <2>1, <2>2, <3>3
  <2>3. CASE UNCHANGED concat
    BY <2>1, <2>3
  <2>4. QED
    BY <2>2, <2>3 DEF ReadChunk
<1>6. /\ \A l \in Completes \ {k} : concat'[l] = concat[l]
      /\ \/ concat'[k].good = concat[k].good
         \/ /\ Staged(UploadOf[k])
            /\ concat'[k].good = (concat[k].good /\ staging[UploadOf[k]][c] = "whole")
  BY DEF ReadChunk, UInv, UploadParts, UploadTypeOK
<1>7. UploadTypeOK'
  BY <1>1, <1>2, <1>3, <1>4, <1>5, <1>6 DEF UInv, UploadParts, ReadChunk, UploadTypeOK, To
<1>8. AcceptedWhole'
  BY <1>1, <1>2, <1>3, <1>4, <1>5, <1>6 DEF UInv, UploadParts, ReadChunk, AcceptedWhole, jobVars,
     failVars, jobMarks, JobsKnowFiles, IInv, TypeOK
<1>9. NotBegunEmpty'
  BY <1>1, <1>2, <1>3, <1>4, <1>5, <1>6 DEF UInv, UploadParts, ReadChunk, NotBegunEmpty, jobVars,
     failVars, jobMarks, Staged
<1>10. MultipartEndsOnce'
  BY <1>1, <1>2, <1>3, <1>4, <1>5, <1>6 DEF ReadChunk, MultipartEndsOnce
<1>11. DiskFilesApart'
  BY <1>1, <1>2, <1>3, <1>4, <1>5, <1>6 DEF UInv, UploadParts, ReadChunk, DiskFilesApart, HasFile,
     Keys, Stored, jobVars, failVars, jobMarks, Completes
<1>12. CompletedWasReceived'
  BY <1>1, <1>2, <1>3, <1>4, <1>5, <1>6 DEF UInv, UploadParts, ReadChunk, CompletedWasReceived
<1>13. ChunksKept'
  BY <1>1, <1>2, <1>3, <1>4, <1>5, <1>6 DEF UInv, UploadParts, ReadChunk, ChunksKept, HasFile,
     Staged, Completes
<1>14. StagedTillFinalized'
  BY <1>1, <1>2, <1>3, <1>4, <1>5, <1>6 DEF UInv, UploadParts, ReadChunk, StagedTillFinalized, Staged
<1>15. QED
  BY <1>7, <1>8, <1>9, <1>10, <1>11, <1>12, <1>13, <1>14 DEF UploadParts

\* The file is whole if the chunks were, and the staging area goes.
LEMMA FinalizeLocalKeeps ==
  ASSUME UInv, NEW k \in Completes, FinalizeLocal(k)
  PROVE  UploadParts'
<1>1. UploadOf[k] \in Uploads /\ backend = "local" /\ complete[k] = "reading" /\ k \in Files
  BY IngestAssumption DEF FinalizeLocal, Completes
<1>2. complete'[k] = "finalized" /\ \A l \in Completes \ {k} : complete'[l] = complete[l]
  BY <1>1 DEF FinalizeLocal, To, UInv, UploadParts, UploadTypeOK
<1>3. /\ file'[k] = IF concat[k].good THEN "whole" ELSE "bad"
      /\ \A f \in Files \ {k} : file'[f] = file[f]
  BY <1>1 DEF FinalizeLocal, UInv, IInv, TypeOK
<1>4. k \notin Keys /\ session[UploadOf[k]] # "none" /\ received[UploadOf[k]] = Chunks
  BY <1>1 DEF UInv, UploadParts, DiskFilesApart, NotBegunEmpty, CompletedWasReceived
<1>5. /\ staging' \in [Uploads -> {NoStaging} \cup [Chunks -> {"none", "whole"} \cup Requests]]
      /\ staging' = staging \/ ~Staged(UploadOf[k])'
      /\ \A w \in Uploads \ {UploadOf[k]} : staging'[w] = staging[w]
  BY <1>1, StagingGone DEF FinalizeLocal, UInv, UploadParts, UploadTypeOK
<1>6. UploadTypeOK'
  BY <1>1, <1>2, <1>3, <1>4, <1>5 DEF UInv, UploadParts, FinalizeLocal, UploadTypeOK, To
<1>7. AcceptedWhole'
  BY <1>1, <1>2, <1>3, <1>4, <1>5 DEF UInv, UploadParts, FinalizeLocal, AcceptedWhole, jobVars,
     failVars, jobMarks, JobsKnowFiles, IInv, ChunksKept
<1>8. NotBegunEmpty'
  BY <1>1, <1>2, <1>3, <1>4, <1>5 DEF UInv, UploadParts, FinalizeLocal, NotBegunEmpty, jobVars,
     failVars, jobMarks, Staged
<1>9. MultipartEndsOnce'
  BY <1>1, <1>2, <1>3, <1>4, <1>5 DEF FinalizeLocal, MultipartEndsOnce
<1>10. DiskFilesApart'
  BY <1>1, <1>2, <1>3, <1>4, <1>5 DEF UInv, UploadParts, FinalizeLocal, DiskFilesApart, HasFile,
     Keys, Stored, jobVars, failVars, jobMarks
<1>11. CompletedWasReceived'
  BY <1>1, <1>2, <1>3, <1>4, <1>5 DEF UInv, UploadParts, FinalizeLocal, CompletedWasReceived
<1>12. ChunksKept'
  BY <1>1, <1>2, <1>3, <1>4, <1>5 DEF UInv, UploadParts, FinalizeLocal, ChunksKept, HasFile, Staged
<1>13. StagedTillFinalized'
  BY <1>1, <1>2, <1>3, <1>4, <1>5 DEF UInv, UploadParts, FinalizeLocal, StagedTillFinalized, Staged
<1>14. QED
  BY <1>6, <1>7, <1>8, <1>9, <1>10, <1>11, <1>12, <1>13 DEF UploadParts

\* The object store ends a multipart upload once.
LEMMA FinalizeSpacesKeeps ==
  ASSUME UInv, NEW k \in Completes, FinalizeSpaces(k)
  PROVE  UploadParts'
<1> DEFINE u == UploadOf[k]
           f == StorageKey(k)
<1>1. u \in Uploads /\ backend = "spaces" /\ complete[k] = "reading" /\ f \in Files /\ UploadOf[f] = u
  BY StorageKeyOf, IngestAssumption DEF FinalizeSpaces, Completes
<1>2. \A l \in Completes \ {k} : complete'[l] = complete[l]
  BY DEF FinalizeSpaces, CompleteMultipartUpload, To, UInv, UploadParts, UploadTypeOK
<1>3. \/ Staged(u) /\ complete'[k] \in {"finalized", "unpublished"}
      \/ UNCHANGED <<file, staging>> /\ complete'[k] = "ended"
  BY <1>1 DEF FinalizeSpaces, CompleteMultipartUpload, To, UInv, UploadParts, UploadTypeOK
<1>4. Staged(u) => file'[f] = "whole" /\ ~Staged(u)'
  BY <1>1, StagingGone DEF FinalizeSpaces, CompleteMultipartUpload, UInv, UploadParts, IInv, TypeOK
<1>5. /\ staging' \in [Uploads -> {NoStaging} \cup [Chunks -> {"none", "whole"} \cup Requests]]
      /\ \A w \in Uploads \ {u} : staging'[w] = staging[w]
      /\ \A g \in Files \ {f} : file'[g] = file[g]
  BY <1>1, StagingGone DEF FinalizeSpaces, CompleteMultipartUpload, UInv, UploadParts, UploadTypeOK,
     IInv, TypeOK
<1>6. session[u] # "none" /\ (Staged(u) => job[u] = NoJob)
  BY <1>1 DEF UInv, UploadParts, NotBegunEmpty, MultipartEndsOnce
<1>7. UploadTypeOK'
  <2>1. \E at \in {"finalized", "unpublished", "ended"} : complete' = [complete EXCEPT ![k] = at]
    BY DEF FinalizeSpaces, CompleteMultipartUpload, To
  <2>2. QED
    BY <1>5, <2>1 DEF FinalizeSpaces, UInv, UploadParts, UploadTypeOK
<1>8. AcceptedWhole'
  BY <1>1, <1>2, <1>3, <1>4, <1>5, <1>6 DEF UInv, UploadParts, FinalizeSpaces, AcceptedWhole,
     jobVars, failVars, jobMarks, JobsKnowFiles, IInv
<1>9. NotBegunEmpty'
  BY <1>1, <1>2, <1>3, <1>4, <1>5, <1>6 DEF UInv, UploadParts, FinalizeSpaces, NotBegunEmpty,
     jobVars, failVars, jobMarks, Staged
<1>10. MultipartEndsOnce'
  <2>1. CASE UNCHANGED <<file, staging>> /\ complete'[k] = "ended"
    BY <1>1, <1>2, <2>1, StorageKeyStays DEF FinalizeSpaces, UInv, UploadParts, MultipartEndsOnce,
       HasFile, Staged, jobVars, failVars, jobMarks
  <2>2. CASE Staged(u) /\ complete'[k] \in {"finalized", "unpublished"}
    <3>1. \A w \in Uploads \ {u} : Staged(w)' <=> Staged(w)
      BY <1>5 DEF Staged
    <3>2. ASSUME NEW l \in Completes, HasFile(l) \/ complete[l] = "unpublished"
          PROVE  UploadOf[l] \in Uploads \ {u} /\ l # k
      BY <1>1, <2>2, <3>2, IngestAssumption DEF UInv, UploadParts, MultipartEndsOnce, HasFile, Completes
    <3>3. ASSUME NEW l \in Completes, UploadOf[l] # u
          PROVE  StorageKey(l)' = StorageKey(l) /\ StorageKey(l) \in Files \ {f}
      BY <1>1, <3>3, StorageKeyOf, StorageKeyStays DEF FinalizeSpaces, Completes
    <3>4. StorageKey(k)' = f
      BY StorageKeyStays DEF FinalizeSpaces
    <3>5. UNCHANGED <<job, backend, received>>
      BY DEF FinalizeSpaces, jobVars, failVars, jobMarks
    <3>6. \A w \in Uploads : job'[w] # NoJob => ~Staged(w)'
      BY <1>1, <1>4, <2>2, <3>1, <3>5 DEF UInv, UploadParts, MultipartEndsOnce
    <3>7. \A l \in Completes : HasFile(l)' \/ complete'[l] = "unpublished" => ~Staged(UploadOf[l])'
      <4> SUFFICES ASSUME NEW l \in Completes, HasFile(l)' \/ complete'[l] = "unpublished", l # k
                   PROVE  ~Staged(UploadOf[l])'
        BY <1>4, <2>2
      <4>1. HasFile(l) \/ complete[l] = "unpublished"
        BY <1>2 DEF HasFile
      <4>2. QED
        BY <1>1, <3>1, <3>2, <4>1 DEF UInv, UploadParts, MultipartEndsOnce
    <3>8. \A l \in Completes : HasFile(l)' =>
              job'[UploadOf[l]] = NoJob /\ file'[StorageKey(l)'] = "whole"
      <4> SUFFICES ASSUME NEW l \in Completes, HasFile(l)', l # k
                   PROVE  job'[UploadOf[l]] = NoJob /\ file'[StorageKey(l)'] = "whole"
        BY <1>4, <1>6, <2>2, <3>4, <3>5
      <4>1. HasFile(l)
        BY <1>2 DEF HasFile
      <4>2. QED
        BY <1>1, <1>5, <3>2, <3>3, <3>5, <4>1 DEF UInv, UploadParts, MultipartEndsOnce
    <3>9. \A l, m \in Completes :
              HasFile(l)' /\ HasFile(m)' /\ UploadOf[l] = UploadOf[m] => l = m
      <4>1. \A l \in Completes \ {k} : HasFile(l)' => HasFile(l)
        BY <1>2 DEF HasFile
      <4>2. QED
        BY <1>1, <3>2, <4>1 DEF UInv, UploadParts, MultipartEndsOnce
    <3>10. \A w \in Uploads : Staged(w)' => \A c \in received'[w] : staging'[w][c] = "whole"
      BY <1>1, <1>4, <1>5, <2>2, <3>1, <3>5 DEF UInv, UploadParts, MultipartEndsOnce
    <3>11. QED
      BY <3>6, <3>7, <3>8, <3>9, <3>10 DEF MultipartEndsOnce
  <2>3. QED
    BY <1>3, <2>1, <2>2
<1>11. DiskFilesApart'
  BY <1>1, <1>2, <1>3, <1>4, <1>5, <1>6 DEF FinalizeSpaces, DiskFilesApart
<1>12. CompletedWasReceived'
  BY <1>1, <1>2, <1>3, <1>4, <1>5, <1>6 DEF UInv, UploadParts, FinalizeSpaces, CompletedWasReceived
<1>13. ChunksKept'
  BY <1>1, <1>2, <1>3, <1>4, <1>5, <1>6 DEF FinalizeSpaces, ChunksKept
<1>14. StagedTillFinalized'
  BY <1>1, <1>2, <1>3, <1>4, <1>5, <1>6 DEF UInv, UploadParts, FinalizeSpaces, StagedTillFinalized,
     Staged
<1>15. QED
  BY <1>7, <1>8, <1>9, <1>10, <1>11, <1>12, <1>13, <1>14 DEF UploadParts

LEMMA SessionEndsKeeps ==
  ASSUME UInv, NEW k \in Completes, SessionEnds(k)
  PROVE  UploadParts'
<1>1. UploadOf[k] \in Uploads
  BY IngestAssumption DEF Completes
<1>2. complete[k] = "finalized" /\ complete'[k] = "enqueue"
      /\ \A l \in Completes \ {k} : complete'[l] = complete[l]
  BY DEF SessionEnds, To, UInv, UploadParts, UploadTypeOK
<1>3. UploadTypeOK'
  BY <1>1, <1>2 DEF UInv, UploadParts, SessionEnds, UploadTypeOK, vars, jobVars, failVars, jobMarks, To
<1>4. NotBegunEmpty'
  BY <1>1, <1>2 DEF UInv, UploadParts, SessionEnds, NotBegunEmpty, vars, jobVars, failVars, jobMarks,
     Staged
<1>5. MultipartEndsOnce'
  BY <1>1, <1>2, StorageKeyStays DEF UInv, UploadParts, SessionEnds, MultipartEndsOnce, HasFile,
     vars, jobVars, failVars, jobMarks, Staged
<1>6. DiskFilesApart'
  BY <1>1, <1>2 DEF UInv, UploadParts, SessionEnds, DiskFilesApart, HasFile, Keys, Stored, vars,
     jobVars, failVars, jobMarks
<1>7. CompletedWasReceived'
  BY <1>1, <1>2 DEF UInv, UploadParts, SessionEnds, CompletedWasReceived
<1>8. ChunksKept'
  BY <1>1, <1>2 DEF UInv, UploadParts, SessionEnds, ChunksKept, HasFile, vars, Staged
<1>9. StagedTillFinalized'
  BY <1>1, <1>2 DEF UInv, UploadParts, SessionEnds, StagedTillFinalized, UploadTypeOK, Staged
<1>10. AcceptedWhole'
  BY DEF UInv, UploadParts, SessionEnds, AcceptedWhole, vars, jobVars, failVars, jobMarks
<1>11. QED
  BY <1>3, <1>4, <1>5, <1>6, <1>7, <1>8, <1>9, <1>10 DEF UploadParts

\* The file is handed over, or is to be discarded.
LEMMA CompleteEnqueuesKeeps ==
  ASSUME UInv, NEW k \in Completes, CompleteEnqueues(k)
  PROVE  UploadParts'
<1> DEFINE u == UploadOf[k]
           f == StorageKey(k)
<1>1. u \in Uploads /\ HasFile(k) /\ complete[k] = "enqueue" /\ f \in Files /\ UploadOf[f] = u
  BY StorageKeyOf, IngestAssumption DEF CompleteEnqueues, Completes, HasFile
<1>2. complete'[k] \in {"discard", "ended"} /\ \A l \in Completes \ {k} : complete'[l] = complete[l]
  BY DEF CompleteEnqueues, To, UInv, UploadParts, UploadTypeOK
<1>3. f \notin Keys
  BY <1>1, FileIsFree
<1>4. /\ \A g \in Files \ {f} : file'[g] = file[g]
      /\ UNCHANGED file
      /\ \A w \in Uploads \ {u} : job'[w] = job[w]
      /\ \/ UNCHANGED job
         \/ job'[u] # NoJob /\ job'[u].key = f
  BY <1>1 DEF CompleteEnqueues, EnqueueUploadCompletionJob, UInv, IInv, TypeOK, NoJob
<1>5. session[u] # "none"
  BY <1>1 DEF UInv, UploadParts, NotBegunEmpty
<1>6. UploadTypeOK'
  <2>1. complete' \in [Completes -> {"idle", "reading", "finalized", "unpublished", "enqueue", "discard",
                                     "ended"}]
    BY DEF CompleteEnqueues, To, UInv, UploadParts, UploadTypeOK
  <2>2. QED
    BY <2>1 DEF CompleteEnqueues, UInv, UploadParts, UploadTypeOK
<1>7. AcceptedWhole'
  <2>1. ASSUME NEW w \in Uploads, job[w] # NoJob
        PROVE  job[w].key \in Files /\ file'[job[w].key] = file[job[w].key]
    BY <1>3, <1>4, <2>1 DEF UInv, IInv, JobsKnowFiles, Keys
  <2>2. file[f] \in {"partial", "bad"} => backend = "local" /\ u \in resent
    BY <1>1, StorageKeyOf, UploadAssumption DEF UInv, UploadParts, UploadTypeOK, MultipartEndsOnce,
       ChunksKept
  <2>3. UNCHANGED <<backend, resent>>
    BY DEF CompleteEnqueues
  <2>4. \A w \in Uploads : job[w] # NoJob /\ file'[job[w].key] \in {"partial", "bad"} =>
            backend = "local" /\ w \in resent
    BY <2>1 DEF UInv, UploadParts, AcceptedWhole
  <2>5. QED
    BY <1>1, <1>4, <2>2, <2>3, <2>4 DEF AcceptedWhole
<1>8. NotBegunEmpty'
  BY <1>1, <1>2, <1>3, <1>4, <1>5 DEF UInv, UploadParts, CompleteEnqueues, NotBegunEmpty, Staged
<1>9. MultipartEndsOnce'
  <2> SUFFICES ASSUME backend = "spaces"
               PROVE  MultipartEndsOnce'
    BY DEF CompleteEnqueues, MultipartEndsOnce
  <2>1. MultipartEndsOnce /\ UNCHANGED <<staging, received, backend>>
    BY DEF UInv, UploadParts, CompleteEnqueues
  <2>2. \A w : Staged(w)' <=> Staged(w)
    BY <2>1 DEF Staged
  <2>3. ~Staged(u) /\ \A l \in Completes \ {k} : HasFile(l) => UploadOf[l] # u
    BY <1>1, <2>1 DEF MultipartEndsOnce, CompleteEnqueues
  <2>4. ~HasFile(k)' /\ \A l \in Completes \ {k} : HasFile(l)' <=> HasFile(l)
    BY <1>2 DEF HasFile
  <2>5. \A l \in Completes : complete'[l] = "unpublished" => complete[l] = "unpublished"
    BY <1>2
  <2>6. \A w \in Uploads : job'[w] # NoJob => ~Staged(w)
    BY <1>4, <2>1, <2>3 DEF MultipartEndsOnce
  <2>7. ASSUME NEW l \in Completes, HasFile(l)'
        PROVE  HasFile(l) /\ job'[UploadOf[l]] = NoJob /\ file'[StorageKey(l)'] = "whole"
    <3>1. l # k /\ HasFile(l) /\ UploadOf[l] # u /\ UploadOf[l] \in Uploads
      BY <2>3, <2>4, <2>7, IngestAssumption DEF Completes
    <3>2. StorageKey(l)' = StorageKey(l)
      BY <2>1 DEF StorageKey
    <3>3. StorageKey(l) \in Files /\ UploadOf[StorageKey(l)] = UploadOf[l]
      BY StorageKeyOf DEF Completes
    <3>4. QED
      BY <1>1, <1>4, <2>1, <3>1, <3>2, <3>3 DEF MultipartEndsOnce
  <2>8. QED
    BY <2>1, <2>2, <2>4, <2>5, <2>6, <2>7 DEF MultipartEndsOnce
<1>10. DiskFilesApart'
  <2> SUFFICES ASSUME backend = "local", NEW l \in Completes, complete'[l] \notin {"discard", "ended"}
               PROVE  l \notin Keys' /\ (HasFile(l)' => Stored(l)')
    BY DEF CompleteEnqueues, DiskFilesApart, HasFile
  <2>1. f = k /\ l # k /\ complete'[l] = complete[l]
    BY <1>2, StorageKeyOf
  <2>2. Keys' \subseteq Keys \cup {f}
    BY <1>1, <1>4 DEF Keys
  <2>3. l \notin Keys /\ (HasFile(l) => Stored(l))
    BY <2>1 DEF UInv, UploadParts, DiskFilesApart
  <2>4. file'[l] = file[l]
    BY <1>4, <2>1 DEF Completes
  <2>5. QED
    BY <2>1, <2>2, <2>3, <2>4 DEF HasFile, Stored
<1>11. CompletedWasReceived'
  BY <1>1, <1>2, <1>3, <1>4, <1>5 DEF UInv, UploadParts, CompleteEnqueues, CompletedWasReceived
<1>12. ChunksKept'
  BY <1>1, <1>2, <1>3, <1>4, <1>5, StorageKeyOf DEF UInv, UploadParts, CompleteEnqueues, ChunksKept,
     HasFile, Staged, Completes, NotBegunEmpty
<1>13. StagedTillFinalized'
  BY <1>1, <1>2, <1>3, <1>4, <1>5 DEF UInv, UploadParts, CompleteEnqueues, StagedTillFinalized, Staged
<1>14. QED
  BY <1>6, <1>7, <1>8, <1>9, <1>10, <1>11, <1>12, <1>13 DEF UploadParts

LEMMA DiscardFinalizedKeeps ==
  ASSUME UInv, NEW k \in Completes, DiscardFinalized(k)
  PROVE  UploadParts'
<1> DEFINE f == StorageKey(k)
<1>1. /\ UploadOf[k] \in Uploads /\ f \in Files /\ UploadOf[f] = UploadOf[k]
      /\ backend = "local" => f = k
  BY StorageKeyOf, IngestAssumption DEF Completes
<1>2. /\ complete[k] = "discard" /\ complete' = [complete EXCEPT ![k] = "ended"]
      /\ \A g \in Files \ {f} : file'[g] = file[g]
      /\ file'[f] \in {file[f], "none"}
      /\ UNCHANGED <<job, backend, session, received, staging, request, concat, aborting, resent>>
  BY <1>1 DEF DiscardFinalized, To, DeleteFile, UInv, IInv, TypeOK
<1>3. complete'[k] = "ended" /\ \A l \in Completes \ {k} : complete'[l] = complete[l]
  BY <1>2 DEF UInv, UploadParts, UploadTypeOK
<1>4. \A l \in Completes : HasFile(l)' => HasFile(l) /\ l # k
  BY <1>3 DEF HasFile
<1>5. \A w : Staged(w)' <=> Staged(w)
  BY <1>2 DEF Staged
<1>6. Keys' = Keys
  BY <1>2 DEF Keys
<1>7. UploadTypeOK'
  BY <1>2 DEF UInv, UploadParts, UploadTypeOK
<1>8. AcceptedWhole'
  BY <1>1, <1>2 DEF UInv, UploadParts, AcceptedWhole, IInv, JobsKnowFiles
<1>9. NotBegunEmpty'
  BY <1>2, <1>3, <1>5 DEF UInv, UploadParts, NotBegunEmpty
<1>10. ASSUME NEW l \in Completes, HasFile(l)
       PROVE  file'[StorageKey(l)] = file[StorageKey(l)]
  <2>1. /\ StorageKey(l) \in Files /\ UploadOf[StorageKey(l)] = UploadOf[l]
        /\ backend = "local" => StorageKey(l) = l
    BY StorageKeyOf DEF Completes
  <2>2. l # k
    BY <1>2, <1>10 DEF HasFile
  <2>3. backend = "spaces" => UploadOf[l] # UploadOf[k]
    BY <1>2, <1>10 DEF UInv, DiscardsApart
  <2>4. backend \in {"local", "spaces"}
    BY UploadAssumption DEF UInv, UploadParts, UploadTypeOK
  <2>5. StorageKey(l) # f
    BY <1>1, <2>1, <2>2, <2>3, <2>4
  <2>6. QED
    BY <1>2, <2>1, <2>5
<1>11. MultipartEndsOnce'
  <2>1. \A l \in Completes : StorageKey(l)' = StorageKey(l)
    BY <1>2, StorageKeyStays
  <2>2. \A l \in Completes : complete'[l] = "unpublished" => complete[l] = "unpublished"
    BY <1>3
  <2>3. QED
    BY <1>2, <1>4, <1>5, <1>10, <2>1, <2>2 DEF UInv, UploadParts, MultipartEndsOnce
<1>12. DiskFilesApart'
  <2>1. backend = "local" => \A l \in Completes : HasFile(l) => file'[l] = file[l]
    BY <1>10, StorageKeyOf
  <2>2. QED
    BY <1>2, <1>3, <1>4, <1>6, <2>1 DEF UInv, UploadParts, DiskFilesApart, Stored
<1>13. CompletedWasReceived'
  BY <1>2, <1>3 DEF UInv, UploadParts, CompletedWasReceived
<1>14. ChunksKept'
  <2>1. backend = "local" => \A l \in Completes : HasFile(l) => file'[l] = file[l]
    BY <1>10, StorageKeyOf
  <2>2. QED
    BY <1>2, <1>4, <1>5, <2>1 DEF UInv, UploadParts, ChunksKept
<1>15. StagedTillFinalized'
  BY <1>2, <1>3, <1>5 DEF UInv, UploadParts, StagedTillFinalized
<1>16. QED
  BY <1>7, <1>8, <1>9, <1>11, <1>12, <1>13, <1>14, <1>15 DEF UploadParts

\* An abort removes what is staged, then the session.
LEMMA AbortRemovesKeeps ==
  ASSUME UInv, NEW u \in Uploads, AbortRemoves(u)
  PROVE  UploadParts'
<1>1. /\ staging' \in [Uploads -> {NoStaging} \cup [Chunks -> {"none", "whole"} \cup Requests]]
      /\ staging' = staging \/ ~Staged(u)'
      /\ \A w \in Uploads \ {u} : staging'[w] = staging[w]
  BY StagingGone DEF AbortRemoves, RemoveStaging, UInv, UploadParts, UploadTypeOK
<1>2. UploadTypeOK'
  BY <1>1 DEF UInv, UploadParts, AbortRemoves, UploadTypeOK
<1>3. NotBegunEmpty'
  BY <1>1 DEF UInv, UploadParts, AbortRemoves, NotBegunEmpty, vars, jobVars, failVars, jobMarks, Staged
<1>4. MultipartEndsOnce'
  BY <1>1, StorageKeyStays, IngestAssumption DEF UInv, UploadParts, AbortRemoves, MultipartEndsOnce,
     HasFile, vars, jobVars, failVars, jobMarks, Staged, Completes
<1>5. ChunksKept'
  BY <1>1 DEF UInv, UploadParts, AbortRemoves, ChunksKept, HasFile, vars, Staged
<1>6. StagedTillFinalized'
  BY <1>1 DEF UInv, UploadParts, AbortRemoves, StagedTillFinalized, Staged
<1>7. AcceptedWhole' /\ DiskFilesApart' /\ CompletedWasReceived'
  BY DEF UInv, UploadParts, AbortRemoves, AcceptedWhole, DiskFilesApart, HasFile, Keys, Stored,
     CompletedWasReceived, vars, jobVars, failVars, jobMarks
<1>8. QED
  BY <1>2, <1>3, <1>4, <1>5, <1>6, <1>7 DEF UploadParts

LEMMA AbortEndsKeeps ==
  ASSUME UInv, NEW u \in Uploads, AbortEnds(u)
  PROVE  UploadParts'

<1>1. UploadTypeOK'
  BY DEF UInv, UploadParts, AbortEnds, UploadTypeOK
<1>2. NotBegunEmpty'
  BY DEF UInv, UploadParts, AbortEnds, NotBegunEmpty, vars, jobVars, failVars, jobMarks, Staged
<1>3. StagedTillFinalized'
  BY DEF UInv, UploadParts, AbortEnds, StagedTillFinalized, UploadTypeOK, Staged
<1>4. AcceptedWhole' /\ MultipartEndsOnce' /\ DiskFilesApart' /\ CompletedWasReceived' /\ ChunksKept'
  BY StorageKeyStays DEF UInv, UploadParts, AbortEnds, AcceptedWhole, MultipartEndsOnce, HasFile,
     DiskFilesApart, Keys, Stored, CompletedWasReceived, ChunksKept, vars, jobVars, failVars,
     jobMarks, Staged
<1>5. QED
  BY <1>1, <1>2, <1>3, <1>4 DEF UploadParts

LEMMA InitUInv == UploadInit => UInv
<1> SUFFICES ASSUME UploadInit
             PROVE  UInv
  OBVIOUS
<1>1. IInv /\ file = [f \in Files |-> "none"] /\ job = [u \in Uploads |-> NoJob]
  BY InitIInv DEF UploadInit, Init
<1>2. UploadTypeOK
  BY DEF UploadInit, UploadTypeOK, NoRequest, NothingRead
<1>3. \A u \in Uploads : ~Staged(u)
  BY DEF UploadInit, Staged
<1>4. \A u \in Uploads : job[u] = NoJob
  BY <1>1
<1>5. \A u \in Uploads, r \in Requests : request[r].upload # u
  BY IngestAssumption DEF UploadInit, NoRequest
<1>6. AcceptedWhole /\ NotBegunEmpty
  BY <1>3, <1>4, <1>5 DEF UploadInit, AcceptedWhole, NotBegunEmpty
<1>7. MultipartEndsOnce /\ CompletedWasReceived
  BY <1>3, <1>4 DEF UploadInit, MultipartEndsOnce, HasFile, CompletedWasReceived
<1>8. DiskFilesApart
  <2>1. \A k \in Completes : complete[k] = "idle" /\ k # None
    BY IngestAssumption DEF UploadInit, Completes
  <2>2. \A u \in Uploads : job[u].key = None
    BY <1>4 DEF NoJob
  <2>3. QED
    BY <2>1, <2>2 DEF DiskFilesApart, HasFile, Keys
<1>9. ChunksKept /\ StagedTillFinalized
  BY <1>5 DEF UploadInit, ChunksKept, HasFile, StagedTillFinalized, NothingRead
<1>10. DiscardsApart
  BY DEF UploadInit, DiscardsApart
<1>11. QED
  BY <1>1, <1>2, <1>6, <1>7, <1>8, <1>9, <1>10 DEF UInv, UploadParts

\* What the library does to what is uploaded is no more than to discard a file
\* that has a job.
LEMMA LibraryKeeps ==
  ASSUME UInv, IngestStep, UNCHANGED uploadVars
  PROVE  UploadParts'
<1>1. /\ \A u \in Uploads : job'[u].key = job[u].key /\ (job'[u] = NoJob <=> job[u] = NoJob)
      /\ \A k \in Completes : file'[k] \in {file[k], "none"} /\ (k \notin Keys => file'[k] = file[k])
  BY IngestLeaves DEF UInv
<1>2. \A u \in Uploads : job[u] # NoJob => job[u].key \in Completes
  BY IngestAssumption DEF UInv, IInv, JobsKnowFiles, Completes
<1>3. Keys' = Keys
  BY <1>1 DEF Keys
<1>4. UploadTypeOK' /\ CompletedWasReceived' /\ StagedTillFinalized'
  BY DEF UInv, UploadParts, uploadVars, UploadTypeOK, CompletedWasReceived, StagedTillFinalized, Staged
<1>5. AcceptedWhole'
  BY <1>1, <1>2 DEF UInv, UploadParts, uploadVars, AcceptedWhole
<1>6. NotBegunEmpty'
  BY <1>1 DEF UInv, UploadParts, uploadVars, NotBegunEmpty, Staged
<1>7. \A k \in Completes : HasFile(k) => file'[StorageKey(k)] = file[StorageKey(k)]
  <2> SUFFICES ASSUME NEW k \in Completes, HasFile(k)
               PROVE  StorageKey(k) \in Completes \ Keys
    BY <1>1
  <2>1. QED
    BY FileIsFree, StorageKeyOf DEF HasFile
<1>8. MultipartEndsOnce'
  BY <1>1, <1>7, StorageKeyStays, IngestAssumption DEF UInv, UploadParts, uploadVars,
     MultipartEndsOnce, HasFile, Staged, Completes
<1>9. DiskFilesApart'
  BY <1>1, <1>3, <1>7 DEF UInv, UploadParts, uploadVars, DiskFilesApart, HasFile, Stored
<1>10. ChunksKept'
  <2>1. backend = "local" => \A k \in Completes : HasFile(k) => file'[k] = file[k]
    BY <1>7, StorageKeyOf
  <2>2. QED
    BY <2>1 DEF UInv, UploadParts, uploadVars, ChunksKept, HasFile, Staged
<1>11. QED
  BY <1>4, <1>5, <1>6, <1>8, <1>9, <1>10 DEF UploadParts

\* After a start no request is under way and no session is open.
LEMMA UploadRestartKeeps ==
  ASSUME UInv, UploadRestart
  PROVE  UploadParts'
<1>1. \A u \in Uploads : job'[u].key = job[u].key /\ (job'[u] = NoJob <=> job[u] = NoJob)
  <2> SUFFICES ASSUME NEW u \in Uploads, job[u].state = "running",
                      job'[u] = [job[u] EXCEPT !.state = "queued"]
               PROVE  job'[u].key = job[u].key /\ job'[u] # NoJob /\ job[u] # NoJob
    BY DEF UploadRestart, Restart, RequeueRunningUploadCompletionJobs, Running
  <2>1. job[u] \in [state : JobStates, id : Nat, key : Files, media : Files \cup {None}]
    BY JobTypes DEF UInv, IInv
  <2>2. QED
    BY <2>1 DEF NoJob
<1>2. \A u \in Uploads : staging'[u] \in {NoStaging, staging[u]}
  BY DEF UploadRestart, CleanupOrphanedChunks
<1>3. backend = "spaces" => \A u \in Uploads : staging'[u] = staging[u]
  BY DEF UploadRestart, CleanupOrphanedChunks
<1>4. \A u \in Uploads : Staged(u)' => Staged(u) /\ staging'[u] = staging[u]
  BY <1>2 DEF Staged
<1>5. \A k \in Completes : complete'[k] = IF complete[k] = "idle" THEN "idle" ELSE "ended"
  BY DEF UploadRestart
<1>6. UNCHANGED <<file, backend, received, concat, resent>> /\ Keys' = Keys
  BY <1>1 DEF UploadRestart, Keys
<1>7. \A u \in Uploads : session'[u] = IF session[u] = "none" THEN "none" ELSE "gone"
  BY DEF UploadRestart
<1>8. \A u \in Uploads, r \in Requests : request'[r].upload # u
  BY IngestAssumption DEF UploadRestart, NoRequest
<1>9. UploadTypeOK'
  <2>1. staging' \in [Uploads -> {NoStaging} \cup [Chunks -> {"none", "whole"} \cup Requests]]
    BY DEF UploadRestart, CleanupOrphanedChunks, UInv, UploadParts, UploadTypeOK
  <2>2. QED
    BY <1>6, <2>1 DEF UploadRestart, UInv, UploadParts, UploadTypeOK
<1>10. AcceptedWhole'
  BY <1>1, <1>6 DEF UInv, UploadParts, AcceptedWhole
<1>11. NotBegunEmpty'
  BY <1>1, <1>4, <1>5, <1>6, <1>7, <1>8 DEF UInv, UploadParts, NotBegunEmpty
<1>12. \A k \in Completes : ~HasFile(k)' /\ complete'[k] # "unpublished"
  BY <1>5 DEF HasFile
<1>13. MultipartEndsOnce'
  BY <1>1, <1>3, <1>4, <1>6, <1>12 DEF UInv, UploadParts, MultipartEndsOnce
<1>14. DiskFilesApart'
  BY <1>5, <1>6, <1>12 DEF UInv, UploadParts, DiskFilesApart
<1>15. CompletedWasReceived'
  BY <1>5, <1>6 DEF UInv, UploadParts, CompletedWasReceived
<1>16. ChunksKept'
  BY <1>4, <1>6, <1>8, <1>12 DEF UInv, UploadParts, ChunksKept
<1>17. StagedTillFinalized'
  BY <1>7 DEF StagedTillFinalized
<1>18. QED
  BY <1>9, <1>10, <1>11, <1>13, <1>14, <1>15, <1>16, <1>17 DEF UploadParts

\* Nothing but a file that is handed over, or its discarding, touches what is to
\* be discarded: one multipart upload has one request with its file.
LEMMA DiscardsStay ==
  ASSUME UInv, UNCHANGED <<disowned, backend>>, Keys' \subseteq Keys,
         \A k \in Completes : complete'[k] = "discard" => complete[k] = "discard",
         \A k \in Completes :
             HasFile(k)' => HasFile(k) \/ backend = "local" \/ Staged(UploadOf[k]),
         \A u \in Uploads : Staged(u)' => Staged(u) \/ session[u] = "none"
  PROVE  DiscardsApart'
<1>1. \A k \in Completes : StorageKey(k)' = StorageKey(k) /\ UploadOf[k] \in Uploads
  BY StorageKeyStays, IngestAssumption DEF Completes
<1>2. \A k \in Completes : complete[k] = "discard" => session[UploadOf[k]] # "none"
  BY <1>1 DEF UInv, UploadParts, NotBegunEmpty
<1>3. QED
  BY <1>1, <1>2 DEF UInv, DiscardsApart

LEMMA DiscardsApartKeeps ==
  ASSUME UInv, [UploadNext]_allVars
  PROVE  DiscardsApart'
<1> USE DEF jobVars, failVars
<1>1. CASE \E u \in Uploads : InitUpload(u) \/ AbortRemoves(u) \/ AbortEnds(u)
  <2>1. PICK u \in Uploads : InitUpload(u) \/ AbortRemoves(u) \/ AbortEnds(u)
    BY <1>1
  <2>2. UNCHANGED <<vars, complete, backend>>
    BY <2>1 DEF InitUpload, AbortRemoves, AbortEnds
  <2>3. \A w \in Uploads : Staged(w)' => Staged(w) \/ session[w] = "none"
    BY <2>1 DEF InitUpload, AbortRemoves, AbortEnds, RemoveStaging, Staged, UInv, UploadParts,
       UploadTypeOK
  <2>4. QED
    BY <2>2, <2>3, DiscardsStay DEF vars, Keys, HasFile
<1>2. CASE \E r \in Requests :
             \/ \E u \in Uploads, c \in Chunks : ChunkArrives(r, u, c)
             \/ ChunkStreamed(r) \/ PartUploaded(r) \/ ChunkFails(r)
  <2>1. UNCHANGED <<vars, complete, backend>>
    BY <1>2 DEF ChunkArrives, ChunkStreamed, PartUploaded, ChunkFails
  <2>2. \A w \in Uploads : Staged(w)' => Staged(w)
    BY <1>2 DEF ChunkArrives, ChunkStreamed, PartUploaded, UploadPart, ChunkFails, Staged, UInv,
       UploadParts, UploadTypeOK
  <2>3. QED
    BY <2>1, <2>2, DiscardsStay DEF vars, Keys, HasFile
<1>3. CASE \E k \in Completes :
               \/ CompleteStarts(k) \/ FinalizeLocal(k) \/ FinalizeSpaces(k) \/ SessionEnds(k)
               \/ \E c \in Chunks : ReadChunk(k, c)
  <2>1. PICK k \in Completes :
               \/ CompleteStarts(k) \/ FinalizeLocal(k) \/ FinalizeSpaces(k) \/ SessionEnds(k)
               \/ \E c \in Chunks : ReadChunk(k, c)
    BY <1>3
  <2>2. UNCHANGED <<job, disowned, backend>>
    BY <2>1 DEF CompleteStarts, FinalizeLocal, FinalizeSpaces, SessionEnds, ReadChunk, vars
  <2>3. \A w \in Uploads : Staged(w)' => Staged(w)
    BY <2>1 DEF CompleteStarts, FinalizeLocal, FinalizeSpaces, CompleteMultipartUpload, SessionEnds,
       ReadChunk, Staged, UInv, UploadParts, UploadTypeOK
  <2>4. /\ \A l \in Completes : complete'[l] = "discard" => complete[l] = "discard"
        /\ \A l \in Completes :
               HasFile(l)' => HasFile(l) \/ backend = "local" \/ Staged(UploadOf[l])
    BY <2>1 DEF CompleteStarts, FinalizeLocal, FinalizeSpaces, CompleteMultipartUpload, SessionEnds,
       ReadChunk, HasFile, To, UInv, UploadParts, UploadTypeOK
  <2>5. QED
    BY <2>2, <2>3, <2>4, DiscardsStay DEF Keys
<1>4. CASE \E k \in Completes : CompleteEnqueues(k)
  <2>1. PICK k \in Completes : CompleteEnqueues(k)
    BY <1>4
  <2> DEFINE u == UploadOf[k]
             f == StorageKey(k)
  <2>2. HasFile(k) /\ f \notin Keys /\ u \in Uploads /\ f \in Files /\ UploadOf[f] = u
    BY <2>1, FileIsFree, StorageKeyOf, IngestAssumption DEF CompleteEnqueues, HasFile, Completes
  <2>3. /\ UNCHANGED <<backend, staging>> /\ disowned \subseteq disowned'
        /\ complete'[k] \in {"discard", "ended"}
        /\ \A l \in Completes \ {k} : complete'[l] = complete[l]
        /\ Keys' \subseteq Keys \cup {f}
    <3>1. \A w \in Uploads : job'[w] = job[w] \/ job'[w].key = f
      BY <2>1 DEF CompleteEnqueues, EnqueueUploadCompletionJob, UInv, IInv, TypeOK
    <3>2. Keys' \subseteq Keys \cup {f}
      BY <3>1 DEF Keys
    <3>3. QED
      BY <2>1, <3>2 DEF CompleteEnqueues, To, UInv, UploadParts, UploadTypeOK
  <2>4. complete'[k] = "discard" /\ f \in Keys' => u \in disowned'
    <3>1. CASE UNCHANGED <<job, lastId, disowned>>
      BY <2>2, <3>1 DEF Keys
    <3>2. CASE complete'[k] = "ended"
      BY <3>2
    <3>3. CASE /\ EnqueueUploadCompletionJob(u, f)
               /\ disowned' = IF job'[u].key = f THEN disowned \cup {u} ELSE disowned
      BY <2>2, <3>3 DEF EnqueueUploadCompletionJob, Keys, UInv, IInv, TypeOK
    <3>4. QED
      BY <2>1, <3>1, <3>2, <3>3 DEF CompleteEnqueues, To, UInv, UploadParts, UploadTypeOK
  <2>5. \A l \in Completes : StorageKey(l)' = StorageKey(l)
    BY <2>3, StorageKeyStays
  <2>6. \A w : Staged(w)' <=> Staged(w)
    BY <2>3 DEF Staged
  <2>7. \A l \in Completes \ {k} : HasFile(l)' <=> HasFile(l)
    BY <2>3 DEF HasFile
  <2>8. ~HasFile(k)'
    BY <2>3 DEF HasFile
  <2>9. ASSUME NEW l \in Completes \ {k}, complete[l] = "discard"
        PROVE  StorageKey(l) # f
    BY <2>2, <2>9, StorageKeyOf, UploadAssumption DEF UInv, UploadParts, UploadTypeOK, DiscardsApart
  <2>10. \A l \in Completes :
             complete'[l] = "discard" /\ StorageKey(l)' \in Keys' => UploadOf[l] \in disowned'
    BY <2>3, <2>4, <2>5, <2>9 DEF UInv, DiscardsApart
  <2>11. ASSUME backend = "spaces", NEW l \in Completes, complete'[l] = "discard"
         PROVE  /\ ~Staged(UploadOf[l])
                /\ \A m \in Completes : HasFile(m)' => UploadOf[m] # UploadOf[l]
    <3>1. CASE l = k
      BY <2>2, <2>7, <2>8, <2>11, <3>1 DEF UInv, UploadParts, MultipartEndsOnce
    <3>2. CASE l # k
      BY <2>3, <2>7, <2>8, <2>11, <3>2 DEF UInv, DiscardsApart
    <3>3. QED
      BY <3>1, <3>2
  <2>12. QED
    BY <2>3, <2>6, <2>10, <2>11 DEF DiscardsApart
<1>5. CASE \E k \in Completes : DiscardFinalized(k)
  <2>1. PICK k \in Completes : DiscardFinalized(k)
    BY <1>5
  <2>2. UNCHANGED <<job, disowned, backend, staging>>
    BY <2>1 DEF DiscardFinalized
  <2>3. \A l \in Completes :
            /\ complete'[l] = "discard" => complete[l] = "discard"
            /\ HasFile(l)' => HasFile(l)
    BY <2>1 DEF DiscardFinalized, To, HasFile, UInv, UploadParts, UploadTypeOK
  <2>4. QED
    BY <2>2, <2>3, DiscardsStay DEF Keys, Staged
<1>6. CASE IngestStep /\ UNCHANGED uploadVars
  <2>1. UNCHANGED <<disowned, backend, complete, staging>> /\ Keys' = Keys
    BY <1>6, IngestLeaves DEF UInv, uploadVars, Keys
  <2>2. QED
    BY <2>1, DiscardsStay DEF HasFile, Staged
<1>7. CASE UploadRestart
  <2>1. \A k \in Completes : complete'[k] \in {"idle", "ended"}
    BY <1>7 DEF UploadRestart
  <2>2. QED
    BY <2>1 DEF DiscardsApart
<1>8. CASE UNCHANGED allVars
  BY <1>8, DiscardsStay DEF allVars, vars, uploadVars, Keys, HasFile, Staged
<1>9. QED
  BY <1>1, <1>2, <1>3, <1>4, <1>5, <1>6, <1>7, <1>8 DEF UploadNext, UploadStep, CompleteStep

LEMMA NextUInv == UInv /\ [UploadNext]_allVars => UInv'
<1> SUFFICES ASSUME UInv, [UploadNext]_allVars
             PROVE  UInv'
  OBVIOUS
<1>1. IInv'
  BY StepImplements, NextIInv DEF UInv
<1>2. UploadParts'
  <2>1. CASE UploadStep
    BY <2>1, InitUploadKeeps, AbortRemovesKeeps, AbortEndsKeeps, ChunkArrivesKeeps,
       ChunkStreamedKeeps, PartUploadedKeeps, ChunkFailsKeeps, CompleteStartsKeeps,
       ReadChunkKeeps, FinalizeLocalKeeps, FinalizeSpacesKeeps, SessionEndsKeeps,
       CompleteEnqueuesKeeps, DiscardFinalizedKeeps DEF UploadStep, CompleteStep
  <2>2. CASE IngestStep /\ UNCHANGED uploadVars
    BY <2>2, LibraryKeeps
  <2>3. CASE UploadRestart
    BY <2>3, UploadRestartKeeps
  <2>4. CASE UNCHANGED allVars
    BY <2>4, StorageKeyStays DEF allVars, vars, jobVars, failVars, jobMarks, uploadVars, UInv,
       UploadParts, UploadTypeOK, AcceptedWhole, NotBegunEmpty, MultipartEndsOnce, DiskFilesApart,
       CompletedWasReceived, ChunksKept, StagedTillFinalized, HasFile, Keys, Stored, Staged
  <2>5. QED
    BY <2>1, <2>2, <2>3, <2>4 DEF UploadNext
<1>3. DiscardsApart'
  BY DiscardsApartKeeps
<1>4. QED
  BY <1>1, <1>2, <1>3 DEF UInv

\* However chunks, completions, aborts and restarts overlap, what POST /complete
\* accepts is whole, unless a chunk was sent again on top of itself and is kept on
\* disk: ChunkedUploadService and the routes over it.
THEOREM UploadsCorrect == Spec => []UploadsSound
<1>1. UInv => UploadsSound
  BY DEF UInv, UploadParts, UploadsSound
<1>2. QED
  BY InitUInv, NextUInv, <1>1, PTL DEF Spec

\* What the sessions map says was received is staged whole, with the same
\* exception, while the session counts on it.
THEOREM ReceivedCorrect == Spec => []ReceivedUnlessResent
<1>1. UInv => ReceivedUnlessResent
  <2> SUFFICES ASSUME UInv, NEW u \in Uploads, Collecting(u), backend = "local" => u \notin resent
               PROVE  Staged(u) /\ \A c \in received[u] : staging[u][c] = "whole"
    BY DEF ReceivedUnlessResent
  <2>1. Staged(u)
    BY DEF Collecting, UInv, UploadParts, StagedTillFinalized
  <2>2. CASE backend = "local"
    BY <2>1, <2>2 DEF UInv, UploadParts, ChunksKept
  <2>3. CASE backend = "spaces"
    BY <2>1, <2>3 DEF UInv, UploadParts, MultipartEndsOnce
  <2>4. QED
    BY <2>2, <2>3, UploadAssumption DEF UInv, UploadParts, UploadTypeOK
<1>2. QED
  BY InitUInv, NextUInv, <1>1, PTL DEF Spec

\* The routes and ChunkedUploadService are an environment of the completion queue
\* as MediaIngest supposes it: they submit no file that is not stored, and touch
\* the file of a job only to discard it after an insert they were told had failed,
\* so that all that is proved of MediaIngest holds under them.
THEOREM UploadImplementsIngest == Spec => ImplementsIngest
<1>1. UploadInit => Init
  BY DEF UploadInit
<1>2. QED
  BY InitUInv, NextUInv, StepImplements, <1>1, PTL DEF Spec, ImplementsIngest, IngestSpec

\* So the library is right of what is uploaded, too.
THEOREM UploadedLibraryCorrect == Spec => []LibrarySound
  BY UploadImplementsIngest, LibraryCorrect DEF ImplementsIngest
=============================================================================
