--------------------------- MODULE MCMediaIngest ---------------------------
(***************************************************************************)
(* A chunked and a direct upload of the same content, every call failing.  *)
(* A behaviour is about one of two things: how the two ways in and the     *)
(* completion queue meet, with no job in the thumbnail queue and up to two *)
(* restarts, or how the thumbnail of the chunked upload is made, with no   *)
(* direct upload and up to one.                                            *)
(***************************************************************************)
EXTENDS MediaIngest

CONSTANTS a, d, up

VARIABLE study   \* what the behaviour is about, "ways" or "thumbs"

MCFiles == {a, d}
MCUploads == {up}
MCUploadOf == [f \in MCFiles |-> IF f = a THEN up ELSE None]
MCContent == [f \in MCFiles |-> "x"]

MCInit == Init /\ study \in {"ways", "thumbs"}

InStudy ==
    /\ study' = study
    /\ study = "ways" => tqueue' = <<>>
    /\ study = "thumbs" => direct' = direct /\ restarts' <= 1

\* The loops of the queues go on (runLoop), enqueueing ends, and the page asks
\* for the thumbnails it shows.  Strong fairness of the last two only undoes
\* MaxThumbJobs: the queue of the code is never full.
MCSpec ==
    /\ MCInit
    /\ [][IngestNext /\ InStudy]_<<vars, study>>
    /\ WF_vars(WorkerStep /\ InStudy) /\ WF_vars(ThumbStep /\ InStudy)
    /\ \A f \in Files :
           SF_vars(EnqueueLands(f) /\ InStudy) /\ SF_vars(GetThumbnail(f) /\ InStudy)

\* Every job of the two queues settles: an accepted upload gets an outcome and,
\* where thumbnails are studied, a media its thumbnail, but for what a failed
\* call leaves running or without a word (upload-completion-queue.service.ts:91,
\* thumbnail-queue.service.ts:91, media.service.ts:490).
QueuesSettle == EveryUploadEnds /\ (study = "thumbs" => EveryThumbnailSettles)
=============================================================================
