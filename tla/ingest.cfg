\* The completion queue and the thumbnail queue, every call of them failing.
SPECIFICATION MCSpec
CONSTANTS
  a = a  d = d  up = up  None = None
  Files <- MCFiles
  Uploads <- MCUploads
  UploadOf <- MCUploadOf
  Content <- MCContent
  MayFail = {"claim", "create", "delete", "download", "enqueue", "folder", "generate", "mark", "read", "startup", "status"}
  MaxThumbJobs = 2
  MaxRestarts = 2
INVARIANTS LibrarySound ThumbStatusTrue
PROPERTIES QueuesSettle
CHECK_DEADLOCK FALSE
