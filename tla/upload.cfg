SPECIFICATION Spec
CONSTANTS
  a1 = a1  a2 = a2  d = d  up = up  r1 = r1  r2 = r2  None = None
  Files <- MCFiles
  Uploads <- MCUploads
  UploadOf <- MCUploadOf
  Content <- MCContent
  MayFail = {"acl", "delete", "enqueue"}
  MaxThumbJobs = 0
  MaxRestarts = 1
  Chunks = {0}
  Requests <- TwoRequests
  Backends = {"local", "spaces"}
INVARIANTS UploadsSound ReceivedUnlessResent
PROPERTIES ImplementsIngest
CHECK_DEADLOCK FALSE
