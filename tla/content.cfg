\* Two editors, two requests, a crash: each part of the library, each back end.
SPECIFICATION Spec
CONSTANTS
  m1 = m1  m2 = m2  p1 = p1  h1 = h1  h2 = h2
  Handlers = {h1, h2}
  Backends <- All
  Studied <- Everywhere
  Playlist = {p1}
  Media = {m1, m2}
  requireMediaApproval = TRUE
  Filed = {m1}
  Names = {"a", "b"}
  Streams <- Probes
  Indexes = {1, 3}
  MaxRequests = 2
  MaxCrashes = 1
  MaxFirst = 3
  MaxItems = 6
  MaxTracks = 4
  MaxFolders = 4
  Entry = {1, 2}
  Small = {1}
  Concurrency = 1
  LastChunk = 1
  ChunkTries = 2
  MaxRetries = 1
  MaxUploads = 2
  MaxForgets = 1
SYMMETRY Alike
INVARIANTS LibrarySound PageTrue
PROPERTIES OrderKept ReferencesHold AloneKeeps
CHECK_DEADLOCK FALSE
