SPECIFICATION Spec
CONSTANTS
  v = v  w = w  i = i  p1 = p1  p2 = p2  None = None
  Media <- TwoMedia
  Images <- OneImage
  Playlists <- OnePlaylist
  Contents <- ShortList
  LoopFlags = {TRUE}
  Kinds = {"assigned", "updated", "skip", "restore", "switch", "finished", "error"}
  PreloadCount = 1
  DiskMayFail = TRUE
  MaxLost = 0
  MaxStack = 0
  FailLimit = 1
  MpvMayDie = TRUE
  FilesMayBeBad = FALSE
  MaxCmds = 1
  MaxEvents = 1
  MaxOwed = 2
INVARIANTS ShowsCurrent
PROPERTIES ImplementsCoordinator ImplementsEngine
