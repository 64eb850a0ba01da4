SPECIFICATION FairSpec
CONSTANTS
  v = v  w = w  i = i  p1 = p1  p2 = p2  None = None
  Media <- Mixed
  Images <- OneImage
  Playlists <- OnePlaylist
  Contents <- MixedList
  LoopFlags = {TRUE}
  Kinds = {"assigned", "finished", "error"}
  PreloadCount = 1
  DiskMayFail = FALSE
  MaxLost = 0
  MaxStack = 0
  FailLimit = 2
  MpvMayDie = FALSE
  FilesMayBeBad = FALSE
  MaxCmds = 1
  MaxEvents = 1
  MaxOwed = 2
PROPERTIES AdvancesOnlyAtEnd LoopsContinuously CoordinatorReturns
