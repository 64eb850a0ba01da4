SPECIFICATION Spec
CONSTANTS
  a = a  b = b  p1 = p1  p2 = p2  None = None
  Media <- TwoMedia
  Playlists <- MCPlaylists
  Contents <- Emptied
  LoopFlags = {FALSE}
  Kinds = {"assigned", "updated", "interrupt", "resume", "reload", "pause", "skip", "finished", "error", "restore", "switch"}
  PreloadCount = 1
  DiskMayFail = TRUE
  MaxLost = 1
  MaxStack = 1
  MaxCmds = 1
INVARIANTS TypeOK PositionNamesCurrent PinsCoverQueue NoOrphanRow
PROPERTIES PlaysCurrentFile ActiveListNotChosen
