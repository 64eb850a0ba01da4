SPECIFICATION FairSpec
CONSTANTS
  v = v  w = w  i = i  None = None
  Media <- MCMedia
  Images <- MCImages
  FailLimit = 2
  MpvMayDie = TRUE
  FilesMayBeBad = TRUE
  MaxCmds = 1
  MaxEvents = 2
  MaxOwed = 2
INVARIANTS TypeOK OneEndPerPlay 
PROPERTIES DeathNoticed
