SPECIFICATION FairSpec
CONSTANTS
  c1 = c1  c2 = c2  p1 = p1  p2 = p2  None = None
  Clients <- Screens
  Playlists <- TwoLists
  Group <- Both
  Sched <- Plan
  Ranks = {1, 2}
  Minutes = {0, 1}
  MaxHandlers = 2
  MaxBegun = 3
  MaxDay = 1
PROPERTIES ScreensFollow FiresOnce ScreenCatchesUp
CHECK_DEADLOCK FALSE
