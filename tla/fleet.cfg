\* Pushes, notifications and alerts: two requests side by side.
SPECIFICATION FairSpec
CONSTANTS
  c1 = c1  c2 = c2  g1 = g1  p1 = p1  h1 = h1  h2 = h2
  Handlers = {h1, h2}
  Backends <- All
  Studied <- Parts
  Starts <- First
  Screen = {c1, c2}
  Group = {g1}
  Players = {c1, c2}
  Playlist = {p1}
  MaxSchedules = 2
  MaxRules = 3
  MaxRequests = 2
  MaxCrashes = 0
  Window = 7
  Sustained = 3
INVARIANTS OperatorsAreTold SustainedIsTold
PROPERTIES ChangesAreTold EveryRequestEnds
CHECK_DEADLOCK FALSE
