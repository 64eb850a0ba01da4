SPECIFICATION FairRegistry
CONSTANTS
  c1 = c1  s1 = s1  s2 = s2  None = None
  Clients <- OneClient
  Sockets <- TwoSockets
  Owner <- MCOwner
  Reports = {"online"}
  MaxPending = 1
INVARIANTS RegistryTypeOK OneSession
PROPERTIES DeadEntriesLeave StatusFollows
