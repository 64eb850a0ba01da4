\* Servers that start on one database, with a crash and a rollback.
SPECIFICATION FairSpec
CONSTANTS
  Backends <- MCBackends
  Servers = {s1, s2}
  Legacy <- MCLegacy
  Targets <- MCTargets
  MaxCrashes = 1
  MaxRollbacks = 1
INVARIANTS SchemaSound
 
CHECK_DEADLOCK FALSE
