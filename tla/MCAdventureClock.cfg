SPECIFICATION MCFairSpec
CONSTANTS
  MaxTime = 4
  MaxSessions = 2
INVARIANTS
  TypeOK ReadAfterWrite
PROPERTIES
  GarbageOnlyAfterKill FreshAfterItsTurn TimeCommandEnds
