SPECIFICATION FairSpec
CONSTANTS
  Procs = {d0, d1, d2, d3}
  Root = d0
  Clients = {c1, c2, c3}
  Strangers = {c3}
  MAX_CHILDREN = 2
  MaxCrashes = 1
  None = None
INVARIANTS
  TypeOK OwnAnswer OneReader LossesNeedCrashes
PROPERTY
  EveryClientAnswered
