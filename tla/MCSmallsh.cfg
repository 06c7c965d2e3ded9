SPECIFICATION Spec
CONSTANTS
  Pids = {p1, p2, p3}
  MaxCap = 2
  InitCap = 1
  MaxKeys = 1
SYMMETRY PidSymmetry
INVARIANTS
  TypeOK ArrayInBounds PromptMeansReaped LiveJobsListed ExitKillsUnlessRaced
PROPERTY TogglesAfterKnownChild
