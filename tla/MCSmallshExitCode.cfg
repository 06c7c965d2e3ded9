SPECIFICATION Spec
CONSTANTS
  Pids = {p1, p2}
  InitCap = 1
  MaxCap = 2
  MaxKeys = 0
SYMMETRY PidSymmetry
INVARIANT ExitCodeAsGiven
