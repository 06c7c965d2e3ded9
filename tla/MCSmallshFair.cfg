SPECIFICATION FairSpec
CONSTANTS
  Pids = {p1, p2}
  InitCap = 1
  MaxCap = 1
  MaxKeys = 1
PROPERTY ReturnsToPrompt
