SPECIFICATION MCFairSpec
CONSTANTS
    p0 = p0
    p1 = p1
    p2 = p2
    none = none
    Procs <- MCProcs
    Shell = p0
    NoProc = none
    MaxJobs = 2
    MaxLines = 3
    MaxKeys = 2
INVARIANTS PromptMeansReaped CtrlCSparesJobs ExitTermsJobs OneReader
PROPERTY WaitEnds
CHECK_DEADLOCK FALSE
