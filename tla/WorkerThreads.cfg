CONSTANTS
    Worker = {w1, w2, w3}
    MaxJobs = 2
    MaxSpurious = 1
SPECIFICATION FairSpec
CHECK_DEADLOCK FALSE
INVARIANTS
    ExclusiveUntilExit
    JobsRunOnce
PROPERTIES
    ClearTerminates
