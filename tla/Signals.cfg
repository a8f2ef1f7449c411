SPECIFICATION SignalSpec
CONSTANTS
    NULL = NULL
    TaskSystem <- TwoTasks
    Rho = {0}
    BreakTimes = {3, 4, 6}
    Speeds = {1, 2}
    OverrunBreak = {FALSE, TRUE}
    AllowFirstOverrun = {FALSE, TRUE}
    ContinueAfter = {}
    Restores = 1
    Drops = FALSE
    Cuts = FALSE
INVARIANTS
    ExitFreesOnce
    MissNotHidden
    ResumedSeparation
PROPERTY
    QueuedJobsKept
CHECK_DEADLOCK FALSE
