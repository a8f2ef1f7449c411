SPECIFICATION DumpSpec
CONSTANTS
    NULL = NULL
    TaskSystem <- TwoTasks
    Rho = {0}
    BreakTimes = {3, 4, 6}
    Speeds = {1, 2}
    OverrunBreak = {FALSE, TRUE}
    AllowFirstOverrun = {FALSE}
    ContinueAfter = {}
    Restores = 1
    Drops = TRUE
    Cuts = TRUE
INVARIANTS
    ResumeInv
    ResumedSeparation
    NextJobThere
    DumpedTaskReleases
    EarlyOnlyFirst
    OverrunGenuine
CHECK_DEADLOCK FALSE
