SPECIFICATION DumpSpec
CONSTANTS
    NULL = NULL
    TaskSystem <- TwoTasks
    Rho = {0}
    BreakTimes = {3, 6}
    Speeds = {2}
    OverrunBreak = {FALSE}
    AllowFirstOverrun = {FALSE}
    ContinueAfter = {}
    Restores = 1
    Drops = FALSE
    Cuts = FALSE
PROPERTY
    JobsKept
CHECK_DEADLOCK FALSE
