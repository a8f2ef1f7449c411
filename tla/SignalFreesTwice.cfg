SPECIFICATION SignalSpec
CONSTANTS
    NULL = NULL
    TaskSystem <- TwoTasks
    Rho = {0}
    BreakTimes = {3, 6}
    Speeds = {1}
    OverrunBreak = {FALSE}
    AllowFirstOverrun = {FALSE}
    ContinueAfter = {}
    Restores = 1
    Drops = FALSE
    Cuts = FALSE
INVARIANT
    SignalFreesOnce
CHECK_DEADLOCK FALSE
