SPECIFICATION FairSpec
CONSTANTS
    NULL = NULL
    TaskSystem <- LoHi
    Rho = {0}
    BreakTimes = {4, 10}
    Speeds = {1, 2}
    OverrunBreak = {FALSE, TRUE}
    AllowFirstOverrun = {FALSE, TRUE}
    ContinueAfter = {"EVL_OK", "EVL_PASS", "EVL_OVERRUN", "EVL_DEADLINEMISS"}
INVARIANTS
    IInv
    JobsConserved
PROPERTIES
    TimeMonotone
    RunTerminates
CHECK_DEADLOCK FALSE
