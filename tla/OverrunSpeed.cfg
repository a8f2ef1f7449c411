SPECIFICATION Spec
CONSTANTS
    NULL = NULL
    TaskSystem <- LoHi
    Rho = {0, 3}
    BreakTimes = {7}
    Speeds = {3}
    OverrunBreak = {TRUE}
    AllowFirstOverrun = {FALSE}
    ContinueAfter = {"none"}
INVARIANT
    OKAtBreaktime
CHECK_DEADLOCK FALSE
