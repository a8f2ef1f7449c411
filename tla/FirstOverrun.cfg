SPECIFICATION Spec
CONSTANTS
    NULL = NULL
    TaskSystem <- LoHi
    Rho = {0}
    BreakTimes = {9}
    Speeds = {1}
    OverrunBreak = {TRUE}
    AllowFirstOverrun = {TRUE}
    ContinueAfter = {"none"}
INVARIANT
    FirstOverrunTolerated
CHECK_DEADLOCK FALSE
