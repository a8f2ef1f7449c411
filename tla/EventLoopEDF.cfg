SPECIFICATION FairSpec
CONSTANTS
    NULL = NULL
    TaskSystem <- LoHi
    Rho = {0, 1}
    BreakTimes = {4, 7}
    Speeds = {1, 2}
    OverrunBreak = {FALSE}
    AllowFirstOverrun = {FALSE}
    ContinueAfter = {"EVL_OK", "EVL_PASS"}
INVARIANTS
    TypeOK
    NoUndetectedMiss
    ArrivalOrder
    WindowBounded
    GeneratorCoversTasks
    SporadicSeparation
    OKAtBreaktime
PROPERTIES
    ImplementsEDF
CHECK_DEADLOCK FALSE
