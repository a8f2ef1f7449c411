SPECIFICATION FairSpec
CONSTANTS
    NULL = NULL
    Ids = {"a", "b", "c", "d", "e", "f", "g"}
    Key <- SevenKeys
    PriValues = 4
    Estimate = 2
INVARIANTS
    HeapInv
    RootFirst
    DumpSorted
PROPERTIES
    ImplementsQueue
    OperationEnds
