SPECIFICATION Spec
CONSTANTS
    Elements = {"a", "b"}
    NoElement = NoElement
    LIST_MAXSIZE = 4
    LIST_LIMIT = 2
    MaxLength = 10
INVARIANTS
    NodesFilled
    Cleared
PROPERTY
    ImplementsList
CHECK_DEADLOCK FALSE
