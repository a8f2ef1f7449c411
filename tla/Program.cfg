SPECIFICATION Spec
CONSTANTS
    NULL = NULL
    Characters <- SomeCharacters
    STATE_PREFIXBUFLEN = 3
    Arguments <- SomeArguments
    Words <- SomeWords
    MaxTyped = 3
    Disk <- SomeDisk
INVARIANTS
    Understood
    DumpLeft
    OptionsEnd
CHECK_DEADLOCK FALSE
