SPECIFICATION FileSpec
CONSTANTS
    Configs <- SomeConfigs
    DEFAULT_STACK_SIZE = 1
    DEFAULT_BUFFER_SIZE = 2
    Memory = 16
    Words <- SomeWords
    Data <- SomeData
    MaxWords = 6
    MaxEvents = 5
    INTMAX = 127
    MaxExponent = 8
    RoundedToMin <- NearMin
INVARIANTS
    InBounds
    WellNested
    DoneMeansComplete
    TextsWellFormed
    CommentsNeutral
    RoundTrip
    NumbersFaithful
CHECK_DEADLOCK FALSE
