SPECIFICATION FairSpec
CONSTANTS
    IntLimit = 2
    LongLimit = 5
    Counters <- SomeCounters
    Limits <- SomeLimits
    Steps <- SomeSteps
INVARIANTS
    OrderIsTotal
    SubtractUndoesAdd
    DivisionFitsRemainder
PROPERTIES
    CountsAsIntegers
    LoopEnds
CHECK_DEADLOCK FALSE
