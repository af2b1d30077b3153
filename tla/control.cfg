SPECIFICATION FairSpec
CONSTANTS
    Nil = Nil
    Null = Null
    NoFrame = NoFrame
    Value <- AllValues
    DefaultLabel = "default"
    Truthy <- TrueValues
    Truths <- Comparisons
    HostValues <- Vals
    Programs <- AllPrograms
    QueueAllocated = FALSE
    MaxAnswers = 3
    MaxInterrupts = 1
    MaxRuns = 2
INVARIANTS
    TypeOK
    StackBalanced
    BreakStopsAtLoop
    ReturnIsFinal
    NoJumpPending
PROPERTIES
    FollowsFlow
    OnlyHostRaises
    EveryRunEnds
