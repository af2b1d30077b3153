SPECIFICATION FairSpec
CONSTANTS
    Nil = Nil
    Null = Null
    NoFrame = NoFrame
    Value <- AllValues
    DefaultLabel = "default"
    Truthy <- TrueValues
    Truths <- Comparisons
    HostValues <- Vals
    Programs <- ResumablePrograms
    QueueAllocated = TRUE
    MaxAnswers = 4
    MaxInterrupts = 2
    MaxRuns = 1
INVARIANTS
    ResumesWhereInterrupted
    StackBalanced
    ReturnIsFinal
PROPERTIES
    FollowsFlow
