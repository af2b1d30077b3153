SPECIFICATION Spec
CONSTANTS
    Nil = Nil
    Null = Null
    NoFrame = NoFrame
    Value <- AllValues
    DefaultLabel = "default"
    Truthy <- TrueValues
    Truths <- Comparisons
    HostValues <- Vals
    Programs <- DoBreakOnly
    QueueAllocated = FALSE
    MaxAnswers = 3
    MaxInterrupts = 0
    MaxRuns = 1
INVARIANT BreakStopsAtLoop
