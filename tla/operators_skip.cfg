SPECIFICATION Spec
CONSTANTS
    MaxParams = 3
    MaxInterrupts = 1
    Expressions <- SkippingExpressions
INVARIANTS
    NoOperandSkipped
