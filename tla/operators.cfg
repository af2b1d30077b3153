SPECIFICATION Spec
CONSTANTS
    MaxParams = 3
    MaxInterrupts = 3
    Expressions <- ResumableExpressions
INVARIANTS
    SavedValueSurvives
    EntriesAreUsedUp
PROPERTIES
    AnswersOnceInOrder
