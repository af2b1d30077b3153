SPECIFICATION Spec
CONSTANTS
    Jobs <- SyntaxError
    MaxFDs = 5
    PipeSize = 1
    ReadSize = 1
    FillSize = 2
    EchoSize = 2
    Word = 8
PROPERTIES
    HelpersEnd
