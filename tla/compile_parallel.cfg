SPECIFICATION Spec
CONSTANTS
    Jobs <- SideBySide
    MaxFDs = 8
    PipeSize = 1
    ReadSize = 1
    FillSize = 2
    EchoSize = 2
    Word = 8
PROPERTIES
    ClosesOwnDescriptors
