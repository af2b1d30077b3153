SPECIFICATION Spec
CONSTANTS
    Jobs <- OneAfterAnother
    MaxFDs = 5
    PipeSize = 2
    ReadSize = 2
    FillSize = 2
    EchoSize = 2
    Word = 8
INVARIANTS
    ReadsOwnSource
    ReturnsOwnOutput
    DescriptorsReturned
PROPERTIES
    ClosesOwnDescriptors
    
    
