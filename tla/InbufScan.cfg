CONSTANTS
    Streams <- AllStreams
    Patterns <- AllPatterns
    PcreExec <- ExecOf
    HasCallouts <- CalloutsIn
    Chars <- AllChars
    MaxRead = 2
    MaxFill = 3
    High = {}
SPECIFICATION InbufSpec
CHECK_DEADLOCK FALSE
INVARIANT EveryRunBringsInput
PROPERTY ImplementsStream
