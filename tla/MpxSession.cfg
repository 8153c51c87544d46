CONSTANTS
    Chars = {"d", "g", "n", "x"}
    Streams <- AllStreams
    Patterns <- AllPatterns
    PcreExec <- ExecOf
    Threshold = 1
    MinSpace = 2
    MaxPackets = 1
SPECIFICATION SessionSpec
CHECK_DEADLOCK FALSE
INVARIANTS RequestsAreRight BufferHoldsTheRest NoRequestLeftBehind
