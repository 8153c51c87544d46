CONSTANTS
    c1 = c1  c2 = c2
    Conns = {c1, c2}
    MaxSends = 1
    MaxWrites = 2
    MaxLen = 2
SPECIFICATION FairSpec
CHECK_DEADLOCK FALSE
INVARIANTS DispatchIsSafe PendingOutputIsKept
PROPERTY ClosedLinkIsRemoved
