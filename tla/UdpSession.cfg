CONSTANTS
    s1 = s1  s2 = s2
    Sessions = {s1, s2}
    Retries = {1, 2}
    MaxFirst = 2
    MaxSends = 2
    MaxWrites = 2
SPECIFICATION FairSpec
CHECK_DEADLOCK FALSE
INVARIANTS DispatchIsSafe SentInOrder PendingOutputIsSent
PROPERTY ClosedLinkIsRemoved
