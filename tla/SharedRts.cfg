CONSTANTS
    N = 3
    Pids = {101, 102, 103}
    ForkMayFail = TRUE
SPECIFICATION FairSpec
INVARIANTS ChildsAreKnown GroupIsReaped
 
