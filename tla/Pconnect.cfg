CONSTANTS
    Pipes = {1, 2}
    Forks = {4}
    Fds = {5, 6, 7}
    None = None
SPECIFICATION FairSpec
CHECK_DEADLOCK FALSE
INVARIANT EndsAreProtected
PROPERTY HangupReturns
