CONSTANTS
    p1 = p1  p2 = p2  p3 = p3  parent = parent
    NoThread = NoThread
    Procs = {p1, p2, p3}
    Creator = parent
    Mortal = {p1, p2, p3}
    MayShutdown = TRUE
    MaxCalls = 2
    MaxSpurious = 1
SPECIFICATION FairSpec
INVARIANT BarrierSafety
PROPERTIES ImplementsRounds ShutdownReleases BarrierReleases
