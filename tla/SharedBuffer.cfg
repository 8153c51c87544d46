CONSTANTS
    w1 = w1  w2 = w2  r1 = r1  r2 = r2  c = c
    NoThread = NoThread  NoByte = NoByte
    Threads = {w1, w2, r1, r2, c}
    Creator = c
    BufSize = 2
    Programs <- MCPrograms
    Mortal <- MCMortal
    MayShutdown = TRUE
    MaxSpurious = 1
SPECIFICATION FairSpec
INVARIANTS StreamInOrder RingHoldsTheRest CallsNeverMix NoLostWakeup ResultIsRight
PROPERTIES ImplementsQueue SealedAfterDeath ShutdownReleases AllTransfersComplete
