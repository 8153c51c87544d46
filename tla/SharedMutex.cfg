CONSTANTS
    t1 = t1  t2 = t2  t3 = t3  Creator = Creator  NoThread = NoThread
    SIGTERM = SIGTERM  SIGHUP = SIGHUP  SIGUSR1 = SIGUSR1
    Processes = {{t1, t2}, {t3}}
    Signals = {SIGTERM, SIGHUP, SIGUSR1}
    InitialMask <- DifferentMasks
    Mortal = {{t1, t2}, {t3}}
SPECIFICATION FairSpec
CHECK_DEADLOCK FALSE
INVARIANTS BlockedWhileHeld MaskRestored
PROPERTY SigtermTerminates
