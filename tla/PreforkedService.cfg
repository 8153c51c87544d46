CONSTANTS
    N = 2
    MaxConnections = 4
    MaxFailures = 2
    MaySignal = TRUE
    ForkMayFail = TRUE
SPECIFICATION FairService
CHECK_DEADLOCK FALSE
PROPERTIES SlotIsRefilled EveryConnectionAccepted NoWaitingChildForgotten
