CONSTANTS
    NumApps = 1
    MaxIteracoes = 3
    QueueSize = 4
    IrqPipeCap = 3
    Workload = {"REQ_WRITE"}
    Lossy = FALSE
    MaxPresses = 2
SPECIFICATION FairDebugSpec
PROPERTY AnsweredDespiteKeys
CHECK_DEADLOCK FALSE
