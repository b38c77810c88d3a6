CONSTANTS
    NumApps = 2
    MaxIteracoes = 1
    QueueSize = 2
    IrqPipeCap = 3
    Workload = {"REQ_LISTDIR"}
    Lossy = FALSE
SPECIFICATION FairPromptSpec
PROPERTY EachAppFinishes
CHECK_DEADLOCK FALSE
