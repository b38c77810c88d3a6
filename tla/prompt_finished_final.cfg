CONSTANTS
    NumApps = 2
    MaxIteracoes = 1
    QueueSize = 2
    IrqPipeCap = 3
    Workload = {"REQ_LISTDIR"}
    Lossy = FALSE
SPECIFICATION PromptSpec
PROPERTY FinishedIsFinal
CHECK_DEADLOCK FALSE
