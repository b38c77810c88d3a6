CONSTANTS
    NumApps = 2
    MaxIteracoes = 1
    QueueSize = 2
    IrqPipeCap = 3
    Workload = {"REQ_LISTDIR", "REQ_READ"}
    Lossy = FALSE
SPECIFICATION FairPromptSpec
PROPERTY EveryCallIsAnswered NoStarvation ShutdownFollows
CHECK_DEADLOCK FALSE
