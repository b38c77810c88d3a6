CONSTANTS
    NumApps = 2
    MaxIteracoes = 1
    QueueSize = 1
    IrqPipeCap = 2
    Workload = {"REQ_LISTDIR", "REQ_WRITE"}
    Lossy = TRUE
SPECIFICATION Spec
INVARIANT TypeOK OneExecutes RunningMayExecute Addressed
CHECK_DEADLOCK FALSE
