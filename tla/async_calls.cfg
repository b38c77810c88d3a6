CONSTANTS
    NumApps = 2
    MaxIteracoes = 2
    QueueSize = 3
    IrqPipeCap = 1
    Workload = {"REQ_LISTDIR", "REQ_WRITE"}
    Lossy = FALSE
SPECIFICATION Spec
CONSTRAINT OnlyA1Varies
INVARIANT BlockedAwaitsReply
PROPERTY RequestsConserved
CHECK_DEADLOCK FALSE
