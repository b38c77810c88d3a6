CONSTANTS
    NumApps = 2
    MaxIteracoes = 2
    QueueSize = 2
    IrqPipeCap = 3
    Workload = {"REQ_CREATE_DIR"}
    Lossy = FALSE
SPECIFICATION FilesSpec
INVARIANT OneAnswerEach NothingLeftOver AnswersAreSequential
PROPERTY NoReplyDiscarded ImplementsBlockingCalls
CHECK_DEADLOCK FALSE
