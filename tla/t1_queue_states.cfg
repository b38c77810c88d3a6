CONSTANTS
    NumProcesses = 2
    MaxIterations = 2
    MaxTime = 3
    MaxIter = 3
    KernelPids = {"nobody"}
SPECIFICATION Spec
INVARIANT QueuedAreReady
CHECK_DEADLOCK FALSE
