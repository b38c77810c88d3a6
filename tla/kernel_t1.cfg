CONSTANTS
    NumProcesses = 3
    MaxIterations = 1
    MaxTime = 3
    MaxIter = 3
    KernelPids = {"nobody", "group"}
SPECIFICATION Spec
CONSTRAINT QueueFits
INVARIANT OneRunning ReadyIsQueued BlockedOnD1IsListed
CHECK_DEADLOCK FALSE
