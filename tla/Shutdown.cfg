SPECIFICATION FairSpec
CONSTANTS
    Tasks <- TwoTasks
    Works <- OneWork
    Queues <- TwoQueues
    MaxRows = 2
    MaxStarts = 3
    MaxSignals = 3
    MaxFails = 2
    MaxExits = 2
INVARIANTS TypeOK DrainIsUndisturbed ClosedIsQuiet ExitIsClean
PROPERTY StopIsAnswered
CHECK_DEADLOCK FALSE
