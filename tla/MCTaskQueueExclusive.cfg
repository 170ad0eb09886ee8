CONSTANTS
    Workers = {w1, w2}
    MaxTasks = 1
    NumSteps = 1
    MaxCrashes = 0
SPECIFICATION Spec
INVARIANTS ExclusiveExecution
CHECK_DEADLOCK FALSE
