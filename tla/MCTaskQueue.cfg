CONSTANTS
    Workers = {w1, w2}
    MaxTasks = 2
    NumSteps = 2
    MaxCrashes = 1
SPECIFICATION Spec
INVARIANTS TypeOK OncePerWorker RunningIsHeld OutcomeMatchesSteps
PROPERTIES QueuedSettles ImplementsLifecycle
CHECK_DEADLOCK FALSE
