SPECIFICATION Spec
CONSTANTS
    MaxRetained = 2
    MaxJobs = 2
    MaxWakes = 2
    MaxBatch = 1
    Task = {t1}
    NoTask = NoTask
    StartArgs <- TwoJobs
INVARIANTS ToldOnce ToldIsFinal
PROPERTY WatchServed
CHECK_DEADLOCK FALSE
