SPECIFICATION Spec
CONSTANTS
    TaskId = {1, 2, 3}
    NoTask = NoTask
    CreateArgs <- ThreeTasks
    Policies = {"all_settled"}
    MaxOps = 2
INVARIANTS
    TypeOK
    NoWaitCycle
    NoLostWakeup
    SettledOwnsNothing
    AbortIsFinal
    ReconcileSettles
    RecoveryNeverConflicts
    RevisionCoversChange
PROPERTIES
    RecoveryIsSafe
    SettledForever
