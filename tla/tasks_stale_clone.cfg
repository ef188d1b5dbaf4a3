SPECIFICATION Spec
CONSTANTS
    TaskId = {1, 2, 3, 4}
    NoTask = NoTask
    CreateArgs <- Family
    Policies = {"all_settled", "fail_fast"}
    MaxOps = 1
INVARIANT SettledOwnsNothing
