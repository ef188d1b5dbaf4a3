SPECIFICATION Spec
SYMMETRY Symmetry
CONSTANTS
    Message = {m1, m2, m3, m4}
    NoMessage = NoMessage
    MaxLog = 6
    MaxBranch = 1
INVARIANTS OwnPromptsKept NeverAgain RestartIsInvisible
