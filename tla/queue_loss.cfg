SPECIFICATION Spec
SYMMETRY Symmetry
CONSTANTS
    Message = {m1, m2, m3}
    NoMessage = NoMessage
    MaxLog = 4
    MaxBranch = 1
INVARIANT NothingLost
