SPECIFICATION Spec
CONSTANTS
    Process = {p1, p2}
    NoProcess = NoProcess
    N = 2
    MaxEdits = 2
    MaxFaults = 3
INVARIANTS EditsSurvive Journaled ReceiptIsTrue
PROPERTY RecoveryCompletes
