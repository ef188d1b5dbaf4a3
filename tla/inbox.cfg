SPECIFICATION Spec
SYMMETRY Symmetry
CONSTANTS
    Sender = {s1, s2, s3, s4}
    NoSender = NoSender
    MaxRuns = 3
INVARIANTS DeliveredOnce AckedArrives
CHECK_DEADLOCK FALSE
