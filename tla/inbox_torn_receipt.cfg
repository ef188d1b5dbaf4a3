SPECIFICATION Spec
CONSTANTS
    Sender = {s1, s2}
    NoSender = NoSender
    MaxRuns = 2
INVARIANT AcceptedWhole
CHECK_DEADLOCK FALSE
