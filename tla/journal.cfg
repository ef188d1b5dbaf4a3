SPECIFICATION Spec
CONSTANTS
    p1 = p1
    p2 = p2
    o1 = o1
    o2 = o2
    Process <- Processes
    NoProcess = NoProcess
    Op <- Batch
    NoOp = NoOp
    Large = {o2}
    MaxFrames = 4
    PageSize = 2
INVARIANTS TypeOK JournalOpens MemoryIsJournal ObservedIsHistory
PROPERTY ImplementsLog
