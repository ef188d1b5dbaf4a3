SPECIFICATION Spec
SYMMETRY Symmetry
CONSTANTS
    Thread = {t1, t2}
    Amount = {2}
    Limit = {3}
    NoLimit = NoLimit
    Child = {k1, k2}
    MaxChildren = 1
    MaxOutstanding = 2
    MaxId = 2
    MaxRequests = 3
    Lost = Lost
INVARIANTS TypeOK OwnReservation RestartIsConservative OverrunStops ChildrenBounded
PROPERTY LimitHolds
