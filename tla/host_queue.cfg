SPECIFICATION Spec
CONSTANTS
    r1 = r1
    r2 = r2
    c1 = c1
    c2 = c2
    NoRequest = NoRequest
    Request = {r1, r2}
    Call = {c1, c2}
    CallIds <- TwoThenNone
    MaxChunk = 0
    MaxLive = 1
    MaxInput = 2
INVARIANT QueueContinues
