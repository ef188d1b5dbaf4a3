SPECIFICATION Spec
SYMMETRY Symmetry
CONSTANTS
    r1 = r1
    r2 = r2
    c1 = c1
    c2 = c2
    NoRequest = NoRequest
    Request = {r1, r2}
    Call = {c1, c2}
    CallIds <- TwoThenNone
    MaxChunk = 3
    MaxLive = 2
    MaxInput = 2
INVARIANT TypeOK
INVARIANT UsersInOrder
INVARIANT TranscriptPaired
INVARIANT EffectOnce
INVARIANT RunsAlone
INVARIANT RecoverableText
PROPERTY AbortSticks
CONSTRAINT TextOrTools
