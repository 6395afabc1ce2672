SPECIFICATION Spec
CONSTANTS
    r1 = r1
    r2 = r2
    r3 = r3
    r4 = r4
    r5 = r5
    d1 = d1
    MaxCalls = 4
    MaxAtOnce = 2
    Request = {r1, r2, r3, r4, r5}
    NoPlan = noplan
    Digest = {d1}
    NoDigest = nodigest
    Attempt <- Attempts
    Openings <- FreshOrStarted
    MaxLosses = 1
VIEW StateView
INVARIANTS
    AnswersHold
    RecordedOnce
    StateResolves
    KitsAccountedFor
PROPERTIES
    StoresOnlyExtend
    KitOnItsBasis
CHECK_DEADLOCK FALSE
