SPECIFICATION Spec
CONSTANTS
    a = a
    b = b
    d = d
    e = e
    save = save
    resave = resave
    original = original
    redline = redline
    redline2 = redline2
    redline3 = redline3
    typed = typed
    Call = {a, b}
    Recoverer = {r}
    Reader = reader
    Op = {save}
    Request <- RetriedSave
    Initial = original
    WordContent = {typed}
    Absent = absent
    Damaged = damaged
    NoOne = noone
    MaxSessions = 0
    MaxFaults = 2
    SyncFaults = FALSE
    DirectoryFaults = TRUE
INVARIANTS
    DurableRecordPrecedesPublication
CHECK_DEADLOCK FALSE
