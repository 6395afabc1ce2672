SPECIFICATION FairSpec
CONSTANTS
    a = a
    b = b
    d = d
    e = e
    save = save
    resave = resave
    original = original
    redline = redline
    redline2 = redline2
    redline3 = redline3
    typed = typed
    Call = {a, d}
    Recoverer = {r}
    Reader = reader
    Op = {save}
    Request <- ReusedId
    Initial = original
    WordContent = {typed}
    Absent = absent
    Damaged = damaged
    NoOne = noone
    MaxSessions = 1
    MaxFaults = 1
    SyncFaults = FALSE
    DirectoryFaults = FALSE
INVARIANTS
    CertifiedIsDurable
PROPERTIES
    RecoveryCompletes
    CallsEnd
CHECK_DEADLOCK FALSE
