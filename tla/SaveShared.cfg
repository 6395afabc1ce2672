SPECIFICATION Spec
CONSTANTS
    a = a
    b = b
    d = d
    e = e
    save = save
    resave = resave
    original = original
    redline = redline
    redline2 = redline2
    redline3 = redline3
    typed = typed
    Call = {a, b, d, e}
    Recoverer = {r}
    Reader = reader
    Op = {save, resave}
    Request <- Requests
    Initial = original
    WordContent = {typed}
    Absent = absent
    Damaged = damaged
    NoOne = noone
    MaxSessions = 1
    MaxFaults = 2
    SyncFaults = TRUE
    DirectoryFaults = FALSE
CONSTRAINTS
    OneOther
INVARIANTS
    PreparedBeforePublished
    StatementsAreTrue
    SavedIsDurable
PROPERTIES
    ReplacedVersionIsBackedUp
    LedgerImplemented
CHECK_DEADLOCK FALSE
