\* The commands of a deal, in five sessions of up to seven requests.
SPECIFICATION Spec
CONSTANTS
    r1 = r1 r2 = r2 dirty = dirty clean = clean work = work kit = kit o1 = o1 o2 = o2 i1 = i1 p1 = p1 p2 = p2
    Round = {r1, r2}
    NoRound = noround
    Doc = {dirty, clean}
    NoDoc = nodoc
    Path = {work}
    NoPath = nopath
    Folder = {kit}
    Operation = {o1, o2}
    NoOperation = nooperation
    Intent <- MCIntent
    Issue = {i1}
    NoIssue = noissue
    Choice = {"approve", "defer"}
    Proposal <- MCProposal
    RevisionFree = {clean}
    Rendered <- MCRendered
    Saved <- MCSaved
    Session <- MCSession
    Position = {p1, p2}
    MaxPositions = 2
    MaxHistory = 3
    MaxRequests = 7
INVARIANTS
    AcceptedCommandsAreValid
    RecordsStandLater
PROPERTIES
    KitUnchangedSincePreview
    FinalizationImplemented
