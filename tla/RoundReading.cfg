SPECIFICATION Spec
CONSTANTS
    Content <- MCContent
    Names <- MCNames
    Tasks <- MCTasks
    ApplyRecords <- MCApplyRecords
    NewDocuments = {"plain", "kept"}
    Blank = {" "}
    Unavailable = "unavailable"
    None = "none"
    NoFile = "nofile"
    Lexical <- MCLexical
    MaxNodes = 3
    MaxParagraphs = 5
    MaxUnits = 2
    ObservationWeight = 4
    PageWeight = 5
    SampleSize = 2
INVARIANTS
    PagesAreOneResult
    UnrelatedChangesTolerated
    HistoryIsOneMoment
    ReadingsAreTrue
CHECK_DEADLOCK FALSE
