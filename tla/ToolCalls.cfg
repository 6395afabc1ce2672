SPECIFICATION Spec
CONSTANTS
  None = None
  Drafts <- MCDrafts
  Wordings = {"fee", "term", "law", "cap"}
  Says <- MCSays
  Said <- MCSaid
  MaxBatch = 2
  MaxNewText = 2
  Servers = {"ann", "bob"}
  Listing <- MCListing
  Quotes <- MCQuotes
  First <- MCFirst
  Author <- MCAuthor
  Build <- MCBuild
  Recording = {"ann"}
  Changes <- MCChanges
  Unprovable <- MCUnprovable
  MaxCalls = 3
  MaxPreflights = 1
  MaxApplies = 2
  MaxQuestions = 1
  MaxSaves = 1
  MaxFaults = 1
INVARIANTS
  AnswersTellTheTruth
  RecordsTellTheTruth
PROPERTIES
  OutputsAreWhatWasPreviewed
CHECK_DEADLOCK FALSE
