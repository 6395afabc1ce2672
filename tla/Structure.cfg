SPECIFICATION Spec
CONSTANTS
  Us = "us"
  Inherit = "inherit"
  Opens = "open"
  Closes = "close"
  Begins = "begin"
  Ends = "end"
  Unnamed = "none"
  NotListed = "0"
  DefaultStyle = "Body"
  DefaultList = "none"
  Lists <- MCLists
  Styles <- MCStyles
  Documents <- MCDocuments
  NewTexts <- MCNewTexts
  MaxParagraphs = 5
  MaxRows = 4
  MaxWritten = 2
  MaxSaves = 2
  MaxPairs = 1
CHECK_DEADLOCK FALSE
INVARIANTS
  BatchesAreWords
  ProposalsStayWhole
  NumberingIsWords
