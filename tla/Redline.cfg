SPECIFICATION Spec
CONSTANTS
  None = None
  Chars = {"a", "b", "x"}
  Authors = {"us", "them"}
  Us = "us"
  MaxRevisionId = 5
  Draft <- MCDraft
  WordTexts <- MCWordTexts
  EditBatches <- MCEditBatches
  DraftBatches <- MCDraftBatches
  DecisionBatches <- MCDecisionBatches
  BatchMin = 2
  MaxPending = 2
  MaxDecided = 3
  MaxLength = 3
INVARIANTS
  DecisionsAreSimultaneous
  ChecksNeverFail
  CleanCopyIsTheReading
PROPERTIES
  EditsCanBeRejected
  OnlyDecisionsSettle
