SPECIFICATION Spec
CONSTANTS
  None = None
  Authors = {"us", "them"}
  MaxCommentId = 9
  MaxSelected = 4
  ForeignParaIds = {5}
  Received <- MCReceived
  Texts = {"t", "u"}
  MaxOperations = 3
CHECK_DEADLOCK FALSE
INVARIANTS
  ThreadsStayWhole
  Withdrawable
PROPERTIES
  OperationsAreLocal
