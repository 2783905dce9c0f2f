SPECIFICATION Spec
CHECK_DEADLOCK FALSE
CONSTANTS
  ReferenceModulus = 2
  MaxBudget = 2
  MaxWidth = 2
  AreaEnd = 2
  MaxItems = 2
  MaxBytes = 2
  MaxData = 11
  Starts = {0, 1}
  ByteCounts = {0, 1, 2}
  MaxEvents = 4
INVARIANTS
  OracleAgrees
  EverySendAccounted
  ControlsEnd
  ConversationAgreesOnRequests
