SPECIFICATION FairSpec
CHECK_DEADLOCK FALSE
CONSTANTS
  t1 = t1
  t2 = t2
  None = None
  Active = 1
  Archived = 2
  Fresh = 3
  StateId <- MCStateId
  TransitionId <- MCOneTransition
  ReceiptPair <- MCReceiptPair
  MaxGeneration <- MCMaxGeneration
PROPERTIES
  ArchiveIntentSettles
