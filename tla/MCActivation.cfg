SPECIFICATION FairSpec
CHECK_DEADLOCK FALSE
CONSTANTS
  t1 = t1
  t2 = t2
  None = None
  Active = 1
  Archived = 2
  Fresh = 3
  StateId <- MCStateId
  TransitionId <- MCTwoTransitions
  ReceiptPair <- MCReceiptPair
  MaxGeneration <- MCMaxGeneration
INVARIANTS
  EvidenceAdmits
  RecordedIsDurable
  PromotedNeverRolledBack
  CommittedIsBootable
  RowIsOwned
PROPERTIES
  KeepsContract
  ExchangeSettles
