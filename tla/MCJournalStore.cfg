SPECIFICATION Spec
CONSTANTS
  t1 = t1
  t2 = t2
  a = a
  b = b
  c = c
  p1 = p1
  None = None
  StateId <- MCStateId
  TransitionId <- MCTransitionId
  ReceiptPair <- MCReceiptPair
  MaxGeneration <- MCMaxGeneration
  Proc <- MCProc
  Reader <- MCReader
  Record <- MCRecord
INVARIANTS
  SurvivorsAreWhole
  OpenAdmits
  OldOrNew
  AcknowledgedIsDurable
PROPERTIES
  ImplementsJournal
