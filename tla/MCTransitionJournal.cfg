SPECIFICATION Spec
CHECK_DEADLOCK FALSE
CONSTANTS
  t1 = t1
  p1 = p1
  p2 = p2
  None = None
  StateId <- MCStateId
  TransitionId <- MCTransitionId
  ReceiptPair <- MCReceiptPair
  MaxGeneration <- MCMaxGeneration
SYMMETRY MCSymmetry
INVARIANTS
  RecoveryRouteExists
  FreshRowNotForgotten
PROPERTIES
  CommitIsFinal
