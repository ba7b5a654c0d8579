SPECIFICATION Spec
CONSTANTS
  N = 4
  MaxConcurrent = 2
  Kind <- MCKind
  Timeout = "timeout"
  Fallback = "other"
INVARIANTS
  TypeOK
  BoundedConcurrency
  WorkConserving
  FaithfulReport
PROPERTIES
  Returns
  ImplementsOrderedEvidence
CHECK_DEADLOCK FALSE
