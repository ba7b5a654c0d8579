SPECIFICATION EvidenceSpec
CONSTANTS
  d1 = d1
  d2 = d2
  Descendant <- Descendants
  Capacity = 1
  MaxOutput = 3
  Limit = 1
INVARIANTS
  TypeOK
  FaithfulCapture
  GroupTerminated
  Drained
  VerdictOnWholeOutput
PROPERTIES
  ReturnsAndReaps
  ImplementsHelperCall
CHECK_DEADLOCK FALSE
