SPECIFICATION EvidenceSpec
CONSTANTS
  d1 = d1
  d2 = d2
  Descendant <- Descendants
  Capacity = 1
  MaxOutput = 2
  Limit = 1
INVARIANTS
  OnlyOwnGroup
CHECK_DEADLOCK FALSE
