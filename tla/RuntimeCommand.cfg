SPECIFICATION Spec
CONSTANTS
  d1 = d1
  d2 = d2
  Descendant <- Descendants
  Capacity = 1
  MaxOutput = 3
  Limit = 1
INVARIANTS
  TypeOK
  OnlyOwnGroup
PROPERTIES
  ReturnsAndReaps
  ImplementsHelperCall
CHECK_DEADLOCK FALSE
