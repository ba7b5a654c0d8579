SPECIFICATION CompareSpec
CONSTANTS
  Reports <- MCReports
  Sorted <- MCSorted
  MaxChanges = 2
INVARIANTS
  TruncatedMeansMore
CHECK_DEADLOCK FALSE
