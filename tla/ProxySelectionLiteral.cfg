SPECIFICATION Spec
CONSTANTS
  Targets <- MCTargets
  Environments <- MCEnvironments
  Answers <- MCAnswers
  Width <- MCWidth
  MaxAddresses = 2
INVARIANTS
  LiteralRemainsValid
CHECK_DEADLOCK FALSE
