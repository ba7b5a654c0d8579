SPECIFICATION FirewallSpec
CONSTANTS
  Probed <- MCProbed
  Rulesets <- MCRulesets
  Interface <- MCInterface
  Stands <- MCStands
INVARIANTS
  IndirectIsIncomplete
CHECK_DEADLOCK FALSE
