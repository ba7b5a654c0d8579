SPECIFICATION MCSpec
CONSTANTS
  Targets <- MCTargets
  Environments <- MCEnvironments
  Answers <- MCAnswers
  Width <- MCWidth
  MaxAddresses = 2
  Address <- MCAddress
  Family <- MCFamily
  Lookups <- MCLookups
  MaxResolved = 2
  Probed <- MCProbed
  Rulesets <- MCRulesets
  Interface <- MCInterface
  Stands <- MCStands
  Listings <- MCListings
  Colon <- MCColon
  Value <- MCValue
  Hash <- MCHash
  Slots <- MCSlots
  Originals <- MCOriginals
  Reports <- MCReports
  Sorted <- MCSorted
  MaxChanges = 2
INVARIANTS
  MCTypeOK
  FamilyGuaranteed
  BypassedExactly
  ResolvedExactly
  FirewallSound
  ServersAttributed
  StrictComparable
  ComparedExactly
CHECK_DEADLOCK FALSE
