SPECIFICATION Spec
CONSTANTS
  r1 = r1
  r2 = r2
  w1 = w1
  NULL = NULL
  Paths <- MCPaths
  ROGUE_PATTERNS <- MCRogue
  WHITELIST_PATHS <- MCWhite
  Holds <- MCHolds
  MaxChanges = 2
INVARIANTS
  NothingSteadyMissed
  ReportsSound
PROPERTIES
  ContractSpec
CHECK_DEADLOCK FALSE
