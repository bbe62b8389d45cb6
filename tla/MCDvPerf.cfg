CONSTANTS
  MinBytes = 5000
  Budget = 1
  SimCfg <- MCSimCfg
  Sources <- MCSources
  Overrides <- MCOverrides
  RunDirs <- MCRunDirs
  Tests <- MCTests
SPECIFICATION Spec
INVARIANTS
  RunMatchesTable
  GateAgrees
  CheckIsHonest
