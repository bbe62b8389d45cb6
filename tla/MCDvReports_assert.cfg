CONSTANTS
  base = base
  after = after
  NoFile = NoFile
  Stop = "stop"
  ConfigArg = "+aou_config"
  InfraArgs = {"+aou_config", "+waves"}
  Slots = 1
  Budget = 2
  Expected <- MCExpected
  LogsOf <- MCLogsOf
  Rid <- MCRid
  BuildOf <- MCAssertBuild
  SimCfg <- MCSimCfg
  Classes <- MCClasses
  Elsewhere = {}
  Files <- MCFiles
  Side <- MCSide
  Variants <- MCVariants
  Rules <- MCRules
  OldPlan <- MCOldPlan
  Corrections <- MCCorrections
SPECIFICATION Spec
CHECK_DEADLOCK FALSE
INVARIANTS
  EveryPassCounts
