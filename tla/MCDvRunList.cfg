CONSTANTS
  Driver <- MCDriver
  Run <- MCRun
  TestOf <- MCTestOf
  TimeOf <- MCTimeOf
  PastFailed = {}
  Scenarios <- MCScenarios
  HasHook = TRUE
  StartJobs = 1
  Output <- MCOutput
  Edits <- MCEdits
SPECIFICATION Spec
INVARIANTS TypeOK EachRunOnce ExitStatusHonest PauseTakesEffect LiveFileKept
PROPERTIES RunsFinish SettingsFollowFile
CHECK_DEADLOCK FALSE
