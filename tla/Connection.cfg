SPECIFICATION FairSpec
CONSTANTS
  Apps = {a}
  Listeners = {l}
  Blocks = {k}
  Kinds = {"Close", "CloseDeadline", "UpdateSecret"}
  Scenarios <- AllScenarios
  MaxAsync = 1
INVARIANTS NilMeansAnswered WatchedWhenOpen TuneAgreed
PROPERTIES OpenEnds FailedOpenCleansUp CallsReturn GoroutinesEnd SilentDetected
CHECK_DEADLOCK FALSE
