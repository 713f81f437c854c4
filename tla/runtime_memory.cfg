SPECIFICATION Spec
CONSTANTS
  Worlds = {w0, w1}
  GoalWorlds = {w1}
  Observers = {o1, o2}
  FaultyObservers = {o1}
  Policies = {"none", "best_effort", "raise"}
  MaxRetries = 1
  MaxReplans = 1
  MaxSteps = 1
INVARIANTS
  ReportAgreesWithLastEvent
  NothingForgottenInSilence
  StrictMemorySpeaksUp
PROPERTY
  Lifecycle
