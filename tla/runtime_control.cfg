SPECIFICATION Spec
CONSTANTS
  Worlds = {w0, w1}
  GoalWorlds = {w1}
  Observers = {o1}
  FaultyObservers = {}
  Policies = {"none"}
  MaxRetries = 1
  MaxReplans = 1
  MaxSteps = 2
INVARIANTS
  RetriesBeforeReplans
  StreamsTellTheTrace
  WorldsAreConnected
  SuccessIsEarned
PROPERTIES
  EveryStepIsPaidFor
