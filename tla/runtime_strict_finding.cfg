SPECIFICATION Spec
CONSTANTS
  Worlds = {w0, w1}
  GoalWorlds = {w1}
  Observers = {o1}
  FaultyObservers = {}
  Policies = {"raise"}
  MaxRetries = 0
  MaxReplans = 0
  MaxSteps = 1
INVARIANT
  RaisePolicyPropagatesSinkFailure
