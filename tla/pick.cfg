SPECIFICATION Spec
CONSTANTS
  Entities = {1, 2, 3, 4}
  Colors = {"red", "blue"}
  None = None
  Poses <- MCPoses
  Width = 3
  Height = 1
  NoGoal = NoGoal
  MaxRetries = 1
  MaxReplans = 1
  Starts <- MCStarts
  AnyPlans <- MenuPlans
INVARIANTS
  WorldMakesSense
  OnlyTheGoalMoves
  GoalDoesNotDrift
  RecoveryIsExact
PROPERTY
  ContractsKept
CHECK_DEADLOCK FALSE
