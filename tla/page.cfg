SPECIFICATION Spec
CONSTANTS
  Ids = {"a", "b"}
  Plans <- MCPlans
  MaxRetries = 1
  MaxReplans = 1
  MaxLosses = 1
  Absent = Absent
INVARIANTS
  MarksAreTheRuns
  DoneWhenSucceeded
  ReplayTellsTheRun
PROPERTY
  EndIsShown
CHECK_DEADLOCK FALSE
