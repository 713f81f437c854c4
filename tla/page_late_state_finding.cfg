SPECIFICATION Spec
CONSTANTS
  Ids = {"a", "b"}
  Plans <- MCPlans
  MaxRetries = 1
  MaxReplans = 1
  MaxLosses = 1
  Absent = Absent
INVARIANT
  HandedAllShowsEnd
CHECK_DEADLOCK FALSE
