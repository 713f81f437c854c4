SPECIFICATION Spec
CONSTANTS
  Names = {"grasp", "locate", "gone"}
  Params = {"object", "near"}
  Values = {"name", "pose"}
  Types = {"name", "pose"}
  TypeOf <- MCTypeOf
  Ids = {"a", "b", "c", "d", "step_0", "step_1", "step_2", "step_3", " "}
  BlankId = " "
  Paths = {"value"}
  EmptyPath = "empty"
  None = None
  Registered <- MCRegistered
  Absent = Absent
  Unreadable = Unreadable
  DefaultIds <- MCDefaultIds
  Known <- MCKnown
  Answers <- MCAnswers
  FallbackPlans <- MCFallbackPlans
  MaxSteps = 4
  MaxRetries = 1
  MaxReplans = 1
INVARIANTS
  OrderIsTheFirst
  VerdictIsExact
  ValidPlansAreScheduled
  ReferencesReadTheirSource
  DoneAsExpected
  CallsKeepContracts
  SourceTellsWhoPlanned
CHECK_DEADLOCK FALSE
