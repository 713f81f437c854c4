SPECIFICATION Spec
CONSTANTS
  QueueLimit = 2
  MaxEvents = 4
  MaxInterrupts = 2
  Connections = {c1, c2}
INVARIANTS
  NothingLeftBehind
  PublishedBeforeClosed
PROPERTY
  StopIsComplete
CHECK_DEADLOCK FALSE
