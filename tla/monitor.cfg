SPECIFICATION Spec
CONSTANTS
  Callers = {a, b}
  Stoppers = {a, s}
  QueueLimit = 2
  MaxEvents = 3
INVARIANTS
  AcceptedInOrder
  DropsTheOldest
  AtMostOneStranded
PROPERTY
  StopEndsThread
