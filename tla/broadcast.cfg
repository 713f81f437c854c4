SPECIFICATION Spec
CONSTANTS
  Publishers = {p1, p2}
  Connections = {c1, c2}
  Nobody = nobody
  HistoryLimit = 3
  QueueLimit = 2
  KeepHistory = TRUE
  MaxPublished = 4
INVARIANTS
  SecondPutFindsRoom
  StreamsInOrder
  DropsAreCounted
  StateNotBehindStreams
PROPERTIES
  StaysUpToDate
  DeadConnectionsLeave
CHECK_DEADLOCK FALSE
