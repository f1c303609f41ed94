\* Two launches under one reused pid, a queue of two, one row, as many lost
\* events as it takes to confuse two lives of the pid, and a start that comes
\* again at any time: behind its original, before or after the exit.
SPECIFICATION Spec
CONSTANTS
  Pids = {p1}
  N = 2
  QueueCap = 2
  RowCap = 1
  MaxLost = 1
  MaxRepeats = 1
INVARIANTS
  TypeOK
  ExitIsOwn
  StopsAddUp
PROPERTIES
  RowsOnlyAdvance
  NothingPendingForever
