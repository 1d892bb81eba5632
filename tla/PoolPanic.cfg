SPECIFICATION FairSpec
CONSTANTS
  Submits = {s1, s2}
  Stops = {t1}
  Workers = {w1, w2}
  BufferSize = 1
  NoTask = NoTask
  NoStop = NoStop
  MaxTasks = 2
  MaxPanics = 1
PROPERTY SubmitReturns
\* a caller waits for a panicked task for ever
CHECK_DEADLOCK FALSE
