SPECIFICATION FairSpec
CONSTANTS
  Submits = {s1, s2}
  Stops = {t1, t2}
  Workers = {w1, w2}
  BufferSize = 1
  NoTask = NoTask
  NoStop = NoStop
  MaxTasks = 2
  MaxPanics = 1
INVARIANT TypeOK
INVARIANT NoSendOnClosedChannel
INVARIANT QuietWhenStopped
INVARIANT CollectNeverBlocks
PROPERTY KeepsContract
PROPERTY SubmitReturnsUnlessPanic
PROPERTY StopEndsWorkersUnlessPanic
\* the pool may end stopped, or with a caller that waits for a panicked task
CHECK_DEADLOCK FALSE
