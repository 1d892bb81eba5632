SPECIFICATION FairSpec
CONSTANTS
  MaxWatches = 2
  Objects = {a}
  a = a
  NoObject = NoObject
  MaxVersion = 1
  HasGeneration = TRUE
  StopKinds = {"stop"}
  SlowClients <- FirstClient
  BookmarkClients <- NoClients
  FilteredOut <- SecondClientOut
  MaxBookmarks = 0
  MaxRelists = 1
  MaxResumes = 0
  MaxFailures = 1
INVARIANT LockOrder
INVARIANT StoppedWhenIdle
INVARIANT NoClosedChannelUse
PROPERTY StoppedClientGetsNothing
PROPERTY StopReturns
PROPERTY ClosedConnectionClosesClients
\* every bound is reached in the end, and a panic ends the process
CHECK_DEADLOCK FALSE
