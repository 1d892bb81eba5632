SPECIFICATION Spec
CONSTANTS
  MaxWatches = 2
  Objects = {a}
  a = a
  NoObject = NoObject
  MaxVersion = 2
  HasGeneration = TRUE
  StopKinds = {}
  SlowClients <- NoClients
  BookmarkClients <- FirstClient
  FilteredOut <- NoClients
  MaxBookmarks = 1
  MaxRelists = 1
  MaxResumes = 1
  MaxFailures = 1
INVARIANT TypeOK
INVARIANT EveryOpenClientIsServed
INVARIANT InOrderUnlessLate
INVARIANT TwoHearAddedFirst
INVARIANT ConvergedUnlessLate
\* every bound is reached in the end, and a panic ends the process
CHECK_DEADLOCK FALSE
