SPECIFICATION Spec
CONSTANTS
  MaxWatches = 2
  Objects = {a}
  a = a
  NoObject = NoObject
  MaxVersion = 1
  HasGeneration = TRUE
  StopKinds = {}
  SlowClients <- NoClients
  BookmarkClients <- NoClients
  FilteredOut <- NoClients
  MaxBookmarks = 0
  MaxRelists = 0
  MaxResumes = 0
  MaxFailures = 1
INVARIANT CancelledMeansSubstituted
\* every bound is reached in the end, and a panic ends the process
CHECK_DEADLOCK FALSE
