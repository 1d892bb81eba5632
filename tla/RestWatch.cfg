SPECIFICATION FairSpec
CONSTANTS
  Objects = {a}
  NoObject = NoObject
  WatchBookmark = TRUE
  MaxVersion = 2
  MaxRequests = 3
  MaxBookmarks = 2
INVARIANT OneRequest
INVARIANT ResumesWithoutGap
INVARIANT UpToDate
PROPERTY KeepsStream
PROPERTY CancelCloses
\* the loop ends, and so do the bounds
CHECK_DEADLOCK FALSE
