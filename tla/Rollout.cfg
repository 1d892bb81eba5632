SPECIFICATION Spec
CONSTANTS
  web = web
  app = app
  appdb = appdb
  appdb2 = appdb2
  nobody = nobody
  Deployments = {web, app}
  Configs = {appdb, appdb2}
  Unknown = nobody
  LongerNames <- ModelNames
  Openshift = TRUE
  Calls <- ModelCalls
  Replicas = 1
  MaxSeconds = 2
  MaxFaults = 1
INVARIANT RollingIsOwn
PROPERTY RolloutEnds
PROPERTY ClosedMeansRolledOut
PROPERTY PodsWatchCloses
\* the watch ends, and the calls
CHECK_DEADLOCK FALSE
