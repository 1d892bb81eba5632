SPECIFICATION AdapterSpec
CONSTANTS
  Objects = {a}
  a = a
  NoObject = NoObject
  TooLarge = {}
  GatewayRoutes = FALSE
  MaxVersion = 1
  MaxBreaks = 1
  MaxResumes = 0
  MaxDisturbances = 0
INVARIANT RestartFailureIsSurvived
\* an adapter that has ended has no more steps
CHECK_DEADLOCK FALSE
