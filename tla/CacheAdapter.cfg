SPECIFICATION FairSpec
CONSTANTS
  Objects = {a, b}
  a = a
  b = b
  NoObject = NoObject
  TooLarge <- SecondVersion
  GatewayRoutes = TRUE
  MaxVersion = 3
  MaxBreaks = 1
  MaxResumes = 1
  MaxDisturbances = 1
INVARIANT TypeOK
 
PROPERTY StaleEntryLeaves
\* an adapter that has ended has no more steps
CHECK_DEADLOCK FALSE
